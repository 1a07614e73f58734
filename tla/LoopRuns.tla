------------------------------- MODULE LoopRuns -------------------------------
(* The invocations of one Loop and its scheduler.  An invocation is a file    *)
(* that each save replaces; a start keeps its own copy of it from the first   *)
(* save to the last.  The runtime state is a projection with a frontier, the  *)
(* last invocation it looked at; loopScheduleMu is held by its reads and by   *)
(* the scheduler, for as long as the start it makes.                          *)
EXTENDS Naturals, Sequences, FiniteSetsExt

CONSTANTS
  None,
  MaxDays, MaxManual, MaxRevisions,   \* bounds: occurrences; manual starts; updates
  MaxFaults                           \* bound: crashes and refused writes

VARIABLES server, requests, faults

vars == <<server, requests, faults>>

\* `claimed`, `counted` and `crossed`, the invocations that a cancellation wrote
\* while their start was under way, are history.  Time is the number of
\* occurrences of the schedule that have passed.
Fresh ==
  [definition |-> [revision |-> 1, enabled |-> TRUE, daily |-> TRUE],
   inv |-> <<>>, run |-> <<>>, state |-> None, day |-> 0,
   claimed |-> [d \in 1..MaxDays |-> 0], counted |-> <<>>, crossed |-> {}]

Init == server = Fresh /\ requests = {} /\ faults = 0

Terminal == {"completed", "skipped", "blocked", "failed", "cancelled"}

Invocations == DOMAIN server.inv

Fault == faults < MaxFaults /\ faults' = faults + 1

Saves(i, copy) == [server EXCEPT !.inv[i] = copy]

-----------------------------------------------------------------------------
(* A start.  `from` is the state the scheduler has in memory, or None. *)

Returns(c) == requests' = requests \ {c}
Moves(c, at, copy) == requests' = (requests \ {c}) \cup {[c EXCEPT !.at = at, !.copy = copy]}

Starts(i) == \E c \in requests : c.op = "start" /\ c.inv = i

At(c, at) == c.op = "start" /\ c.at = at

Started(from) == [op |-> "start", at |-> "new", inv |-> 0, copy |-> None, from |-> from]

StartLoopInvocation ==
  /\ \A c \in requests : c.op = "start" => c.from # None
  /\ Cardinality({i \in Invocations : ~server.inv[i].scheduled}) < MaxManual   \* bound
  /\ requests' = requests \cup {Started(None)}
  /\ UNCHANGED <<server, faults>>

\* The scheduler goes on with the invocation that a start returned without error.
Launched(c, copy) == IF c.from = None THEN Returns(c) ELSE Moves(c, "frontier", copy)

\* A scheduled start reads the definition again.
NewInvocation(c) ==
  /\ At(c, "new") /\ UNCHANGED faults
  /\ IF c.from # None /\ ~server.definition.daily THEN Returns(c) /\ UNCHANGED server
     ELSE /\ server' = [server EXCEPT
               !.inv = Append(@, [status |-> "new", bound |-> FALSE, scheduled |-> c.from # None,
                                  definition |-> server.definition]),
               !.run = Append(@, None), !.counted = Append(@, 0)]
          /\ \E status \in IF server.definition.enabled THEN {"prepared", "blocked"} ELSE {"blocked"} :
               requests' = (requests \ {c}) \cup
                 {[c EXCEPT !.at = "save", !.inv = Len(server.inv) + 1,
                            !.copy = [server'.inv[Len(server.inv) + 1] EXCEPT !.status = status]]}

SavePrepared(c) ==
  /\ At(c, "save") /\ UNCHANGED faults
  /\ server' = Saves(c.inv, c.copy)
  /\ IF c.copy.status = "blocked" THEN Launched(c, c.copy) ELSE Moves(c, "create", c.copy)

\* A Session, or an Employee's Task that is then saved with the invocation.
CreateSession(c) ==
  /\ At(c, "create") /\ UNCHANGED faults
  /\ Moves(c, "dispatch", c.copy)
  /\ server' \in {server, Saves(c.inv, c.copy)}

CreationFails(c) ==
  LET skipped == [c.copy EXCEPT !.status = "skipped"]
      blocked == [c.copy EXCEPT !.status = "blocked"]
  IN  /\ At(c, "create") /\ UNCHANGED faults
      /\ \/ server' = Saves(c.inv, skipped) /\ Returns(c)
         \/ server' = Saves(c.inv, blocked) /\ Launched(c, blocked)

DispatchUnsaved(c) ==
  /\ At(c, "dispatch") /\ UNCHANGED <<server, faults>>
  /\ Moves(c, "run", [c.copy EXCEPT !.status = "dispatched"])

Dispatch(c) ==
  LET dispatched == [c.copy EXCEPT !.status = "dispatched"] IN
  /\ At(c, "dispatch") /\ UNCHANGED faults
  /\ server' = Saves(c.inv, dispatched) /\ Moves(c, "run", dispatched)

\* One Run executes in a workspace.
Busy == \E i \in Invocations : server.run[i] \in {"running", "stopping"}

StartRun(c) ==
  /\ At(c, "run") /\ UNCHANGED faults
  /\ IF Busy
     THEN server' = Saves(c.inv, [c.copy EXCEPT !.status = "failed"]) /\ Returns(c)
     ELSE server' = [server EXCEPT !.run[c.inv] = "running"] /\ Moves(c, "attach", c.copy)

Attach(c) ==
  LET attached == [c.copy EXCEPT !.status = "attached", !.bound = TRUE] IN
  /\ At(c, "attach") /\ UNCHANGED faults
  /\ server' = Saves(c.inv, attached) /\ Launched(c, attached)

MoveFrontier(c) ==
  /\ At(c, "frontier") /\ Returns(c) /\ UNCHANGED faults
  /\ server' = [server EXCEPT !.state = [c.from EXCEPT !.last = c.inv, !.status = c.copy.status]]

\* A save is refused, and the start returns.
StartFails(c) == c.op = "start" /\ c.at # "new" /\ Fault /\ Returns(c) /\ UNCHANGED server

-----------------------------------------------------------------------------
(* Reads, and what they project. *)

Outcome == [completed |-> "completed", rejected |-> "blocked", failed |-> "failed",
            cancelled |-> "cancelled"]

\* The status an invocation has after a look at its Run.
reconcileByEnd(i) ==
  LET inv == server.inv[i] IN
  IF inv.status = "attached" /\ server.run[i] \in DOMAIN Outcome THEN "completed" ELSE inv.status

reconcileDelivered(i) ==
  LET inv == server.inv[i] IN
  IF inv.status = "attached" /\ server.run[i] = "completed" THEN "completed" ELSE inv.status

reconcileInvocation(i) ==
  LET inv == server.inv[i] IN
  IF inv.status \in {"dispatched", "attached"} /\ inv.bound /\ server.run[i] \in DOMAIN Outcome
  THEN Outcome[server.run[i]] ELSE inv.status

reconcileTerminal(i) ==
  /\ server.inv[i].bound /\ server.inv[i].status # reconcileInvocation(i)
  /\ server' = Saves(i, [server.inv[i] EXCEPT !.status = reconcileInvocation(i)])

GetInvocation(i) == reconcileTerminal(i) /\ UNCHANGED <<requests, faults>>

NextScheduledTime(definition, after) == IF definition.daily THEN after + 1 ELSE None

NewRuntimeState ==
  [revision |-> server.definition.revision, last |-> 0, status |-> "", total |-> 0,
   next |-> NextScheduledTime(server.definition, server.day)]

alignLoopRuntimeDefinition(state) ==
  IF state.revision = server.definition.revision THEN state
  ELSE [state EXCEPT !.revision = server.definition.revision,
                     !.next = NextScheduledTime(server.definition, server.day)]

FrontierAgain(state) == IF state.last = 0 THEN 1 ELSE state.last

\* A frontier that was not terminal is looked at again.
Frontier(state) ==
  IF state.last = 0 THEN 1
  ELSE IF state.status \in Terminal THEN state.last + 1 ELSE state.last

Saved(i) == server.inv[i].status # "new"

\* Each listed invocation from the frontier on, in the order of their creation:
\* the last one is the new frontier, the last one that ended sets the schedule.
Seen(state) == {i \in Invocations : i >= Frontier(state) /\ Saved(i)}
Ended(state) == {i \in Seen(state) : reconcileInvocation(i) \in Terminal}

ProjectRuntimeState(state) ==
  LET last == Max(Seen(state))
      end  == server.inv[Max(Ended(state))].definition
      seen == [state EXCEPT !.last = last, !.status = reconcileInvocation(last)]
  IN  IF Seen(state) = {} THEN state
      ELSE IF Ended(state) = {} THEN seen
      ELSE [seen EXCEPT !.total = @ + Cardinality(Ended(state)), !.revision = end.revision,
                        !.next = NextScheduledTime(end, server.day)]

Scheduling == \E c \in requests : c.op = "start" /\ c.from # None

LoadedState ==
  IF server.state = None THEN NewRuntimeState ELSE alignLoopRuntimeDefinition(server.state)

ProjectedState == alignLoopRuntimeDefinition(ProjectRuntimeState(LoadedState))

\* The invocations after a read that could not save those in `kept`.
Reconciled(kept) ==
  [i \in Invocations |->
    IF i \in kept \/ i < Frontier(LoadedState) THEN server.inv[i]
    ELSE [server.inv[i] EXCEPT !.status = reconcileInvocation(i)]]

Tallied ==
  [i \in Invocations |-> IF i \in Ended(LoadedState) THEN server.counted[i] + 1 ELSE server.counted[i]]

\* An invocation whose save is refused is projected all the same.
Read(kept) ==
  server' = [server EXCEPT !.state = ProjectedState, !.inv = Reconciled(kept), !.counted = Tallied]

LoopRuntimeState ==
  /\ ~Scheduling /\ UNCHANGED requests
  /\ \/ Read({}) /\ UNCHANGED faults
     \/ Fault /\ \/ \E i \in Invocations : Read({i})
                 \/ server' = [server EXCEPT !.inv = Reconciled({})]

-----------------------------------------------------------------------------
(* The scheduler. *)

\* The state is saved with the next occurrence before the start is made.
ClaimAfterwards(next) == server' = [server EXCEPT !.claimed[server.state.next] = @ + 1]

Claim(next) == server' = [server EXCEPT !.state = next, !.claimed[server.state.next] = @ + 1]

Due ==
  /\ server.definition.enabled /\ server.definition.daily /\ server.state # None
  /\ server.state.revision = server.definition.revision
  /\ server.state.next # None /\ server.state.next <= server.day

\* A state that is new or was realigned is left for the next tick.
RunDueLoops ==
  /\ ~Scheduling /\ server.definition.enabled /\ server.definition.daily /\ UNCHANGED faults
  /\ IF server.state = None
     THEN server' = [server EXCEPT !.state = NewRuntimeState] /\ UNCHANGED requests
     ELSE IF server.state.revision # server.definition.revision
     THEN server' = [server EXCEPT !.state = alignLoopRuntimeDefinition(@)] /\ UNCHANGED requests
     ELSE LET next == [server.state EXCEPT !.next = NextScheduledTime(server.definition, @)] IN
          /\ Due /\ Claim(next)
          /\ requests' = requests \cup {Started(next)}

-----------------------------------------------------------------------------
(* The Owner, the Runs, and what goes wrong. *)

UpdateLoop ==
  /\ server.definition.revision < MaxRevisions
  /\ \E enabled, daily \in BOOLEAN :
       server' = [server EXCEPT !.definition =
                    [revision |-> @.revision + 1, enabled |-> enabled, daily |-> daily]]
  /\ UNCHANGED <<requests, faults>>

Known(i) == Saved(i)

Cancellable(i) == Saved(i) /\ server.inv[i].status \notin Terminal

\* An invocation that has not started is loaded by the call, and saved later.
CancelLoopInvocation(i) ==
  /\ \A c \in requests : c.op # "cancel"
  /\ Cancellable(i) /\ UNCHANGED faults
  /\ IF ~server.inv[i].bound
     THEN /\ requests' = requests \cup
               {[op |-> "cancel", at |-> "save", inv |-> i, copy |-> server.inv[i], from |-> None]}
          /\ UNCHANGED server
     ELSE /\ UNCHANGED requests
          /\ IF server.run[i] = "running"
             THEN server' = [server EXCEPT !.run[i] = "stopping"]
             ELSE reconcileTerminal(i)

SaveCancelled(c) ==
  /\ c.op = "cancel" /\ Returns(c) /\ UNCHANGED faults
  /\ server' = [Saves(c.inv, [c.copy EXCEPT !.status =
                                IF @ = "prepared" THEN "skipped" ELSE "cancelled"])
                EXCEPT !.crossed = IF Starts(c.inv) \/ server.inv[c.inv] # c.copy
                                   THEN @ \cup {c.inv} ELSE @]

RunEnds(i) ==
  /\ server.run[i] \in {"running", "stopping"}
  /\ \E run \in {"completed", "rejected", "failed"} \cup
                (IF server.run[i] = "stopping" THEN {"cancelled"} ELSE {}) :
       server' = [server EXCEPT !.run[i] = run]
  /\ UNCHANGED <<requests, faults>>

\* The deadline of the Run; its Session can resume it.
RunStops(i) ==
  /\ \/ server.run[i] = "running" /\ server' = [server EXCEPT !.run[i] = "interrupted"] /\ Fault
     \/ /\ server.run[i] = "interrupted" /\ ~Busy /\ UNCHANGED faults
        /\ server' = [server EXCEPT !.run[i] = "running"]
  /\ UNCHANGED requests

Tick ==
  /\ server.day < MaxDays /\ server' = [server EXCEPT !.day = @ + 1]
  /\ UNCHANGED <<requests, faults>>

Crash ==
  /\ Fault /\ requests' = {}
  /\ server' = [server EXCEPT !.run = [i \in Invocations |->
                  IF @[i] \in {"running", "stopping"} THEN "interrupted" ELSE @[i]]]

-----------------------------------------------------------------------------
Step(c) ==
  \/ NewInvocation(c) \/ SavePrepared(c) \/ CreateSession(c) \/ CreationFails(c) \/ Dispatch(c)
  \/ StartRun(c) \/ Attach(c) \/ MoveFrontier(c) \/ SaveCancelled(c)

Working == \E c \in requests : Step(c)
Reading == \E i \in Invocations : GetInvocation(i)
Executing == \E i \in Invocations : RunEnds(i)

Next ==
  \/ Working \/ Reading \/ Executing \/ RunDueLoops \/ LoopRuntimeState
  \/ StartLoopInvocation \/ UpdateLoop \/ Tick \/ Crash
  \/ \E c \in requests : StartFails(c)
  \/ \E i \in Invocations : CancelLoopInvocation(i) \/ RunStops(i)

Spec == Init /\ [][Next]_vars

\* Goroutines go on, the scheduler ticks, and the page of an invocation polls it.
FairSpec == Spec /\ WF_vars(Working) /\ WF_vars(Reading) /\ WF_vars(RunDueLoops)

-----------------------------------------------------------------------------
(* Properties. *)

\* "preventing the same occurrence from being launched twice after refresh or
\* restart" (RunDueLoops).
OccurrenceOnce == \A d \in 1..MaxDays : server.claimed[d] <= 1

\* No invocation is counted twice, whatever ended between two reads and whatever
\* was not saved (LoopRuntimeState).
CountedOnce == \A i \in Invocations : server.counted[i] <= 1

\* An invocation that is over and names its Run says how the Run ended, and what
\* was not verified is never completed (reconcileInvocation).
ReflectsItsRun ==
  \A i \in Invocations :
    LET inv == server.inv[i] IN
    /\ inv.bound /\ inv.status \in Terminal =>
         server.run[i] \in DOMAIN Outcome /\ inv.status = Outcome[server.run[i]]
    /\ inv.status = "completed" => inv.bound

\* A Run that exists has an invocation that was dispatched, whatever write was the
\* last before a crash, unless a cancellation crossed the start (startLoopInvocation).
RunIsRecorded ==
  \A i \in Invocations \ server.crossed :
    server.run[i] # None =>
      /\ server.inv[i].status \notin {"new", "prepared", "skipped"}
      /\ server.inv[i].status = "blocked" => server.inv[i].bound

\* "Terminal states are final; no transition may leave them" (Status): one does,
\* since a start saves the copy it holds over a cancellation.
TerminalStays ==
  \A i \in Invocations :
    server.inv[i].status \in Terminal => server'.inv[i].status = server.inv[i].status

TerminalIsFinal == [][TerminalStays]_vars

\* No other step leaves a terminal state: only the invocations change that a
\* cancellation crossed (reconcileInvocation).
FinalStaysFinal ==
  \A i \in Invocations :
    server.inv[i].status \in Terminal /\ server'.inv[i] # server.inv[i] =>
      i \in server'.crossed

FinalUnlessCrossed == [][FinalStaysFinal]_vars

Unreflected(i) == server.inv[i].status = "attached" /\ server.run[i] \in DOMAIN Outcome

Pending == Due \/ \E i \in Invocations : Unreflected(i)

\* A Run that ended is seen by its invocation, and an occurrence that is due does
\* not stay due: it is claimed, unless a read of the state or an update of the Loop
\* passes it over (reconcileInvocation, RunDueLoops).
PendingEnds == Pending ~> ~Pending
=============================================================================
