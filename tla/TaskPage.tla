-------------------------------- MODULE TaskPage --------------------------------
(* The page of one Task: it reads the Task, then its Session and approvals;   *)
(* it prepares, starts, resumes and cancels the Task and decides approvals.   *)
(* Every read takes a new epoch and an answer of an earlier one is dropped:    *)
(* of an epoch only this matters, whether it is the current one.              *)
EXTENDS Naturals, FiniteSets

CONSTANTS
  None,
  MaxVersions, MaxFaults  \* bounds: changes of the Task; reconnects and failures

VARIABLES server, page, requests, faults

vars == <<server, page, requests, faults>>

Terminal == {"done", "cancelled"}
Starts == [queued |-> "start", interrupted |-> "resume"]

\* `failed` and `moved` are history: the last read failed; the epoch moved
\* while the Task was prepared.
Fresh ==
  [mounted |-> TRUE, task |-> None, prepared |-> FALSE, dialog |-> None,
   heard |-> 0, busy |-> FALSE, failed |-> FALSE, moved |-> FALSE]

Request(kind) == [kind |-> kind, current |-> TRUE, task |-> None, status |-> "sent"]

\* The Task at rest or under way; `ended` is the version of the last event
\* that ends a Run.
Init ==
  /\ server \in {[state |-> s, version |-> 1, ended |-> 0] : s \in {"queued", "interrupted"}}
  /\ page = Fresh /\ requests = {Request("read")} /\ faults = 0

Fault == faults < MaxFaults /\ faults' = faults + 1

Drop(q) == requests' = requests \ {q}

Swap(q, new) == requests' = (requests \ {q}) \cup {new}

-----------------------------------------------------------------------------
(* The server. *)

Become(s) ==
  [state |-> s, version |-> server.version + 1,
   ended |-> IF s \in Terminal \cup {"interrupted"} THEN server.version + 1 ELSE server.ended]

Moves ==
  [queued |-> {"running"}, running |-> {"waiting", "interrupted", "done", "cancelled"},
   waiting |-> {"running", "cancelled"}, interrupted |-> {"running"}, done |-> {}, cancelled |-> {}]

\* The Run goes on, and other clients start, resume and cancel.
TaskMoves ==
  /\ server.version < MaxVersions
  /\ \E s \in Moves[server.state] : server' = Become(s)
  /\ UNCHANGED <<page, requests, faults>>

\* A mutation waits for the read that follows it.
Reads == {"read", "reread"}

\* Starting what runs already, and cancelling what is cancelled, is accepted
\* and changes nothing.
Applied(action) ==
  CASE action = "start" /\ server.state = "queued" -> {Become("running")}
    [] action = "start" /\ server.state \notin {"queued", "cancelled"} -> {server}
    [] action = "resume" /\ server.state = "interrupted" -> {Become("running")}
    [] action = "resume" /\ server.state = "running" -> {server}
    [] action = "cancel" /\ server.state \notin Terminal -> {Become("cancelled")}
    [] action = "cancel" /\ server.state = "cancelled" -> {server}
    [] action = "decide" /\ server.state = "waiting" -> {Become("running")}
    [] action \in Reads \cup {"prepare"} -> {server}
    [] OTHER -> {}

Task == [state |-> server.state, version |-> server.version]

Serve(q) ==
  /\ q.status = "sent" /\ Applied(q.kind) # {}
  /\ server' \in Applied(q.kind)
  /\ \/ Swap(q, [q EXCEPT !.status = "done", !.task = Task']) /\ UNCHANGED faults
     \/ Fault /\ Swap(q, [q EXCEPT !.status = "failed"])
  /\ UNCHANGED page

\* 409
Conflict(q) ==
  /\ q.status = "sent" /\ Applied(q.kind) = {}
  /\ Swap(q, [q EXCEPT !.status = "conflict"])
  /\ UNCHANGED <<server, page, faults>>

-----------------------------------------------------------------------------
(* Reading. *)

Preparing == \E q \in requests : q.kind = "prepare"

Refresh(p) == [p EXCEPT !.moved = @ \/ Preparing]

\* What is under way is of an earlier epoch then.
Reread(set, kind) == {[q EXCEPT !.current = FALSE] : q \in set} \cup {Request(kind)}

\* The effect of a new generation empties the page and reads again.
Reconnect ==
  /\ page.mounted /\ Fault
  /\ page' = [Fresh EXCEPT !.busy = page.busy, !.moved = page.moved \/ Preparing]
  /\ requests' = Reread(requests, "read")
  /\ UNCHANGED server

EventWhileBusy ==
  /\ page.mounted /\ page.task # None /\ page.task.state # "queued"
  /\ page.heard < server.ended
  /\ page' = [Refresh(page) EXCEPT !.heard = server.ended]
  /\ requests' = IF page.busy THEN requests ELSE Reread(requests, "read")
  /\ UNCHANGED <<server, faults>>

\* useSessionEvents follows the Session of the Task the page shows.
Event ==
  /\ page.mounted /\ page.task # None /\ page.task.state # "queued"
  /\ page.heard < server.ended
  /\ page' = [Refresh(page) EXCEPT !.heard = server.ended]
  /\ requests' = Reread(requests, "read")
  /\ UNCHANGED <<server, faults>>

Current(q) == page.mounted /\ q.current

After(q, p) == IF q.kind = "reread" THEN [p EXCEPT !.busy = FALSE] ELSE p

ReadAnsweredAlways(q) ==
  /\ q.kind \in Reads /\ q.status = "done" /\ Drop(q)
  /\ page' = IF page.mounted THEN After(q, [page EXCEPT !.task = q.task, !.failed = FALSE]) ELSE page
  /\ UNCHANGED <<server, faults>>

ReadAnswered(q) ==
  /\ q.kind \in Reads /\ q.status = "done" /\ Drop(q)
  /\ page' = After(q, IF Current(q) THEN [page EXCEPT !.task = q.task, !.failed = FALSE] ELSE page)
  /\ UNCHANGED <<server, faults>>

\* A read that fails is not shown: the page stays as it is.
ReadFails(q) ==
  /\ q.kind \in Reads /\ q.status = "failed" /\ Drop(q)
  /\ page' = After(q, IF Current(q) THEN [page EXCEPT !.failed = TRUE] ELSE page)
  /\ UNCHANGED <<server, faults>>

-----------------------------------------------------------------------------
(* Mutations. *)

MayMutate == page.mounted /\ page.task # None /\ ~page.busy

Send(kind) ==
  /\ requests' = requests \cup {Request(kind)}
  /\ page' = [page EXCEPT !.busy = TRUE, !.moved = FALSE, !.dialog = None]
  /\ UNCHANGED <<server, faults>>

prepare ==
  /\ MayMutate /\ page.task.state = "queued" /\ ~page.prepared /\ page.dialog = None
  /\ Send("prepare")

\* Only what is prepared is started.
mutate(kind) ==
  /\ MayMutate /\ page.dialog = None
  /\ page.task.state \in DOMAIN Starts /\ Starts[page.task.state] = kind
  /\ kind = "start" => page.prepared
  /\ Send(kind)

\* A cancellation and a decision are confirmed in a dialog.
Ask(kind) ==
  /\ MayMutate /\ page.dialog = None
  /\ IF kind = "cancel" THEN page.task.state \notin Terminal \cup {"interrupted"}
     ELSE page.task.state = "waiting"
  /\ page' = [page EXCEPT !.dialog = kind]
  /\ UNCHANGED <<server, requests, faults>>

Confirm == MayMutate /\ page.dialog # None /\ Send(page.dialog)

Dismiss ==
  /\ page.dialog # None /\ page' = [page EXCEPT !.dialog = None]
  /\ UNCHANGED <<server, requests, faults>>

\* finally sets busy only if the epoch is the same.
Prepared(q) ==
  /\ q.kind = "prepare" /\ q.status # "sent" /\ Drop(q)
  /\ page' = IF ~Current(q) THEN page
             ELSE IF q.status = "done"
             THEN [page EXCEPT !.task = q.task, !.prepared = TRUE, !.busy = FALSE]
             ELSE [page EXCEPT !.busy = FALSE]
  /\ UNCHANGED <<server, faults>>

Mutations == {"start", "resume", "cancel", "decide"}

MutateAnsweredOnly(q) ==
  /\ q.kind \in Mutations /\ q.status = "done" /\ Drop(q)
  /\ page' = IF Current(q)
             THEN [page EXCEPT !.busy = FALSE, !.task = q.task, !.prepared = FALSE]
             ELSE [page EXCEPT !.busy = FALSE]
  /\ UNCHANGED <<server, faults>>

\* setTask, but for a decision, and a read.
MutateAnswered(q) ==
  /\ q.kind \in Mutations /\ q.status = "done"
  /\ IF Current(q)
     THEN /\ page' = IF q.kind = "decide" THEN Refresh(page)
                     ELSE [Refresh(page) EXCEPT !.prepared = FALSE, !.task = q.task]
          /\ requests' = Reread(requests \ {q}, "reread")
     ELSE page' = [page EXCEPT !.busy = FALSE] /\ Drop(q)
  /\ UNCHANGED <<server, faults>>

MutateFailsLocked(q) ==
  /\ q.kind \in Mutations /\ q.status \in {"failed", "conflict"} /\ Drop(q)
  /\ UNCHANGED <<server, page, faults>>

\* A conflict is read again, but for a decision.
MutateFails(q) ==
  /\ q.kind \in Mutations /\ q.status \in {"failed", "conflict"}
  /\ IF Current(q) /\ q.status = "conflict" /\ q.kind # "decide"
     THEN page' = Refresh(page) /\ requests' = Reread(requests \ {q}, "reread")
     ELSE page' = [page EXCEPT !.busy = FALSE] /\ Drop(q)
  /\ UNCHANGED <<server, faults>>

Leave ==
  /\ page.mounted /\ page.dialog = None
  /\ page' = [Fresh EXCEPT !.mounted = FALSE]
  /\ requests' = {q \in requests : q.kind \in Mutations}
  /\ UNCHANGED <<server, faults>>

-----------------------------------------------------------------------------
Answer(q) ==
  \/ Serve(q) \/ Conflict(q) \/ ReadAnswered(q) \/ ReadFails(q)
  \/ Prepared(q) \/ MutateAnswered(q) \/ MutateFails(q)

Next ==
  \/ TaskMoves \/ Reconnect \/ Event \/ prepare \/ Confirm \/ Dismiss \/ Leave
  \/ \E kind \in {"start", "resume"} : mutate(kind)
  \/ \E kind \in {"cancel", "decide"} : Ask(kind)
  \/ \E q \in requests : Answer(q)

Spec == Init /\ [][Next]_vars

Reading == \E q \in requests : q.kind \in Reads /\ Answer(q)
Mutating == \E q \in requests : q.kind \notin Reads /\ Answer(q)

\* Requests are answered and events are delivered.
FairSpec == Spec /\ WF_vars(Reading) /\ WF_vars(Mutating) /\ WF_vars(Event)

-----------------------------------------------------------------------------
(* Properties. *)

\* What the page shows of the Task never goes back to an earlier state, though
\* reads and the answers of mutations arrive in any order (epochRef).
NoStepBack ==
  page.task # None /\ page'.task # None => page'.task.version >= page.task.version

NeverBackwards == [][NoStepBack]_vars

\* Once a Run of the Task the page follows has ended, the page shows it, unless
\* its last read failed.
ShowsTheEnd ==
  page.task # None /\ page.task.state # "queued" =>
    page.failed \/ page.task.version >= server.ended

EventuallyCurrent == <>[]ShowsTheEnd

\* A mutation unlocks the page again; so does a preparation, unless the epoch
\* moved meanwhile (see the README).
BusyEnds == page.busy ~> ~page.busy \/ page.moved
=============================================================================
