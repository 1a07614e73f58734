------------------------------- MODULE Approvals -------------------------------
(* The approvals of one Run: its Runner stores a request, parks until the     *)
(* Owner decides, the deadline passes or the Run is stopped, and consumes the *)
(* approval before the tool runs.  A decision is handed to the parked Runner  *)
(* by the broker; without a waiter the whole Session is loaded, decided and   *)
(* saved, over whatever the Runner stored in between.                         *)
EXTENDS Naturals, FiniteSets

CONSTANTS
  None,
  MaxRequests,    \* bound: the requests the Session holds
  MaxLaunches,    \* bound: how often the Run is launched
  MaxCalls,       \* bound: calls of the Owner under way at once
  MaxFaults       \* bound: crashes, interruptions and failed writes

VARIABLES server, requests, faults

vars == <<server, requests, faults>>

Ids == 1..MaxRequests
Undecided == "pending"
Decision(approve) == IF approve THEN "approved" ELSE "denied"

\* `disk` is the stored Session (`over`: that the Run is not active in it), `mine`
\* the Runner's; `told` the channel of the parked Runner, `past` the requests whose
\* deadline is over, `releases` the ended launches whose waiters are still there.
\* History: what was waited for, delivered, approved and done under each request
\* ID, and whether the disk was written over since the Runner stored its Session.
Fresh ==
  [disk |-> [r \in Ids |-> None], over |-> FALSE, mine |-> [r \in Ids |-> None],
   at |-> "idle", asked |-> 0, told |-> None, waiters |-> [r \in Ids |-> None],
   past |-> {}, stopping |-> FALSE, releases |-> 0, launches |-> 0, overwritten |-> FALSE,
   waits |-> [r \in Ids |-> 0], delivered |-> [r \in Ids |-> 0],
   approvals |-> [r \in Ids |-> 0], effects |-> [r \in Ids |-> 0]]

Init == server = Fresh /\ requests = {} /\ faults = 0

Fault == faults < MaxFaults /\ faults' = faults + 1

IsExpired(status, r) == status[r] = Undecided /\ r \in server.past

ExpireRunPending(status) ==
  [r \in Ids |-> IF status[r] = Undecided THEN "expired" ELSE status[r]]

-----------------------------------------------------------------------------
(* The Runner, the one writer of its own Session. *)

At(step) == server.at = step /\ UNCHANGED <<requests, faults>>

\* emit: the whole Session is stored, over what is there.
Emit(s, next) == server' = [s EXCEPT !.disk = s.mine, !.overwritten = FALSE, !.at = next]

\* The number of requests the Session holds names the next one.
NewRequest == Cardinality({r \in Ids : server.mine[r] # None}) + 1

Ask ==
  /\ At("turn") /\ ~server.stopping /\ NewRequest \in Ids
  /\ Emit([server EXCEPT !.mine[NewRequest] = Undecided, !.asked = NewRequest,
                         !.past = @ \ {NewRequest}],
          "asked")

\* A waiter of the same ID, left by an earlier launch, is an error of the wait.
Wait ==
  /\ At("asked")
  /\ server' = IF server.waiters[server.asked] # None
               THEN [server EXCEPT !.at = "unheard"]
               ELSE [server EXCEPT !.waiters[server.asked] = "open", !.at = "waiting",
                                   !.told = None, !.waits[server.asked] = @ + 1]

Heard ==
  /\ At("waiting") /\ server.told # None
  /\ server' = [server EXCEPT !.at = "woken"]

\* An undecided waiter is taken away; select may see the deadline first.
TimesOutIfStopped(r) == server.stopping
TimesOut(r) == r \in server.past \/ server.stopping

WaitEnds ==
  LET r == server.asked IN
  /\ At("waiting") /\ TimesOut(r)
  /\ server' = [server EXCEPT !.at = "unheard",
                              !.waiters[r] = IF @ = "open" THEN None ELSE @]

\* The wait has failed: an expired request is recorded, anything else ends the Run.
Unheard ==
  LET r == server.asked IN
  /\ At("unheard")
  /\ IF IsExpired(server.mine, r)
     THEN Emit([server EXCEPT !.mine[r] = "expired"], "turn")
     ELSE server' = [server EXCEPT !.at = "ending"]

Decide ==
  LET r == server.asked IN
  /\ At("woken")
  /\ IF IsExpired(server.mine, r)
     THEN server' = [server EXCEPT !.mine[r] = "expired", !.at = "done"]
     ELSE Emit([server EXCEPT !.mine[r] = server.told], "decided")

Denied ==
  /\ At("decided") /\ server.mine[server.asked] = "denied"
  /\ server' = [server EXCEPT !.at = "done"]

ConsumeUnsaved ==
  LET r == server.asked IN
  /\ At("decided") /\ server.mine[r] = "approved"
  /\ IF r \in server.past
     THEN server' = [server EXCEPT !.mine[r] = "expired", !.at = "done"]
     ELSE server' = [server EXCEPT !.mine[r] = "consumed", !.at = "consumed"]

Consume ==
  LET r == server.asked IN
  /\ At("decided") /\ server.mine[r] = "approved"
  /\ IF r \in server.past
     THEN server' = [server EXCEPT !.mine[r] = "expired", !.at = "done"]
     ELSE Emit([server EXCEPT !.mine[r] = "consumed"], "consumed")

executeTool ==
  /\ At("consumed")
  /\ server' = [server EXCEPT !.effects[server.asked] = @ + 1, !.at = "done"]

\* The event of the completed call stores the Session.
ToolCompleted == At("done") /\ Emit(server, "turn")

\* The Runner returns, and its copy of the Session and its channel are gone.
Returns(s) ==
  [s EXCEPT !.at = "idle", !.mine = [r \in Ids |-> None], !.asked = 0, !.told = None]

\* The Run ends and its requests expire; the gate is open before the broker
\* forgets the waiters of the Session (Release).
Ends(over) ==
  server' = Returns([server EXCEPT !.disk = ExpireRunPending(server.mine), !.over = over,
                                   !.overwritten = FALSE, !.releases = @ + 1])

Finish == At("turn") /\ Ends(TRUE)
Stopped == At("ending") /\ \E over \in BOOLEAN : Ends(over)
StoppedBetween == At("turn") /\ server.stopping /\ Ends(FALSE)

Release ==
  /\ server.releases > 0
  /\ server' = [server EXCEPT !.releases = @ - 1, !.waiters = [r \in Ids |-> None]]
  /\ UNCHANGED <<requests, faults>>

\* A write fails, the Run returns without it, and the request may stay pending.
WriteFails ==
  /\ server.at \in {"turn", "unheard", "woken", "decided", "done"} /\ Fault
  /\ server' = Returns([server EXCEPT !.releases = @ + 1])
  /\ UNCHANGED requests

Interrupt ==
  /\ server.at \notin {"idle", "ending"} /\ ~server.stopping /\ Fault
  /\ server' = [server EXCEPT !.stopping = TRUE]
  /\ UNCHANGED requests

Deadline(r) ==
  /\ {server.mine[r], server.disk[r]} # {None} /\ r \notin server.past
  /\ server' = [server EXCEPT !.past = @ \cup {r}]
  /\ UNCHANGED <<requests, faults>>

\* The process dies with its broker; the next one takes the Run for interrupted.
Crash ==
  /\ (server.at # "idle" \/ requests # {}) /\ Fault
  /\ server' = Returns([server EXCEPT !.waiters = [r \in Ids |-> None], !.releases = 0])
  /\ requests' = {}

-----------------------------------------------------------------------------
(* The calls of the Owner. *)

Swap(q, new) == requests' = (requests \ {q}) \cup {new}
Answered(q) == requests' = requests \ {q}
Calls(q) == Cardinality(requests) < MaxCalls /\ requests' = requests \cup {q}

\* What a call loaded of the Session; the whole of it is written back.
Loaded == [status |-> server.disk, over |-> server.over]
Stores(copy, status) ==
  server' = [server EXCEPT !.disk = status, !.over = copy.over, !.overwritten = TRUE]

\* StartRun and ResumeRun: what was pending died with the process; the copy is
\* stored before the gate is asked, and the Runner starts with it.
ResumeLoads ==
  /\ server.at = "idle" /\ ~server.over /\ server.launches < MaxLaunches
  /\ Calls([request |-> 0, approve |-> FALSE, copy |-> Loaded, next |-> "expire"])
  /\ UNCHANGED <<server, faults>>

ExpiresPending(q) ==
  LET kept == ExpireRunPending(q.copy.status) IN
  /\ q.next = "expire"
  /\ IF kept = q.copy.status THEN UNCHANGED server ELSE Stores(q.copy, kept)
  /\ Swap(q, [q EXCEPT !.next = "launch", !.copy.status = kept])
  /\ UNCHANGED faults

Launch(q) ==
  /\ q.next = "launch" /\ Answered(q) /\ UNCHANGED faults
  /\ server' =
       IF server.at # "idle" \/ server.launches = MaxLaunches THEN server
       ELSE [server EXCEPT !.disk = q.copy.status, !.mine = q.copy.status, !.over = q.copy.over,
                           !.overwritten = FALSE, !.at = "turn", !.stopping = FALSE,
                           !.launches = @ + 1]

\* DecideApproval.
Load(r, approve) ==
  /\ server.disk[r] # None
  /\ Calls([request |-> r, approve |-> approve, copy |-> Loaded, next |-> "lookup"])
  /\ UNCHANGED <<server, faults>>

\* waiterFor: a parked Runner is told, a Session without one is saved.
waiterFor(q) ==
  /\ q.next = "lookup"
  /\ IF server.waiters[q.request] = None
     THEN Swap(q, [q EXCEPT !.next = "save"])
     ELSE IF IsExpired(q.copy.status, q.request) THEN Answered(q)
          ELSE Swap(q, [q EXCEPT !.next = "deliver"])
  /\ UNCHANGED <<server, faults>>

MayDeliverAgain(r) == server.waiters[r] # None
MayDeliver(r) == server.waiters[r] = "open"

\* The Session is not written here, only the event is.
deliver(q) ==
  LET r == q.request IN
  /\ q.next = "deliver"
  /\ server' = IF MayDeliver(r)
               THEN [server EXCEPT
                       !.waiters[r] = "decided", !.told = Decision(q.approve),
                       !.delivered[r] = @ + 1,
                       !.approvals[r] = IF q.approve THEN @ + 1 ELSE @]
               ELSE server
  /\ Answered(q) /\ UNCHANGED faults

\* The loaded copy is decided and saved, whatever was stored since.
Save(q) ==
  LET r == q.request IN
  /\ q.next = "save"
  /\ IF q.copy.status[r] # Undecided THEN UNCHANGED server
     ELSE Stores(q.copy,
            [q.copy.status EXCEPT ![r] =
               IF IsExpired(q.copy.status, r) THEN "expired" ELSE Decision(q.approve)])
  /\ Answered(q) /\ UNCHANGED faults

-----------------------------------------------------------------------------
Working ==
  Wait \/ Heard \/ WaitEnds \/ Unheard \/ Decide \/ Denied \/ Consume \/ executeTool
  \/ ToolCompleted \/ Stopped

CallStep ==
  \E q \in requests :
    ExpiresPending(q) \/ Launch(q) \/ waiterFor(q) \/ deliver(q) \/ Save(q)

Next ==
  \/ Working \/ CallStep \/ ResumeLoads \/ Release
  \/ Ask \/ Finish \/ StoppedBetween \/ WriteFails \/ Interrupt \/ Crash
  \/ \E r \in Ids : Deadline(r) \/ \E approve \in BOOLEAN : Load(r, approve)

Spec == Init /\ [][Next]_vars

\* Goroutines run and deadlines pass; the Owner need not decide anything.
FairSpec == Spec /\ WF_vars(Working) /\ \A r \in Ids : WF_vars(Deadline(r))

-----------------------------------------------------------------------------
(* Properties. *)

\* A tool call that needs approval runs only on an approval its Runner was told
\* of, and one approval is worth one call, whatever crashes, resumes and stale
\* saves come between (awaitApproval).
OneEffectPerApproval == \A r \in Ids : server.effects[r] <= server.approvals[r]

\* A wait is answered once: two decisions are never both delivered (deliver).
HeardOnce == \A r \in Ids : server.delivered[r] <= server.waits[r]

\* A decision is only handed to a Runner that is parked on its request.
WaitersHaveRunners ==
  \A r \in Ids : server.waiters[r] = "open" => server.at = "waiting" /\ server.asked = r

\* "The approval is durably consumed before the side effect runs" (awaitApproval):
\* so it is on the disk, unless a call has stored an older copy since.
OnlyConsumed ==
  \A r \in Ids : server'.effects[r] > server.effects[r] =>
    server.disk[r] = "consumed" \/ server.overwritten

ConsumedBeforeEffect == [][OnlyConsumed]_vars

\* "It is irreversible" (Consume): a request stored as consumed stays so.  It does
\* not: a decision that found no waiter saves an older Session over it.
ConsumedStays ==
  \A r \in Ids : server.disk[r] = "consumed" => server'.disk[r] = "consumed"

ConsumedIsFinal == [][ConsumedStays]_vars

\* A Run does not wait for the Owner for ever (WithDeadline).
WaitIsBounded == server.at = "waiting" ~> server.at # "waiting"
=============================================================================
