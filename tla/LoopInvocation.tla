----------------------------- MODULE LoopInvocation -----------------------------
(* The page of one invocation of a Loop: it reads the invocation, then its    *)
(* Session and approvals, follows the events of its Run, cancels it and       *)
(* decides its approvals.  A dialog keeps what the page was when it opened.   *)
EXTENDS Naturals, FiniteSets

CONSTANTS
  None,
  MaxVersions, MaxFaults  \* bounds: changes of the invocation; reconnects and failures

VARIABLES server, page, requests, faults

vars == <<server, page, requests, faults>>

\* `failed` is history: the last read failed.
Fresh ==
  [mounted |-> TRUE, shown |-> None, dialog |-> None, heard |-> 0, busy |-> FALSE,
   failed |-> FALSE]

Request(kind) == [kind |-> kind, current |-> TRUE, answer |-> None, status |-> "sent"]

\* `waits`: the Run waits for an approval; `ended` is the version of the last
\* event that ends the Run.
Init ==
  /\ server = [version |-> 1, ended |-> 0, over |-> FALSE, waits |-> FALSE]
  /\ page = Fresh /\ requests = {Request("read")} /\ faults = 0

Fault == faults < MaxFaults /\ faults' = faults + 1

Drop(q) == requests' = requests \ {q}

Swap(q, new) == requests' = (requests \ {q}) \cup {new}

-----------------------------------------------------------------------------
(* The server. *)

Shown == [version |-> server.version, over |-> server.over, waits |-> server.waits]

Waits(waits) == [server EXCEPT !.version = @ + 1, !.waits = waits]

\* The Run ends, or is interrupted and may go on.
Stops(over) ==
  [version |-> server.version + 1, ended |-> server.version + 1, over |-> over, waits |-> FALSE]

InvocationMoves ==
  /\ server.version < MaxVersions /\ ~server.over
  /\ server' \in {Waits(TRUE), Stops(TRUE), Stops(FALSE)}
  /\ UNCHANGED <<page, requests, faults>>

Reads == {"read", "reread"}
Decisions == {"approve", "deny"}

Outcomes(q) ==
  CASE q.kind = "cancel" /\ ~server.over -> {Stops(TRUE)}
    [] q.kind \in Decisions /\ server.waits -> {Waits(FALSE)}
    [] q.kind \in Reads -> {server}
    [] OTHER -> {}

Serve(q) ==
  /\ q.status = "sent" /\ Outcomes(q) # {}
  /\ server' \in Outcomes(q)
  /\ \/ Swap(q, [q EXCEPT !.status = "done", !.answer = Shown']) /\ UNCHANGED faults
     \/ Fault /\ Swap(q, [q EXCEPT !.status = "failed"])
  /\ UNCHANGED page

\* 409
Conflict(q) ==
  /\ q.status = "sent" /\ Outcomes(q) = {}
  /\ Swap(q, [q EXCEPT !.status = "failed"])
  /\ UNCHANGED <<server, page, faults>>

-----------------------------------------------------------------------------
(* Reading. *)

\* refresh aborts the read before it, and what else is under way is of an
\* earlier epoch then.
Reread(set, kind) ==
  {[q EXCEPT !.current = FALSE] : q \in {r \in set : r.kind # "read"}} \cup {Request(kind)}

Reconnect ==
  /\ page.mounted /\ Fault /\ requests' = Reread(requests, "read")
  /\ UNCHANGED <<server, page>>

EventIgnored ==
  /\ page.mounted /\ page.shown # None /\ page.heard < server.ended
  /\ page' = [page EXCEPT !.heard = server.ended]
  /\ requests' = IF page.dialog = None THEN Reread(requests, "read") ELSE requests
  /\ UNCHANGED <<server, faults>>

\* useSessionEvents follows the Run of the invocation the page shows.
Event ==
  /\ page.mounted /\ page.shown # None /\ page.heard < server.ended
  /\ page' = [page EXCEPT !.heard = server.ended]
  /\ requests' = Reread(requests, "read")
  /\ UNCHANGED <<server, faults>>

Unlock(q, p) == IF q.kind = "read" THEN p ELSE [p EXCEPT !.busy = FALSE]

ReadAnswered(q) ==
  /\ q.kind \in Reads /\ q.status = "done" /\ Drop(q)
  /\ page' = Unlock(q, IF q.current
                       THEN [page EXCEPT !.shown = q.answer, !.failed = FALSE] ELSE page)
  /\ UNCHANGED <<server, faults>>

\* The page stays as it is.
ReadFails(q) ==
  /\ q.kind \in Reads /\ q.status = "failed" /\ Drop(q)
  /\ page' = Unlock(q, IF q.current THEN [page EXCEPT !.failed = TRUE] ELSE page)
  /\ UNCHANGED <<server, faults>>

-----------------------------------------------------------------------------
(* Cancelling and deciding, each confirmed in a dialog. *)

Open(kind) ==
  /\ page.mounted /\ page.shown # None /\ page.dialog = None
  /\ page' = [page EXCEPT !.dialog = [kind |-> kind, locked |-> page.busy]]
  /\ UNCHANGED <<server, requests, faults>>

cancel == Open("cancel") /\ ~page.shown.over

confirmDecision(decision) == Open(decision) /\ page.shown.waits

Dismiss ==
  /\ page.dialog # None /\ page' = [page EXCEPT !.dialog = None]
  /\ UNCHANGED <<server, requests, faults>>

\* Nothing locks the page; bound: one cancellation at a time.
ConfirmCancel ==
  /\ page.dialog # None /\ page.dialog.kind = "cancel" /\ \A q \in requests : q.kind # "cancel"
  /\ page' = [page EXCEPT !.dialog = None]
  /\ requests' = requests \cup {Request("cancel")}
  /\ UNCHANGED <<server, faults>>

decideUnlocked ==
  /\ page.dialog # None /\ page.dialog.kind \in Decisions
  /\ page' = [page EXCEPT !.dialog = None, !.busy = TRUE]
  /\ requests' = requests \cup {Request(page.dialog.kind)}
  /\ UNCHANGED <<server, faults>>

\* It looks at the lock of the moment the dialog was opened: a decision that
\* was confirmed may be dropped in silence.
decide ==
  /\ page.dialog # None /\ page.dialog.kind \in Decisions
  /\ IF page.dialog.locked
     THEN page' = [page EXCEPT !.dialog = None] /\ UNCHANGED requests
     ELSE /\ page' = [page EXCEPT !.dialog = None, !.busy = TRUE]
          /\ requests' = requests \cup {Request(page.dialog.kind)}
  /\ UNCHANGED <<server, faults>>

Cancelled(q) ==
  /\ q.kind = "cancel" /\ q.status = "done"
  /\ IF q.current
     THEN /\ page' = [page EXCEPT !.shown = q.answer]
          /\ requests' = Reread(requests \ {q}, "read")
     ELSE Drop(q) /\ UNCHANGED page
  /\ UNCHANGED <<server, faults>>

CancelFails(q) ==
  /\ q.kind = "cancel" /\ q.status = "failed" /\ Drop(q)
  /\ UNCHANGED <<server, page, faults>>

Decided(q) ==
  /\ q.kind \in Decisions /\ q.status = "done"
  /\ IF q.current
     THEN requests' = Reread(requests \ {q}, "reread") /\ UNCHANGED page
     ELSE page' = Unlock(q, page) /\ Drop(q)
  /\ UNCHANGED <<server, faults>>

DecideFailsStuck(q) ==
  /\ q.kind \in Decisions /\ q.status = "failed" /\ Drop(q)
  /\ page' = IF q.current THEN Unlock(q, page) ELSE page
  /\ UNCHANGED <<server, faults>>

DecideFails(q) ==
  /\ q.kind \in Decisions /\ q.status = "failed" /\ Drop(q)
  /\ page' = Unlock(q, page)
  /\ UNCHANGED <<server, faults>>

\* What is still under way comes too late for the page.
Leave ==
  /\ page.mounted /\ page.dialog = None
  /\ page' = [Fresh EXCEPT !.mounted = FALSE] /\ requests' = {}
  /\ UNCHANGED <<server, faults>>

-----------------------------------------------------------------------------
Answer(q) ==
  \/ Serve(q) \/ Conflict(q) \/ ReadAnswered(q) \/ ReadFails(q)
  \/ Cancelled(q) \/ CancelFails(q) \/ Decided(q) \/ DecideFails(q)

Next ==
  \/ InvocationMoves \/ Reconnect \/ Event \/ cancel \/ Dismiss \/ ConfirmCancel
  \/ decide \/ Leave
  \/ \E decision \in Decisions : confirmDecision(decision)
  \/ \E q \in requests : Answer(q)

Spec == Init /\ [][Next]_vars

Answers(kinds) == \E q \in requests : q.kind \in kinds /\ Answer(q)

\* Requests are answered and events are delivered.
FairSpec == Spec /\ WF_vars(Answers(Reads)) /\ WF_vars(Answers(Decisions)) /\ WF_vars(Event)

-----------------------------------------------------------------------------
(* Properties. *)

\* One approval is decided at a time, though the dialogs can be opened and
\* confirmed at any time (LoopInvocationPage decisionBusy).
OneDecision == Cardinality({q \in requests : q.kind \in Decisions}) <= 1

\* The page shows that the Run has ended, unless its last read failed.
ShowsTheEnd ==
  page.shown # None => page.failed \/ page.shown.version >= server.ended

EventuallyCurrent == <>[]ShowsTheEnd

\* A decision that is over lets the next one be made.
BusyEnds == page.busy ~> ~page.busy
=============================================================================
