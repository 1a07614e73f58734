------------------------------- MODULE LoopConsole -------------------------------
(* The pages of the Loops: the list, with the form that makes a Loop, and the *)
(* page of one Loop, where the Owner edits its definition, runs the Dry Run   *)
(* and starts it.  Of the epoch of a request only this matters: whether it is *)
(* the current one.                                                           *)
EXTENDS Naturals, FiniteSets

CONSTANTS
  None,
  MaxRevisions, MaxRuns, MaxFaults  \* bounds: definitions saved; starts; reconnects and failures

VARIABLES server, page, requests, faults

vars == <<server, page, requests, faults>>

\* `moved` is history: the epoch moved while a Loop was created.
List ==
  [view |-> "list", drafted |-> FALSE, busy |-> FALSE, moved |-> FALSE]

\* Whether the page shows the Loop, the report, and the starts it lists; what
\* the Owner edits is sent whatever it is based on.  The rest is history: the last revision saved here, the last
\* start reported, a read that failed, an unlocking under a request.
Detail ==
  [view |-> "detail", shown |-> FALSE, report |-> None, runs |-> 0,
   busy |-> FALSE, moved |-> FALSE, saved |-> 0, known |-> 0, failed |-> FALSE,
   unlocked |-> FALSE]

Gone == [view |-> "none", busy |-> FALSE, moved |-> FALSE]

Ask(kind, set) ==
  set \cup {[kind |-> kind, id |-> CHOOSE i \in 0 .. Cardinality(set) : \A q \in set : q.id # i,
             current |-> TRUE, status |-> "sent", rev |-> 0, runs |-> 0, ready |-> FALSE]}

\* A Loop is not there yet, or it is.
Init ==
  /\ faults = 0
  /\ \/ server = [rev |-> 0, runs |-> 0] /\ page = List /\ requests = {}
     \/ server = [rev |-> 1, runs |-> 0] /\ page = Detail /\ requests = Ask("read", {})

Fault == faults < MaxFaults /\ faults' = faults + 1

Drop(q) == requests' = requests \ {q}

Swap(q, new) == requests' = (requests \ {q}) \cup {new}

-----------------------------------------------------------------------------
(* The server. *)

\* A mutation waits for the read that follows it.
Reads == {"read", "reread"}

\* SaveDefinition counts the revisions and compares nothing; a start that is
\* refused leaves its invocation behind all the same.
Become(q) ==
  CASE q.kind \in {"save", "import"} -> [server EXCEPT !.rev = @ + 1]
    [] q.kind = "create" -> [server EXCEPT !.rev = IF @ = 0 THEN 1 ELSE @]
    [] q.kind = "start" -> [server EXCEPT !.runs = @ + 1]
    [] OTHER -> server

Outcomes(q) ==
  CASE q.kind = "create" -> IF server.rev = 0 THEN {"done"} ELSE {"conflict"}
    [] q.kind = "start" -> {"done", "conflict"}
    [] OTHER -> {"done"}

Answered(q, status, ready) ==
  [q EXCEPT !.status = status, !.ready = ready,
            !.rev = IF q.kind \in {"save", "dry-run"} THEN server'.rev ELSE 0,
            !.runs = IF q.kind \in Reads \cup {"start"} THEN server'.runs ELSE 0]

Serve(q) ==
  /\ q.status = "sent" /\ server' = Become(q)
  /\ \/ /\ \E status \in Outcomes(q), ready \in (IF q.kind = "dry-run" THEN BOOLEAN ELSE {FALSE}) :
             Swap(q, Answered(q, status, ready))
        /\ UNCHANGED faults
     \/ \* done, but the answer is lost
        Fault /\ Swap(q, [q EXCEPT !.status = "failed"])
  /\ UNCHANGED page

\* Another client saves the definition.
OtherSave ==
  /\ Fault /\ server.rev \in 1 .. MaxRevisions - 1
  /\ server' = [server EXCEPT !.rev = @ + 1]
  /\ UNCHANGED <<page, requests>>

\* Bounds
MaySave ==
  server.rev + Cardinality({q \in requests : q.kind \in {"save", "import"} /\ q.status = "sent"})
    < MaxRevisions

MayStart ==
  server.runs + Cardinality({q \in requests : q.kind = "start" /\ q.status = "sent"}) < MaxRuns

-----------------------------------------------------------------------------
(* The list and its form. *)

Draft ==
  /\ page.view = "list" /\ page' = [page EXCEPT !.drafted = TRUE]
  /\ UNCHANGED <<server, requests, faults>>

saveNew ==
  /\ page.view = "list" /\ page.drafted /\ ~page.busy
  /\ page' = [page EXCEPT !.busy = TRUE, !.moved = FALSE]
  /\ requests' = Ask("create", requests)
  /\ UNCHANGED <<server, faults>>

\* Nothing locks the import; bound: one at a time.
importStrict ==
  /\ page.view = "list" /\ MaySave /\ \A q \in requests : q.kind # "import"
  /\ requests' = Ask("import", requests)
  /\ UNCHANGED <<server, page, faults>>

Current(q) == q.current

\* navigate; what else the list has asked for comes too late for the page.
Created(q) ==
  /\ q.kind \in {"create", "import"} /\ q.status = "done"
  /\ IF Current(q)
     THEN page' = Detail /\ requests' = Ask("read", {})
     ELSE Drop(q) /\ UNCHANGED page
  /\ UNCHANGED <<server, faults>>

CreateFailsStuck(q) ==
  /\ q.kind \in {"create", "import"} /\ q.status \in {"failed", "conflict"} /\ Drop(q)
  /\ UNCHANGED <<server, page, faults>>

CreateFails(q) ==
  /\ q.kind \in {"create", "import"} /\ q.status \in {"failed", "conflict"} /\ Drop(q)
  /\ page' = IF Current(q) /\ q.kind = "create" THEN [page EXCEPT !.busy = FALSE] ELSE page
  /\ UNCHANGED <<server, faults>>

-----------------------------------------------------------------------------
(* The page of a Loop. *)

\* refresh aborts the read before it and makes every request an earlier one.
Reread(set, kind) == Ask(kind, {[q EXCEPT !.current = FALSE] : q \in set})

\* The server answers again: the list loads, the page of a Loop unlocks
\* itself and loads.
Reconnect ==
  /\ page.view # "none" /\ Fault
  /\ IF page.view = "list"
     THEN /\ page' = [page EXCEPT !.moved = @ \/ page.busy]
          /\ requests' = {[q EXCEPT !.current = FALSE] : q \in requests}
     ELSE /\ page' = [page EXCEPT !.busy = FALSE, !.unlocked = @ \/ page.busy]
          /\ requests' = Reread({q \in requests : q.kind # "read"}, "read")
  /\ UNCHANGED server

Unlock(q, p) == IF q.kind = "read" \/ p.view # "detail" THEN p ELSE [p EXCEPT !.busy = FALSE]

\* The read leaves the report alone.
ReadAnswered(q) ==
  /\ q.kind \in Reads /\ q.status = "done" /\ Drop(q)
  /\ page' = Unlock(q, IF Current(q)
                       THEN [page EXCEPT !.shown = TRUE, !.runs = q.runs, !.failed = FALSE]
                       ELSE page)
  /\ UNCHANGED <<server, faults>>

ReadFails(q) ==
  /\ q.kind \in Reads /\ q.status = "failed" /\ Drop(q)
  /\ page' = Unlock(q, IF Current(q) THEN [page EXCEPT !.failed = TRUE] ELSE page)
  /\ UNCHANGED <<server, faults>>

\* An edit drops the report, but for one in the contract form; neither form is
\* locked.
Edit ==
  /\ page.view = "detail" /\ page.shown /\ page' = [page EXCEPT !.report = None]
  /\ UNCHANGED <<server, requests, faults>>

Send(kind) ==
  /\ page.view = "detail" /\ page.shown
  /\ page' = [page EXCEPT !.busy = TRUE]
  /\ requests' = Ask(kind, requests)
  /\ UNCHANGED <<server, faults>>

Allowed(kind) ==
  /\ kind = "save" => MaySave
  /\ kind = "start" => MayStart /\ page.report # None /\ page.report.ready

mutateAgain(kind) == Send(kind) /\ Allowed(kind)

\* The buttons are locked while a mutation is under way.
mutate(kind) == ~page.busy /\ Send(kind) /\ Allowed(kind)

Mutations == {"save", "start", "dry-run"}

SavedKeepsReport(q) ==
  /\ q.kind = "save" /\ q.status = "done" /\ Drop(q)
  /\ page' = Unlock(q, IF Current(q)
                       THEN [page EXCEPT !.saved = q.rev]
                       ELSE page)
  /\ UNCHANGED <<server, faults>>

\* What was edited meanwhile is gone.
Saved(q) ==
  /\ q.kind = "save" /\ q.status = "done" /\ Drop(q)
  /\ page' = Unlock(q, IF Current(q)
                       THEN [page EXCEPT !.saved = q.rev, !.report = None]
                       ELSE page)
  /\ UNCHANGED <<server, faults>>

Reported(q) ==
  /\ q.kind = "dry-run" /\ q.status = "done" /\ Drop(q)
  /\ page' = Unlock(q, IF Current(q)
                       THEN [page EXCEPT !.report = [rev |-> q.rev, ready |-> q.ready]]
                       ELSE page)
  /\ UNCHANGED <<server, faults>>

StartedSilently(q) ==
  /\ q.kind = "start" /\ q.status = "done" /\ Drop(q)
  /\ page' = Unlock(q, IF Current(q) THEN [page EXCEPT !.known = q.runs] ELSE page)
  /\ UNCHANGED <<server, faults>>

\* A start is followed by a read, and so is a conflict.
Started(q) ==
  /\ q.kind = "start" /\ q.status = "done"
  /\ IF Current(q)
     THEN /\ page' = [page EXCEPT !.known = q.runs]
          /\ requests' = Reread(requests \ {q}, "reread")
     ELSE page' = Unlock(q, page) /\ Drop(q)
  /\ UNCHANGED <<server, faults>>

MutateFails(q) ==
  /\ q.kind \in Mutations /\ q.status \in {"failed", "conflict"}
  /\ IF Current(q) /\ q.status = "conflict"
     THEN requests' = Reread(requests \ {q}, "reread") /\ UNCHANGED page
     ELSE page' = Unlock(q, page) /\ Drop(q)
  /\ UNCHANGED <<server, faults>>

\* What is still under way comes too late for the page.
Leave ==
  /\ page.view # "none" /\ page' = Gone
  /\ requests' = {}
  /\ UNCHANGED <<server, faults>>

-----------------------------------------------------------------------------
Answer(q) ==
  \/ Serve(q) \/ Created(q) \/ CreateFails(q) \/ ReadAnswered(q) \/ ReadFails(q)
  \/ Saved(q) \/ Reported(q) \/ Started(q) \/ MutateFails(q)

Next ==
  \/ OtherSave \/ Draft \/ saveNew \/ importStrict \/ Reconnect \/ Edit \/ Leave
  \/ \E kind \in Mutations : mutate(kind)
  \/ \E q \in requests : Answer(q)

Spec == Init /\ [][Next]_vars

Reading == \E q \in requests : q.kind \in Reads /\ Answer(q)
Mutating == \E q \in requests : q.kind \notin Reads /\ Answer(q)

\* Requests are answered.
FairSpec == Spec /\ WF_vars(Reading) /\ WF_vars(Mutating)

-----------------------------------------------------------------------------
(* Properties. *)

\* A report is never of a definition older than the one last saved here: a
\* Loop is not started on the readiness of what it was before, unless the page
\* has unlocked itself under a request when the server came back (setReport).
ReportIsOfSaved ==
  page.view = "detail" /\ ~page.unlocked /\ page.report # None =>
    page.report.rev >= page.saved

\* Nothing starts a Loop twice at a time, with the same exception
\* (LoopDetailPage busy).
OneStart ==
  page.view = "detail" /\ ~page.unlocked =>
    Cardinality({q \in requests : q.kind = "start"}) <= 1

\* A start the server has reported is in the history the page shows, unless
\* the read of it failed (mutate).
StartIsShown ==
  (page.view = "detail" /\ page.known > page.runs) ~>
    (page.view # "detail" \/ page.known <= page.runs \/ page.failed)

\* The page and its form are unlocked again, or the server came back while a
\* Loop was created: then the form stays locked (see the README).
BusyEnds == page.busy ~> ~page.busy \/ page.moved
=============================================================================
