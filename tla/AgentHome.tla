------------------------------- MODULE AgentHome -------------------------------
(* The shell of the web client and the page that opens a Session.  A          *)
(* heartbeat tells whether the server answers; the catalog and the list of    *)
(* Sessions are read when an agent route opens and after an outage, and again *)
(* before the page of a new Session opens.                                    *)
EXTENDS Naturals

CONSTANTS
  None,
  MaxSessions, MaxFaults  \* bounds: Sessions created; outages and failures

VARIABLES server, page, requests, faults

vars == <<server, page, requests, faults>>

\* History: `outage`, the server was down since it was last known to answer;
\* `stale`, nothing was read since the page came back from being offline.
Fresh ==
  [status |-> "checking", route |-> "landing", info |-> FALSE, list |-> 0,
   error |-> FALSE, busy |-> FALSE,
   outage |-> FALSE, stale |-> FALSE]

\* A "pull" is the read that ends a submit; `left`: its page was left.
Request(kind) ==
  [kind |-> kind, current |-> TRUE, left |-> FALSE, status |-> "sent", answer |-> None]

Init ==
  /\ server = [up |-> TRUE, sessions |-> 1] /\ page = Fresh
  /\ requests = {Request("beat"), Request("load")} /\ faults = 0

Fault == faults < MaxFaults /\ faults' = faults + 1

Drop(q) == requests' = requests \ {q}

Swap(q, new) == requests' = (requests \ {q}) \cup {new}

Checks == {"beat", "recovery"}
Loads == {"load", "pull"}
Submits == {"create", "pull"}

\* AgentDataProvider reads while an agent route is open.
Active(route) == route # "elsewhere"

-----------------------------------------------------------------------------
(* The server. *)

GoesDown ==
  /\ server.up /\ Fault /\ server' = [server EXCEPT !.up = FALSE]
  /\ page' = [page EXCEPT !.outage = TRUE] /\ UNCHANGED requests

ComesUp ==
  /\ ~server.up /\ server' = [server EXCEPT !.up = TRUE]
  /\ UNCHANGED <<page, requests, faults>>

OtherCreates ==
  /\ server.up /\ server.sessions < MaxSessions
  /\ server' = [server EXCEPT !.sessions = @ + 1]
  /\ UNCHANGED <<page, requests, faults>>

Both == [info |-> TRUE, list |-> server.sessions]

\* getInfo and listSessions fail apart.
Parts == {[Both EXCEPT !.info = FALSE], [Both EXCEPT !.list = None]}

Serve(q) ==
  /\ q.status = "sent" /\ server.up
  /\ IF q.kind = "create" THEN server' = [server EXCEPT !.sessions = @ + 1] ELSE UNCHANGED server
  /\ \/ Swap(q, [q EXCEPT !.status = "done", !.answer = IF q.kind \in Loads THEN Both ELSE None])
        /\ UNCHANGED faults
     \/ /\ q.kind \in Loads /\ Fault
        /\ \E part \in Parts : Swap(q, [q EXCEPT !.status = "done", !.answer = part])
  /\ UNCHANGED page

Unserved(q) ==
  /\ q.status = "sent" /\ ~server.up /\ Swap(q, [q EXCEPT !.status = "failed"])
  /\ UNCHANGED <<server, page, faults>>

-----------------------------------------------------------------------------
(* The sidebar's data. *)

\* An aborted read only goes on when a submit waits for it.
Abort(set) ==
  {q \in set : q.kind \notin Loads}
    \cup {[q EXCEPT !.current = FALSE] : q \in {r \in set : r.kind = "pull"}}

ReloadKeeping(set, route) ==
  IF Active(route) THEN set \cup {Request("load")} ELSE Abort(set)

Reload(set, route) == IF Active(route) THEN Abort(set) \cup {Request("load")} ELSE Abort(set)

\* The catalog may arrive without the list, not the other way round.
Loaded(q) ==
  IF ~q.current THEN page
  ELSE IF q.status = "failed" THEN [page EXCEPT !.error = TRUE, !.stale = FALSE]
  ELSE [page EXCEPT !.info = @ \/ q.answer.info, !.error = ~q.answer.info, !.stale = FALSE,
                    !.list = IF q.answer.list = None THEN @ ELSE q.answer.list]

LoadEnds(q) ==
  /\ q.kind = "load" /\ q.status # "sent" /\ Drop(q) /\ page' = Loaded(q)
  /\ UNCHANGED <<server, faults>>

\* AgentSessionPage refreshes the list after a mutation of its own.
SessionChanged ==
  /\ page.route = "session" /\ server.up /\ server.sessions < MaxSessions
  /\ server' = [server EXCEPT !.sessions = @ + 1]
  /\ requests' = Reload(requests, page.route)
  /\ UNCHANGED <<page, faults>>

-----------------------------------------------------------------------------
(* The heartbeat. *)

Probing(kind) == {q \in requests : q.kind \notin Checks} \cup {Request(kind)}

CheckAborted(kind) ==
  /\ requests' = Probing(kind)
  /\ page' = IF Probing(kind) # requests \cup {Request(kind)}
             THEN [page EXCEPT !.status = "offline"] ELSE page
  /\ UNCHANGED <<server, faults>>

\* A check that is replaced by the next one says nothing.
Check(kind) == requests' = Probing(kind) /\ UNCHANGED <<server, page, faults>>

reconnect == page.status = "offline" /\ Check("recovery")

RecoversAsked(q) == q.kind = "recovery"

Recovers(q) == q.kind = "recovery" \/ page.status = "offline"

HealthAnswered(q) ==
  /\ q.kind \in Checks /\ q.status = "done"
  /\ page' = [page EXCEPT !.status = "online", !.outage = ~server.up,
                            !.stale = @ \/ page.status = "offline"]
  /\ requests' = IF Recovers(q) THEN Reload(requests \ {q}, page.route) ELSE requests \ {q}
  /\ UNCHANGED <<server, faults>>

HealthFails(q) ==
  /\ q.kind \in Checks /\ q.status = "failed" /\ Drop(q)
  /\ page' = [page EXCEPT !.status = "offline"]
  /\ UNCHANGED <<server, faults>>

-----------------------------------------------------------------------------
(* Routes, and a new Session. *)

\* What a page left behind still runs; a provider that becomes active reads.
Moved(from, set, route) ==
  LET behind == {IF q.kind \in Submits THEN [q EXCEPT !.left = TRUE] ELSE q : q \in set}
  IN  /\ page' = [from EXCEPT !.route = route, !.busy = FALSE]
      /\ requests' = IF Active(route) = Active(from.route) THEN behind ELSE Reload(behind, route)

Go(route) ==
  /\ route # page.route /\ Moved(page, requests, route)
  /\ UNCHANGED <<server, faults>>

\* Bounds: one submit under way, of this page or of one that was left.
submit ==
  /\ page.route = "landing" /\ page.info /\ page.status = "online" /\ ~page.busy
  /\ server.sessions < MaxSessions /\ \A q \in requests : q.kind \notin Submits
  /\ page' = [page EXCEPT !.busy = TRUE]
  /\ requests' = requests \cup {Request("create")}
  /\ UNCHANGED <<server, faults>>

\* refresh of the render that submitted: it reads wherever the owner is now.
Created(q) ==
  /\ q.kind = "create" /\ q.status = "done"
  /\ requests' = Abort(requests \ {q})
                   \cup {[q EXCEPT !.kind = "pull", !.current = TRUE, !.status = "sent"]}
  /\ UNCHANGED <<server, page, faults>>

CreateFailsLocked(q) ==
  /\ q.kind = "create" /\ q.status = "failed" /\ Drop(q)
  /\ UNCHANGED <<server, page, faults>>

CreateFails(q) ==
  /\ q.kind = "create" /\ q.status = "failed" /\ Drop(q)
  /\ page' = IF q.left THEN page ELSE [page EXCEPT !.busy = FALSE]
  /\ UNCHANGED <<server, faults>>

\* It opens the new Session even when the owner went elsewhere.
Opened(q) ==
  /\ q.kind = "pull" /\ q.status # "sent"
  /\ Moved(Loaded(q), requests \ {q}, "session")
  /\ UNCHANGED <<server, faults>>

-----------------------------------------------------------------------------
Answer(q) ==
  \/ Serve(q) \/ Unserved(q) \/ LoadEnds(q) \/ HealthAnswered(q) \/ HealthFails(q)
  \/ Created(q) \/ CreateFails(q) \/ Opened(q)

Next ==
  \/ GoesDown \/ ComesUp \/ OtherCreates \/ SessionChanged \/ reconnect \/ submit
  \/ Check("beat")
  \/ \E route \in {"landing", "session", "elsewhere"} : Go(route)
  \/ \E q \in requests : Answer(q)

Spec == Init /\ [][Next]_vars

Answers(kinds) == \E q \in requests : q.kind \in kinds /\ Answer(q)

\* The timer beats on, and not every check is replaced before its answer comes:
\* the interval is longer than an answer takes.
Beat == (\A q \in requests : q.kind \notin Checks) /\ Check("beat")
Checked == \E q \in requests : HealthAnswered(q) \/ HealthFails(q)

FairSpec ==
  Spec /\ WF_vars(Answers(Checks)) /\ WF_vars(Answers(Loads)) /\ WF_vars(Answers(Submits))
       /\ WF_vars(Beat) /\ SF_vars(Checked)

-----------------------------------------------------------------------------
(* Properties. *)

\* The banner is up only after an outage: a check that was replaced is no
\* failure (ConnectivityProvider check).
NoFalseAlarm == page.status = "offline" => page.outage

\* The list of Sessions never goes back, whichever reads cross
\* (AgentDataProvider refresh).
NoStepBack == page'.list >= page.list

NeverBackwards == [][NoStepBack]_vars

\* After an outage the sidebar's data is read again while an agent route is
\* open (ConnectivityProvider generation, AgentDataProvider effect).
RecoveredIsLoaded == page.stale ~> (~page.stale \/ ~Active(page.route))

\* Submitting ends.
BusyEnds == page.busy ~> ~page.busy
================================================================================
