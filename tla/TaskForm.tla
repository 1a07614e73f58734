-------------------------------- MODULE TaskForm --------------------------------
(* The form of the Tasks page: an Employee is chosen, what it may use is      *)
(* loaded and selected, and a Task is created, of a note or of a new prompt.  *)
(* The Employee can be changed at any time.                                   *)
EXTENDS Naturals, FiniteSets

CONSTANTS
  Employees, None,
  MaxEpochs, MaxFaults  \* bounds: changes of the Employee; reconnects and failures

VARIABLES server, page, requests, faults

vars == <<server, page, requests, faults>>

\* What belongs to an Employee (its context, a project, a memory fact) is named
\* by the Employee.  History: `switched`, the Employee changed while a Task was
\* created; `opened`, the Task the page went on to; `told`, the failures to create
\* that were shown.
Fresh ==
  [mounted |-> TRUE, employee |-> None, epoch |-> 0, context |-> None, project |-> None,
   memory |-> None, prompt |-> FALSE, note |-> FALSE, busy |-> FALSE,
   switched |-> FALSE, opened |-> None, told |-> 0]

Request(kind) ==
  [kind |-> kind, epoch |-> page.epoch, employee |-> page.employee,
   project |-> page.project, memory |-> page.memory, note |-> page.note, status |-> "sent"]

List == [kind |-> "list", active |-> {}, status |-> "sent"]

Init ==
  /\ server = [active |-> Employees, tasks |-> 0] /\ page = Fresh
  /\ requests = {List} /\ faults = 0

Fault == faults < MaxFaults /\ faults' = faults + 1

Drop(q) == requests' = requests \ {q}

Swap(q, new) == requests' = (requests \ {q}) \cup {new}

-----------------------------------------------------------------------------
(* The Employee and what it may use. *)

\* The effect of employeeId: without an Employee only the context is reset.
Changed(p, e) ==
  IF e = p.employee THEN p
  ELSE IF e = None
  THEN [p EXCEPT !.employee = None, !.epoch = @ + 1, !.context = None, !.switched = p.busy]
  ELSE [p EXCEPT !.employee = e, !.epoch = @ + 1, !.context = None, !.project = None,
                 !.memory = None, !.switched = p.busy]

\* It asks for the context; the load before is aborted, perhaps too late.
Asked(p) ==
  IF p.employee \in {page.employee, None} THEN {}
  ELSE {[kind |-> "context", epoch |-> p.epoch, employee |-> p.employee, status |-> "sent"]}

Become(p) == page' = p /\ requests' = requests \cup Asked(p)

SelectEmployee(e) ==
  /\ page.mounted /\ page.employee # None /\ page.epoch < MaxEpochs
  /\ Become(Changed(page, e))
  /\ UNCHANGED <<server, faults>>

\* load, and again after a reconnect.
Reconnect ==
  /\ page.mounted /\ Fault /\ requests' = {q \in requests : q.kind # "list"} \cup {List}
  /\ UNCHANGED <<server, page>>

\* The Employee stays if it is active, else the first one is taken.
Listed(q) ==
  /\ q.kind = "list" /\ q.status = "done"
  /\ LET e == IF page.employee \in q.active THEN page.employee
              ELSE IF q.active = {} THEN None ELSE CHOOSE x \in q.active : TRUE
         p == Changed(page, e)
     IN  page' = p /\ requests' = (requests \ {q}) \cup Asked(p)
  /\ UNCHANGED <<server, faults>>

ContextUnchecked(q) ==
  /\ q.kind = "context" /\ q.status = "done" /\ Drop(q)
  /\ page' = IF page.mounted THEN [page EXCEPT !.context = q.employee] ELSE page
  /\ UNCHANGED <<server, faults>>

\* A context of an earlier Employee is dropped.
ContextLoaded(q) ==
  /\ q.kind = "context" /\ q.status = "done" /\ Drop(q)
  /\ page' = IF q.epoch = page.epoch THEN [page EXCEPT !.context = q.employee] ELSE page
  /\ UNCHANGED <<server, faults>>

LoadFails(q) ==
  /\ q.kind \in {"list", "context"} /\ q.status = "failed" /\ Drop(q)
  /\ UNCHANGED <<server, page, faults>>

-----------------------------------------------------------------------------
(* The Task. *)

TypePrompt ==
  /\ page.mounted /\ page' = [page EXCEPT !.prompt = TRUE]
  /\ UNCHANGED <<server, requests, faults>>

PickProject ==
  /\ page.context # None /\ page' = [page EXCEPT !.project = page.context]
  /\ UNCHANGED <<server, requests, faults>>

PickMemory ==
  /\ page.context # None /\ page' = [page EXCEPT !.memory = page.context]
  /\ UNCHANGED <<server, requests, faults>>

\* A note may name its Employee.
useNoteAsTask(e) ==
  /\ page.mounted /\ page.employee # None /\ page.epoch < MaxEpochs
  /\ Become([Changed(page, e) EXCEPT !.prompt = TRUE, !.note = TRUE, !.project = None])
  /\ UNCHANGED <<server, faults>>

CreateAgain ==
  /\ page.context # None /\ page.project # None /\ page.prompt
  /\ requests' = requests \cup {Request("create")}
  /\ page' = [page EXCEPT !.busy = TRUE, !.switched = FALSE]
  /\ UNCHANGED <<server, faults>>

create ==
  /\ page.context # None /\ page.project # None /\ page.prompt /\ ~page.busy
  /\ requests' = requests \cup {Request("create")}
  /\ page' = [page EXCEPT !.busy = TRUE, !.switched = FALSE]
  /\ UNCHANGED <<server, faults>>

\* navigate leaves the page.
Opened(q) ==
  [Fresh EXCEPT !.mounted = FALSE, !.epoch = page.epoch + 1, !.told = page.told,
                !.opened = [task |-> q.employee, shown |-> page.employee, note |-> q.note]]

CreatedUnchecked(q) ==
  /\ q.kind = "create" /\ q.status = "done" /\ page.mounted
  /\ Drop(q) /\ page' = Opened(q) /\ UNCHANGED <<server, faults>>

\* The Task is opened, or linked to its note first, unless the Employee has
\* changed: then it is left alone, and the form stays locked.
Created(q) ==
  /\ q.kind = "create" /\ q.status = "done"
  /\ IF q.epoch # page.epoch
     THEN Drop(q) /\ UNCHANGED page
     ELSE IF q.note
     THEN Swap(q, [q EXCEPT !.kind = "link", !.status = "sent"]) /\ UNCHANGED page
     ELSE Drop(q) /\ page' = Opened(q)
  /\ UNCHANGED <<server, faults>>

Linked(q) ==
  /\ q.kind = "link" /\ q.status # "sent" /\ Drop(q)
  /\ page' = IF page.mounted THEN Opened(q) ELSE page
  /\ UNCHANGED <<server, faults>>

CreateFailsLocked(q) ==
  /\ q.kind = "create" /\ q.status = "failed" /\ Drop(q)
  /\ UNCHANGED <<server, page, faults>>

CreateFails(q) ==
  /\ q.kind = "create" /\ q.status = "failed" /\ Drop(q)
  /\ page' = IF q.epoch = page.epoch THEN [page EXCEPT !.busy = FALSE, !.told = @ + 1] ELSE page
  /\ UNCHANGED <<server, faults>>

Leave ==
  /\ page.mounted /\ page' = [Fresh EXCEPT !.mounted = FALSE, !.epoch = page.epoch + 1, !.told = page.told]
  /\ requests' = {q \in requests : q.kind # "list"}
  /\ UNCHANGED <<server, faults>>

-----------------------------------------------------------------------------
(* The server. *)

Archive(e) ==
  /\ Fault /\ e \in server.active /\ server' = [server EXCEPT !.active = @ \ {e}]
  /\ UNCHANGED <<page, requests>>

Served(q) == IF q.kind = "create" THEN [server EXCEPT !.tasks = @ + 1] ELSE server

Serve(q) ==
  /\ q.status = "sent" /\ server' = Served(q)
  /\ Swap(q, IF q.kind = "list"
             THEN [q EXCEPT !.status = "done", !.active = server.active]
             ELSE [q EXCEPT !.status = "done"])
  /\ UNCHANGED <<page, faults>>

\* It never gets there, or it is served and the answer is lost: a create has no
\* key by which another try would be known for the same.
RequestFails(q) ==
  /\ q.status = "sent" /\ Fault /\ server' \in {server, Served(q)}
  /\ Swap(q, [q EXCEPT !.status = "failed"])
  /\ UNCHANGED page

-----------------------------------------------------------------------------
Answer(q) ==
  \/ Serve(q) \/ RequestFails(q) \/ Listed(q) \/ ContextLoaded(q) \/ LoadFails(q)
  \/ Created(q) \/ Linked(q) \/ CreateFails(q)

Next ==
  \/ \E e \in Employees : SelectEmployee(e) \/ useNoteAsTask(e) \/ Archive(e)
  \/ Reconnect \/ TypePrompt \/ PickProject \/ PickMemory \/ create \/ Leave
  \/ \E q \in requests : Answer(q)

Spec == Init /\ [][Next]_vars

\* What creates a Task is answered.
Creating == \E q \in requests : q.kind \in {"create", "link"} /\ Answer(q)

FairSpec == Spec /\ WF_vars(Creating)

-----------------------------------------------------------------------------
(* Properties. *)

\* A Task is created with what belongs to its own Employee, however late the
\* context of another one arrives (TasksWorkbench contextEpoch).
SentIsTheEmployees ==
  \A q \in requests : q.kind \in {"create", "link"} =>
    q.project = q.employee /\ q.memory \in {None, q.employee}

\* The page goes on to a Task of the Employee it shows; a Task of a note may
\* be overtaken while it is linked (create).
OpensWhatIsShown ==
  page.opened # None => page.opened.note \/ page.opened.task = page.opened.shown

\* A form makes one Task, and one more at most for each failure the Owner was
\* told of (create): whichever answer is lost and however the Employee changes
\* under it, no second Task comes of a form that looked busy.
OneCreation == server.tasks <= 1 + page.told

\* The form is unlocked again, or the Employee was changed meanwhile: then it
\* stays locked (see the README).
BusyEnds == page.busy ~> ~page.busy \/ page.switched
=============================================================================
