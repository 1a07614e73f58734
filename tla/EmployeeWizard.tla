----------------------------- MODULE EmployeeWizard -----------------------------
(* The form that creates an Employee: quick creation from a name, and nine    *)
(* steps whose last one creates the Employee, gives it its Skills and its     *)
(* Knowledge source in requests of their own, and asks the server whether it  *)
(* is ready.  The inputs stay enabled while those requests are under way.     *)
EXTENDS Naturals, FiniteSets

CONSTANTS
  None,
  MaxFaults  \* bound: failures and lost answers

VARIABLES server, page, requests, faults

vars == <<server, page, requests, faults>>

Steps == 0 .. 8
Optional == {2, 3}                \* the steps whose inputs may be missing or wrong
Names == 0 .. 2                   \* what identifies the Employee; 0 is nothing
Created == {e.id : e \in server}  \* an id is made of the name it was chosen for

Fresh ==
  [open |-> TRUE, catalog |-> FALSE, advanced |-> FALSE, step |-> 0,
   filled |-> {3}, name |-> 0, id |-> None, generated |-> FALSE,
   skills |-> 0, knowledge |-> FALSE, persisted |-> None, skillsSaved |-> FALSE,
   knowledgeSaved |-> FALSE, ready |-> FALSE, checked |-> None, busy |-> FALSE]

Closed == [Fresh EXCEPT !.open = FALSE]

Init == server = {} /\ page = Fresh /\ requests = {} /\ faults = 0

Fault == faults < MaxFaults /\ faults' = faults + 1

CatalogLoaded ==
  /\ page.open /\ ~page.catalog /\ page' = [page EXCEPT !.catalog = TRUE]
  /\ UNCHANGED <<server, requests, faults>>

-----------------------------------------------------------------------------
(* Filling in: nothing here looks at busy. *)

Rename(name) ==
  /\ page.open /\ page.step = 0 /\ page' = [page EXCEPT !.name = name]
  /\ UNCHANGED <<server, requests, faults>>

\* The charter and the configuration of a Skill, which has to parse.
Fill(step) ==
  /\ page.open /\ page.advanced /\ page.step = step
  /\ page' = [page EXCEPT !.filled = IF step \in @ THEN @ \ {step} ELSE @ \cup {step}]
  /\ UNCHANGED <<server, requests, faults>>

PickSkills ==
  /\ page.open /\ page.advanced /\ page.step = 3
  /\ page' = [page EXCEPT !.skills = 1 - @]
  /\ UNCHANGED <<server, requests, faults>>

PickKnowledge ==
  /\ page.open /\ page.advanced /\ page.step = 4
  /\ page' = [page EXCEPT !.knowledge = TRUE]
  /\ UNCHANGED <<server, requests, faults>>

OpenAdvanced ==
  /\ page.open /\ ~page.advanced /\ ~page.busy
  /\ page' = [page EXCEPT !.advanced = TRUE]
  /\ UNCHANGED <<server, requests, faults>>

\* ensureEmployeeId: an id that is valid is kept, else one is made of the name.
EmployeeId == IF page.id # None THEN page.id ELSE page.name

\* generateGuidedDraft fills the identity and the charter and fixes the id.
generateGuidedDraft ==
  /\ page.open /\ page.advanced /\ page.step = 0
  /\ page' = [page EXCEPT !.generated = TRUE, !.name = IF @ = 0 THEN 1 ELSE @,
                          !.filled = @ \cup {2}, !.id = 0]
  /\ UNCHANGED <<server, requests, faults>>

\* The shortcut from the draft to the last input step: the steps between are
\* not looked at, but for the runtime and the project.
reviewGeneratedDraft ==
  /\ page.open /\ page.advanced /\ page.step = 0 /\ page.generated /\ page.catalog
  /\ page' = [page EXCEPT !.step = 7]
  /\ UNCHANGED <<server, requests, faults>>

Valid(step) ==
  /\ step = 0 => page.name # 0
  /\ step \in Optional => step \in page.filled

Previous ==
  /\ page.open /\ page.advanced /\ page.step > 0 /\ page.persisted = None
  /\ page' = [page EXCEPT !.step = @ - 1]
  /\ UNCHANGED <<server, requests, faults>>

NextUnvalidated ==
  /\ page.open /\ page.advanced /\ page.step < 7 /\ ~page.busy /\ page.catalog
  /\ page' = [page EXCEPT !.step = @ + 1, !.id = IF page.step = 0 THEN EmployeeId ELSE @]
  /\ UNCHANGED <<server, requests, faults>>

\* next() on the steps before the last input.
NextStep ==
  /\ page.open /\ page.advanced /\ page.step < 7 /\ ~page.busy /\ page.catalog
  /\ Valid(page.step)
  /\ page' = [page EXCEPT !.step = @ + 1, !.id = IF page.step = 0 THEN EmployeeId ELSE @]
  /\ UNCHANGED <<server, requests, faults>>

-----------------------------------------------------------------------------
(* Saving. *)

\* What the closure of a click has captured.
Captured(kind) ==
  [kind |-> kind, id |-> EmployeeId, rev |-> 0,
   skills |-> page.skills, knowledge |-> page.knowledge,
   filled |-> page.filled, generated |-> page.generated,
   skillsSaved |-> page.skillsSaved, knowledgeSaved |-> page.knowledgeSaved,
   stage |-> "create", answer |-> None]

QuickCreateAgain ==
  /\ page.open /\ ~page.advanced /\ page.catalog /\ page.name # 0
  /\ Cardinality(requests) < 2
  /\ requests' = requests \cup {Captured("quick")}
  /\ page' = [page EXCEPT !.busy = TRUE]
  /\ UNCHANGED <<server, faults>>

quickCreate ==
  /\ page.open /\ ~page.advanced /\ ~page.busy /\ page.catalog /\ page.name # 0
  /\ requests' = requests \cup {Captured("quick")}
  /\ page' = [page EXCEPT !.busy = TRUE]
  /\ UNCHANGED <<server, faults>>

\* What validatePersisted asks for next, once the Employee exists.
AfterSkills(q) == IF q.knowledge /\ ~q.knowledgeSaved THEN "knowledge" ELSE "report"

AfterCreate(q) ==
  CASE 3 \notin q.filled -> "stopped"       \* bindings() throws
    [] q.skillsSaved -> AfterSkills(q)
    [] OTHER -> "skills"

\* prepareReview: the last input step, while nothing is persisted.
PrepareReview ==
  /\ page.open /\ page.advanced /\ page.step = 7 /\ ~page.busy /\ page.catalog
  /\ page.persisted = None /\ Valid(7)
  /\ requests' = requests \cup {Captured("review")}
  /\ page' = [page EXCEPT !.busy = TRUE]
  /\ UNCHANGED <<server, faults>>

\* The same function behind the button that validates once more.
Retry ==
  /\ page.open /\ page.step = 8 /\ page.persisted # None /\ ~page.ready /\ ~page.busy
  /\ LET q == [Captured("retry") EXCEPT !.id = page.persisted.id, !.rev = page.persisted.rev]
     IN  requests' = requests \cup {[q EXCEPT !.stage = AfterCreate(q)]}
  /\ page' = [page EXCEPT !.busy = TRUE]
  /\ UNCHANGED <<server, faults>>

Swap(q, new) == (requests \ {q}) \cup {new}

Employee(id) == CHOOSE e \in server : e.id = id

\* What the server makes of a request it accepts, and the answer.
Served(q) ==
  CASE q.stage = "create" /\ q.id \notin Created ->
         {[id |-> q.id, rev |-> 1, skills |-> None, knowledge |-> FALSE]}
    [] q.stage = "skills" /\ q.id \in Created /\ Employee(q.id).rev = q.rev ->
         {[Employee(q.id) EXCEPT !.rev = @ + 1, !.skills = q.skills]}
    [] q.stage = "knowledge" /\ q.id \in Created /\ ~Employee(q.id).knowledge ->
         {[Employee(q.id) EXCEPT !.knowledge = TRUE]}
    [] q.stage = "report" -> {Employee(q.id)}
    [] OTHER -> {}

Serve(q) ==
  /\ q.answer = None /\ q.stage # "stopped"
  /\ IF Served(q) = {}
     THEN requests' = Swap(q, [q EXCEPT !.answer = "failed"]) /\ UNCHANGED <<server, faults>>
     ELSE /\ server' = {e \in server : e.id # q.id} \cup Served(q)
          /\ \/ /\ requests' = Swap(q, [q EXCEPT !.answer = "done",
                                                 !.rev = (CHOOSE e \in Served(q) : TRUE).rev])
                /\ UNCHANGED faults
             \/ Fault /\ requests' = Swap(q, [q EXCEPT !.answer = "failed"])
  /\ UNCHANGED page

RequestFails(q) ==
  /\ q.answer = None /\ q.stage # "stopped" /\ Fault
  /\ requests' = Swap(q, [q EXCEPT !.answer = "failed"])
  /\ UNCHANGED <<server, page>>

Record(q) == [id |-> q.id, rev |-> q.rev]

\* A step of validatePersisted has its answer: the next request goes out, also
\* when the wizard is gone.
Advance(q) ==
  /\ q.answer = "done" /\ q.kind # "quick" /\ q.stage # "report"
  /\ LET next == CASE q.stage = "create" -> AfterCreate(q)
                   [] q.stage = "skills" -> AfterSkills(q)
                   [] q.stage = "knowledge" -> "report"
     IN  requests' = Swap(q, [q EXCEPT !.answer = None, !.stage = next])
  /\ page' = IF ~page.open THEN page
             ELSE CASE q.stage = "create" -> [page EXCEPT !.persisted = Record(q)]
                    [] q.stage = "skills" ->
                         [page EXCEPT !.persisted = Record(q), !.skillsSaved = TRUE]
                    [] q.stage = "knowledge" -> [page EXCEPT !.knowledgeSaved = TRUE]
  /\ UNCHANGED <<server, faults>>

ReportUnchecked(q) ==
  /\ q.stage = "report" /\ q.answer = "done" /\ requests' = requests \ {q}
  /\ page' = IF ~page.open THEN page
             ELSE [page EXCEPT !.busy = FALSE, !.step = 8, !.checked = q.skills, !.ready = TRUE]
  /\ UNCHANGED <<server, faults>>

\* The three projections: ready only when the server holds what was selected.
Report(q) ==
  /\ q.stage = "report" /\ q.answer = "done" /\ requests' = requests \ {q}
  /\ page' = IF ~page.open THEN page
             ELSE [page EXCEPT !.busy = FALSE, !.step = 8, !.checked = q.skills,
                               !.ready = Employee(q.id).skills = q.skills]
  /\ UNCHANGED <<server, faults>>

\* A step of validatePersisted fails: not ready, but the review is shown.
ValidationFails(q) ==
  /\ q.stage = "stopped" \/ (q.stage # "create" /\ q.answer = "failed")
  /\ requests' = requests \ {q}
  /\ page' = IF ~page.open THEN page
             ELSE [page EXCEPT !.busy = FALSE, !.step = 8, !.ready = FALSE]
  /\ UNCHANGED <<server, faults>>

CreateFailsStuck(q) ==
  /\ q.stage = "create" /\ q.answer = "failed" /\ requests' = requests \ {q}
  /\ UNCHANGED <<server, page, faults>>

CreateFails(q) ==
  /\ q.stage = "create" /\ q.answer = "failed" /\ requests' = requests \ {q}
  /\ page' = IF page.open THEN [page EXCEPT !.busy = FALSE] ELSE page
  /\ UNCHANGED <<server, faults>>

\* onCreated opens the new Employee, from wherever the Owner is by then.
QuickCreated(q) ==
  /\ q.kind = "quick" /\ q.answer = "done" /\ requests' = requests \ {q}
  /\ page' = Closed
  /\ UNCHANGED <<server, faults>>

\* onClose, and the button of the last step.
Close ==
  /\ page.open /\ page' = Closed
  /\ UNCHANGED <<server, requests, faults>>

OpenEmployee ==
  /\ page.open /\ page.step = 8 /\ ~page.busy /\ page.persisted # None
  /\ page' = Closed
  /\ UNCHANGED <<server, requests, faults>>

-----------------------------------------------------------------------------
Next ==
  \/ CatalogLoaded \/ OpenAdvanced \/ generateGuidedDraft \/ reviewGeneratedDraft
  \/ \E name \in Names : Rename(name)
  \/ \E step \in Optional : Fill(step)
  \/ PickSkills \/ PickKnowledge \/ Previous \/ NextStep
  \/ quickCreate \/ PrepareReview \/ Retry
  \/ \E q \in requests :
       \/ Serve(q) \/ RequestFails(q) \/ Advance(q) \/ Report(q)
       \/ ValidationFails(q) \/ CreateFails(q) \/ QuickCreated(q)
  \/ Close \/ OpenEmployee

Spec == Init /\ [][Next]_vars

Answers ==
  \E q \in requests :
    \/ Serve(q) \/ Advance(q) \/ Report(q)
    \/ ValidationFails(q) \/ CreateFails(q) \/ QuickCreated(q)

-----------------------------------------------------------------------------
(* Properties. *)

\* What is sent for review has been validated step by step, however the Owner
\* went back and forth while requests were under way; only the guided draft
\* skips steps (EmployeeWizard validateStep, next).
SentIsValidated ==
  \A q \in requests : q.kind = "review" /\ ~q.generated => Optional \subseteq q.filled

\* "Ready" is what the server holds: the Skills the review compared, at the
\* revision the wizard would open (validatePersisted).
ReadyIsSaved ==
  page.ready =>
    \E e \in server : e.id = page.persisted.id /\ e.skills = page.checked

\* One wizard makes one Employee, through failures, repeated clicks and the
\* change from quick creation to the steps; a second needs a lost answer.
OneEmployeeEach ==
  Cardinality(server) <= 1 + faults

FairSpec == Spec /\ WF_vars(Answers)

\* "busy" is on only while something is under way.
BusyEnds == page.busy ~> ~page.busy
=============================================================================
