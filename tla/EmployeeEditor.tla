----------------------------- MODULE EmployeeEditor -----------------------------
(* The page of one Employee: what the Owner edits, the writes that carry an   *)
(* expected revision, and the answers and reloads that replace what is shown. *)
(* An Employee is four groups of fields; a group is told by the revision that *)
(* wrote it, and a value the Owner has entered but not saved is Edit.         *)
EXTENDS Naturals, Sequences, FiniteSets

CONSTANTS
  None,
  MaxRevisions, MaxRequests, MaxFaults  \* bounds

EditorAssumption ==
  /\ MaxRevisions \in Nat \ {0} /\ MaxRequests \in Nat /\ MaxFaults \in Nat
  /\ None \notin Nat

VARIABLES
  history,      \* server: the Employee at each revision
  record,       \* record: what the page shows, and the revision it was read at
  dirty, conflict,
  skillDraft,   \* skillDraft
  projectDraft, \* projectDraft, None outside projectEditMode
  busy,
  epoch,        \* detailEpoch
  dialog,       \* the confirmation that is open, with what its closure captured
  requests,     \* writes under way
  loads,        \* refresh() calls under way
  faults        \* bound: reloads, failures, lost answers, pages left

page == <<record, dirty, conflict, skillDraft, projectDraft>>
vars == <<history, page, busy, epoch, dialog, requests, loads, faults>>

Edit == 0
Groups == {"settings", "skills", "projects", "state"}
Lifecycle == {"disable", "enable", "archive"}
Becomes == [disable |-> "disabled", enable |-> "active", archive |-> "archived"]

Revision == Len(history)
Latest == [rev |-> Revision, doc |-> history[Revision]]

\* Groups start at revision 1, and the Employee active.
Init ==
  /\ history = <<[settings |-> 1, skills |-> 1, projects |-> 1, state |-> "active"]>>
  /\ record = None /\ dirty = FALSE /\ conflict = FALSE
  /\ skillDraft = 1 /\ projectDraft = None
  /\ busy = FALSE /\ epoch = 1 /\ dialog = None /\ requests = {}
  /\ loads = {[epoch |-> 1, asked |-> FALSE, answer |-> None]} /\ faults = 0

Fault == faults < MaxFaults /\ faults' = faults + 1

Replace(set, old, new) == (set \ {old}) \cup {new}

-----------------------------------------------------------------------------
(* The server: every write compares the revision it expects. *)

\* Bound: room for the writes under way.
CanWrite == Revision + Cardinality(requests) < MaxRevisions

Written(value) == IF value = Edit THEN Revision + 1 ELSE value

\* What a write makes of the Employee (Update, UpdateEmployeeSkills, Disable,
\* Enable, Archive).
Result(q) ==
  LET now == history[Revision]
  IN  CASE q.kind = "skills" -> [now EXCEPT !.skills = Written(q.doc.skills)]
        [] q.kind \in {"save", "projects"} ->
             [settings |-> Written(q.doc.settings), skills |-> q.doc.skills,
              projects |-> Written(q.doc.projects), state |-> now.state]
        [] q.kind \in Lifecycle -> [now EXCEPT !.state = Becomes[q.kind]]

AcceptsUnchecked(q) ==
  /\ history[Revision].state # "archived"
  /\ q.kind = "skills" => history[Revision].state = "active"

\* change(): the revision first, then the state.
Accepts(q) ==
  /\ q.rev = Revision
  /\ history[Revision].state # "archived"
  /\ q.kind = "skills" => history[Revision].state = "active"

Serve(q) ==
  /\ q.step = "sent"
  /\ IF Accepts(q)
     THEN /\ history' = Append(history, Result(q))
          /\ \/ /\ requests' = Replace(requests, q,
                      [q EXCEPT !.step = "done", !.answer = [rev |-> Revision + 1, doc |-> Result(q)]])
                /\ UNCHANGED faults
             \/ \* done, but the answer is lost
                Fault /\ requests' = Replace(requests, q, [q EXCEPT !.step = "failed"])
     ELSE /\ requests' = Replace(requests, q, [q EXCEPT !.step = "conflict"])
          /\ UNCHANGED <<history, faults>>
  /\ UNCHANGED <<page, busy, epoch, dialog, loads>>

\* The request never gets there.
RequestFails(q) ==
  /\ q.step = "sent" /\ Fault
  /\ requests' = Replace(requests, q, [q EXCEPT !.step = "failed"])
  /\ UNCHANGED <<history, page, busy, epoch, dialog, loads>>

\* Another tab saves its own edit.
OtherWrite(group) ==
  /\ CanWrite /\ Fault /\ history[Revision].state # "archived"
  /\ history' = Append(history, [history[Revision] EXCEPT ![group] = Revision + 1])
  /\ UNCHANGED <<page, busy, epoch, dialog, requests, loads>>

ReadEmployee(l) ==
  /\ l.answer = None
  /\ loads' = Replace(loads, l, [l EXCEPT !.answer = Latest])
  /\ UNCHANGED <<history, page, busy, epoch, dialog, requests, faults>>

-----------------------------------------------------------------------------
(* Loading. *)

IsCurrent(e) == e = epoch

\* setRecord and the drafts that follow it in refresh.
ShowAll(value) ==
  /\ record' = value /\ skillDraft' = value.doc.skills
  /\ projectDraft' = IF projectDraft = None THEN None ELSE value.doc.projects
  /\ dirty' = FALSE /\ conflict' = FALSE

StartRefresh(asked) ==
  /\ epoch' = epoch + 1
  /\ loads' = loads \cup {[epoch |-> epoch + 1, asked |-> asked, answer |-> None]}

Loaded(l) ==
  /\ l.answer # None /\ loads' = loads \ {l}
  /\ IF IsCurrent(l.epoch) THEN ShowAll(l.answer) ELSE UNCHANGED page
  /\ UNCHANGED <<history, busy, epoch, dialog, requests, faults>>

LoadFails(l) ==
  /\ Fault /\ loads' = loads \ {l}
  /\ UNCHANGED <<history, page, busy, epoch, dialog, requests>>

\* The button under the message of a conflict.
Reload ==
  /\ conflict /\ Fault /\ StartRefresh(TRUE)
  /\ UNCHANGED <<history, page, busy, dialog, requests>>

\* connectivity.generation: the server answers again after a failed heartbeat.
Reconnected ==
  /\ Fault /\ StartRefresh(FALSE)
  /\ UNCHANGED <<history, page, busy, dialog, requests>>

\* The page is left and opened again.  A dialog that is open stays, and its
\* closure belongs to the page that is gone.
Reopen ==
  /\ Fault /\ StartRefresh(FALSE)
  /\ record' = None /\ dirty' = FALSE /\ conflict' = FALSE
  /\ skillDraft' = 1 /\ projectDraft' = None /\ busy' = FALSE
  /\ dialog' = IF dialog = None THEN None ELSE [dialog EXCEPT !.gone = TRUE]
  /\ requests' = {[q EXCEPT !.gone = TRUE] : q \in requests}
  /\ UNCHANGED history

-----------------------------------------------------------------------------
(* Editing. *)

Archived == record.doc.state = "archived"
CanMutate == record # None /\ ~Archived /\ ~busy

PatchSilently ==
  /\ record # None /\ ~Archived
  /\ record' = [record EXCEPT !.doc.settings = Edit]
  /\ conflict' = FALSE
  /\ UNCHANGED <<history, dirty, skillDraft, projectDraft, busy, epoch, dialog, requests, loads,
                 faults>>

\* patchEmployee: not disabled while a write is under way.
PatchEmployee ==
  /\ record # None /\ ~Archived
  /\ record' = [record EXCEPT !.doc.settings = Edit]
  /\ dirty' = TRUE /\ conflict' = FALSE
  /\ UNCHANGED <<history, skillDraft, projectDraft, busy, epoch, dialog, requests, loads, faults>>

EditSkills ==
  /\ CanMutate /\ skillDraft' = Edit
  /\ UNCHANGED <<history, record, dirty, conflict, projectDraft, busy, epoch, dialog, requests,
                 loads, faults>>

EditProjects ==
  /\ \/ CanMutate /\ projectDraft = None /\ projectDraft' = record.doc.projects
     \/ record # None /\ projectDraft # None /\ projectDraft' \in {Edit, None}
  /\ UNCHANGED <<history, record, dirty, conflict, skillDraft, busy, epoch, dialog, requests,
                 loads, faults>>

-----------------------------------------------------------------------------
(* Writing. *)

\* A write with what the page holds, or the dialog captured, of the revision.
Request(kind, rev, doc, gone) ==
  /\ Cardinality(requests) < MaxRequests /\ CanWrite
  /\ requests' = requests \cup
       {[id |-> CHOOSE i \in 1 .. MaxRequests : \A q \in requests : q.id # i, kind |-> kind,
         rev |-> rev, doc |-> doc, epoch |-> epoch, gone |-> gone,
         step |-> "sent", answer |-> None]}
  /\ busy' = IF gone THEN busy ELSE TRUE

SaveEmployee ==
  /\ CanMutate /\ conflict' = FALSE
  /\ Request("save", record.rev, record.doc, FALSE)
  /\ UNCHANGED <<history, record, dirty, skillDraft, projectDraft, epoch, dialog, loads, faults>>

SaveSkills ==
  /\ CanMutate
  /\ Request("skills", record.rev, [record.doc EXCEPT !.skills = skillDraft], FALSE)
  /\ UNCHANGED <<history, page, epoch, dialog, loads, faults>>

\* It sends the settings as they are on the page too.
SaveProjects ==
  /\ CanMutate /\ projectDraft # None
  /\ Request("projects", record.rev, [record.doc EXCEPT !.projects = projectDraft], FALSE)
  /\ UNCHANGED <<history, page, epoch, dialog, loads, faults>>

OpenLifecycle(action) ==
  /\ record # None /\ ~Archived /\ dialog = None
  /\ action = "disable" => record.doc.state = "active"
  /\ action = "enable" => record.doc.state = "disabled"
  /\ dialog' = [action |-> action, rev |-> record.rev, state |-> record.doc.state, gone |-> FALSE]
  /\ UNCHANGED <<history, page, busy, epoch, requests, loads, faults>>

ConfirmLatest ==
  /\ dialog # None /\ record # None /\ dialog' = None
  /\ Request(dialog.action, record.rev, [history[1] EXCEPT !.state = dialog.state], dialog.gone)
  /\ UNCHANGED <<history, page, epoch, loads, faults>>

\* mutate() does not look at busy, and the dialog outlives the page.
ConfirmLifecycle ==
  /\ dialog # None /\ dialog' = None
  /\ Request(dialog.action, dialog.rev, [history[1] EXCEPT !.state = dialog.state], dialog.gone)
  /\ UNCHANGED <<history, page, epoch, loads, faults>>

DismissLifecycle ==
  /\ dialog # None /\ dialog' = None
  /\ UNCHANGED <<history, page, busy, epoch, requests, loads, faults>>

AdoptRevision(q) ==
  /\ record' = [record EXCEPT !.rev = IF record.rev > q.answer.rev THEN @ ELSE q.answer.rev]
  /\ UNCHANGED <<dirty, conflict, skillDraft, projectDraft>>

\* The answer of a write, unless the page has moved on.
Adopt(q) ==
  /\ record' = q.answer
  /\ dirty' = IF q.kind \in {"skills", "projects"} THEN dirty ELSE FALSE
  /\ skillDraft' = IF q.kind = "skills" THEN q.answer.doc.skills ELSE skillDraft
  /\ projectDraft' = CASE q.kind = "projects" -> None
                       [] q.kind = "save" /\ projectDraft # None -> q.answer.doc.projects
                       [] OTHER -> projectDraft
  /\ UNCHANGED conflict

AnsweredStuck(q) ==
  /\ q.step # "sent" /\ requests' = requests \ {q}
  /\ CASE q.gone \/ ~IsCurrent(q.epoch) -> UNCHANGED <<page, busy>>
       [] q.step = "done" -> Adopt(q) /\ busy' = FALSE
       [] OTHER -> /\ conflict' = IF q.kind = "save" THEN q.step = "conflict" ELSE conflict
                   /\ busy' = FALSE
                   /\ UNCHANGED <<record, dirty, skillDraft, projectDraft>>
  /\ UNCHANGED <<history, epoch, dialog, loads, faults>>

Answered(q) ==
  /\ q.step # "sent" /\ requests' = requests \ {q}
  /\ CASE q.gone \/ ~IsCurrent(q.epoch) -> UNCHANGED page
       [] q.step = "done" -> Adopt(q)
       [] OTHER -> /\ conflict' = IF q.kind = "save" THEN q.step = "conflict" ELSE conflict
                   /\ UNCHANGED <<record, dirty, skillDraft, projectDraft>>
  /\ busy' = IF q.gone THEN busy ELSE FALSE
  /\ UNCHANGED <<history, epoch, dialog, loads, faults>>

-----------------------------------------------------------------------------
Next ==
  \/ \E q \in requests : Serve(q) \/ RequestFails(q) \/ Answered(q)
  \/ \E l \in loads : ReadEmployee(l) \/ Loaded(l) \/ LoadFails(l)
  \/ \E g \in Groups \ {"state"} : OtherWrite(g)
  \/ Reload \/ Reconnected \/ Reopen
  \/ PatchEmployee \/ EditSkills \/ EditProjects
  \/ SaveEmployee \/ SaveSkills \/ SaveProjects
  \/ \E a \in Lifecycle : OpenLifecycle(a)
  \/ ConfirmLifecycle \/ DismissLifecycle

Spec == Init /\ [][Next]_vars

Answers ==
  \/ \E q \in requests : Serve(q) \/ Answered(q)
  \/ \E l \in loads : ReadEmployee(l) \/ Loaded(l)

FairSpec == Spec /\ WF_vars(Answers)

-----------------------------------------------------------------------------
(* Properties. *)

Values == 0 .. MaxRevisions
Docs == [settings : Values, skills : Values, projects : Values,
         state : {"active", "disabled", "archived"}]
Records == [rev : 1 .. MaxRevisions, doc : Docs]

\* The Employee page, its requests and the server's history are well typed.
TypeOK ==
  /\ \A r \in 1 .. Revision : history[r] \in Docs
  /\ record = None \/ record \in Records
  /\ dirty \in BOOLEAN /\ conflict \in BOOLEAN /\ busy \in BOOLEAN
  /\ skillDraft \in Values /\ projectDraft \in {None} \cup Values
  /\ \A q \in requests : q.rev \in 1 .. MaxRevisions /\ q.doc \in Docs /\ q.gone \in BOOLEAN
  /\ \A l \in loads : l.answer = None \/ l.answer \in Records

\* A write changes a group of fields only to a value its writer entered: what
\* another writer saved is never put back to an older value, whatever mixture
\* of records and revisions the page has collected (expected_revision).  The
\* group whose own draft is saved is left out: a load that is answered late puts
\* an older draft under a newer revision, and saving it undoes what was saved in
\* between (see the README).
SavesDraftOf(g) ==
  \E q \in requests \ requests' : q.step = "sent" /\ q.kind = g

KeepsOthers ==
  \A g \in Groups \ {"state"} :
    \/ history'[Len(history')][g] \in {history[Revision][g], Len(history')}
    \/ SavesDraftOf(g)

NoLostUpdate == [][KeepsOthers]_vars

\* A page that does not warn before it is left shows exactly one revision of
\* the server and no mixture of two, however late an older load or another
\* write is answered (EmployeeDetailPage dirty, setRecord).
CleanIsServers ==
  record # None /\ ~dirty => record.doc = history[record.rev]

\* A write that is accepted changes the state of the Employee only from the one
\* its confirmation showed (lifecycle captures employee.revision).
ConfirmedFromShown ==
  \A q \in requests :
    q.kind \in Lifecycle /\ q.step = "done" =>
      history[q.answer.rev - 1].state = q.doc.state

\* The buttons come back: every write that locks the page ends (the finally
\* blocks of mutate and saveEmployee).
BusyEnds == busy ~> ~busy

\* After a conflict "Your input is preserved; review it before reloading":
\* settings the server has refused stay on the page until the Owner reloads,
\* leaves or sends them again (EmployeeDetailPage.tsx:256).
InputIsPreserved ==
  [][record # None /\ conflict /\ record.doc.settings = Edit
       /\ record' # None /\ record'.doc.settings # Edit
       => (\E l \in loads \ loads' : l.asked) \/ requests' # requests]_vars
=============================================================================
