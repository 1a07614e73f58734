------------------------------ MODULE SessionView ------------------------------
(* A Session as the Go side builds it over its Runs and as GET and POST of    *)
(* /api/sessions write it, and the web client's decoders, which accept or     *)
(* refuse the whole document.  A text is its number of bytes; a Go nil slice  *)
(* is Null, which is how encoding/json writes it.                             *)
EXTENDS Integers, Sequences, TLC

CONSTANTS
  Null,
  MaxRuns, MaxTools   \* bounds: Runs of a Session; tool calls of a Session

VARIABLES session

vars == <<session>>

Short == 80
Long == 4097     \* no bound of the Go side applies to the text of an error
Huge == 65537    \* nor to the last message of a Run

-----------------------------------------------------------------------------
(* The control plane. *)

Add(list, item) == IF list = Null THEN <<item>> ELSE Append(list, item)

Size(list) == IF list = Null THEN 0 ELSE Len(list)

Last(list) == list[Len(list)]

Parts == {"company", "access", "model", "agent"}

Event(type, error) == [type |-> type, error |-> error, sequence |-> 1]

\* New and NewConversation leave the lists nil, NewPrepared makes them.
New(kind, list, selection, team) ==
  [kind |-> kind, team |-> team, selection |-> selection, runs |-> list, tools |-> list,
   completed |-> list, pending |-> list, tests |-> list, error |-> 0, mission |-> Null,
   approvals |-> <<>>, messages |-> Null, event |-> Null]

Init == session = Null

CreateSession ==
  \E team \in BOOLEAN : session' = New("web", Null, Parts, team)

\* hermit run
RunTask == session' = New("task", Null, {}, FALSE)

PrepareUnlisted == session' = New("prepared", Null, Parts, FALSE)

Prepare == session' = New("prepared", <<>>, Parts, FALSE)

Create == session = Null /\ (CreateSession \/ RunTask \/ Prepare)

Run == Last(session.runs)

Is(statuses) ==
  session # Null /\ Size(session.runs) > 0 /\ Run.status \in statuses

Active == Is({"queued", "running", "verifying", "interrupted"})

\* The Session with its last Run changed, and the event the change is committed with.
With(run, event) ==
  [session EXCEPT !.runs[Len(session.runs)] = run, !.event = event]

Mission(status) ==
  [status |-> status, work |-> [role \in {"builder", "verifier"} |-> "queued"],
   handoffs |-> Null, error |-> 0]

Start ==
  /\ session # Null /\ ~Active
  /\ Size(session.runs) < MaxRuns
  /\ session' = [session EXCEPT
       !.runs = Add(@, [status |-> "queued", error |-> 0, final |-> 0,
                        plan |-> [status |-> "active", step |-> "pending"]]),
       !.messages = Add(@, Short),
       !.mission = IF session.team THEN Mission("queued") ELSE Null,
       !.event = Event("plan_created", 0)]

\* What is pending when a Run ends expires.
Expired(approvals) ==
  [i \in DOMAIN approvals |-> IF approvals[i] = "pending" THEN "expired" ELSE approvals[i]]

\* Also how an interrupted Run is resumed.
Begin ==
  /\ Is({"queued", "interrupted"})
  /\ session' = [With([Run EXCEPT !.status = "running", !.plan.step = "in_progress"],
                      Event("task_started", 0))
                 EXCEPT !.approvals = IF Is({"interrupted"}) THEN Expired(@) ELSE @,
                        !.mission = IF @ = Null THEN Null ELSE [@ EXCEPT !.status = "running"]]

Calling == Size(session.tools) > 0 /\ Last(session.tools) = "started"

CallTool ==
  /\ Is({"running"}) /\ ~session.team /\ ~Calling
  /\ Size(session.tools) < MaxTools
  /\ session' = [session EXCEPT !.tools = Add(@, "started"), !.event = Event("tool_started", 0)]

\* A call of test.run leaves a result, without an exit code.
ToolCalled ==
  /\ Is({"running"}) /\ ~session.team /\ Calling
  /\ \E test \in BOOLEAN :
       session' = [session EXCEPT
         !.tools[Len(session.tools)] = "completed",
         !.tests = IF test THEN Add(@, 0) ELSE @,
         !.event = Event("tool_completed", 0)]

Verify ==
  /\ Is({"running"}) /\ ~session.team /\ ~Calling
  /\ session' = With([Run EXCEPT !.status = "verifying"], Event("run_verifying", 0))

VerifyFails ==
  /\ Is({"verifying"})
  /\ session' = [With([Run EXCEPT !.status = "running"], Event("plan_updated", 0))
                 EXCEPT !.pending = <<Short>>]

Delivered(final) ==
  [Run EXCEPT !.status = "completed", !.final = final,
              !.plan = [status |-> "completed", step |-> "completed"]]

\* complete
Complete ==
  /\ Is({"verifying"})
  /\ \E final \in {Short, Huge} :
       session' = [With(Delivered(final), Event("task_completed", 0))
                   EXCEPT !.error = 0, !.completed = Add(@, Short), !.pending = Null,
                          !.messages = Add(@, final), !.approvals = Expired(@)]

\* Mission.Fail clips its text at 32 KiB.
Stopped(mission, running, queued, status, error) ==
  IF mission = Null THEN Null
  ELSE [mission EXCEPT !.status = status, !.error = error,
          !.work = [role \in DOMAIN @ |->
                     CASE @[role] = "running" -> running
                       [] @[role] = "queued" -> queued
                       [] OTHER -> @[role]]]

\* fail and failLaunchedRun
Fail ==
  /\ Is({"running", "verifying"})
  /\ \E error \in {Short, Long} :
       session' = [With([Run EXCEPT !.status = "failed", !.error = error,
                                    !.plan = [status |-> "failed", step |-> "failed"]],
                        Event("task_failed", error))
                   EXCEPT !.error = error, !.approvals = Expired(@),
                          !.mission = Stopped(@, "failed", "queued", "failed", error)]

Interrupted(event) ==
  [With([Run EXCEPT !.status = "interrupted", !.error = Short], event)
   EXCEPT !.mission = Stopped(@, "interrupted", "queued", "interrupted", Short)]

TimesOut ==
  /\ Is({"running", "verifying"})
  /\ session' = [Interrupted(Event("run_interrupted", Short))
                 EXCEPT !.error = Short, !.approvals = Expired(@)]

\* The server was restarted: Recover does not say of the call under way how it ended.
Recover ==
  /\ Is({"queued", "running", "verifying"})
  /\ session' = [Interrupted(session.event)
                 EXCEPT !.tools = IF Calling THEN [@ EXCEPT ![Len(@)] = "uncertain"] ELSE @]

Cancelled(error) ==
  With([Run EXCEPT !.status = "cancelled", !.error = error,
                   !.plan = [status |-> "cancelled", step |-> "cancelled"]],
       Event("task_cancelled", error))

\* A plan that waits for its review is cancelled without the Runner.
Cancel ==
  \/ Is({"queued"}) /\ session' = Cancelled(Run.error)
  \/ /\ Is({"running", "verifying"})
     /\ session' = [Cancelled(Short)
                    EXCEPT !.error = Short, !.approvals = Expired(@),
                           !.mission = Stopped(@, "cancelled", "cancelled", "cancelled", Short)]

-----------------------------------------------------------------------------
(* A team, and approvals. *)

Works(role, from, to) ==
  session.mission.work[role] = from /\ Is({"running"}) /\ session.team
  /\ session' = [session EXCEPT !.mission.work[role] = to, !.event = Event("work_item_started", 0)]

\* A builder that repairs is skipped when nothing blocks.
TeamWorks ==
  /\ session # Null /\ session.mission # Null
  /\ \/ \E role \in {"builder", "verifier"}, from \in {"queued", "interrupted"} :
          Works(role, from, "running")
     \/ Works("builder", "queued", "skipped")

\* A handoff holds up to 128 findings and files; the checks of a recipe that
\* did not run have exit code -1.
HandsOff ==
  /\ session # Null /\ session.mission # Null /\ Is({"running"})
  /\ \E role \in {"builder", "verifier"}, evidence \in {<<0, 0>>, <<128, 1>>, <<0, -1>>} :
       /\ session.mission.work[role] = "running"
       /\ session' = [session EXCEPT
            !.mission.work[role] = "completed",
            !.mission.handoffs =
              Add(@, [role |-> role, findings |-> evidence[1], exit |-> evidence[2]]),
            !.event = Event("work_item_completed", 0)]

\* executeTeamRun leaves pending_steps as they are.
TeamComplete ==
  /\ session # Null /\ session.mission # Null /\ Is({"running"})
  /\ \A role \in DOMAIN session.mission.work :
       session.mission.work[role] \in {"completed", "skipped"}
  /\ LET exits == [i \in DOMAIN session.mission.handoffs |-> session.mission.handoffs[i].exit]
     IN  session' = [With(Delivered(Short), Event("task_completed", 0))
                     EXCEPT !.mission.status = "completed", !.error = 0,
                            !.tests = IF @ = Null THEN exits ELSE @ \o exits,
                            !.completed = Add(@, Short), !.messages = Add(@, Short),
                            !.approvals = Expired(@)]

RequestApproval ==
  /\ Is({"running"}) /\ session.approvals = <<>>
  /\ session' = [session EXCEPT !.approvals = <<"pending">>,
                                !.event = Event("approval_requested", 0)]

Decided == "pending" :> {"approved", "denied", "expired"} @@ "approved" :> {"consumed", "expired"}

DecideApproval ==
  /\ session # Null /\ session.approvals # <<>> /\ session.approvals[1] \in DOMAIN Decided
  /\ \E status \in Decided[session.approvals[1]] :
       session' = [session EXCEPT
         !.approvals = <<status>>,
         !.event = Event(CASE status = "expired" -> "approval_expired"
                           [] status = "consumed" -> "approval_consumed"
                           [] OTHER -> "approval_decided", 0)]

Next ==
  \/ Create \/ Start \/ Begin \/ CallTool \/ ToolCalled \/ Verify \/ VerifyFails \/ Complete
  \/ Fail \/ TimesOut \/ Cancel \/ Recover
  \/ TeamWorks \/ HandsOff \/ TeamComplete \/ RequestApproval \/ DecideApproval

Spec == Init /\ [][Next]_vars

-----------------------------------------------------------------------------
(* The decoders of the web client: each says whether it accepts a document.   *)

MAX_TEXT == 65536
MAX_COLLECTION == 500
MAX_SMALL_COLLECTION == 100
MAX_SESSION_RECORDS == 8192

string(bytes, max) == bytes <= max
integer(value) == value >= 0
array(value, max) == value # Null /\ Len(value) <= max

SESSION_STATUSES == {"open", "archived", "running", "completed", "failed", "cancelled"}
RUN_STATUSES ==
  {"queued", "running", "verifying", "completed", "failed", "cancelled", "interrupted"}
PLAN_STATUSES == {"active", "completed", "failed", "cancelled"}
PLAN_STEP_STATUSES == {"pending", "in_progress", "completed", "failed", "cancelled"}
TEAM_ROLES == {"lead", "explorer", "builder", "reviewer", "verifier", "operator"}
MISSION_STATUSES == {"queued", "running", "completed", "failed", "cancelled", "interrupted"}
WorkUnskipped == MISSION_STATUSES
WORK_STATUSES == MISSION_STATUSES \cup {"skipped"}
APPROVAL_STATUSES == {"pending", "approved", "denied", "expired", "consumed"}
RUNTIME_EVENT_TYPES ==
  {"plan_created", "plan_updated", "task_started", "task_completed", "task_failed",
   "task_cancelled", "run_verifying", "run_interrupted", "tool_started", "tool_completed",
   "work_item_started", "work_item_completed", "approval_requested", "approval_decided",
   "approval_expired", "approval_consumed"}

\* A selection is empty, of a Session older than selections, or whole.
decodeSessionSelection(selection) == selection = {} \/ selection = Parts

decodeMessage(bytes) == string(bytes, MAX_TEXT)

decodePlan(plan) == plan.status \in PLAN_STATUSES /\ plan.step \in PLAN_STEP_STATUSES

decodeRun(run) ==
  /\ run.status \in RUN_STATUSES /\ decodePlan(run.plan)
  /\ string(run.final, MAX_TEXT) /\ string(run.error, 4096)

decodeToolRecord(status) == status \in {"", "started", "completed", "uncertain"}

decodeTestResult(exit) == integer(exit)

decodeWorkItem(role, status) == role \in TEAM_ROLES /\ status \in WORK_STATUSES

decodeHandoff(handoff) ==
  handoff.role \in TEAM_ROLES /\ handoff.findings <= MAX_SMALL_COLLECTION /\ integer(handoff.exit)

decodeMission(mission) ==
  /\ mission.status \in MISSION_STATUSES /\ string(mission.error, 4096)
  /\ \A role \in DOMAIN mission.work : decodeWorkItem(role, mission.work[role])
  /\ array(mission.handoffs, MAX_SESSION_RECORDS)
  /\ \A i \in DOMAIN mission.handoffs : decodeHandoff(mission.handoffs[i])

decodeApproval(status) == status \in APPROVAL_STATUSES

\* List(value, ok) == array of items each of which its decoder accepts.
List(value, Item(_)) ==
  array(value, MAX_SESSION_RECORDS) /\ \A i \in DOMAIN value : Item(value[i])

decodeSession(document) ==
  /\ decodeSessionSelection(document.selection)
  /\ List(document.runs, decodeRun)
  /\ List(document.tools, decodeToolRecord)
  /\ List(document.completed, decodeMessage) /\ List(document.pending, decodeMessage)
  /\ List(document.tests, decodeTestResult)
  /\ string(document.error, 4096)
  /\ document.mission = Null \/ decodeMission(document.mission)
  /\ List(document.approvals, decodeApproval)

\* POST answers the Session, GET the Session with its messages.
decodeSessionDetail(document) ==
  decodeSession(document) /\ List(document.messages, decodeMessage)

decodeSessionSummary(document) ==
  /\ decodeSessionSelection(document.selection)
  /\ Size(document.runs) = 0 \/ Last(document.runs).status \in RUN_STATUSES

decodeRuntimeEvent(event) ==
  event.type \in RUNTIME_EVENT_TYPES /\ event.sequence >= 1 /\ string(event.error, 4096)

-----------------------------------------------------------------------------
(* Properties *)

\* The history of the Sessions stays readable (docs/architecture.md): every
\* Session that was created can be opened.
EverySessionIsReadable == session = Null \/ decodeSessionDetail(session)

\* A list that Go never made, or one that agent.complete dropped.
HasNull ==
  \/ \E list \in {"runs", "tools", "completed", "pending", "tests", "messages"} :
       session[list] = Null
  \/ session.mission # Null /\ session.mission.handoffs = Null

\* The Session with these lists empty, and with the values that have no bound
\* on the Go side, or a wider one than the client's, within it.
Made(list) == IF list = Null THEN <<>> ELSE list
Capped(bytes, max) == IF bytes > max THEN max ELSE bytes
Exit(code) == IF code < 0 THEN 0 ELSE code

MendedHandoff(handoff) ==
  [handoff EXCEPT !.findings = Capped(@, MAX_SMALL_COLLECTION), !.exit = Exit(@)]

MendedMission(mission) ==
  [mission EXCEPT !.error = Capped(@, 4096),
                  !.handoffs = [i \in DOMAIN Made(@) |-> MendedHandoff(@[i])]]

MendedRun(run) == [run EXCEPT !.error = Capped(@, 4096), !.final = Capped(@, MAX_TEXT)]

Mended ==
  [session EXCEPT
     !.runs = [i \in DOMAIN Made(@) |-> MendedRun(@[i])],
     !.tests = [i \in DOMAIN Made(@) |-> Exit(@[i])],
     !.tools = Made(@), !.completed = Made(@), !.pending = Made(@),
     !.messages = [i \in DOMAIN Made(@) |-> Capped(@[i], MAX_TEXT)],
     !.error = Capped(@, 4096),
     !.mission = IF @ = Null THEN Null ELSE MendedMission(@)]

\* Every status, role, kind of event and selection that the control plane writes
\* is one the client knows: a Session is refused only for its lists that are
\* null and its values past the client's bounds, an event only for its text,
\* and the entry of a Session in the list never (decodeSession).
RefusedForKnownCauses ==
  session # Null =>
    /\ decodeSessionDetail(Mended)
    /\ decodeSessionSummary(session)
    /\ session.event = Null \/ decodeRuntimeEvent(session.event) \/ session.event.error > 4096

\* A Session prepared for an EmployeeTask has all its lists from its first
\* message until a Run completes, through failures, restarts and resumptions.
PreparedHasItsLists ==
  session # Null /\ session.kind = "prepared" /\ session.messages # Null
    => \/ ~HasNull
       \/ \E i \in DOMAIN session.runs : session.runs[i].status = "completed"

=============================================================================
