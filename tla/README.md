# GoHermit: TLA+ models

GoHermit is a local agent workbench: a server written in Go that runs agents on
a workspace, and a web client in TypeScript. This directory holds TLA+ models of
its core logic, the TLC configurations that check them on small instances, and
TLAPS proofs of what matters most. Every definition names the source lines it
stands for in `PROJECT.json` (`map`).

## Inventory

The server:

| Part | State | Operations | Hard behaviour | What makes it correct |
|---|---|---|---|---|
| Team mission (`team/team.go`) | work items (status, attempt, dependencies), handoffs, usage | AddWork, Start, Complete, Fail, FailMission, Interrupt, Cancel, RequeueAfterVerification, SkipRepairsAfterReview, AddSubsteps | items reopened after they were done; substeps that extend a running graph | acyclic graph, bounded repair loop, one writer |
| Coordinator (`team/coordinator.go`) | one invocation of `Run`: batch, worker goroutines, results channel, first error, context | Run, runBatch, selectBatch, emit, checkpoint | outcomes in any order, cancellation and timeout at any moment, failing checkpoints | the lead speaks on verified work only; every worker is drained; Run returns |
| Session store (`session`) | checkpoint, commit journal, event file, sequence counter | Save, CommitEvents, CommitDetachedEvent, Load, Recover, ReserveModelCall | crash between any two writes, several processes and stale copies | events appear once, in order; a commit is atomic; a call budget is never exceeded |
| Control plane (`controlplane/service.go`, `runs.go`) | run gate, active runs and their cancel functions | StartRun, ResumeRun, ApprovePlan, CancelRun, launch | stale copies read before the gate | one Run at a time; a terminal status is final |
| Approvals (`approval`, `agent/approvals.go`, `controlplane/approvals.go`) | requests (pending, decided, consumed, expired), waiters | Create, Decide, Consume, Expire*, Wait, DecideApproval | decision against timeout, expiry, restart | a decision is consumed at most once and before the effect it allows |
| Employee Tasks and dispatch (`employeestore/tasks.go`, `dispatch.go`, `controlplane/employee_execution.go`) | task file, index, dispatch journal, session, Run | CreateTask, CancelTask, BindTask, PrepareDispatch, Mark*, Complete, Start, Resume | crash between any two files | one Run per Task, whatever crashes |
| Notifications (`notification`, `controlplane/service.go`, `notifications.go`) | marker in the Session, report file, channels | notifyTerminalCompletion, RetryReport, Deliver | the same report delivered by the end of a Run, every read and a retry | one message; "sent" means delivered |
| Task board document (`controlplane/task_board.go`) | one file with all cards, no revision | load the whole, change a card, save the whole, without a lock or a comparison | concurrent updates: what was saved in between is lost | a Task is not in progress unless it was started |
| Task plan (`taskplan`), run control (`runcontrol`), Team runs (`controlplane/team.go`, `app/team_worker.go`) | plan beside the mission, child sessions | Team events, Sink, Checkpoint, finish, fail | a requeued item meets its old child session | plan and mission agree |
| Agent runner (`agent`) | turn, tool records, completion candidate | Run, executeTool, verifyCandidate, complete, stop, fail | resume in the middle of a turn | a recorded tool call is not repeated |
| Loops (`loop`, `loopstore`, `controlplane/invocations.go`, `employee_loops.go`) | definitions, invocations, schedule | Prepare, Dispatch, Attach, reconcile, cancel, RunDueLoops | crash between dispatch and attach; claim before dispatch | an invocation reflects its Run |
| Plugin client (`plugin/client.go`) | pending requests, process state | call, readLoop, fail, Close | late responses, end of the process | every call ends exactly once |
| Employees, Knowledge, skills, memory, model providers, tools, context manager, templates, configuration | files and text | parsing, ranking, HTTP | - | data, not protocol |

The web client (`src/web/src`):

| Part | State | Operations | Hard behaviour | What makes it correct |
|---|---|---|---|---|
| Session stream (`api/sessionEvents.ts`, `hooks/useSessionEvents.ts`, `features/agent/AgentPage.tsx`) | one EventSource, high-water mark, text under way, the Session shown | events, refresh, submit, cancel | gaps, repeats, reconnections beside reads under way | nothing is missed that no read covers; the page ends with the truth |
| HTTP client and decoders (`api/client.ts`, `endpoints.ts`, `decoders.ts`) | one request: timer, stream, size, outcome | validate, send, read, decode, time out, abort | a body cut in a character, past its bound or answered without content | success is a whole valid answer; nothing stays open |
| Shell and Session creation (`state/`, `layouts/`, `AgentHome`) | heartbeat, lists, form | check, reload, create | outages under a load, answers that cross | the banner is true, lists do not go back |
| Task board (`features/tasks/board`) | cards, candidate of a start, generation | drag, confirm, start, save | a lost answer, another Task dropped meanwhile | one execution of what the Owner confirmed |
| Employee page and wizard (`features/employees`) | record with revision, drafts, dialogs, tabs | edit, activate, archive, upload, create chain | two tabs on one revision; four requests of which any may fail | no edit is overwritten unseen; one Employee |
| Settings (`features/settings`) | profile, facts, keys, login under way | save, forget, poll | a mutation beside another; a poll that fails | one mutation, keys do not stay |
| Task form and page (`features/tasks`) | dependent selections, Task, busy flag | create, prepare, start, resume, cancel, decide | answers of a selection left; events under a mutation | the Task is what the form showed |
| Loops (`features/loops`) | definition with revision, dry run, history, invocation | create, edit, dry run, start, cancel, decide | a report of an older revision | a Loop starts once and as seen |
| Report center (`features/reports`) | report list, retry | retry | retry beside reads that deliver | "sent" is delivered |
| Other pages, texts, layout, theme | - | read, render | - | data, not protocol |

Interaction: the control plane starts a goroutine per Run; for a Team goal it
builds a mission and calls `Coordinator.Run`, which calls a worker per item (a
hidden child session run by the agent runner), and reports each change through
two callbacks, `Sink` and `Checkpoint`. The Employee and Loop parts create
sessions and Runs through the control plane and later read their outcome back. A
Runner that needs an approval checkpoints the request, registers a waiter and
sleeps until the broker hands it a decision. The web client calls the control
plane over HTTP, one request per operation, and follows the active Session over
one event stream; what it shows is what it read last, and the events tell it when to
read again. It carries the revisions it was shown, and the server refuses a
mutation whose revision is old.

## Modules

Server:

| Module | Models | State and actions |
|---|---|---|
| `Mission` | every method of `Mission` that changes the graph, `ValidateSubstepProposal`, the topologies of `AdaptiveMission` and the verification predicates | operators on `work`, a function from the ids present to `[status, attempt, deps]` |
| `Coordinator` | one invocation of `Coordinator.Run` with `runBatch` | `pc` is where the coordinator goroutine stands; `todo`, `live`, `outcomes` are the items of a batch not launched, being executed, and reported; an action is the code between two checkpoints |
| `SessionStore` | `Save`, `CommitEvents`, `CommitDetachedEvent`, `ReserveModelCall` and `Load` of one session | `journal`, `ckpt`, `file` are the files, `counter` and `pending` the store's memory, `owner` the Run's copy; `holder` has the mutex and `stage` is the next file operation |
| `DurableLog` | what the store promises: one atomic record of a Session version and its events | abstract specification |
| `SessionLog` | the store as an implementation of `DurableLog` | the refinement mapping: `Log` is the event file with what the journal will add to it, `Sure` the last acknowledged event in it |
| `RunGate` | `StartRun`, `ResumeRun`, `ApprovePlan`, `CancelRun`, `launchSessionRunConfigured`, the Runner's status changes and the recovery at startup, for the Runs of one Session | `disk` is the checkpoint, `calls` the calls under way with the copy each has read, `gate` and `target` are `Service.active` and `activeRun`, `runner` the goroutine with its copy; `used`, `late`, `accepted`, `refused` record what happened to the Runs |
| `Approvals` | the requests of one Run: the broker, the Runner that waits and consumes, `DecideApproval` with and without a waiter, expiry, `ResumeRun`, restart | `server` holds the checkpoint, the Runner's copy and place and the broker's waiters; `requests` the decisions and resumes under way with the copy of the Session each has read and will write whole |
| `Dispatch` | `StartEmployeeTask`, `ResumeEmployeeTask`, `CancelEmployeeTask` and a Loop's `PrepareEmployeeTask`, write by write, for Tasks of one Employee | `server` holds task files, index, journals, Sessions, and the Runner with its copy of one; `requests` the calls under way with the Session each has loaded; `crossed` remembers the Tasks the Owner called for while a Loop prepared them |
| `LoopRuns` | the invocations of one Loop from the first save to the last, manual and scheduled, their reconciliation and cancellation, the runtime state with its frontier, `RunDueLoops` | `server` holds definition, invocation files, Runs and runtime state; `requests` the starts and cancellations under way with the copy each has; time is the number of occurrences that have passed |
| `SessionView` | the Sessions and events the control plane writes, as `encoding/json` emits them and as `decodeSession` and `decodeSessionEvent` accept them | one action per operation that changes a Session; a `null` list is a value of its own |
| `Notifications` | `notifyTerminalCompletion` on its three paths, the marker, the report file and both channels, with the report page's retry | `server` has marker, report, mutex and messages, `page` the row that is shown |
| `MCTopologies`, `MCCoordinator`, `MCSessionStore`, `MCRunGate`, `MCServer` | instances for TLC; `MCSessionStore` is the store alone and beside workers, `MCServer` looks at one part of the control plane at a time | - |

Web client. Most of these are one page with its server: `server` is what it
reads and writes, `page` what the component holds, `requests` the requests under
way, each with what it carried and, once the server has handled it, what it answers; handling and
answering are two actions, so that answers cross, and a request may fail before
or after it took effect.

| Module | Models | State and actions |
|---|---|---|
| `SessionEvents` | the shared EventSource with the Session page beside it | `stream` the connection and its mark, `text` the streamed text with the updates React has not rendered yet, `page` what is shown and its request; events are lost, repeated and garbled, and skipped by a server whose channel is full |
| `ApiClient` | every endpoint with its path, method, timeout and bound; one request from the validation of its parameters to its outcome | `request` is its place, the bytes held, timer, stream and outcome |
| `AgentHome` | `ConnectivityProvider`, `AgentDataProvider`, the Agent home page | heartbeat, lists with their version, the page that submits |
| `TaskBoard` | `useTaskBoard` and the board document at the server | cards with state and column, the Tasks the page has in its list, which may be old, the candidate and its generation, any number of starts and saves under way; a save loads and stores the document in two steps |
| `EmployeeEditor`, `EmployeeTabs` | `EmployeeDetailPage` | its settings with revisions and dialogs; its tabs with Knowledge, Memory and Activity |
| `EmployeeWizard` | the wizard, quick and guided | the step, the draft, what each request of the chain did |
| `OwnerSettings` | `SettingsPage` | `busyRef`, profile, facts, keys, login and poll |
| `TaskForm`, `TaskPage` | the form in `TasksWorkbench` and the page of a Task | selections with `contextEpoch`; the Task read last, `epochRef`, busy |
| `LoopConsole`, `LoopInvocation` | `LoopsPage`: list, creation, a Loop's page; the page of an invocation | definition with revision, report, history; invocation, decisions |
| `MCWebPages` | the pages above, one open at a time, each with an instance of its module | `mounted` is the page; `App.tsx` mounts a page afresh for each path |

Proofs: `CoordinatorProofs`, `SessionStoreProofs`, `RunGateProofs`, `ApprovalsProofs`,
`DispatchProofs`, `LoopRunsProofs`, `NotificationsProofs`, `SessionEventsProofs`.

How the model follows the code:

* `Coordinator`: `Init` is a fresh mission. A Run that is resumed after an interruption calls
  `Run` with a mission whose running items are `interrupted`; that entry is left
  to the Team Run model of the plan below.
* A worker (`Worker.Execute`) is outside the coordinator: `WorkerFinish` may
  report any result its role can report, any cost in `CallCosts`, and a context
  error at any time, since each worker has a timeout and shares the batch's
  cancel function.
* Checkpoint is the callback of the control plane; every call of it may fail,
  and each action says what the code does then.
* `CtxEnds` is the owner's cancellation or the mission deadline. It may happen
  between any two steps.
* A store operation takes the mutex with its first action and then advances one
  file operation at a time, so that a fault or a crash can come between any two.
  An operation that fails may or may not have had its effect on the file (a
  rename that took effect before the directory was synced); `appendEvents` may
  have written whole lines and, with `ShortWrites`, half a line. `Load` releases
  the mutex before it reads the checkpoint (`session.go:942`), so its two file
  accesses are actions of their own that interleave with the next commit.
* A Session of the store is what the store does with it: a version that its owner advances,
  the count of model calls and the next sequence number. An event carries the
  version it reports about.
* A call of the control plane reads the Session with its first action and keeps
  the copy; it commits that copy with a later one, so every other call, the
  Runner and a restart can come between. What runs under `runMu` (the launch,
  and the decision of `CancelRun`) is one action. The Runner has the copy it was
  launched with and writes it whole with each commit, as `CommitEvents` does. A
  commit that fails may have had its effect (`SessionStore` says how). `Running`
  stands for running and verifying; of a Session only the status of its Runs,
  their approval and the active one are kept. The Team, Employee and Loop
  launches go through the same function and differ in what executes.
* `Approvals` and `Dispatch` take one step per file that is written, a failure or
  a restart between any two. The Session is written whole there too: a decision without a
  waiter, a resume and a Loop save the copy they loaded, over whatever was stored since.
* In `SessionEvents` an event that the server does not send again to a stream that stays open is
  in `missed` (the channel was full, or its Run is not the one the page listens to), and a piece
  of text it skipped in `gaps`: histories that no action reads. The updaters of the text run in
  `Render`, any time after they were queued; which piece makes the text too long is left open.
* In the web modules an action of the Owner is the event handler up to its first
  `await`, guarded by what makes the control enabled in the JSX; an answer is
  the code after the `await`, with its checks of epochs, generations and abort
  signals, and its `catch` and `finally`. Revisions and versions are small
  numbers, texts and ids model values. The server side of a page is the
  comparison, the write and the events the handler makes, from `controlplane`.
* Abstracted: titles, goals and error texts, timestamps, the Employee pinned by
  `PrepareAssignment`, token budgets (handled by the same comparisons as the
  calls), the context text handed to a worker, layout and language.

## Runs

| Run | Instance | Question |
|---|---|---|
| `team_coding` | the topology of a coding goal (explore, preflight, build, review, repair, verify, lead) and an Explorer that may add a second verifier or a substep that waits for the lead; one verifier result each way, 2 attempts, 3 workers | does the lead wait for verification, are the repair loops bounded when two verifiers reopen each other's inputs, is finished work reopened only for cause, does every invocation return |
| `team_topologies` | a graph built with `AddWork` (two writers ready at once, a lead without a verifier, a substep that waits for the lead) under a small budget, role limit and handoff cap; and the mission of a question, with substep chains and cycles | the writer lease, the batch, overshoot of the budget, nothing left running; verdicts without checks, an acyclic graph |
| `store` | commits of 0 to 2 events, reservations, loads and detached commits beside the owner; two faults, half lines included | refinement of `DurableLog`; no event without its state; calls counted; each acknowledged event once and in order |
| `store_orphan` | a detached commit after a failed one | violation, see below |
| `gate_calls` | 2 Runs in review mode, any two calls at once, expired approvals, one fault | the gate is closed exactly while something executes; only approved plans execute; a cancellation hits its Run |
| `gate_resume` | 2 Runs, one call at a time, beside the Runner | violation, see below |
| `server` | one part at a time: the gate with 2 Runs, one call at a time and 2 faults; approvals with 2 requests, 2 launches and 1 call, and with 1 request, 2 calls and a fault; dispatch of 2 Tasks with a Loop and a fault, of 2 Tasks of which the Owner starts one that the Loop prepares, and of one such Task with 2 faults; one Loop with two days and a fault, with an update, with two manual starts, and with a manual start beside a day | an approval is worth one call and consumed before it; a Task is dispatched and an occurrence claimed once, whatever is cut off; what was begun ends |
| `web_stream` | 4 events and pieces of text, 2 faults, a channel of 2, undecodable events up to the limit | an event that was heard is shown or asked for; nothing goes back; a hole in the text is shown as one; the page ends current, flagged or passed over |
| `web_safety` | twelve pages and parts of the client, one at a time, one failing request (two on the Task page and the home page); Sessions with 2 Runs and one tool call, and the Tasks, boards and Loops, as the client decodes them | see the table of combined properties; what the client refuses is refused for the causes listed below |
| `web_liveness` | owner, form, task, loops, invocation, home, reports | what a page waits for arrives; a page that locked itself is unlocked |
| `approval_reverted` | one request, two decisions, no fault | violation, see below |
| `report_unsent` | the smallest instance | violation, see below |

TLC explores about half a million states in `team_coding`, one million in `store`, 0.8
million in `server`, 2 million in `web_stream` and in `web_safety`, and 4 million in
`gate_calls`. `AwaitedArrives` and `BusyEnds` hold on the board, employee, wizard and tabs
pages when these are checked alone, and the tabs also hold with three changes of the tab
(4.7 million states).

`MCServer`, `MCWebPages` and `MCTopologies` look at several instances in one run:
a variable that no action changes (`part`, `mounted`, `mission`) says which one a
behaviour is about, and each combined property is the conjunction of the
properties the modules define:

| Property | Conjuncts |
|---|---|
| `ApprovedOnce` | `OneEffectPerApproval`, `HeardOnce`, `WaitersHaveRunners` of `Approvals`, on both instances |
| `ConsumedBeforeEffect` | `OnlyConsumed` of `Approvals` |
| `DispatchedOnce` | `StagesAreDurable`, `LaunchedIsReconciled`, `StartedOnce`, `OneTaskEach` of `Dispatch`; `OccurrenceOnce`, `CountedOnce`, `ReflectsItsRun`, `RunIsRecorded` of `LoopRuns` |
| `RefusedForKnownCauses` | the property of that name and `PreparedHasItsLists` of `SessionView` |
| `BegunEnds` | the end of what gate, approvals, dispatch and Loops begin |
| `AtMostOnce` | board `OneExecution`, wizard `OneEmployeeEach`, reports `OncePerRecord`, owner `OneMutation`, form `OneCreation`, loops `OneStart`, invocation `OneDecision` |
| `ActsOnWhatIsShown` | board `StartsWhatIsWanted`; employee `ConfirmedFromShown`; wizard `SentIsValidated`; form `SentIsTheEmployees`, `OpensWhatIsShown`; loops `ReportIsOfSaved` |
| `ShownIsTrue` | board `MovedAfterStart`; employee `CleanIsServers`; wizard `ReadyIsSaved`; tabs `SettledIsTrue`, `ActivityIsAPrefix`; reports `SentIsDelivered`, `MarkedNeverFails`; home `NoFalseAlarm`; request `OutcomeIsTrue`, `ServedIsUnderstood` |
| `NothingLeftBehind` | request `HeldIsBounded`, `NothingLeftOpen`; owner `KeyIsTransient` |
| `NothingGoesBack` | employee `KeepsOthers`, task and home `NoStepBack` |
| `AwaitedArrives` | a pending login, the history after a start of a Loop, the lists after an outage, and `ShowsTheEnd` of task and invocation |
| `BusyEnds` | the busy flag of every page that has one |

Each conjunct was broken by a change of the code's model of its own; the modules keep those
changes as operators placed before the definition they are a variant of.

Runs say `CHECK_DEADLOCK FALSE` where the system comes to rest: an invocation of
`Run` that returned, bounds on events, versions and faults that leave nothing to
do (a Load that is refused for ever included), a Session whose Runs are used up or
that the code leaves stuck, a page on which nothing is left to click. That the
coordinator does return, and is not stuck before, is the property `Terminates`.

Bounds. The number of items is that of the real topologies plus at most two
proposed ones; `MaxParallel` is 3, the code's default (`coordinator.go:150-153`),
in the built-in topologies and 2 in the general graph, where a batch must leave
ready items behind; `MaxRepairAttempts` is 2, so that both the retry and the final
rejection occur. Costs are {1}, and {0, 1, 2} where the budget is the subject,
which is then small enough to be hit within one mission and elsewhere large
enough not to be. The store has 3 events, 4 versions and 2 faults: a commit
that fails, its retry or a detached commit that carries its events, and a crash
or a failing recovery of that. The gate has two calls because each property is
about a stale copy and what made it stale, two Runs because a successor is the
only other Run a call can meet, and two faults where a restart has to follow a
failing commit. Approvals have two calls for one request, or two requests with a resume, for the same
reason. Dispatch has two Tasks because an Employee may have one under way. A Loop has two occurrences
or two invocations, since what can go wrong is that one of them is taken for the other; the Loop
pieces were also checked with two of each and two faults (3.8 million states). The pages
have two of what can be confused (Tasks, Employees, revisions, tabs, Runs, Sessions)
and one lost answer, after which the Owner asks again; `MaxEpochs`, `MaxVersions`,
`MaxDrops`, `MaxRequests`, `MaxWrites` only end the play. The theorems hold for any bounds.

No constant turns a behaviour of the code off: stale copies, overlapping calls, slow answers
and a full channel are in every instance. A property the code does not keep there names its
exception (`crossed`, `overwritten`, `missed`, `disturbed`, `SavesDraftOf`, `told`), and the
exception is in the list below.

Fairness. `WF(RunStep)`: the coordinator goroutine is never blocked except on
the results channel, which is buffered for the batch. `WF(WorkerStep)`: every
worker runs under a context with a timeout, so it reports in the end. No
fairness on `CtxEnds`: nobody has to cancel. In the store `WF(Holder)` and
`WF(Reader)`: an operation under the mutex only does file operations, which
return. `SF(Load)`: sessions are loaded again and again (`service.New` loads all of
them at a start, every request loads one), so a Load that is possible infinitely
often, between other holders of the mutex, happens. Faults are bounded, not fair.
At the gate `WF` of `Begin`, `StopCancelled`, `StopLate` and `Release`: the Runner's
goroutine is scheduled, looks at its context before every turn and passes it to
every model and tool call; of `Deadline`: a clock reaches it; and of `ReleaseRun`: a
one-shot run returns. Nobody has to call, and nothing has to complete. The Runner
that waits for an approval and the steps of a dispatch are weakly fair for the same
reasons; `SF` of a start of each Task says that an Owner who is refused tries again,
which `BegunEnds` needs for a dispatch that was cut off, and of a Loop's step that it
gets the Employee some time when others hold it in turn. The steps of a Loop's starts, the
scheduler, which is a ticker, and `GetInvocation`, which the page of an invocation polls,
are weakly fair; the Runs of a Loop need not end. On the pages, `WF` of answers: `apiRequest` ends
each request with an answer or a timeout; of the polls and heartbeats: timers
fire; of the events: the server publishes what it committed. `SF` of the
heartbeat that succeeds: outages end. No click is fair.

## Disagreements found

Each of the first four is the violation of a run and quotes the sentence that is contradicted.

`store_orphan`: the events of a failed `CommitEvents` stay in `Store.pending`; a
`CommitDetachedEvent` before the owner's retry writes them with the checkpoint on
disk, which lacks the change they report (`session.go:603-624`). A crash then
leaves an event of a state that never became durable. ADR 0010 (line 13) and the
comment at `session.go:547` promise an event batch together with its checkpoint.
With a single committer (`CommitsImplyState`) it holds.

`gate_resume`: `Recover` loads, marks the active Run as interrupted, whatever it is
doing, and saves (`session.go:1041-1063`), with no lock across and no look at the
gate. A resume under way while a cancellation is committed brings the Run back
and executes it again, though a cancellation is terminal
(`docs/ai/handoff-v0.3.md:40`).

`approval_reverted`: `DecideApproval` loads the Session and looks for a waiter afterwards. If
there is none, or none any more, it decides the copy it loaded and saves the whole of it
(`controlplane/approvals.go:149`, `167`, `218`), with no comparison. The request that another
decision had the Runner consume is stored as decided again, though a consumption is
"irreversible" (`approval.go:195-196`), and the comment at `controlplane/approvals.go:144-147`
says that the only race fails closed. The tool still runs once for an approval
(`OneCallPerApproval`), since the Runner works on its own copy.

`report_unsent`: with mail on and OpenClaw off `Notifications` marks a report sent though the mail
was not tried. With both channels on (`ShownIsTrue`) it holds.

The others are in the models, as properties the modules define and no run lists, as
exceptions that a property names, or as results of an action.

Team and gate:

* A substep may depend on the queued lead (`team.go:434-437`); `AddSubsteps` then makes the lead
  depend on it (`team.go:494-499`), so the two wait for each other. The comments at
  `team.go:380-381` and `440-441` say the combined graph stays acyclic. The mission
  fails with "mission has no runnable work items"; `NeverStuck` is
  conditional on `AcyclicWork`. Without such a substep neither happens (`SubstepsCloseNoCycle`,
  `StuckBranchIsDead`).
* Two starts sent together load the same Session. When the first Run is over before
  the second launch takes the gate, the second commits its old copy and the
  first Run is gone (`runs.go:81`, `244`; `docs/ai/harness.md:8`). `RunsAreKept` is violated with two
  calls and holds with one.
* The recovery at startup interrupts a Run that waits for review, which then can be
  neither approved, nor cancelled, nor executed by a resume (`session.go:1046`,
  `runs.go:128`, `167`, `316`; `docs/ai/harness.md:11`): `ReviewStaysQueued`.
* A Run that timed out resumes with the deadline of its first start
  (`agent.go:679-684`) and is interrupted at once, though
  `docs/architecture.md:50` calls it resumable.

Store:

* `Load` opens `session.json` without the mutex; `readSessionFile` compares the file
  before and after (`safe_store.go:213-229`) and refuses when a commit renamed a
  new one into place, though either is complete (`docs/session-storage.md:15`; `LoadReplaced`).
* When an append to `events.jsonl` stops inside a line, the scan of every later
  recovery reports a corrupt history, so the journal is never finished and the
  Session cannot be loaded (`docs/session-storage.md:31`; `ScanRefused`).

Approvals:

* A decision saved after the request was checkpointed and before its waiter is
  registered is overwritten by the Runner, which waits for another; a resume under way while a
  Run ends stores the Session it recovered before (`ConsumedBeforeEffect` allows for both).
* A second approve after an acknowledged denial may be the one the Runner hears, and
  `approval_decided` may be reported twice; the `select` of a waiter may take its
  deadline though a decision is there.

Dispatch:

* The task file is written before the index (`tasks.go:108`); a failure between them
  leaves a store every reader refuses: `StoreReadable`.
* A Loop that loaded the Session before the Owner started its Task saves the stale
  copy (`employee_loops.go:45-58`): the Run of a bound Task is gone, every start of the Employee is
  then refused, and a start after a restart may launch it twice. `StartEmployeeTask` is said to
  fix "one stable Run ID", to persist the Run and bind the Task "and only then" to start the Runner
  (`employee_execution.go:53-55`): `BoundKeepsItsRun` is violated. What the other four properties
  say of a Task they do not say of one in `crossed`.
* A Loop that prepares a Task that already runs writes a new journal, and its start
  then fails; a cancellation after `PrepareDispatchRun` keeps the journal
  and fails; a restart interrupts a queued Run, so a start conflicts; a resume does
  not look at the Employee's other Tasks; an activity append that failed is not redone.

Loops:

* A crash, or a refused save, between `StartRun` and the save of `attached` leaves an invocation
  dispatched for ever: it names no Run, so nothing reconciles it (the branch at
  `invocations.go:232-244` that would bind it is never reached) and a cancellation ends the
  invocation and not the Run. `ReflectsItsRun` is about bound invocations for this reason.
* An invocation whose Run is interrupted cannot be cancelled: `CancelRun` is a conflict, and the
  reconciliation after it leaves the invocation attached.
* "Terminal states are final" (`loop/invocation.go:23`) does not hold when a cancellation crosses
  a start: each saves its own copy of the whole file, and the last one wins: `TerminalIsFinal` is
  violated. `FinalUnlessCrossed` says that nothing else does it.
* The runtime state is called a rebuildable projection (`docs/ai/employee-loops.md:28`), but its frontier
  passes over invocations it never counted: the scheduler sets it to the invocation it started, and so
  does a read that finds a later one ended first. A blocked scheduled invocation is not counted.
* A read of the state that projects an ended invocation while an occurrence is due sets the next
  occurrence from now, and a start that fails returns after the claim (`employee_loops.go:310-318`),
  also for the Loops after it: either occurrence is lost.
* Past 256 invocations of a Loop its list and every read of its runtime state is refused
  (`loopstore/invocation.go:109`); a failure summary that may not be saved leaves the invocation as it was.
* The client requires `description`, which the server omits when empty (`loop/definition.go:130`) and
  the form leaves empty: the list of Loops is refused. A failure summary has 8 KiB at the server
  and 4096 characters at the client.

Notifications:

* `SaveReport` puts a report back to pending before `GetReport` reads it
  (`SentStaysSent`, `docs/report-center.md:31`), and the channel becomes "legacy".
* Every read of a finished Task notifies again, under a mutex and for up to 30
  seconds; a crash between delivery and marker delivers twice; a title of 513 to
  515 bytes makes the report unsaved; a retry that failed shows the toast of success.

Session stream and home:

* An EventSource that ended with an HTTP error stays "reconnecting"; an undecodable
  numbered event is lost. `publish` skips a subscriber whose channel (256) is full while its stream
  stays open (`server.go:831-842`): a later event moves the mark past the skipped one, which is
  then not sent again, and an end that was skipped leaves the Run shown as active. An event of a
  Run the page does not listen to moves the mark too (`sessionEvents.ts:97-102`). Both are `missed`.
  A piece of text that was skipped is in `gaps` and leaves no mark.
* The updater of the text sets `streamTruncatedRef` when it runs (`useSessionEvents.ts:76-84`), so
  a piece that came before is appended behind the one that was left out, and one that belonged to
  a text that was reset may flag the next; `HolesAreShown` says that the text is then flagged.
* Two goroutines that commit at the same time may publish out of order (`server.go:783`), and the
  client then drops the later-sent one, whose number is lower.
* A health check that hangs is aborted by the next heartbeat and never shows
  offline; a load that fails between heartbeats is not retried (`AgentPage.tsx:117`);
  a submission navigates though the page was left.

Task board and Task page:

* Two moves of cards under way, of one page or of two: each loads the whole document and saves
  the whole of it (`task_board.go:205`, `228`), so the second may undo a move that the first has
  acknowledged. The board has no revision by which it could be refused.
* The Tasks page takes the state of a Task from the list it loaded last
  (`TasksWorkbench.tsx:270`, `436`): an old one offers a start the server refuses, or none.
* A create that was served and whose answer is lost is shown as failed, and the next try makes a
  second Task (`TasksWorkbench.tsx:343-373`): `OneCreation` allows one more for each such message.
* The Employee changed while a Task is created leaves `creating` on until a
  reload; the `finally` of prepare leaves `busy` when the epoch moved
  (`TasksWorkbench.tsx:509`); a reconnection drops the answer of a start. `BusyEnds` has these exceptions.

Employee page and wizard:

* A load that was read before another tab's save and is answered after this page's own save puts
  the older skills or projects in their drafts under the newer revision, and saving that draft
  undoes the newer ones (`EmployeeDetailPage.tsx:276-298`); `KeepsOthers` excepts the group whose
  own draft is saved (`SavesDraftOf`) and is violated without. Edits typed while a save is under way are lost when the answer
  arrives (`InputIsPreserved`, `EmployeeDetailPage.tsx:256`); `mutate` has no busy guard.
* A read of a tab and a mutation made in it do not end or order each other
  (`EmployeeDetailPage.tsx:350-412`): the answer of the read may show a source again that was removed.
  `SettledIsTrue` excepts a tab where the two overlapped (`disturbed`). A tab whose load failed shows its
  skeleton.
* A lost answer of the create request makes every retry a conflict; a new name in quick
  mode makes a second Employee; a lost answer of the skills or Knowledge request
  makes the rest of the chain conflict.

Sessions on the wire:

* A Go slice that was never set is `null` on the wire, and the client's `array` refuses `null`
  (`decoders.ts:134-141`). A Session made by `session.New` is therefore refused by `decodeSession`
  until a Run has filled its lists (`EverySessionIsReadable` is violated); one from `NewPrepared` has
  them. `RefusedForKnownCauses` lists all causes the model finds: nil lists, negative exit codes of a
  killed command, an error text that the server does not cap and the client caps at 4096 characters,
  a final message past 64 Ki characters, more than 100 findings where the server allows 128, a mission
  clipped at 32 KiB against 4096 characters. `run.Error` is never cleared, so such a Session stays
  unreadable.

Settings and Loops:

* A login begun again while one is pending: the answer of the first may put a
  forgotten credential back (`ForgottenStaysForgotten`, `MaxLogins` 2;
  `docs/security-model.md:27`); one failed poll shows "error".
* A reconnection frees the buttons of a Loop's page under a mutation
  (`LoopsPage.tsx:515`), so a second start can be sent. Creation that failed after
  the page moved stays locked (317). `UpdateLoop` compares no revision.
* A decision that a reconnection outruns is dropped silently, and one that was refused is not read again.

## Proofs

Each theorem holds for every value of the constants that satisfies the ASSUMEs of
its module and the assumptions it names. TLC checked each strengthening as an
invariant, on the run's bounds or smaller ones, before it was proved.

Topology, proposals and the costs of a call are finite sets (`TopologyAssumption`,
`CoordinatorAssumption`), as they are in the code. `CoordinatorProofs` begins with the facts about the
operators of `Mission`: the domain, and what each operator does to one item.

`CoordinatorProofs` (the scheduling of workers):

* `TypeCorrect`: `Spec => []TypeOK`.
* `OneWriterAtATime`: `Spec => []SingleWriter`. `SingleWriter` counts writers by
  worker goroutine and by status, and neither count is inductive: a goroutine
  of a failed batch outlives the status `running`, and the batch is chosen
  before its members start. The invariant `LeaseInv` therefore says that there
  is at most one writer among the items to be started, those executing and
  those whose status is running; that a running item has a goroutine or an
  outcome to be received; and that a batch with an error starts nothing more.
  `LoopSelect` needs that `selectBatch` picks one writer and that the batch
  before it was drained.
* `RunningHasAnOwner`: `Spec => []RunningIsOwned`, and `StartsNeverFail`:
  `Spec => []BatchStaysStartable`, from `OwnedInv`: `LeaseInv`, the converse of its
  second part (a worker of a batch without an error executes a running item),
  and that what is still to be started is ready.
* `OvershootIsOneBatch`: `Spec => []BudgetOvershoot`, if some cost in `CallCosts` is
  the greatest. What a worker still has to report must be counted: `SpendInv`
  bounds the calls received together with those of the workers at work, of
  whom there are at most `MaxParallel`.

`CoordinatorProofs` (verifiers and repairs):

* `ReopeningNeedsAFailure`: `Spec => ReopenedOnlyByFailedVerification`, an action
  property, step by step.
* `RepairsAreBounded`: `Spec => []BoundedAttempts`. A start counts one more attempt,
  so `AttemptsInv` says that a verifier that may start has one left.
* `CompletionIsVerified`: `Spec => []CompletedIsVerified`. `VerdictInv` says that the last
  word of a verifier that counts as done is a pass while the mission goes on, and that
  a completed mission has only done items.
* `LeadWaitsForAPass`: `Spec => []LeadOnVerifiedWork`, and `MissionsGoOn`: `Spec => []NeverStuck`,
  both if `LeadShape(l)`: `l` is the only lead and waits for exactly the verifiers, every stage
  leads to it, and a repair after the review of an implementation waits for nothing else.
  Of topologies without that shape neither is claimed. `MissionsHaveALead` shows that the two
  of `coordinator.go` have it and `CoordinatedMissions` puts the three together.
  Every step is first reduced to what it does to the graph (`StepKinds`: it keeps, fails, starts,
  finishes, extends, requeues or skips). `DepsInv` then says that an item that began has its
  dependencies done, unless a verifier that asked for one again still has to speak; `CoverInv` that
  after every handoff of a writer some verifier has spoken or still will; and `LeadInv`
  that a lead at work stands on a verification that nothing since has put in doubt.
* `SubstepsCloseNoCycle`: `Spec => []AcyclicWork` if `LeadsAreLast`, no item and no proposal
  waits for a lead; an extension then puts a graph that is acyclic in itself between two
  that stay apart. `StuckBranchIsDead`: such a mission never takes `LoopStuck`.

`SessionStoreProofs` (`StoreAssumption`; any number of commits, events, failing
operations and crashes):

* `StoreTypeCorrect`: `Spec => []TypeOK`.
* `HistoryInOrder`: `Spec => []EventsInOrder`. The file is in order only because the
  scan before an append skips exactly what is already there. `StoreInv` says
  why: `Held` (who has the mutex, what a process without a Session may hold),
  `Numbered` (every list is bounded by the number that goes with it, and the
  counter of a process that loaded a Session covers checkpoint and journal),
  `Ordered` (every list is in order) and `Placed` (an event of the journal is in
  the file or numbered after all of it; while it is being appended, what the
  last scan saw decides which). `LastSequenceFacts` gives the scan its meaning.
* `AckedStaysDurable`: `Spec => []AckedIsDurable`, from `Placed`: the journal is only
  removed when all its events are in the file.
* `NumbersStayFresh`: `Spec => []NumbersAreFresh`, from `Numbered`.
* `CallsStayCounted`: `Spec => []CallsAreCounted`. `Counted` says that each copy of the
  Session, in memory, in the journal and in the checkpoint, counts the calls entered,
  and that a reservation under way is one ahead; that is why taking it back loses none.
* `EventsImplyTheirState`: `Spec => []EventImpliesState` if `~DetachedEvents`. `Versioned`
  orders the versions of checkpoint, journal and memory and bounds the
  events of each list by the version that goes with it. With detached events it is
  false (run `store_orphan`).
* `StoreIsADurableLog`: `Spec => ImplementsDurableLog` if `~DetachedEvents`, the refinement
  the run `store` checks as `IsADurableLog`. `LogMapped` shows that file and rest of the
  journal together are in order and go with the version; then each step is matched
  (`StepMaps`): a journal that is written is a commit that keeps the whole file
  (`JournalCommits`), even when the write is reported as failed; an event moving from the
  journal to the file leaves the log as it is (`AppendKeepsLog`: it is the first event
  the scan did not find); removing the journal may acknowledge (`RemovalMaps`);
  everything else, a crash included, is a stutter.

`RunGateProofs` (`GateAssumption`; any number of Runs, concurrent calls, faults and
restarts, both plan modes):

* `GateTypeCorrect`: `Spec => []TypeOK`.
* `GateIsMutex`: `Spec => []GateIsHeld`, inductive with the types: every path of the
  launch that gives up leaves the gate open, and `Release` opens it with the end
  of the Runner.
* `ReviewBeforeExecution`: `Spec => []OnlyApprovedRuns`. It holds though the calls
  commit and launch stale copies, because an approval is only ever added:
  `ApprovalsAreAccepted` says that no copy, of the checkpoint, a call or the
  Runner, holds an approval the Owner did not ask for.
* `CancelsItsRun`: `Spec => CancelHitsItsRun`, from `GateIsHeld` (the Run
  `activeRun` names is the one that executes) and `CallsNameRuns`.

`ApprovalsProofs` (any number of requests, decisions, crashes and resumes, each with the stale
copy it loaded): `OneCallPerApproval`, `DeliveredOnce`, `ConsumedIsDurable` and
`NoWaiterOutlivesItsRun`, for `OneEffectPerApproval`, `HeardOnce`, `ConsumedBeforeEffect` and
`WaitersHaveRunners`. A stale save changes the disk and not the Runner's copy, and a Runner that
starts from it holds what a call once loaded, so nothing can rest on what is stored.
`ApprovalInv` therefore counts: each wait has room for the answer that its parked Runner may
still get (`AnswersInv`), and each approval that was heard for the one call the Runner may still be
on the way to (`Spends`, `EffectsInv`); an open waiter belongs to a parked Runner (`ParkedInv`);
and when the tool is about to run, the disk says "consumed" or was written over (`HandledInv`).

`LoopRunsProofs` (any number of occurrences, starts, updates, cancellations and
crashes): `ClaimedOnce`, `ProjectedOnce`, `EndsLikeItsRun`, `NoRunWithoutRecord` and `FinalStates`,
for `OccurrenceOnce`, `CountedOnce`, `ReflectsItsRun`, `RunIsRecorded` and `FinalUnlessCrossed`. They
follow from one invariant, `LoopInv`. Of the invocations: what is
saved agrees with the Run (`RecordInv`), and a start that still writes is the only writer
of its invocation but for a cancellation, which marks it (`StartInv`, `CancelInv`,
`OneStartEach`). Of the runtime state: the next occurrence lies after every one claimed
and the frontier after every invocation counted (`StateInv`), and the scheduler works on
the state it saved and on an invocation past the frontier (`ScheduledInv`). The projection,
a loop in the code, is written in closed form (the last invocation seen is the
frontier, the last one that ended sets the schedule), because a recursion over
the invocations could not be reasoned about.

`DispatchProofs` (any number of Tasks, calls, refused writes and crashes):
`JournalNamesWhatIsThere`, `LaunchAfterDispatch`, `StartLaunchesOnce` and `OneTaskUnderWay`, for
`StagesAreDurable`, `LaunchedIsReconciled`, `StartedOnce` and `OneTaskEach`. The Owner may call for a Task
that a Loop prepares; such a Task is `crossed`, and the four say nothing of it (TLC finds each violated
for it), but they hold for the Tasks beside it. One
invariant, `DispatchInv`, carries them. `OneAtATime` says that no two calls work on one
Task that is not crossed; so what a call relies on where it is (`PlaceAt`: the stage of the journal, that the
Task is bound or not, that the Session it holds is the one on disk) can only be
disturbed by itself. `TaskInv` is what the files of a Task say of each other; it adds to
`StagesAreDurable` that a Task with a Run on the way is not cancelled and that a prompt is
never there twice. `StartedInv` says that a Run a start launched is queued only while its
Runner is about to begin it, and `AloneInv` that a start that has found the Employee free finds
no other Task under way until it binds its own. Of a crossed Task only the types and that its Session
is not removed are kept (`NeededInv`), which is what its calls, and the Runner that executes it, need
to leave the others alone.

`NotificationsProofs` (any number of reports, reads, retries, lost answers and crashes):
`DeliveredOncePerRecord` and `MarkedReportsNeverFail`, for `OncePerRecord` and `MarkedNeverFails`,
whatever channels are configured, and `SentReportsWereDelivered`, for `SentIsDelivered`, if
`OpenClaw`; without it `report_unsent` violates it. `DeliveryInv` says that one delivery at a time is
past the mutex (`OneDelivery`), that its report is pending on disk, and that the messages of
a report are those whose end was not recorded and one that a marker, or the delivery about to write
the marker, knows of (`ReportInv`). `HonestInv` adds that whatever says "sent" was delivered: marker,
report, an answer on its way to the page and the page itself, which may be older than the report.
A step only adds to what was delivered, so an old answer stays true (`EarnedKeeps`).

In the last four modules `Distinct` says that `None` is no other value; in the first two also
that a bound is a number.

`SessionEventsProofs` (any number of events, pieces of text, reloads and faults):

* `ShownMovesForward`: `Spec => NeverBackwards`, from `StreamInv`, which places every
  position of the page and of its stream in the server's log.
* `HighWaterHidesNothing`: `Spec => []MarkedIsCovered`, with any size of the channel. `OrderInv` says
  that an open stream has every event after the mark that was not passed over, each once and in
  order, so that the mark never jumps over another; `CoveredInv` that a failure is remembered until
  the next request.

Model-checked only:

* Liveness and fairness; a violated property of a run that expects it.
* The end of a dispatch that was cut off (`DispatchEnds`); the web client but for its stream and
  its report page; `HolesAreShown`, whose history is a set of pieces.

## Plan

1. `TaskPlan`, `RunControl` and `TeamRun`: the plan and the Run beside the
   mission, `Sink` and `Checkpoint`, the store's validation at each commit, child
   sessions of the workers, crash, restart and resume. Property: plan and
   mission agree, a terminal mission becomes durable, a repair round is a new
   execution.
2. `AgentRun`: the Runner's turns in place of `Work` at the gate.
3. `PluginClient`; Employee revisions at the server.
4. Theorems to come: of the web client, first `Board!OneExecution` and `Wizard!OneEmployeeEach`.

## Not modelled

* Model providers, tools, web routing, configuration, text ranking and rendering:
  input and output or pure data, and no protocol between actors passes through them.
* Of the web client: the read-only pages (directory of Employees, dashboard, which counts the first 20 Loops and
  does not retry a first load that failed), the notes of the Tasks workbench, the
  team template editor, the confirm dialog, translations and routing. They hold
  no state that another actor changes under them.
* Two publishers of one Session's events (`server.go:783`): the order of publication
  of two goroutines that commit at the same time.
* The Session routes used on the Session an Employee Task prepared, which create a Run of
  another origin and make the dispatch refuse ("ambiguous Run").
* Expiry of approvals by plan revision and policy; schema migrations of the store;
  retention and locks between processes beyond the store's own mutex.

`PROJECT.json` (`components`) lists every part with its status and reason.
