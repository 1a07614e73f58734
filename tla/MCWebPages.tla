------------------------------- MODULE MCWebPages -------------------------------
(* The pages of the web client, one at a time: App.tsx gives every path a     *)
(* boundary of its own, so that a page starts afresh when it is opened.  With *)
(* them, the Sessions the control plane writes as the client decodes them.     *)
EXTENDS Naturals

CONSTANTS
  Pages,           \* the pages of an instance
  Faults,          \* bound: requests that fail, of most pages
  t1, t2, e1, e2, None

VARIABLES
  mounted,                        \* the page that is open
  server, page, requests, faults, \* of a page that is one record
  state, column, cached, list, candidate, generation, loads, busy, committed,
  calls, puts, drops, wanted,     \* of the Task board
  history, record, dirty, conflict, skillDraft, projectDraft, epoch, dialog

boardVars ==
  <<state, column, cached, list, candidate, generation, committed, calls, puts, drops, wanted>>
editorVars ==
  <<history, record, dirty, conflict, skillDraft, projectDraft, epoch, dialog>>
pageVars == <<server, page>>
vars == <<mounted, pageVars, requests, faults, boardVars, loads, busy, editorVars>>

Board ==
  INSTANCE TaskBoard WITH
    Tasks <- {t1, t2}, Notes <- {}, Listed <- {t1}, MaxDrops <- 2, MaxFaults <- Faults
Editor ==
  INSTANCE EmployeeEditor WITH
    MaxRevisions <- 3, MaxRequests <- 2, MaxFaults <- Faults
Wizard == INSTANCE EmployeeWizard WITH MaxFaults <- Faults
Owner == INSTANCE OwnerSettings WITH MaxFacts <- 1, MaxLogins <- 1, MaxFaults <- Faults
Form == INSTANCE TaskForm WITH Employees <- {e1, e2}, MaxEpochs <- 3, MaxFaults <- Faults
Task == INSTANCE TaskPage WITH MaxVersions <- 4, MaxFaults <- 2
Loops == INSTANCE LoopConsole WITH MaxRevisions <- 2, MaxRuns <- 2, MaxFaults <- Faults
Invocation == INSTANCE LoopInvocation WITH MaxVersions <- 3, MaxFaults <- Faults
Home == INSTANCE AgentHome WITH MaxSessions <- 2, MaxFaults <- 2
View == INSTANCE SessionView WITH
  session <- server, Null <- None, MaxRuns <- 2, MaxTools <- 1
Request == INSTANCE ApiClient WITH request <- server, MaxChunks <- 3
Tabs ==
  INSTANCE EmployeeTabs WITH MaxTabs <- 2, MaxWrites <- 2, MaxFaults <- Faults
Reports ==
  INSTANCE Notifications WITH
    Reports <- {"loop"}, OpenClaw <- TRUE, Email <- TRUE, MaxFaults <- 3

-----------------------------------------------------------------------------
NoBoard ==
  /\ state = None /\ column = None /\ cached = None /\ list = None /\ candidate = None
  /\ generation = 0 /\ committed = FALSE /\ calls = {} /\ puts = {} /\ drops = 0
  /\ wanted = None

NoEditor ==
  /\ history = <<>> /\ record = None /\ dirty = FALSE /\ conflict = FALSE
  /\ skillDraft = 1 /\ projectDraft = None /\ epoch = 0 /\ dialog = None

NoPage == server = None /\ page = [busy |-> FALSE]

Init ==
  /\ mounted \in Pages
  /\ \/ mounted = "board" /\ Board!Init /\ NoEditor /\ NoPage /\ requests = {}
     \/ mounted = "employee" /\ Editor!Init /\ NoBoard /\ NoPage
     \/ /\ NoBoard /\ NoEditor /\ loads = {} /\ busy = FALSE
        /\ \/ mounted = "wizard" /\ Wizard!Init
           \/ mounted = "owner" /\ Owner!Init
           \/ mounted = "form" /\ Form!Init
           \/ mounted = "task" /\ Task!Init
           \/ mounted = "loops" /\ Loops!Init
           \/ mounted = "invocation" /\ Invocation!Init
           \/ mounted = "home" /\ Home!Init
           \/ mounted = "tabs" /\ Tabs!Init
           \/ mounted = "reports" /\ Reports!Init
           \/ /\ mounted = "request" /\ Request!Init
              /\ page = [busy |-> FALSE] /\ requests = {} /\ faults = 0
           \/ /\ mounted = "session" /\ View!Init
              /\ page = [busy |-> FALSE] /\ requests = {} /\ faults = 0

boardIdle == <<editorVars, pageVars, requests>>
editorIdle == <<boardVars, pageVars>>
pageIdle == <<boardVars, editorVars, loads, busy>>

Next ==
  /\ UNCHANGED mounted
  /\ \/ mounted = "board" /\ Board!Next /\ UNCHANGED boardIdle
     \/ mounted = "employee" /\ Editor!Next /\ UNCHANGED editorIdle
     \/ /\ UNCHANGED pageIdle
        /\ \/ mounted = "wizard" /\ Wizard!Next
           \/ mounted = "owner" /\ Owner!Next
           \/ mounted = "form" /\ Form!Next
           \/ mounted = "task" /\ Task!Next
           \/ mounted = "loops" /\ Loops!Next
           \/ mounted = "invocation" /\ Invocation!Next
           \/ mounted = "home" /\ Home!Next
           \/ mounted = "tabs" /\ Tabs!Next
           \/ mounted = "reports" /\ Reports!Next
           \/ mounted = "request" /\ Request!Next /\ UNCHANGED <<page, requests, faults>>
           \/ mounted = "session" /\ View!Next /\ UNCHANGED <<page, requests, faults>>

\* The fairness of the pages, as their modules state it.  One page is open in a
\* behaviour, so that one condition can serve all of them.
Mutates ==
  \/ mounted = "board" /\ Board!Answers /\ UNCHANGED <<mounted, boardIdle>>
  \/ mounted = "employee" /\ Editor!Answers /\ UNCHANGED <<mounted, editorIdle>>
  \/ /\ UNCHANGED <<mounted, pageIdle>>
     /\ \/ mounted = "wizard" /\ Wizard!Answers
        \/ mounted = "tabs" /\ Tabs!Answers(Tabs!Mutations)
        \/ mounted = "reports" /\ Reports!Answers
        \/ mounted = "owner" /\ Owner!Answers(Owner!Mutations)
        \/ mounted = "form" /\ Form!Creating
        \/ mounted = "task" /\ Task!Mutating
        \/ mounted = "loops" /\ Loops!Mutating
        \/ mounted = "invocation" /\ Invocation!Answers(Invocation!Decisions)
        \/ mounted = "home" /\ Home!Answers(Home!Submits)

Reads ==
  /\ UNCHANGED <<mounted, pageIdle>>
  /\ \/ mounted = "tabs" /\ Tabs!Answers({"load"})
     \/ mounted = "reports" /\ Reports!Delivery
     \/ mounted = "owner" /\ Owner!Answers({"poll", "approval"})
     \/ mounted = "task" /\ Task!Reading
     \/ mounted = "loops" /\ Loops!Reading
     \/ mounted = "invocation" /\ Invocation!Answers(Invocation!Reads)
     \/ mounted = "home" /\ Home!Answers(Home!Loads)

Hears ==
  /\ UNCHANGED <<mounted, pageIdle>>
  /\ \/ mounted = "owner" /\ Owner!LoginDecided
     \/ mounted = "task" /\ Task!Event
     \/ mounted = "invocation" /\ Invocation!Event
     \/ mounted = "home" /\ Home!Answers(Home!Checks)

Ticks ==
  /\ UNCHANGED <<mounted, pageIdle>>
  /\ \/ mounted = "owner" /\ Owner!Poll
     \/ mounted = "home" /\ Home!Beat

Insists ==
  /\ UNCHANGED <<mounted, pageIdle>>
  /\ \/ mounted = "home" /\ Home!Checked
     \/ mounted = "reports" /\ Reports!RetryBegins

Spec ==
  /\ Init /\ [][Next]_vars
  /\ WF_vars(Mutates) /\ WF_vars(Reads) /\ WF_vars(Hears) /\ WF_vars(Ticks)
  /\ SF_vars(Insists)

-----------------------------------------------------------------------------
(* What the pages promise, each on its own page. *)

\* However often a button is clicked, the same thing is not asked for again
\* before the Owner has been told how the first request ended: one execution of a
\* drop on the start column, which is not asked for again once it was accepted
\* (confirmStartCandidate), one Employee of a wizard (quickCreate), one message of
\* a report that was recorded (notificationDeliveryMu), one mutation of the
\* settings (busyRef), one Task of a form (creating), one start of a Loop
\* (LoopDetailPage busy), one decision (decisionBusy).  A lost answer looks like a
\* failure: asking again then makes a second Task (TaskForm OneCreation).
AtMostOnce ==
  /\ mounted = "board" => Board!OneExecution
  /\ mounted = "wizard" => Wizard!OneEmployeeEach
  /\ mounted = "reports" => Reports!OncePerRecord
  /\ mounted = "owner" => Owner!OneMutation
  /\ mounted = "form" => Form!OneCreation
  /\ mounted = "loops" => Loops!OneStart
  /\ mounted = "invocation" => Invocation!OneDecision

\* What is sent is what the Owner saw when confirming it: the Task dropped last
\* (useTaskBoard startGenerationRef), the state in the lifecycle dialog
\* (lifecycle), the configuration each step validated (EmployeeWizard next), the
\* projects and skills of the selected Employee (contextEpoch), and a Loop as its
\* dry run saw it (setReport).
ActsOnWhatIsShown ==
  /\ mounted = "board" => Board!StartsWhatIsWanted
  /\ mounted = "employee" => Editor!ConfirmedFromShown
  /\ mounted = "wizard" => Wizard!SentIsValidated
  /\ mounted = "form" => Form!SentIsTheEmployees /\ Form!OpensWhatIsShown
  /\ mounted = "loops" => Loops!ReportIsOfSaved

\* What is shown as settled is what the server holds or did: a Task on the start
\* column was started (confirmStartCandidate), a page without unsaved edits shows
\* one revision (EmployeeDetailPage dirty), "ready" is saved (validatePersisted), a
\* removed source is not put back by the answer of a tab left before and the
\* Activity has no hole (tabEpoch, loadMore), "sent" was delivered
\* (notifyTerminalCompletion), the offline banner follows an outage
\* (ConnectivityProvider check), and a request succeeds on a whole and valid answer
\* only, and on every answer of the routes it is made for (apiRequest,
\* endpoints.ts).
ShownIsTrue ==
  /\ mounted = "board" => Board!MovedAfterStart
  /\ mounted = "employee" => Editor!CleanIsServers
  /\ mounted = "wizard" => Wizard!ReadyIsSaved
  /\ mounted = "tabs" => Tabs!SettledIsTrue /\ Tabs!ActivityIsAPrefix
  /\ mounted = "reports" => Reports!SentIsDelivered /\ Reports!MarkedNeverFails
  /\ mounted = "home" => Home!NoFalseAlarm
  /\ mounted = "request" => Request!OutcomeIsTrue /\ Request!ServedIsUnderstood

\* Nothing outlives its use: no more of an answer is held than the limit
\* (readBoundedText), no stream stays open behind a request (safelyCancel), and a
\* key that was sent is gone from its input when the request is over (saveKey).
NothingLeftBehind ==
  /\ mounted = "request" => Request!HeldIsBounded /\ Request!NothingLeftOpen
  /\ mounted = "owner" => Owner!KeyIsTransient

\* A Session is refused only for its null lists and its values past the client's
\* bounds, and a prepared one has its lists until a Run completes (decodeSession,
\* NewPrepared).
RefusedForKnownCauses ==
  mounted = "session" => View!RefusedForKnownCauses /\ View!PreparedHasItsLists

\* What was acknowledged or shown is not undone by an older copy: another
\* writer's revision is not overwritten, but by a draft of the same group that the
\* Owner saves (expected_revision, EmployeeEditor SavesDraftOf), and a Task and the
\* list of Sessions never go back (epochRef, AgentDataProvider requestVersion).
NothingGoesBack ==
  [][/\ mounted = "employee" => Editor!KeepsOthers
     /\ mounted = "task" => Task!NoStepBack
     /\ mounted = "home" => Home!NoStepBack]_vars

\* What a page waits for comes: a login shown as pending is polled until it is
\* not (the effect of login), a reported start of a Loop is in the history shown
\* unless the read of it failed (mutate), and after an outage the sidebar's data
\* is read again (AgentDataProvider effect).  The end of a Run that a page follows
\* is shown, unless its last read failed (useSessionEvents).
Awaits ==
  \/ mounted = "owner" /\ page.login = "pending"
  \/ mounted = "loops" /\ page.view = "detail" /\ page.known > page.runs /\ ~page.failed
  \/ mounted = "home" /\ page.stale /\ page.route # "elsewhere"

ShowsTheEnd ==
  /\ mounted = "task" => Task!ShowsTheEnd
  /\ mounted = "invocation" => Invocation!ShowsTheEnd

AwaitedArrives == (Awaits ~> ~Awaits) /\ <>[]ShowsTheEnd

\* Every page that locks itself is unlocked again, with the exceptions the
\* modules of the pages name.
BusyEnds ==
  (busy \/ page.busy) ~>
    \/ ~busy /\ ~page.busy
    \/ mounted = "form" /\ page.switched
    \/ mounted \in {"task", "loops"} /\ page.moved
=============================================================================
