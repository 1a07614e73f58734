-------------------------------- MODULE MCServer --------------------------------
(* Parts of the control plane, one at a time: the gate as one Owner's calls     *)
(* meet it with crashes, the approvals of a Run with two requests and launches   *)
(* and with two calls under way, the dispatch of Employee Tasks (two of them,    *)
(* one that the Owner starts while a Loop prepares it, one through failures),    *)
(* the invocations of a Loop (its schedule through restarts, an update of it,    *)
(* starts beside each other and beside the scheduler).                           *)
EXTENDS Naturals

CONSTANTS 
  Pieces,          \* the parts of an instance
  r1, r2, c1, t1, t2, None

VARIABLES
  part,                                 \* the part that is looked at
  disk, calls, gate, target, runner, stopping, other, used, late, accepted, refused,
  server, requests, faults

gateVars ==
  <<disk, calls, gate, target, runner, stopping, other, used, late, accepted, refused>>
vars == <<part, gateVars, server, requests, faults>>

Gate ==
  INSTANCE RunGate WITH
    Runs <- {r1, r2}, Callers <- {c1}, Operations <- {"start", "resume", "approve", "cancel"},
    Review <- TRUE, Expiring <- TRUE, MaxFaults <- 2
\* Requests, launches, calls and faults.
AskBounds == [asks |-> <<2, 2, 1, 0>>, races |-> <<1, 1, 2, 1>>]

Asks(b) == INSTANCE Approvals WITH
  MaxRequests <- b[1], MaxLaunches <- b[2], MaxCalls <- b[3], MaxFaults <- b[4]

\* Tasks, faults, and Tasks the Owner calls for while a Loop prepares them.
TaskBounds ==
  [dispatch |-> [tasks |-> {t1, t2}, faults |-> 1, crossed |-> 0],
   crossed  |-> [tasks |-> {t1, t2}, faults |-> 0, crossed |-> 1],
   retried  |-> [tasks |-> {t1}, faults |-> 2, crossed |-> 1]]

Dispatches(b) == INSTANCE Dispatch WITH
  Tasks <- b.tasks, MaxFaults <- b.faults, MaxCrossed <- b.crossed

\* Days, manual starts, revisions and faults.
LoopBounds ==
  [days |-> <<2, 0, 1, 1>>, update |-> <<1, 0, 2, 1>>, starts |-> <<0, 2, 1, 0>>,
   beside |-> <<1, 1, 1, 0>>]

Loops(b) == INSTANCE LoopRuns WITH
  MaxDays <- b[1], MaxManual <- b[2], MaxRevisions <- b[3], MaxFaults <- b[4]

NoGate ==
  /\ disk = None /\ calls = None /\ gate = FALSE /\ target = None /\ runner = None
  /\ stopping = FALSE /\ other = FALSE /\ used = {} /\ late = {} /\ accepted = {} /\ refused = {}

Init ==
  /\ part \in Pieces
  /\ \/ part = "gate" /\ Gate!Init /\ server = None /\ requests = {}
     \/ \E p \in DOMAIN AskBounds : part = p /\ Asks(AskBounds[p])!Init /\ NoGate
     \/ \E p \in DOMAIN TaskBounds : part = p /\ Dispatches(TaskBounds[p])!Init /\ NoGate
     \/ \E p \in DOMAIN LoopBounds : part = p /\ Loops(LoopBounds[p])!Init /\ NoGate

partIdle == <<part, gateVars>>

Next ==
  \/ part = "gate" /\ Gate!Next /\ UNCHANGED <<part, server, requests>>
  \/ \E p \in DOMAIN AskBounds :
       part = p /\ Asks(AskBounds[p])!Next /\ UNCHANGED partIdle
  \/ \E p \in DOMAIN TaskBounds :
       part = p /\ Dispatches(TaskBounds[p])!Next /\ UNCHANGED partIdle
  \/ \E p \in DOMAIN LoopBounds :
       part = p /\ Loops(LoopBounds[p])!Next /\ UNCHANGED partIdle

gateIdle == <<part, server, requests>>

\* The fairness of the parts.  One part is looked at in a behaviour, so that one
\* condition can serve all of them.
Executes ==
  \/ part = "gate" /\ Gate!Begin /\ UNCHANGED gateIdle
  \/ \E p \in DOMAIN AskBounds :
       part = p /\ Asks(AskBounds[p])!Working /\ UNCHANGED partIdle
  \/ \E p \in DOMAIN TaskBounds :
       part = p /\ Dispatches(TaskBounds[p])!Running /\ UNCHANGED partIdle
  \/ \E p \in DOMAIN LoopBounds :
       part = p /\ Loops(LoopBounds[p])!Working /\ UNCHANGED partIdle

FirstAnswer ==
  \/ part = "gate" /\ Gate!Deadline(r1) /\ UNCHANGED gateIdle
  \/ \E p \in DOMAIN AskBounds :
       part = p /\ Asks(AskBounds[p])!Deadline(1) /\ UNCHANGED partIdle
  \/ \E p \in DOMAIN LoopBounds :
       part = p /\ Loops(LoopBounds[p])!Reading /\ UNCHANGED partIdle

SecondAnswer ==
  \/ part = "gate" /\ Gate!Deadline(r2) /\ UNCHANGED gateIdle
  \/ part = "asks" /\ Asks(AskBounds[part])!Deadline(2) /\ UNCHANGED partIdle
  \/ \E p \in DOMAIN LoopBounds :
       part = p /\ Loops(LoopBounds[p])!RunDueLoops /\ UNCHANGED partIdle

Goes ==
  \/ part = "gate" /\ Gate!StopCancelled /\ UNCHANGED gateIdle
  \/ \E p \in DOMAIN TaskBounds :
       part = p /\ Dispatches(TaskBounds[p])!CallWorks /\ UNCHANGED partIdle

LoopGoes ==
  \E p \in DOMAIN TaskBounds :
    part = p /\ Dispatches(TaskBounds[p])!LoopWorks /\ UNCHANGED partIdle

Restarts(t) ==
  \E p \in DOMAIN TaskBounds :
    /\ part = p /\ t \in TaskBounds[p].tasks
    /\ Dispatches(TaskBounds[p])!Call("start", t) /\ UNCHANGED partIdle

Spec ==
  /\ Init /\ [][Next]_vars
  /\ WF_vars(Executes) /\ WF_vars(FirstAnswer) /\ WF_vars(SecondAnswer)
  /\ WF_vars(Goes)
  /\ WF_vars(part = "gate" /\ Gate!StopLate /\ UNCHANGED gateIdle)
  /\ WF_vars(part = "gate" /\ Gate!Release /\ UNCHANGED gateIdle)
  /\ WF_vars(part = "gate" /\ Gate!ReleaseRun /\ UNCHANGED gateIdle)
  /\ SF_vars(LoopGoes) /\ SF_vars(Restarts(t1)) /\ SF_vars(Restarts(t2))

-----------------------------------------------------------------------------
(* The properties of the parts. *)

\* An approval is worth one call: a tool call needs an approval that was heard
\* (awaitApproval), of two decisions one is heard (approvalBroker deliver), and
\* none is handed to a Runner that is gone (approvalBroker Release).
ApprovedOnce ==
  \A p \in DOMAIN AskBounds : part = p =>
    /\ Asks(AskBounds[p])!OneEffectPerApproval /\ Asks(AskBounds[p])!HeardOnce
    /\ Asks(AskBounds[p])!WaitersHaveRunners

\* "The approval is durably consumed before the side effect runs" (awaitApproval),
\* unless a call that decides or resumes has stored an older Session over it.
ConsumedBeforeEffect ==
  [][\A p \in DOMAIN AskBounds : part = p => Asks(AskBounds[p])!OnlyConsumed]_vars

\* A Task is dispatched once: each stage of the journal names what is durable
\* (dispatch.go), a Run executes when its Task is bound and the dispatch over
\* (StartEmployeeTask), a start launches the Run of a Task once
\* (stableEmployeeRunID), and an Employee has one Task under way, but for a
\* resume (ensureEmployeeRunAvailable); what is said of a Task is not said of one
\* the Owner called for while a Loop was preparing it.  An occurrence of a schedule is claimed
\* once (RunDueLoops), and an invocation counted once (LoopRuntimeState).
DispatchedOnce ==
  /\ \A p \in DOMAIN TaskBounds : part = p =>
       /\ Dispatches(TaskBounds[p])!StagesAreDurable
       /\ Dispatches(TaskBounds[p])!LaunchedIsReconciled
       /\ Dispatches(TaskBounds[p])!StartedOnce /\ Dispatches(TaskBounds[p])!OneTaskEach
  /\ \A p \in DOMAIN LoopBounds : part = p =>
       /\ Loops(LoopBounds[p])!OccurrenceOnce /\ Loops(LoopBounds[p])!CountedOnce
       /\ Loops(LoopBounds[p])!ReflectsItsRun /\ Loops(LoopBounds[p])!RunIsRecorded

Cut(t) ==
  /\ server.journal[t] # None /\ server.task[t].state # "cancelled"
  /\ server.index = server.task /\ server.crossed = {}

Begun ==
  \/ part = "gate" /\ gate
  \/ part \in DOMAIN AskBounds /\ server.at = "waiting"
  \/ part \in DOMAIN TaskBounds /\ \E t \in TaskBounds[part].tasks : Cut(t)
  \/ \E p \in DOMAIN LoopBounds : part = p /\ Loops(LoopBounds[p])!Pending

\* What was begun ends: the workspace becomes free again (Release), a Runner does
\* not wait for a decision for ever (WithDeadline), a dispatch that was cut off is
\* finished by the next start unless the Owner called for a Task that a Loop was
\* preparing, after which a lost Run may refuse every start of the Employee
\* (reconcileBoundDispatch, ensureEmployeeRunAvailable), a Run that ended is seen by
\* its invocation, and an occurrence does not stay due (RunDueLoops).
BegunEnds == Begun ~> ~Begun
=============================================================================
