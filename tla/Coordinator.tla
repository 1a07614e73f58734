----------------------------- MODULE Coordinator -----------------------------
(***************************************************************************)
(* The scheduler of a Team mission (src/internal/team/coordinator.go).     *)
(* One invocation of Coordinator.Run selects batches of ready work items,  *)
(* starts a worker goroutine for each, receives their outcomes in any      *)
(* order and drives the mission until it completes, fails or its context   *)
(* ends.  Each step is the code between two checkpoints: it changes the    *)
(* mission, emits the TeamEvents in  events  and calls the Checkpoint      *)
(* callback, whose error (any of them may fail) is  ckpt = "failed".       *)
(***************************************************************************)
EXTENDS Mission

CONSTANTS
  MaxParallel,        \* Coordinator.MaxParallel
  MaxRepairAttempts,  \* verification attempts before the mission fails
  MaxModelCalls,      \* Budget.MaxModelCalls; Tokens are bounded the same way
  RoleLimit,          \* Budget.RoleLimits: role -> calls, 0 for no limit
  CallCosts,          \* model calls one worker execution may report
  Proposals           \* substep proposals an Explorer may return

\* An Explorer handoff without substeps.
NoProposal == [i \in {} |-> {}]

ASSUME CoordinatorAssumption ==
  /\ MaxParallel \in Nat \ {0}
  /\ MaxRepairAttempts \in Nat \ {0}
  /\ MaxModelCalls \in Nat \ {0}
  /\ RoleLimit \in [Roles -> Nat]
  /\ CallCosts \subseteq Nat
  /\ NoProposal \in Proposals
  /\ \A p \in Proposals :
        /\ DOMAIN p \subseteq Ids /\ IsFiniteSet(DOMAIN p)
        /\ p \in [DOMAIN p -> SUBSET Ids]

VARIABLES
  mstatus,    \* mission.Status
  work,       \* mission.WorkItems
  handoffs,   \* mission.Handoffs
  calls,      \* mission.Usage.ModelCalls
  roleCalls,  \* mission.UsageByRole
  pc,         \* where Run and runBatch stand
  todo,       \* items of the batch whose worker is not launched yet
  live,       \* items whose worker goroutine is executing
  outcomes,   \* worker results sent and not received
  current,    \* the item whose outcome is half handled, if any
  batchErr,   \* the first error of the batch
  ctx,        \* the context of the invocation
  ret,        \* what Run returned
  events,     \* TeamEvents emitted by the last step, in order
  ckpt        \* what the checkpoint of the last step returned

missionVars == <<mstatus, work, handoffs, calls, roleCalls>>
controlVars == <<pc, todo, live, outcomes, current, batchErr, ret>>
vars == <<mstatus, work, handoffs, calls, roleCalls, pc, todo, live, outcomes,
          current, batchErr, ctx, ret, events, ckpt>>

None == "none"

\* What a worker sends back; err is empty for a success, "ctx" when its
\* context ended, "fail" for any other error, and "invalid" for a handoff
\* that validateHandoff refuses.
Outcome ==
  [item : Ids, err : {"", "ctx", "fail", "invalid"}, cost : CallCosts,
   checks : {"pass", "fail", "none"}, issues : BOOLEAN, blocking : BOOLEAN,
   proposal : Proposals]

\* A worker error keeps its identity: the cancellation of the mission, a
\* timeout (of the mission, or the worker's own) or any other.
WorkerErr(o) ==
  IF o.err # "ctx" THEN "error" ELSE IF ctx = "live" THEN "deadline" ELSE ctx

Event(type, item) == [type |-> type, item |-> item]

Emit(es) == events' = es

Checkpoint == ckpt' \in {"ok", "failed"}

NoCheckpoint == ckpt' = None

Quiet == Emit(<<>>) /\ NoCheckpoint

\* Run returns err; the workers still executing are not waited for.
Return(err) ==
  /\ pc' = "returned" /\ ret' = err
  /\ UNCHANGED <<todo, live, outcomes, current, batchErr, ctx>>

\* One checkpoint whose failure makes Run return.
CheckpointOrReturn(next) ==
  /\ Checkpoint
  /\ IF ckpt' = "ok" THEN pc' = next /\ ret' = ret
                     ELSE pc' = "returned" /\ ret' = "error"

\* Mutant: the items still running are forgotten.
FailMissionOnly == mstatus' = "failed" /\ UNCHANGED work

FailMission == /\ mstatus' = "failed"
               /\ work' = CancelRunning(work)

UsageUnchanged == UNCHANGED <<calls, roleCalls>>

-----------------------------------------------------------------------------
(* Run: the loop over batches.                                             *)

Begin ==
  /\ pc = "begin"
  /\ mstatus' = "running"
  /\ Emit(<<Event("MissionStarted", None)>>)
  /\ CheckpointOrReturn("loop")
  /\ UNCHANGED <<work, handoffs, calls, roleCalls, todo, live, outcomes,
                 current, batchErr, ctx>>

\* The context ended between two batches: the mission stays resumable.
LoopInterrupted ==
  /\ pc = "loop" /\ mstatus = "running" /\ ctx # "live"
  /\ mstatus' = "interrupted" /\ work' = InterruptWork(work)
  /\ Emit(<<>>) /\ Checkpoint /\ Return(ctx)
  /\ UNCHANGED handoffs /\ UsageUnchanged

\* Mutant: a mission that ran dry is left waiting.
LoopStuckForever == FALSE

LoopStuck ==
  /\ pc = "loop" /\ mstatus = "running" /\ ctx = "live"
  /\ Ready(work) = {}
  /\ FailMission
  /\ Emit(<<Event("MissionFailed", None)>>) /\ Checkpoint /\ Return("error")
  /\ UNCHANGED handoffs /\ UsageUnchanged

\* Mutant: the batch may hold several writers.
SelectAnyBatch(ready) ==
  {i \in ready : Cardinality({j \in ready : Rank[j] < Rank[i]}) < MaxParallel}

\* selectBatch: in id order, at most MaxParallel items and one writer.
SelectBatch(ready) ==
  LET eligible == {i \in ready :
                     Mutates(i) =>
                       \A j \in ready : Mutates(j) => Rank[i] <= Rank[j]}
  IN {i \in eligible :
        Cardinality({j \in eligible : Rank[j] < Rank[i]}) < MaxParallel}

LoopSelect ==
  /\ pc = "loop" /\ mstatus = "running" /\ ctx = "live"
  /\ Ready(work) # {}
  /\ todo' = SelectBatch(Ready(work))
  /\ pc' = "start"
  /\ Quiet
  /\ UNCHANGED <<live, outcomes, current, batchErr, ctx, ret>>
  /\ UNCHANGED missionVars

LoopCompleted ==
  /\ pc = "loop" /\ mstatus = "completed"
  /\ Emit(<<Event("MissionFinished", None)>>)
  /\ Checkpoint
  /\ Return(IF ckpt' = "ok" THEN "ok" ELSE "error")
  /\ UNCHANGED missionVars

-----------------------------------------------------------------------------
(* runBatch: start the items of the batch in id order.                     *)

FirstInLine(i) == i \in todo /\ \A j \in todo : Rank[i] <= Rank[j]

RoleExceeded(role) == RoleLimit[role] > 0 /\ roleCalls[role] >= RoleLimit[role]

\* Mutant: only a failed verification stops the lead.
LeadBlockedByFailureOnly(i) ==
  /\ RoleOf[i] = "lead" /\ Evidence(work, handoffs) # {}
  /\ ~VerificationPassed(work, handoffs)

LeadBlocked(i) == RoleOf[i] = "lead" /\ ~VerificationPassed(work, handoffs)

\* Mutant: the budget may be overrun by one more batch.
BudgetOverspent(i) == calls > MaxModelCalls \/ RoleExceeded(RoleOf[i])

BudgetSpent(i) == calls >= MaxModelCalls \/ RoleExceeded(RoleOf[i])

StartBlocked(i) ==
  /\ pc = "start" /\ FirstInLine(i) /\ LeadBlocked(i)
  /\ FailMission
  /\ Emit(<<Event("MissionFailed", None)>>) /\ Checkpoint /\ Return("error")
  /\ UNCHANGED handoffs /\ UsageUnchanged

StartOverBudget(i) ==
  /\ pc = "start" /\ FirstInLine(i) /\ ~LeadBlocked(i) /\ BudgetSpent(i)
  /\ FailMission
  /\ Emit(<<Event("MissionFailed", i)>>) /\ Checkpoint /\ Return("error")
  /\ UNCHANGED handoffs /\ UsageUnchanged

\* The item is running and checkpointed before its worker is launched.
Launch(i) ==
  /\ work' = StartWork(work, i) /\ mstatus' = "running"
  /\ Emit(<<Event("WorkItemStarted", i)>>)
  /\ CheckpointOrReturn(IF todo = {i} THEN "collect" ELSE "start")
  /\ IF ckpt' = "ok" THEN todo' = todo \ {i} /\ live' = live \cup {i}
                     ELSE UNCHANGED <<todo, live>>
  /\ UNCHANGED <<outcomes, current, batchErr, ctx>>

StartItem(i) ==
  /\ pc = "start" /\ FirstInLine(i) /\ ~LeadBlocked(i) /\ ~BudgetSpent(i)
  /\ IF CanStart(work, i) THEN Launch(i)
     ELSE UNCHANGED <<mstatus, work>> /\ Quiet /\ Return("error")
  /\ UNCHANGED handoffs /\ UsageUnchanged

-----------------------------------------------------------------------------
(* Workers.                                                                *)

\* The results a worker of this role can report.  Checks and issues matter
\* for a verifier, blocking findings for a reviewer, substeps for an explorer.
\* A worker may end with a context error at any time: it has a timeout of its
\* own, and the batch context is cancelled by the first error.
Results(i) ==
  {o \in Outcome :
     /\ o.item = i
     /\ (RoleOf[i] # "verifier" \/ o.err # "") => o.checks = "none" /\ ~o.issues
     /\ (RoleOf[i] # "reviewer" \/ o.err # "") => ~o.blocking
     /\ (RoleOf[i] # "explorer" \/ o.err # "") => o.proposal = NoProposal}

WorkerFinish(i) ==
  /\ i \in live
  /\ live' = live \ {i}
  /\ \E o \in Results(i) : outcomes' = outcomes \cup {o}
  /\ Quiet
  /\ UNCHANGED <<pc, todo, current, batchErr, ctx, ret>>
  /\ UNCHANGED missionVars

-----------------------------------------------------------------------------
(* runBatch: receive the outcomes.                                         *)

Received(o) ==
  /\ pc = "collect" /\ o \in outcomes
  /\ outcomes' = outcomes \ {o}
  /\ calls' = calls + o.cost
  /\ roleCalls' = [roleCalls EXCEPT ![RoleOf[o.item]] = @ + o.cost]
  /\ UNCHANGED <<todo, live, ctx, ret>>

\* Mutant: nothing is received after the first error.
DrainNothing(o) == FALSE

\* After the first error only the usage of the other workers is recorded.
Drain(o) ==
  /\ Received(o) /\ batchErr # ""
  /\ Quiet
  /\ UNCHANGED <<mstatus, work, handoffs, pc, current, batchErr>>

BatchFails(err) == pc' = "collect" /\ current' = None /\ batchErr' = err

OverBudget(role) ==
  \/ calls' > MaxModelCalls
  \/ RoleLimit[role] > 0 /\ roleCalls'[role] >= RoleLimit[role]

ReceiveOverBudget(o) ==
  /\ Received(o) /\ batchErr = "" /\ OverBudget(RoleOf[o.item])
  /\ FailMission
  /\ Emit(<<Event("MissionFailed", o.item)>>) /\ Checkpoint
  /\ BatchFails("error")
  /\ UNCHANGED handoffs

Accountable(o) ==
  Received(o) /\ batchErr = "" /\ ~OverBudget(RoleOf[o.item])

ReceiveError(o) ==
  /\ Accountable(o) /\ o.err \in {"ctx", "fail"}
  /\ mstatus' = "failed" /\ work' = FailWork(work, o.item)
  /\ Emit(<<Event("WorkItemFailed", o.item)>>) /\ Checkpoint
  /\ BatchFails(WorkerErr(o))
  /\ UNCHANGED handoffs

\* mission.Complete refuses an invalid handoff and one too many; nothing is
\* emitted then.
Recordable(o) == o.err = "" /\ Len(handoffs) < MaxHandoffs

ReceiveUnrecordable(o) ==
  /\ Accountable(o) /\ o.err \in {"", "invalid"} /\ ~Recordable(o)
  /\ FailMission /\ Quiet /\ BatchFails("error")
  /\ UNCHANGED handoffs

HandoffOf(o) == [item |-> o.item, checks |-> o.checks, issues |-> o.issues]

Completes(o) ==
  /\ Accountable(o) /\ Recordable(o)
  /\ handoffs' = Append(handoffs, HandoffOf(o))

StatusAfter(w) == IF AllCompleted(w) THEN "completed" ELSE mstatus

\* A checkpoint whose failure only ends the batch.
CheckpointOrFail(next, item) ==
  /\ Checkpoint
  /\ IF ckpt' = "ok" THEN pc' = next /\ current' = item /\ batchErr' = ""
                     ELSE BatchFails("error")

\* An Explorer's proposal is accepted whole or dropped; either way the
\* Explorer's own completion is reported by the next step.
ReceiveProposal(o) ==
  /\ Completes(o) /\ o.proposal # NoProposal
  /\ LET done == CompleteWork(work, o.item)
         ok   == ValidSubstepProposal(done, o.proposal)
     IN /\ work' = IF ok THEN AddSubsteps(done, o.proposal) ELSE done
        /\ mstatus' = IF ok THEN "running" ELSE StatusAfter(done)
        /\ Emit(<<[type  |-> IF ok THEN "SubstepsAccepted" ELSE "SubstepsRejected",
                   item  |-> o.item,
                   steps |-> DOMAIN o.proposal]>>)
  /\ CheckpointOrFail("report", o.item)

ReportExplorer ==
  /\ pc = "report"
  /\ Emit(<<Event("WorkItemDone", current)>>)
  /\ CheckpointOrFail("collect", None)
  /\ UNCHANGED <<todo, live, outcomes, ctx, ret>> /\ UNCHANGED missionVars

VerificationFailed(o) ==
  RoleOf[o.item] = "verifier" /\ ~HandoffPassed(work, HandoffOf(o))

ReceiveDone(o) ==
  /\ Completes(o) /\ o.proposal = NoProposal /\ ~VerificationFailed(o)
  /\ work' = CompleteWork(work, o.item)
  /\ mstatus' = StatusAfter(work')
  /\ Emit(<<Event("WorkItemDone", o.item)>>)
  /\ IF RoleOf[o.item] = "reviewer" /\ ~o.blocking
     THEN CheckpointOrFail("skip", o.item)
     ELSE CheckpointOrFail("collect", None)

\* The verifier and the mutating items it depends on go back to the queue.
ReceiveRetry(o) ==
  /\ Completes(o) /\ VerificationFailed(o)
  /\ LET done == CompleteWork(work, o.item)
     IN /\ CanRequeue(done, o.item, MaxRepairAttempts)
        /\ work' = RequeueAfterVerification(done, o.item)
  /\ mstatus' = "running"
  /\ Emit(<<Event("WorkItemDone", o.item)>>)
  /\ CheckpointOrFail("collect", None)

ReceiveRejection(o) ==
  /\ Completes(o) /\ VerificationFailed(o)
  /\ LET done == CompleteWork(work, o.item)
     IN /\ ~CanRequeue(done, o.item, MaxRepairAttempts)
        /\ work' = CancelRunning(done)
  /\ mstatus' = "failed"
  /\ Emit(<<Event("WorkItemFailed", o.item)>>) /\ Checkpoint
  /\ BatchFails("error")

\* A review without a blocking finding bypasses the repairs waiting for it.
SkipRepairs ==
  /\ pc = "skip"
  /\ LET skipped == SkippedRepairs(work, current)
     IN /\ work' = Moved(work, skipped, "skipped")
        /\ \E order \in [1..Cardinality(skipped) -> skipped] :
             /\ \A m, n \in DOMAIN order : order[m] = order[n] => m = n
             /\ Emit([n \in DOMAIN order |-> Event("WorkItemDone", order[n])])
        /\ IF skipped = {} THEN NoCheckpoint /\ batchErr' = "" ELSE
             Checkpoint /\ batchErr' = IF ckpt' = "ok" THEN "" ELSE "error"
  /\ pc' = "collect" /\ current' = None
  /\ UNCHANGED <<mstatus, handoffs, todo, live, outcomes, ctx, ret>>
  /\ UsageUnchanged

\* All workers have reported: an error ends the invocation.
BatchEnd ==
  /\ pc = "collect" /\ live = {} /\ outcomes = {}
  /\ Emit(<<>>)
  /\ IF batchErr = ""
     THEN NoCheckpoint /\ pc' = "loop" /\ ret' = ret
     ELSE Checkpoint /\ pc' = "returned" /\ ret' = batchErr
  /\ UNCHANGED <<todo, live, outcomes, current, batchErr, ctx>>
  /\ UNCHANGED missionVars

-----------------------------------------------------------------------------
(* The owner's cancellation and the mission timeout, at any moment.        *)

CtxEnds ==
  /\ ctx = "live" /\ pc # "returned"
  /\ ctx' \in {"cancelled", "deadline"}
  /\ Quiet
  /\ UNCHANGED controlVars /\ UNCHANGED missionVars

-----------------------------------------------------------------------------
Init ==
  /\ mstatus = "queued" /\ work = InitialWork
  /\ handoffs = <<>> /\ calls = 0 /\ roleCalls = [r \in Roles |-> 0]
  /\ pc = "begin" /\ todo = {} /\ live = {} /\ outcomes = {}
  /\ current = None /\ batchErr = "" /\ ctx = "live" /\ ret = None
  /\ events = <<>> /\ ckpt = None

Receive(o) ==
  \/ Drain(o) \/ ReceiveOverBudget(o) \/ ReceiveError(o)
  \/ ReceiveUnrecordable(o) \/ ReceiveProposal(o) \/ ReceiveDone(o)
  \/ ReceiveRetry(o) \/ ReceiveRejection(o)

Start(i) == StartBlocked(i) \/ StartOverBudget(i) \/ StartItem(i)

RunStep ==
  \/ Begin \/ LoopInterrupted \/ LoopStuck \/ LoopSelect \/ LoopCompleted
  \/ \E i \in todo : Start(i)
  \/ \E o \in outcomes : Receive(o)
  \/ ReportExplorer \/ SkipRepairs \/ BatchEnd

WorkerStep == \E i \in live : WorkerFinish(i)

Next == RunStep \/ WorkerStep \/ CtxEnds

\* The coordinator goroutine and the workers keep running: every worker has
\* its own timeout and returns.  Nothing obliges the owner to cancel.
Spec == Init /\ [][Next]_vars /\ WF_vars(RunStep) /\ WF_vars(WorkerStep)

-----------------------------------------------------------------------------
(* Properties.                                                             *)

\* Every variable has its type.
TypeOK ==
  /\ mstatus \in MissionStatus
  /\ DOMAIN work \subseteq Ids /\ work \in [DOMAIN work -> WorkItem]
  /\ handoffs \in Seq(Handoff)
  /\ calls \in Nat /\ roleCalls \in [Roles -> Nat]
  /\ pc \in {"begin", "loop", "start", "collect", "report", "skip", "returned"}
  /\ todo \subseteq DOMAIN work /\ live \subseteq DOMAIN work
  /\ outcomes \subseteq Outcome
  /\ current \in Ids \cup {None}
  /\ batchErr \in {"", "error", "cancelled", "deadline"}
  /\ ctx \in {"live", "cancelled", "deadline"}
  /\ ret \in {None, "ok", "error", "cancelled", "deadline"}
  /\ ckpt \in {None, "ok", "failed"}

\* The writer lease: the workspace never has two writers at work, whether
\* counted by item status or by worker goroutine (team.go Start, selectBatch).
SingleWriter ==
  \A i, j \in Writers \cap (live \cup (WithStatus(work, {"running"}))) : i = j

\* What a passing verification is: every check passed, or a mission without a
\* writer whose verifier has nothing to run and reports no issue.
Passing(h) ==
  \/ h.checks = "pass"
  \/ DOMAIN work \cap Writers = {} /\ h.checks = "none" /\ ~h.issues

\* The lead gate, at all times and not only when the lead starts: while the
\* lead works and once it is done, some verification passed, no writer handed
\* off after it and no check failed after it (runBatch, verificationPassed).
LeadOnVerifiedWork ==
  \A l \in WithStatus(work, {"running", "completed"}) :
    RoleOf[l] = "lead" =>
      \E k \in 1..Len(handoffs) :
        /\ RoleOf[handoffs[k].item] = "verifier" /\ Passing(handoffs[k])
        /\ \A j \in k+1..Len(handoffs) :
             handoffs[j].item \notin Writers /\ handoffs[j].checks # "fail"

\* A mission completes only when the last word of every verifier is a pass:
\* none of them is left with a failed verification behind it (runBatch,
\* RequeueAfterVerification).
CompletedIsVerified ==
  mstatus = "completed" =>
    \A v \in DOMAIN work : RoleOf[v] = "verifier" =>
      \E k \in 1..Len(handoffs) :
         /\ handoffs[k].item = v /\ Passing(handoffs[k])
         /\ \A j \in k+1..Len(handoffs) : handoffs[j].item # v

\* Work is neither lost nor left behind: while the batch has no error a
\* running item is one a worker is executing or has reported, and a mission
\* that ended has nothing running (Fail, FailMission, Interrupt).
RunningIsOwned ==
  /\ pc # "returned" /\ batchErr = "" =>
       WithStatus(work, {"running"}) = live \cup {o.item : o \in outcomes}
  /\ mstatus \in {"failed", "interrupted"} => WithStatus(work, {"running"}) = {}

\* The batch is chosen before its items start: when its turn comes, each item
\* still satisfies what mission.Start demands, so Start's errors are dead.
BatchStaysStartable ==
  pc = "start" => \A i \in todo :
    /\ i \in Ready(work)
    /\ i \in Writers => Writers \cap live = {}

\* The model-call budget is checked before a start and after a result, so the
\* overshoot is at most what one batch of workers can spend.
BudgetOvershoot ==
  calls < MaxModelCalls + MaxParallel
          * (CHOOSE c \in CallCosts : \A d \in CallCosts : d <= c)

\* A verifier runs at most MaxRepairAttempts times, whatever it reports.
BoundedAttempts ==
  \A v \in DOMAIN work : RoleOf[v] = "verifier" =>
    work[v].attempt <= MaxRepairAttempts

\* Accepted substeps keep the work graph acyclic.
AcyclicWork == AcyclicGraph([i \in DOMAIN work |-> work[i].deps])

\* A mission without a failure never runs dry, as long as no substep waits for
\* the lead that waits for it: some item is ready whenever the loop looks for one
\* (Mission.Ready, SkipRepairsAfterReview).
NeverStuck ==
  pc = "loop" /\ mstatus = "running" /\ AcyclicWork => Ready(work) # {}

\* Finished work is redone only after a verifier that depends on it, or is
\* it, reported a failure in this very step (RequeueAfterVerification).
ReopenedOnlyByFailedVerification ==
  [][\A i \in DOMAIN work :
       Done(work, i) /\ ~Done(work', i) =>
         /\ Len(handoffs') = Len(handoffs) + 1
         /\ LET h == handoffs'[Len(handoffs')]
            IN /\ RoleOf[h.item] = "verifier" /\ ~Passing(h)
               /\ i = h.item \/ (i \in Writers /\ i \in work[h.item].deps)]_vars

\* Every invocation returns: the repair loop is bounded and no batch waits
\* for a worker that will not report.
Terminates == <>(pc = "returned")
=============================================================================
