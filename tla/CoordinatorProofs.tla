-------------------------- MODULE CoordinatorProofs --------------------------
(***************************************************************************)
(* What is proved of Coordinator for every set of items, every topology,   *)
(* every budget and every proposal.  First the type invariant, the writer  *)
(* lease, the ownership of running items and the overshoot of the budget;  *)
(* then what the coordinator makes of the verifiers' reports: finished     *)
(* work is reopened by a failed verification only, a verifier runs a       *)
(* bounded number of times, a mission that completes has the last word of  *)
(* every verifier for it, and its lead works on what a standing            *)
(* verification covers.  That a mission never runs dry, and when its graph *)
(* stays acyclic, comes last.                                              *)
(***************************************************************************)
EXTENDS Coordinator, SequenceTheorems, FiniteSetTheorems, TLAPS

-----------------------------------------------------------------------------
(* What the methods of Mission do to the type of the work graph and to the *)
(* set of items that are running.                                          *)

\* The work graph of a mission.
WorkGraph(w) == DOMAIN w \subseteq Ids /\ w \in [DOMAIN w -> WorkItem]

Running(w) == WithStatus(w, {"running"})

-----------------------------------------------------------------------------
\* InitialWork (NewMission, AddWork): nothing runs in a new mission.
LEMMA InitialWorkFacts ==
  WorkGraph(InitialWork) /\ Running(InitialWork) = {}
<1> USE DEF InitialWork, NewWork, WorkGraph, Running, WithStatus
<1>1. \A i \in DOMAIN Topology : Topology[i] \in SUBSET Ids
  BY TopologyAssumption
<1>2. \A i \in DOMAIN Topology :
        [status |-> "queued", attempt |-> 0, deps |-> Topology[i]] \in WorkItem
  BY <1>1 DEF WorkItem, WorkStatus, MissionStatus
<1>3. WorkGraph(InitialWork)
  BY <1>2, TopologyAssumption
<1> QED BY <1>3

\* Moving a set of items out of a status changes nothing else (failRunning,
\* Interrupt, Cancel, RequeueAfterVerification, SkipRepairsAfterReview).
LEMMA MovedFacts ==
  ASSUME NEW w, WorkGraph(w), NEW S, NEW st \in WorkStatus \ {"running"}
  PROVE  /\ WorkGraph(Moved(w, S, st))
         /\ DOMAIN Moved(w, S, st) = DOMAIN w
         /\ Running(Moved(w, S, st)) = Running(w) \ S
<1> DEFINE m == Moved(w, S, st)
<1>1. DOMAIN m = DOMAIN w
  BY DEF Moved
<1>2. \A i \in DOMAIN w : i \in S => m[i] \in WorkItem /\ m[i].status = st
  BY DEF Moved, WorkGraph, WorkItem
<1>3. \A i \in DOMAIN w : i \notin S => m[i] = w[i]
  BY DEF Moved
<1>4. WorkGraph(m)
  <2>1. \A i \in DOMAIN w : m[i] \in WorkItem
    BY <1>2, <1>3 DEF WorkGraph
  <2>2. m = [i \in DOMAIN w |-> m[i]]
    BY <1>1 DEF Moved
  <2> QED BY <1>1, <2>1, <2>2 DEF WorkGraph
<1>5. Running(m) = Running(w) \ S
  BY <1>1, <1>2, <1>3 DEF Running, WithStatus
<1> QED BY <1>1, <1>4, <1>5

\* Start makes one item run.
LEMMA StartWorkFacts ==
  ASSUME NEW w, WorkGraph(w), NEW i \in DOMAIN w
  PROVE  /\ WorkGraph(StartWork(w, i))
         /\ DOMAIN StartWork(w, i) = DOMAIN w
         /\ Running(StartWork(w, i)) = Running(w) \cup {i}
<1> DEFINE m == StartWork(w, i)
<1>1. DOMAIN m = DOMAIN w /\ \A j \in DOMAIN w \ {i} : m[j] = w[j]
  BY DEF StartWork
<1>2. m[i] \in WorkItem /\ m[i].status = "running"
  <2>1. w[i] \in WorkItem
    BY DEF WorkGraph
  <2> DEFINE r == [status |-> "running", attempt |-> w[i].attempt + 1, deps |-> w[i].deps]
  <2>2. m[i] = [[w[i] EXCEPT !.status = "running"] EXCEPT !.attempt = w[i].attempt + 1]
    BY <2>1 DEF StartWork, WorkItem
  <2>3. [w[i] EXCEPT !.status = "running"]
          = [status |-> "running", attempt |-> w[i].attempt, deps |-> w[i].deps]
    BY <2>1 DEF WorkItem
  <2>4. m[i] = r
    BY <2>2, <2>3
  <2>5. r \in WorkItem
    BY <2>1 DEF WorkItem, WorkStatus, MissionStatus
  <2> QED BY <2>4, <2>5
<1>3. WorkGraph(m)
  <2>1. \A j \in DOMAIN w : m[j] \in WorkItem
    BY <1>1, <1>2 DEF WorkGraph
  <2>2. m = [j \in DOMAIN w |-> m[j]]
    BY <1>1 DEF StartWork
  <2> QED BY <1>1, <2>1, <2>2 DEF WorkGraph
<1>4. Running(m) = Running(w) \cup {i}
  BY <1>1, <1>2 DEF Running, WithStatus
<1> QED BY <1>1, <1>3, <1>4

\* Complete and Fail put an end to one item.
LEMMA CompleteWorkFacts ==
  ASSUME NEW w, WorkGraph(w), NEW i
  PROVE  /\ WorkGraph(CompleteWork(w, i))
         /\ DOMAIN CompleteWork(w, i) = DOMAIN w
         /\ Running(CompleteWork(w, i)) = Running(w) \ {i}
<1> DEFINE m == CompleteWork(w, i)
<1>1. DOMAIN m = DOMAIN w /\ \A j \in DOMAIN w \ {i} : m[j] = w[j]
  BY DEF CompleteWork
<1>2. i \in DOMAIN w => m[i] \in WorkItem /\ m[i].status = "completed"
  BY DEF CompleteWork, WorkGraph, WorkItem, WorkStatus, MissionStatus
<1>3. WorkGraph(m)
  <2>1. \A j \in DOMAIN w : m[j] \in WorkItem
    BY <1>1, <1>2 DEF WorkGraph
  <2>2. m = [j \in DOMAIN w |-> m[j]]
    BY <1>1 DEF CompleteWork
  <2> QED BY <1>1, <2>1, <2>2 DEF WorkGraph
<1>4. Running(m) = Running(w) \ {i}
  BY <1>1, <1>2 DEF Running, WithStatus
<1> QED BY <1>1, <1>3, <1>4

LEMMA CancelRunningFacts ==
  ASSUME NEW w, WorkGraph(w)
  PROVE  /\ WorkGraph(CancelRunning(w))
         /\ DOMAIN CancelRunning(w) = DOMAIN w
         /\ Running(CancelRunning(w)) = {}
<1>1. "cancelled" \in WorkStatus \ {"running"}
  BY DEF WorkStatus, MissionStatus
<1> QED BY <1>1, MovedFacts DEF CancelRunning, Running

LEMMA FailWorkFacts ==
  ASSUME NEW w, WorkGraph(w), NEW i
  PROVE  /\ WorkGraph(FailWork(w, i))
         /\ DOMAIN FailWork(w, i) = DOMAIN w
         /\ Running(FailWork(w, i)) = {}
<1> DEFINE m == [w EXCEPT ![i].status = "failed"]
<1>1. DOMAIN m = DOMAIN w /\ \A j \in DOMAIN w \ {i} : m[j] = w[j]
  OBVIOUS
<1>2. i \in DOMAIN w => m[i] \in WorkItem
  BY DEF WorkGraph, WorkItem, WorkStatus, MissionStatus
<1>3. WorkGraph(m)
  <2>1. \A j \in DOMAIN w : m[j] \in WorkItem
    BY <1>1, <1>2 DEF WorkGraph
  <2>2. m = [j \in DOMAIN w |-> m[j]]
    BY <1>1
  <2> QED BY <1>1, <2>1, <2>2 DEF WorkGraph
<1> QED BY <1>1, <1>3, CancelRunningFacts DEF FailWork

\* Accepted substeps are queued and leave what runs alone.
LEMMA AddSubstepsFacts ==
  ASSUME NEW w, WorkGraph(w),
         NEW p, DOMAIN p \subseteq Ids, p \in [DOMAIN p -> SUBSET Ids]
  PROVE  /\ WorkGraph(AddSubsteps(w, p))
         /\ DOMAIN AddSubsteps(w, p) = DOMAIN w \cup DOMAIN p
         /\ Running(AddSubsteps(w, p)) \subseteq Running(w)
         /\ DOMAIN p \cap DOMAIN w = {} => Running(AddSubsteps(w, p)) = Running(w)
<1> DEFINE m == AddSubsteps(w, p)
<1>1. DOMAIN m = DOMAIN w \cup DOMAIN p
  BY DEF AddSubsteps
<1>2. \A i \in DOMAIN p : m[i] \in WorkItem /\ m[i].status = "queued"
  BY DEF AddSubsteps, NewWork, WorkItem, WorkStatus, MissionStatus
<1>3. \A i \in DOMAIN w \ DOMAIN p : m[i] \in WorkItem /\ m[i].status = w[i].status
  <2> TAKE i \in DOMAIN w \ DOMAIN p
  <2>1. w[i] \in WorkItem
    BY DEF WorkGraph
  <2>2. [w[i] EXCEPT !.deps = @ \cup DOMAIN p] \in WorkItem
    BY <2>1 DEF WorkItem
  <2>3. [w[i] EXCEPT !.deps = @ \cup DOMAIN p].status = w[i].status
    BY <2>1 DEF WorkItem
  <2> QED BY <2>1, <2>2, <2>3 DEF AddSubsteps
<1>4. WorkGraph(m)
  <2>1. \A i \in DOMAIN m : m[i] \in WorkItem
    BY <1>1, <1>2, <1>3
  <2>2. m = [i \in DOMAIN m |-> m[i]]
    BY DEF AddSubsteps
  <2>3. DOMAIN m \subseteq Ids
    BY <1>1 DEF WorkGraph
  <2> QED BY <2>1, <2>2, <2>3 DEF WorkGraph
<1>5. Running(m) \subseteq Running(w)
  BY <1>1, <1>2, <1>3 DEF Running, WithStatus
<1>6. DOMAIN p \cap DOMAIN w = {} => Running(m) = Running(w)
  BY <1>1, <1>2, <1>3 DEF Running, WithStatus
<1> QED BY <1>1, <1>4, <1>5, <1>6

-----------------------------------------------------------------------------
(* The same operators, item by item.                                       *)

LEMMA MovedAt ==
  ASSUME NEW w, WorkGraph(w), NEW S, NEW st, NEW i \in DOMAIN w
  PROVE  /\ i \in S => Moved(w, S, st)[i].status = st
         /\ i \notin S => Moved(w, S, st)[i].status = w[i].status
         /\ Moved(w, S, st)[i].attempt = w[i].attempt
         /\ Moved(w, S, st)[i].deps = w[i].deps
<1>1. w[i] \in WorkItem
  BY DEF WorkGraph
<1>2. Moved(w, S, st)[i] = IF i \in S THEN [w[i] EXCEPT !.status = st] ELSE w[i]
  BY DEF Moved
<1> QED BY <1>1, <1>2 DEF WorkItem

LEMMA StartWorkAt ==
  ASSUME NEW w, WorkGraph(w), NEW j \in DOMAIN w, NEW i \in DOMAIN w
  PROVE  /\ StartWork(w, j)[i].status = IF i = j THEN "running" ELSE w[i].status
         /\ StartWork(w, j)[i].attempt = IF i = j THEN w[i].attempt + 1 ELSE w[i].attempt
         /\ StartWork(w, j)[i].deps = w[i].deps
<1>1. w[i] \in WorkItem /\ w[j] \in WorkItem
  BY DEF WorkGraph
<1>2. i # j => StartWork(w, j)[i] = w[i]
  BY DEF StartWork
<1>3. i = j => StartWork(w, j)[i]
                 = [[w[i] EXCEPT !.status = "running"] EXCEPT !.attempt = w[i].attempt + 1]
  BY <1>1 DEF StartWork, WorkItem
<1> QED BY <1>1, <1>2, <1>3 DEF WorkItem

LEMMA CompleteWorkAt ==
  ASSUME NEW w, WorkGraph(w), NEW j, NEW i \in DOMAIN w
  PROVE  /\ CompleteWork(w, j)[i].status = IF i = j THEN "completed" ELSE w[i].status
         /\ CompleteWork(w, j)[i].attempt = w[i].attempt
         /\ CompleteWork(w, j)[i].deps = w[i].deps
<1>1. w[i] \in WorkItem
  BY DEF WorkGraph
<1>2. CompleteWork(w, j)[i] = IF i = j THEN [w[i] EXCEPT !.status = "completed"] ELSE w[i]
  BY DEF CompleteWork
<1> QED BY <1>1, <1>2 DEF WorkItem

\* Whatever fails, an item that is neither the one that failed nor running
\* stays as it is.
LEMMA FailWorkAt ==
  ASSUME NEW w, WorkGraph(w), NEW j, NEW i \in DOMAIN w
  PROVE  /\ FailWork(w, j)[i].status = IF i = j THEN "failed"
                                       ELSE IF w[i].status = "running" THEN "cancelled"
                                       ELSE w[i].status
         /\ FailWork(w, j)[i].attempt = w[i].attempt
         /\ FailWork(w, j)[i].deps = w[i].deps
<1> DEFINE m == [w EXCEPT ![j].status = "failed"]
<1>1. w[i] \in WorkItem
  BY DEF WorkGraph
<1>2. DOMAIN m = DOMAIN w
  OBVIOUS
<1>3. m[i] = IF i = j THEN [w[i] EXCEPT !.status = "failed"] ELSE w[i]
  OBVIOUS
<1>4. /\ m[i].status = IF i = j THEN "failed" ELSE w[i].status
      /\ m[i].attempt = w[i].attempt /\ m[i].deps = w[i].deps
  BY <1>1, <1>3 DEF WorkItem
<1>5. m[i] \in WorkItem
  BY <1>1, <1>3 DEF WorkItem, WorkStatus, MissionStatus
<1>6. FailWork(w, j)[i] = IF m[i].status = "running" THEN [m[i] EXCEPT !.status = "cancelled"]
                          ELSE m[i]
  BY <1>2 DEF FailWork, CancelRunning, Moved, WithStatus
<1> QED BY <1>4, <1>5, <1>6 DEF WorkItem

LEMMA CancelRunningAt ==
  ASSUME NEW w, WorkGraph(w), NEW i \in DOMAIN w
  PROVE  /\ CancelRunning(w)[i].status = IF w[i].status = "running" THEN "cancelled"
                                         ELSE w[i].status
         /\ CancelRunning(w)[i].attempt = w[i].attempt
         /\ CancelRunning(w)[i].deps = w[i].deps
BY MovedAt DEF CancelRunning, WithStatus

LEMMA AddSubstepsAt ==
  ASSUME NEW w, WorkGraph(w), NEW p, NEW i
  PROVE  /\ i \in DOMAIN p =>
              AddSubsteps(w, p)[i].status = "queued" /\ AddSubsteps(w, p)[i].attempt = 0
         /\ i \in DOMAIN w \ DOMAIN p =>
              /\ AddSubsteps(w, p)[i].status = w[i].status
              /\ AddSubsteps(w, p)[i].attempt = w[i].attempt
<1>1. i \in DOMAIN p => AddSubsteps(w, p)[i] = NewWork(p[i])
  BY DEF AddSubsteps
<1>2. CASE i \in DOMAIN w \ DOMAIN p
  <2>1. w[i] \in WorkItem
    BY <1>2 DEF WorkGraph
  <2>2. AddSubsteps(w, p)[i] \in {w[i], [w[i] EXCEPT !.deps = @ \cup DOMAIN p]}
    BY <1>2 DEF AddSubsteps
  <2> QED BY <1>2, <2>1, <2>2 DEF WorkItem
<1> QED BY <1>1, <1>2 DEF NewWork

-----------------------------------------------------------------------------
\* Lifting of the Mission lemmas to the step of the coordinator.
LEMMA WorkTyped ==
  TypeOK => WorkGraph(work)
BY DEF TypeOK, WorkGraph

-----------------------------------------------------------------------------
(* Type correctness.                                                       *)

LEMMA InitTypeOK == Init => TypeOK
<1> SUFFICES ASSUME Init PROVE TypeOK
  OBVIOUS
<1>1. WorkGraph(work)
  BY InitialWorkFacts DEF Init
<1>2. handoffs \in Seq(Handoff)
  BY EmptySeq DEF Init
<1>3. calls \in Nat /\ roleCalls \in [Roles -> Nat]
  BY DEF Init
<1>4. /\ DOMAIN work \subseteq Ids /\ work \in [DOMAIN work -> WorkItem]
  BY <1>1 DEF WorkGraph
<1> QED BY <1>2, <1>3, <1>4 DEF Init, TypeOK, MissionStatus, None

\* A received outcome adds a natural number to the two usage counters.
LEMMA ReceivedTyped ==
  ASSUME TypeOK, NEW o, Received(o)
  PROVE  /\ o \in Outcome /\ o.item \in Ids
         /\ calls' \in Nat /\ roleCalls' \in [Roles -> Nat]
         /\ outcomes' \subseteq Outcome /\ outcomes' \subseteq outcomes
         /\ todo' = todo /\ live' = live /\ ctx' = ctx /\ ret' = ret
<1>1. o \in Outcome /\ outcomes' \subseteq outcomes
  BY DEF Received, TypeOK
<1>2. o.cost \in Nat /\ o.item \in Ids
  BY <1>1, CoordinatorAssumption DEF Outcome
<1>3. RoleOf[o.item] \in Roles
  BY <1>2, RoleAssumption
<1>4. calls' \in Nat
  <2>1. calls \in Nat /\ calls' = calls + o.cost
    BY DEF Received, TypeOK
  <2> QED BY <1>2, <2>1
<1>5. roleCalls' \in [Roles -> Nat]
  <2>1. /\ roleCalls \in [Roles -> Nat]
        /\ roleCalls' = [roleCalls EXCEPT ![RoleOf[o.item]] = @ + o.cost]
    BY DEF Received, TypeOK
  <2>2. roleCalls[RoleOf[o.item]] + o.cost \in Nat
    BY <1>2, <1>3, <2>1
  <2> QED BY <2>1, <2>2
<1> QED BY <1>1, <1>2, <1>4, <1>5 DEF Received, TypeOK

LEMMA HandoffTyped ==
  ASSUME TypeOK, NEW o, Completes(o)
  PROVE  handoffs' \in Seq(Handoff) /\ Received(o)
<1>1. o \in Outcome
  BY DEF Completes, Accountable, Received, TypeOK
<1>2. HandoffOf(o) \in Handoff
  BY <1>1 DEF HandoffOf, Handoff, Outcome
<1>3. handoffs \in Seq(Handoff) /\ handoffs' = Append(handoffs, HandoffOf(o))
  BY DEF Completes, TypeOK
<1>4. handoffs' \in Seq(Handoff)
  BY <1>2, <1>3, AppendProperties
<1> QED BY <1>4 DEF Completes, Accountable

\* What a step changes apart from the mission keeps its type.
LEMMA FinishTyped ==
  ASSUME TypeOK, NEW i \in live, WorkerFinish(i)
  PROVE  TypeOK'
<1>1. PICK o \in Results(i) : outcomes' = outcomes \cup {o}
  BY DEF WorkerFinish
<1>2. o \in Outcome
  BY <1>1 DEF Results
<1> QED BY <1>1, <1>2 DEF WorkerFinish, TypeOK, Quiet, NoCheckpoint, missionVars

LEMMA StartTyped ==
  ASSUME TypeOK, NEW i \in todo, Start(i)
  PROVE  TypeOK'
<1> USE DEF Emit, UsageUnchanged
<1>1. i \in DOMAIN work /\ WorkGraph(work)
  BY WorkTyped DEF TypeOK
<1>2. CASE StartBlocked(i)
  BY <1>1, <1>2, CancelRunningFacts
     DEF StartBlocked, FailMission, Return, Checkpoint, TypeOK, WorkGraph, MissionStatus
<1>3. CASE StartOverBudget(i)
  BY <1>1, <1>3, CancelRunningFacts
     DEF StartOverBudget, FailMission, Return, Checkpoint, TypeOK, WorkGraph, MissionStatus
<1>4. CASE StartItem(i) /\ CanStart(work, i)
  <2>1. Launch(i)
    BY <1>4 DEF StartItem
  <2>2. WorkGraph(work') /\ DOMAIN work' = DOMAIN work
    BY <1>1, <2>1, StartWorkFacts DEF Launch
  <2>3. todo' \subseteq DOMAIN work' /\ live' \subseteq DOMAIN work'
    BY <1>1, <2>1, <2>2 DEF Launch, TypeOK
  <2>4. /\ pc' \in {"collect", "start", "returned"}
        /\ ret' \in {ret, "error"} /\ ckpt' \in {"ok", "failed"}
    BY <2>1 DEF Launch, CheckpointOrReturn, Checkpoint
  <2> QED BY <1>4, <2>1, <2>2, <2>3, <2>4
          DEF StartItem, Launch, TypeOK, WorkGraph, MissionStatus
<1>5. CASE StartItem(i) /\ ~CanStart(work, i)
  BY <1>5 DEF StartItem, Return, Quiet, NoCheckpoint, TypeOK, None
<1> QED BY <1>2, <1>3, <1>4, <1>5 DEF Start

\* The checkpoint that ends the handling of one outcome.
LEMMA CheckpointOrFailTyped ==
  ASSUME NEW next, NEW item, CheckpointOrFail(next, item)
  PROVE  /\ pc' \in {next, "collect"} /\ current' \in {item, None}
         /\ batchErr' \in {"", "error"} /\ ckpt' \in {"ok", "failed"}
BY DEF CheckpointOrFail, Checkpoint, BatchFails

LEMMA ReceiveTyped ==
  ASSUME TypeOK, NEW o \in outcomes, Receive(o)
  PROVE  TypeOK'
<1> USE DEF Emit
<1>1. WorkGraph(work)
  BY WorkTyped
<1>2. Received(o)
  BY DEF Receive, Drain, ReceiveOverBudget, ReceiveError, ReceiveUnrecordable,
         ReceiveProposal, ReceiveDone, ReceiveRetry, ReceiveRejection,
         Completes, Accountable
<1>3. /\ o \in Outcome /\ o.item \in Ids
      /\ calls' \in Nat /\ roleCalls' \in [Roles -> Nat]
      /\ outcomes' \subseteq Outcome /\ outcomes' \subseteq outcomes
      /\ todo' = todo /\ live' = live /\ ctx' = ctx /\ ret' = ret
  BY <1>2, ReceivedTyped
<1> DEFINE done == CompleteWork(work, o.item)
<1>4. WorkGraph(done) /\ DOMAIN done = DOMAIN work
  BY <1>1, CompleteWorkFacts
<1>5. SUFFICES /\ mstatus' \in MissionStatus
               /\ WorkGraph(work') /\ DOMAIN work \subseteq DOMAIN work'
               /\ handoffs' \in Seq(Handoff)
               /\ pc' \in {"collect", "report", "skip"}
               /\ current' \in Ids \cup {None}
               /\ batchErr' \in {"", "error", "cancelled", "deadline"}
               /\ ckpt' \in {None, "ok", "failed"}
  BY <1>3 DEF TypeOK, WorkGraph
<1>6. CASE Drain(o)
  BY <1>6, <1>1 DEF Drain, Received, Quiet, NoCheckpoint, TypeOK
<1>7. CASE ReceiveOverBudget(o)
  BY <1>7, <1>1, CancelRunningFacts
     DEF ReceiveOverBudget, FailMission, BatchFails, Checkpoint, TypeOK, MissionStatus
<1>8. CASE ReceiveError(o)
  <2>1. WorkerErr(o) \in {"error", "cancelled", "deadline"}
    BY DEF WorkerErr, TypeOK
  <2> QED BY <1>8, <1>1, <2>1, FailWorkFacts
          DEF ReceiveError, BatchFails, Checkpoint, TypeOK, MissionStatus
<1>9. CASE ReceiveUnrecordable(o)
  BY <1>9, <1>1, CancelRunningFacts
     DEF ReceiveUnrecordable, FailMission, BatchFails, Quiet, NoCheckpoint, TypeOK,
         MissionStatus
<1>10. ASSUME NEW w PROVE StatusAfter(w) \in MissionStatus
  BY DEF StatusAfter, TypeOK, MissionStatus
<1>11. CASE ReceiveProposal(o)
  <2>1. handoffs' \in Seq(Handoff)
    BY <1>11, HandoffTyped DEF ReceiveProposal
  <2>2. /\ pc' \in {"report", "collect"} /\ current' \in {o.item, None}
        /\ batchErr' \in {"", "error"} /\ ckpt' \in {"ok", "failed"}
    BY <1>11, CheckpointOrFailTyped DEF ReceiveProposal
  <2>3. DOMAIN o.proposal \subseteq Ids /\ o.proposal \in [DOMAIN o.proposal -> SUBSET Ids]
    BY <1>3, CoordinatorAssumption DEF Outcome
  <2>4. /\ WorkGraph(AddSubsteps(done, o.proposal))
        /\ DOMAIN done \subseteq DOMAIN AddSubsteps(done, o.proposal)
    BY <1>4, <2>3, AddSubstepsFacts
  <2>5. work' = done \/ work' = AddSubsteps(done, o.proposal)
    BY <1>11 DEF ReceiveProposal
  <2>6. mstatus' \in MissionStatus
    BY <1>10, <1>11 DEF ReceiveProposal, MissionStatus
  <2> QED BY <1>3, <1>4, <2>1, <2>2, <2>4, <2>5, <2>6
<1>12. CASE ReceiveDone(o)
  <2>1. handoffs' \in Seq(Handoff)
    BY <1>12, HandoffTyped DEF ReceiveDone
  <2>2. /\ pc' \in {"skip", "collect"} /\ current' \in {o.item, None}
        /\ batchErr' \in {"", "error"} /\ ckpt' \in {"ok", "failed"}
    BY <1>12, CheckpointOrFailTyped DEF ReceiveDone
  <2> QED BY <1>3, <1>4, <1>10, <1>12, <2>1, <2>2 DEF ReceiveDone
<1>13. CASE ReceiveRetry(o)
  <2>1. handoffs' \in Seq(Handoff)
    BY <1>13, HandoffTyped DEF ReceiveRetry
  <2>2. /\ pc' = "collect" /\ current' = None
        /\ batchErr' \in {"", "error"} /\ ckpt' \in {"ok", "failed"}
    BY <1>13, CheckpointOrFailTyped DEF ReceiveRetry
  <2>3. "queued" \in WorkStatus \ {"running"}
    BY DEF WorkStatus, MissionStatus
  <2>4. WorkGraph(work') /\ DOMAIN work' = DOMAIN work
    BY <1>4, <1>13, <2>3, MovedFacts DEF ReceiveRetry, RequeueAfterVerification
  <2> QED BY <1>13, <2>1, <2>2, <2>4 DEF ReceiveRetry, MissionStatus
<1>14. CASE ReceiveRejection(o)
  <2>1. handoffs' \in Seq(Handoff)
    BY <1>14, HandoffTyped DEF ReceiveRejection
  <2>2. WorkGraph(work') /\ DOMAIN work' = DOMAIN work
    BY <1>4, <1>14, CancelRunningFacts DEF ReceiveRejection
  <2> QED BY <1>14, <2>1, <2>2
          DEF ReceiveRejection, BatchFails, Checkpoint, MissionStatus
<1> QED BY <1>6, <1>7, <1>8, <1>9, <1>11, <1>12, <1>13, <1>14 DEF Receive

LEMMA StepTypeOK == TypeOK /\ [Next]_vars => TypeOK'
<1> SUFFICES ASSUME TypeOK, [Next]_vars PROVE TypeOK'
  OBVIOUS
<1> USE DEF Emit, UsageUnchanged, missionVars
<1>1. WorkGraph(work)
  BY WorkTyped
<1>2. CASE Begin
  BY <1>2 DEF Begin, CheckpointOrReturn, Checkpoint, TypeOK, MissionStatus
<1>3. CASE LoopInterrupted
  <2>1. "interrupted" \in WorkStatus \ {"running"}
    BY DEF WorkStatus, MissionStatus
  <2>2. WorkGraph(work') /\ DOMAIN work' = DOMAIN work
    BY <1>1, <1>3, <2>1, MovedFacts DEF LoopInterrupted, InterruptWork
  <2> QED BY <1>3, <2>2
          DEF LoopInterrupted, Return, Checkpoint, TypeOK, MissionStatus, WorkGraph
<1>4. CASE LoopStuck
  BY <1>1, <1>4, CancelRunningFacts
     DEF LoopStuck, FailMission, Return, Checkpoint, TypeOK, MissionStatus, WorkGraph
<1>5. CASE LoopSelect
  <2>1. todo' \subseteq DOMAIN work
    BY <1>5 DEF LoopSelect, SelectBatch, Ready, WithStatus
  <2> QED BY <1>5, <2>1 DEF LoopSelect, Quiet, NoCheckpoint, TypeOK
<1>6. CASE LoopCompleted
  BY <1>6 DEF LoopCompleted, Return, Checkpoint, TypeOK
<1>7. CASE \E i \in todo : Start(i)
  BY <1>7, StartTyped
<1>8. CASE \E o \in outcomes : Receive(o)
  BY <1>8, ReceiveTyped
<1>9. CASE ReportExplorer
  <2>1. /\ pc' = "collect" /\ current' = None
        /\ batchErr' \in {"", "error"} /\ ckpt' \in {"ok", "failed"}
    BY <1>9, CheckpointOrFailTyped DEF ReportExplorer
  <2> QED BY <1>9, <2>1 DEF ReportExplorer, TypeOK
<1>10. CASE SkipRepairs
  <2>1. "skipped" \in WorkStatus \ {"running"}
    BY DEF WorkStatus, MissionStatus
  <2>2. WorkGraph(work') /\ DOMAIN work' = DOMAIN work
    BY <1>1, <1>10, <2>1, MovedFacts DEF SkipRepairs
  <2>3. ckpt' \in {None, "ok", "failed"} /\ batchErr' \in {"", "error"}
    BY <1>10 DEF SkipRepairs, Checkpoint, NoCheckpoint
  <2> QED BY <1>10, <2>2, <2>3 DEF SkipRepairs, TypeOK, WorkGraph
<1>11. CASE BatchEnd
  BY <1>11 DEF BatchEnd, Checkpoint, NoCheckpoint, TypeOK
<1>12. CASE WorkerStep
  BY <1>12, FinishTyped DEF WorkerStep
<1>13. CASE CtxEnds
  BY <1>13 DEF CtxEnds, controlVars, Quiet, NoCheckpoint, TypeOK
<1>14. CASE UNCHANGED vars
  BY <1>14 DEF vars, TypeOK
<1> QED BY <1>2, <1>3, <1>4, <1>5, <1>6, <1>7, <1>8, <1>9, <1>10, <1>11, <1>12,
            <1>13, <1>14 DEF Next, RunStep

\* Every variable of the coordinator has its type, whatever the workers report
\* and whichever checkpoints fail.
THEOREM TypeCorrect == Spec => []TypeOK
BY InitTypeOK, StepTypeOK, PTL DEF Spec

-----------------------------------------------------------------------------
(* The writer lease.  SingleWriter alone is not inductive: the batch chosen  *)
(* for launch must hold one writer, and no item may be running when it is    *)
(* chosen, which is why BatchEnd waits for every worker.                     *)

Items(os) == {o.item : o \in os}

\* Between two batches nothing runs; an item runs only for a worker that is
\* alive or has reported, as long as the batch has no error.
RunningOwned ==
  /\ pc \in {"begin", "loop"} =>
       todo = {} /\ live = {} /\ outcomes = {} /\ Running(work) = {}
  /\ pc \in {"start", "collect", "report", "skip"} /\ batchErr = "" =>
       Running(work) \subseteq live \cup Items(outcomes)

\* Only collect goes on after an error, and it starts nothing.
ErrorsEndBatches ==
  /\ pc \in {"begin", "loop", "start", "report", "skip"} => batchErr = ""
  /\ pc \in {"collect", "report", "skip"} => todo = {}

Lease(S) == \A i, j \in Writers \cap S : i = j

LeaseInv ==
  /\ TypeOK /\ RunningOwned /\ ErrorsEndBatches
  /\ Lease(todo \cup live \cup Running(work))

LEMMA LeaseShrinks ==
  ASSUME NEW S, NEW T \in SUBSET S, Lease(S) PROVE Lease(T)
BY DEF Lease

LEMMA InitLease == Init => LeaseInv
<1> SUFFICES ASSUME Init PROVE LeaseInv
  OBVIOUS
<1>1. TypeOK
  BY InitTypeOK
<1>2. Running(work) = {}
  BY InitialWorkFacts DEF Init
<1> QED BY <1>1, <1>2 DEF Init, LeaseInv, RunningOwned, ErrorsEndBatches, Lease

\* At most one item of a batch mutates the workspace (selectBatch).
LEMMA SelectOneWriter ==
  ASSUME NEW ready \in SUBSET Ids PROVE Lease(SelectBatch(ready))
<1> SUFFICES ASSUME NEW i \in SelectBatch(ready), NEW j \in SelectBatch(ready),
                    i \in Writers, j \in Writers
             PROVE  i = j
  BY DEF Lease
<1>1. Rank[i] <= Rank[j] /\ Rank[j] <= Rank[i] /\ i \in Ids /\ j \in Ids
  BY DEF SelectBatch, Mutates
<1>2. Rank[i] \in Nat /\ Rank[j] \in Nat
  BY <1>1, RankAssumption
<1> QED BY <1>1, <1>2, RankAssumption

\* Selection: the workspace has no writer yet.
LEMMA SelectLease ==
  ASSUME LeaseInv, TypeOK', LoopSelect PROVE LeaseInv'
<1>1. Ready(work) \in SUBSET Ids
  BY DEF Ready, WithStatus, LeaseInv, TypeOK
<1>2. Running(work) = {} /\ live = {} /\ outcomes = {} /\ batchErr = ""
  BY DEF LoopSelect, LeaseInv, RunningOwned, ErrorsEndBatches
<1>3. /\ todo' = SelectBatch(Ready(work)) /\ pc' = "start"
      /\ work' = work /\ live' = live /\ outcomes' = outcomes /\ batchErr' = batchErr
  BY DEF LoopSelect, missionVars
<1>4. Lease(todo')
  BY <1>1, <1>3, SelectOneWriter
<1>5. (todo \cup live \cup Running(work))' = todo'
  BY <1>2, <1>3
<1> QED BY <1>2, <1>3, <1>4, <1>5 DEF LeaseInv, RunningOwned, ErrorsEndBatches

\* A start moves its item from the batch to the running ones.
LEMMA StartLease ==
  ASSUME LeaseInv, TypeOK', NEW i \in todo, Start(i) PROVE LeaseInv'
<1>1. /\ pc = "start" /\ batchErr = "" /\ i \in DOMAIN work /\ WorkGraph(work)
      /\ Running(work) \subseteq live \cup Items(outcomes)
  BY WorkTyped
     DEF Start, StartBlocked, StartOverBudget, StartItem, LeaseInv, RunningOwned,
         ErrorsEndBatches, TypeOK
<1>2. CASE ~(StartItem(i) /\ CanStart(work, i))
  <2>1. pc' = "returned" /\ todo' = todo /\ live' = live
    BY <1>2 DEF Start, StartBlocked, StartOverBudget, StartItem, Return
  <2>2. Running(work') \subseteq Running(work)
    BY <1>1, <1>2, CancelRunningFacts
       DEF Start, StartBlocked, StartOverBudget, StartItem, FailMission
  <2>3. Lease(todo \cup live \cup Running(work))'
    BY <2>1, <2>2, LeaseShrinks DEF LeaseInv
  <2> QED BY <2>1, <2>3 DEF LeaseInv, RunningOwned, ErrorsEndBatches
<1>3. CASE StartItem(i) /\ CanStart(work, i)
  <2>1. Launch(i)
    BY <1>3 DEF StartItem
  <2>2. Running(work') = Running(work) \cup {i}
    BY <1>1, <2>1, StartWorkFacts DEF Launch
  <2>3. outcomes' = outcomes /\ batchErr' = ""
    BY <1>1, <2>1 DEF Launch
  <2>4. todo' \subseteq todo /\ live' \subseteq live \cup {i}
    BY <2>1 DEF Launch
  <2>5. Lease(todo \cup live \cup Running(work))'
    BY <2>2, <2>4, LeaseShrinks DEF LeaseInv
  <2>6. CASE ckpt' = "ok"
    <3>1. /\ pc' = IF todo = {i} THEN "collect" ELSE "start"
          /\ todo' = todo \ {i} /\ live' = live \cup {i}
      BY <2>1, <2>6 DEF Launch, CheckpointOrReturn
    <3> QED BY <1>1, <2>2, <2>3, <2>5, <3>1 DEF LeaseInv, RunningOwned, ErrorsEndBatches
  <2>7. CASE ckpt' # "ok"
    <3>1. pc' = "returned"
      BY <2>1, <2>7 DEF Launch, CheckpointOrReturn
    <3> QED BY <2>5, <3>1 DEF LeaseInv, RunningOwned, ErrorsEndBatches
  <2> QED BY <2>6, <2>7
<1> QED BY <1>2, <1>3

\* Receiving an outcome starts nothing and, without an error, stops the item
\* that reported.
LEMMA ReceiveLease ==
  ASSUME LeaseInv, TypeOK', NEW o \in outcomes, Receive(o) PROVE LeaseInv'
<1>1. TypeOK /\ WorkGraph(work)
  BY WorkTyped DEF LeaseInv
<1>2. Received(o)
  BY DEF Receive, Drain, ReceiveOverBudget, ReceiveError, ReceiveUnrecordable,
         ReceiveProposal, ReceiveDone, ReceiveRetry, ReceiveRejection,
         Completes, Accountable
<1>3. /\ pc = "collect" /\ outcomes' = outcomes \ {o}
      /\ todo = {} /\ todo' = {} /\ live' = live
  BY <1>2 DEF Received, LeaseInv, ErrorsEndBatches
<1> DEFINE done == CompleteWork(work, o.item)
<1>4. WorkGraph(done) /\ Running(done) = Running(work) \ {o.item}
  BY <1>1, CompleteWorkFacts
<1>5. SUFFICES /\ Running(work') \subseteq Running(work)
               /\ pc' \in {"collect", "report", "skip"}
               /\ pc' # "collect" => batchErr' = ""
               /\ batchErr' = "" =>
                    Running(work') \subseteq live \cup Items(outcomes \ {o})
  <2>1. Lease(todo \cup live \cup Running(work))'
    BY <1>3, <1>5, LeaseShrinks DEF LeaseInv
  <2> QED BY <1>3, <1>5, <2>1 DEF LeaseInv, RunningOwned, ErrorsEndBatches
<1>6. CASE Drain(o)
  BY <1>3, <1>6 DEF Drain
<1>7. CASE ReceiveOverBudget(o) \/ ReceiveError(o) \/ ReceiveUnrecordable(o)
           \/ ReceiveRejection(o)
  <2>1. Running(work') = {}
    BY <1>1, <1>4, <1>7, CancelRunningFacts, FailWorkFacts
       DEF ReceiveOverBudget, ReceiveError, ReceiveUnrecordable, ReceiveRejection,
           FailMission
  <2>2. pc' = "collect"
    BY <1>7 DEF ReceiveOverBudget, ReceiveError, ReceiveUnrecordable,
                ReceiveRejection, BatchFails
  <2> QED BY <2>1, <2>2
<1>8. batchErr = "" => Running(done) \subseteq live \cup Items(outcomes \ {o})
  <2>1. batchErr = "" => Running(work) \subseteq live \cup Items(outcomes)
    BY <1>3 DEF LeaseInv, RunningOwned
  <2>2. Items(outcomes) = Items(outcomes \ {o}) \cup {o.item}
    BY DEF Items
  <2> QED BY <1>4, <2>1, <2>2
<1>9. CASE ReceiveProposal(o)
  <2>1. Running(AddSubsteps(done, o.proposal)) \subseteq Running(done)
    <3>1. o \in Outcome
      BY <1>1 DEF TypeOK
    <3>2. DOMAIN o.proposal \subseteq Ids /\ o.proposal \in [DOMAIN o.proposal -> SUBSET Ids]
      BY <3>1, CoordinatorAssumption DEF Outcome
    <3> QED BY <1>4, <3>2, AddSubstepsFacts
  <2>2. Running(work') \subseteq Running(done)
    BY <1>9, <2>1 DEF ReceiveProposal
  <2>3. batchErr = ""
    BY <1>9 DEF ReceiveProposal, Completes, Accountable
  <2>4. pc' \in {"report", "collect"} /\ (pc' # "collect" => batchErr' = "")
    BY <1>9 DEF ReceiveProposal, CheckpointOrFail, BatchFails
  <2> QED BY <1>4, <1>8, <2>2, <2>3, <2>4
<1>10. CASE ReceiveDone(o)
  <2>1. batchErr = "" /\ work' = done
    BY <1>10 DEF ReceiveDone, Completes, Accountable
  <2>2. pc' \in {"skip", "collect"} /\ (pc' # "collect" => batchErr' = "")
    BY <1>10 DEF ReceiveDone, CheckpointOrFail, BatchFails
  <2> QED BY <1>4, <1>8, <2>1, <2>2
<1>11. CASE ReceiveRetry(o)
  <2>1. "queued" \in WorkStatus \ {"running"}
    BY DEF WorkStatus, MissionStatus
  <2>2. Running(work') \subseteq Running(done)
    BY <1>4, <1>11, <2>1, MovedFacts DEF ReceiveRetry, RequeueAfterVerification
  <2>3. batchErr = ""
    BY <1>11 DEF ReceiveRetry, Completes, Accountable
  <2>4. pc' = "collect"
    BY <1>11 DEF ReceiveRetry, CheckpointOrFail, BatchFails
  <2> QED BY <1>4, <1>8, <2>2, <2>3, <2>4
<1> QED BY <1>6, <1>7, <1>9, <1>10, <1>11 DEF Receive

LEMMA StepLease == LeaseInv /\ [Next]_vars => LeaseInv'
<1> SUFFICES ASSUME LeaseInv, [Next]_vars PROVE LeaseInv'
  OBVIOUS
<1>1. TypeOK /\ WorkGraph(work) /\ TypeOK'
  BY WorkTyped, StepTypeOK DEF LeaseInv
<1>2. CASE Begin
  BY <1>1, <1>2
     DEF Begin, CheckpointOrReturn, LeaseInv, RunningOwned, ErrorsEndBatches
<1>3. CASE LoopInterrupted \/ LoopStuck
  <2>1. "interrupted" \in WorkStatus \ {"running"}
    BY DEF WorkStatus, MissionStatus
  <2>2. Running(work') \subseteq Running(work)
    BY <1>1, <1>3, <2>1, MovedFacts, CancelRunningFacts
       DEF LoopInterrupted, InterruptWork, LoopStuck, FailMission
  <2>3. pc' = "returned" /\ todo' = todo /\ live' = live
    BY <1>3 DEF LoopInterrupted, LoopStuck, Return
  <2>4. Lease(todo \cup live \cup Running(work))'
    BY <2>2, <2>3, LeaseShrinks DEF LeaseInv
  <2> QED BY <1>1, <2>3, <2>4 DEF LeaseInv, RunningOwned, ErrorsEndBatches
<1>4. CASE LoopSelect
  BY <1>1, <1>4, SelectLease
<1>5. CASE LoopCompleted
  BY <1>1, <1>5
     DEF LoopCompleted, Return, missionVars, LeaseInv, RunningOwned, ErrorsEndBatches
<1>6. CASE \E i \in todo : Start(i)
  BY <1>1, <1>6, StartLease
<1>7. CASE \E o \in outcomes : Receive(o)
  BY <1>1, <1>7, ReceiveLease
<1>8. CASE ReportExplorer
  BY <1>1, <1>8
     DEF ReportExplorer, missionVars, CheckpointOrFail, BatchFails,
         LeaseInv, RunningOwned, ErrorsEndBatches
<1>9. CASE SkipRepairs
  <2>1. "skipped" \in WorkStatus \ {"running"}
    BY DEF WorkStatus, MissionStatus
  <2>2. Running(work') \subseteq Running(work)
    <3>1. work' = Moved(work, SkippedRepairs(work, current), "skipped")
      BY <1>9 DEF SkipRepairs
    <3> QED BY <1>1, <2>1, <3>1, MovedFacts
  <2>3. /\ pc = "skip" /\ pc' = "collect"
        /\ todo' = todo /\ live' = live /\ outcomes' = outcomes
        /\ todo = {} /\ batchErr = ""
    BY <1>9 DEF SkipRepairs, LeaseInv, ErrorsEndBatches
  <2>4. Lease(todo \cup live \cup Running(work))'
    BY <2>2, <2>3, LeaseShrinks DEF LeaseInv
  <2> QED BY <1>1, <2>2, <2>3, <2>4 DEF LeaseInv, RunningOwned, ErrorsEndBatches
<1>10. CASE BatchEnd
  <2>1. Items({}) = {}
    BY DEF Items
  <2>2. /\ pc = "collect" /\ todo = {} /\ live = {} /\ outcomes = {}
        /\ UNCHANGED <<todo, live, outcomes, batchErr, work>>
    BY <1>10 DEF BatchEnd, missionVars, LeaseInv, ErrorsEndBatches
  <2>3. batchErr = "" => Running(work) = {}
    BY <2>1, <2>2 DEF LeaseInv, RunningOwned
  <2>4. pc' = IF batchErr = "" THEN "loop" ELSE "returned"
    BY <1>10 DEF BatchEnd
  <2>5. RunningOwned' /\ ErrorsEndBatches'
    BY <2>2, <2>3, <2>4 DEF RunningOwned, ErrorsEndBatches
  <2>6. Lease(todo \cup live \cup Running(work))'
    BY <2>2 DEF LeaseInv
  <2> QED BY <1>1, <2>5, <2>6 DEF LeaseInv
<1>11. CASE WorkerStep
  <2>1. PICK i \in live : WorkerFinish(i)
    BY <1>11 DEF WorkerStep
  <2>2. PICK o \in Results(i) : outcomes' = outcomes \cup {o}
    BY <2>1 DEF WorkerFinish
  <2>3. live' = live \ {i} /\ Items(outcomes') = Items(outcomes) \cup {i}
    BY <2>1, <2>2 DEF WorkerFinish, Results, Items
  <2>4. UNCHANGED <<pc, todo, batchErr, work>>
    BY <2>1 DEF WorkerFinish, missionVars
  <2>5. Lease(todo \cup live \cup Running(work))'
    BY <2>3, <2>4, LeaseShrinks DEF LeaseInv
  <2> QED BY <1>1, <2>1, <2>3, <2>4, <2>5 DEF LeaseInv, RunningOwned, ErrorsEndBatches
<1>12. CASE CtxEnds
  BY <1>1, <1>12
     DEF CtxEnds, controlVars, missionVars, LeaseInv, RunningOwned, ErrorsEndBatches
<1>13. CASE UNCHANGED vars
  BY <1>1, <1>13 DEF vars, LeaseInv, RunningOwned, ErrorsEndBatches
<1> QED BY <1>2, <1>3, <1>4, <1>5, <1>6, <1>7, <1>8, <1>9, <1>10, <1>11, <1>12,
            <1>13 DEF Next, RunStep

LEMMA LeaseIsSingleWriter == LeaseInv => SingleWriter
BY DEF LeaseInv, Lease, SingleWriter, Running

\* The workspace never has two writers at work, neither by item status nor by
\* worker goroutine (Mission.Start, selectBatch, runBatch).
THEOREM OneWriterAtATime == Spec => []SingleWriter
<1>1. Spec => []LeaseInv
  BY InitLease, StepLease, PTL DEF Spec
<1> QED BY <1>1, LeaseIsSingleWriter, PTL

-----------------------------------------------------------------------------
(* Ownership of the running items.  RunningIsOwned is not inductive: that a  *)
(* received outcome takes exactly its own item out needs every worker to     *)
(* report once, and that an item starts out unowned needs the batch to hold  *)
(* items that are still ready.                                               *)

Ownership ==
  /\ pc # "returned" /\ batchErr = "" => live \cup Items(outcomes) \subseteq Running(work)
  /\ live \cap Items(outcomes) = {}
  /\ \A o, p \in outcomes : o.item = p.item => o = p
  /\ \A o \in outcomes : o \in Results(o.item)

TodoIsReady == pc = "start" => todo \subseteq Ready(work)

EndedIsQuiet == mstatus \in {"failed", "interrupted"} => Running(work) = {}

OwnedInv == LeaseInv /\ Ownership /\ TodoIsReady /\ EndedIsQuiet

LEMMA InitOwned == Init => OwnedInv
<1> SUFFICES ASSUME Init PROVE OwnedInv
  OBVIOUS
<1>1. LeaseInv
  BY InitLease
<1>2. live = {} /\ outcomes = {} /\ pc = "begin" /\ mstatus = "queued"
  BY DEF Init
<1>3. Items(outcomes) = {}
  BY <1>2 DEF Items
<1> QED BY <1>1, <1>2, <1>3 DEF OwnedInv, Ownership, TodoIsReady, EndedIsQuiet

\* A ready item does not run and is not done.
LEMMA ReadyIsIdle ==
  ASSUME NEW w, NEW i \in Ready(w)
  PROVE  /\ i \in DOMAIN w /\ w[i].status \in {"queued", "interrupted"}
         /\ i \notin Running(w) /\ ~Done(w, i)
BY DEF Ready, WithStatus, Running, Done

\* Starting one ready item leaves the others ready.
LEMMA ReadyKept ==
  ASSUME NEW w, WorkGraph(w), NEW i \in Ready(w), NEW j \in Ready(w), i # j
  PROVE  j \in Ready(StartWork(w, i))
<1> DEFINE m == StartWork(w, i)
<1>1. i \in DOMAIN w /\ j \in DOMAIN w /\ DOMAIN m = DOMAIN w /\ ~Done(w, i)
  BY ReadyIsIdle, StartWorkFacts
<1>2. m[j].status = w[j].status /\ m[j].deps = w[j].deps
  BY <1>1, StartWorkAt
<1>3. \A d \in w[j].deps : d \in DOMAIN w /\ Done(w, d) /\ d # i
  BY <1>1 DEF Ready
<1>4. ASSUME NEW d \in w[j].deps PROVE d \in DOMAIN m /\ Done(m, d)
  <2>1. d \in DOMAIN w /\ d # i /\ Done(w, d)
    BY <1>3
  <2>2. m[d].status = w[d].status
    BY <1>1, <2>1, StartWorkAt
  <2> QED BY <1>1, <2>1, <2>2 DEF Done
<1> QED BY <1>1, <1>2, <1>4 DEF Ready, WithStatus

LEMMA StartOwned ==
  ASSUME OwnedInv, LeaseInv', NEW i \in todo, Start(i) PROVE OwnedInv'
<1>1. /\ pc = "start" /\ batchErr = "" /\ WorkGraph(work)
      /\ i \in Ready(work) /\ i \in DOMAIN work
  BY WorkTyped
     DEF Start, StartBlocked, StartOverBudget, StartItem, OwnedInv, LeaseInv,
         ErrorsEndBatches, TodoIsReady, TypeOK
<1>2. CASE ~(StartItem(i) /\ CanStart(work, i))
  <2>1. pc' = "returned" /\ live' = live /\ outcomes' = outcomes
    BY <1>2 DEF Start, StartBlocked, StartOverBudget, StartItem, Return
  <2>2. \/ Running(work') = {}
        \/ work' = work /\ mstatus' = mstatus
    BY <1>1, <1>2, CancelRunningFacts
       DEF Start, StartBlocked, StartOverBudget, StartItem, FailMission
  <2> QED BY <2>1, <2>2 DEF OwnedInv, Ownership, TodoIsReady, EndedIsQuiet
<1>3. CASE StartItem(i) /\ CanStart(work, i)
  <2>1. Launch(i)
    BY <1>3 DEF StartItem
  <2>2. /\ Running(work') = Running(work) \cup {i}
        /\ mstatus' = "running" /\ outcomes' = outcomes /\ batchErr' = batchErr
    BY <1>1, <2>1, StartWorkFacts DEF Launch
  <2>3. CASE ckpt' # "ok"
    <3>1. pc' = "returned" /\ live' = live
      BY <2>1, <2>3 DEF Launch, CheckpointOrReturn
    <3> QED BY <2>2, <3>1 DEF OwnedInv, Ownership, TodoIsReady, EndedIsQuiet
  <2>4. CASE ckpt' = "ok"
    <3>1. todo' = todo \ {i} /\ live' = live \cup {i}
      BY <2>1, <2>4 DEF Launch
    <3>2. live \cup Items(outcomes) \subseteq Running(work)
      BY <1>1 DEF OwnedInv, Ownership
    <3>3. i \notin Running(work)
      BY <1>1, ReadyIsIdle
    <3>4. Ownership'
      BY <2>2, <3>1, <3>2, <3>3 DEF OwnedInv, Ownership
    <3>5. todo' \subseteq Ready(work')
      BY <1>1, <2>1, <3>1, ReadyKept DEF Launch, OwnedInv, TodoIsReady
    <3> QED BY <2>2, <3>4, <3>5 DEF OwnedInv, TodoIsReady, EndedIsQuiet
  <2> QED BY <2>3, <2>4
<1> QED BY <1>2, <1>3

\* Handling an outcome without an error takes its item out of the running
\* ones, and no other.
LEMMA ReceiveOwned ==
  ASSUME OwnedInv, LeaseInv', NEW o \in outcomes, Receive(o) PROVE OwnedInv'
<1>1. TypeOK /\ WorkGraph(work) /\ o \in Outcome
  BY WorkTyped DEF OwnedInv, LeaseInv, TypeOK
<1>2. Received(o)
  BY DEF Receive, Drain, ReceiveOverBudget, ReceiveError, ReceiveUnrecordable,
         ReceiveProposal, ReceiveDone, ReceiveRetry, ReceiveRejection,
         Completes, Accountable
<1>3. pc = "collect" /\ outcomes' = outcomes \ {o} /\ live' = live
  BY <1>2 DEF Received
<1>4. Items(outcomes') = Items(outcomes) \ {o.item}
  BY <1>3 DEF Items, OwnedInv, Ownership
<1>5. o.item \notin live
  <2>1. o.item \in Items(outcomes)
    BY DEF Items
  <2> QED BY <2>1 DEF OwnedInv, Ownership
<1> DEFINE done == CompleteWork(work, o.item)
<1>6. WorkGraph(done) /\ Running(done) = Running(work) \ {o.item}
  BY <1>1, CompleteWorkFacts
<1>7. SUFFICES /\ pc' # "start"
               /\ batchErr' = "" => Running(work') = Running(done)
               /\ batchErr' = "" => batchErr = ""
               /\ mstatus' \in {"failed", "interrupted"} => Running(work') = {}
  <2>1. batchErr' = "" => live' \cup Items(outcomes') \subseteq Running(work')
    BY <1>3, <1>4, <1>5, <1>6, <1>7 DEF OwnedInv, Ownership
  <2>2. Ownership'
    BY <1>3, <1>4, <2>1 DEF OwnedInv, Ownership
  <2> QED BY <1>7, <2>2 DEF OwnedInv, TodoIsReady, EndedIsQuiet
<1>8. CASE Drain(o)
  BY <1>3, <1>8 DEF Drain, OwnedInv, EndedIsQuiet
<1>9. CASE ReceiveOverBudget(o) \/ ReceiveError(o) \/ ReceiveUnrecordable(o)
           \/ ReceiveRejection(o)
  <2>1. Running(work') = {}
    BY <1>1, <1>6, <1>9, CancelRunningFacts, FailWorkFacts
       DEF ReceiveOverBudget, ReceiveError, ReceiveUnrecordable, ReceiveRejection,
           FailMission
  <2>2. WorkerErr(o) # ""
    BY <1>1 DEF WorkerErr, TypeOK
  <2>3. pc' = "collect" /\ batchErr' # ""
    BY <1>9, <2>2 DEF ReceiveOverBudget, ReceiveError, ReceiveUnrecordable,
                ReceiveRejection, BatchFails
  <2> QED BY <2>1, <2>3
\* Nothing runs in a mission that ended, so nothing will.
<1>10. ASSUME mstatus' \in {mstatus, "completed", "running"},
              Running(work') = Running(done)
       PROVE  mstatus' \in {"failed", "interrupted"} => Running(work') = {}
  BY <1>6, <1>10 DEF OwnedInv, EndedIsQuiet
<1>11. CASE ReceiveProposal(o)
  <2>1. DOMAIN o.proposal \subseteq Ids /\ o.proposal \in [DOMAIN o.proposal -> SUBSET Ids]
    BY <1>1, CoordinatorAssumption DEF Outcome
  <2>2. DOMAIN o.proposal \cap DOMAIN done = {} =>
          Running(AddSubsteps(done, o.proposal)) = Running(done)
    BY <1>6, <2>1, AddSubstepsFacts
  <2>3. Running(work') = Running(done)
    BY <1>11, <2>2 DEF ReceiveProposal, ValidSubstepProposal
  <2>4. mstatus' \in {mstatus, "completed", "running"}
    BY <1>11 DEF ReceiveProposal, StatusAfter
  <2>5. pc' \in {"report", "collect"} /\ batchErr = ""
    BY <1>11 DEF ReceiveProposal, CheckpointOrFail, BatchFails, Completes, Accountable
  <2> QED BY <1>10, <2>3, <2>4, <2>5
<1>12. CASE ReceiveDone(o)
  <2>1. work' = done /\ mstatus' \in {mstatus, "completed", "running"} /\ batchErr = ""
    BY <1>12 DEF ReceiveDone, StatusAfter, Completes, Accountable
  <2>2. pc' \in {"skip", "collect"}
    BY <1>12 DEF ReceiveDone, CheckpointOrFail, BatchFails
  <2> QED BY <1>10, <2>1, <2>2
<1>13. CASE ReceiveRetry(o)
  <2>1. "queued" \in WorkStatus \ {"running"}
    BY DEF WorkStatus, MissionStatus
  <2>2. work' = Moved(done, RepairsOf(done, o.item) \cup {o.item}, "queued")
    BY <1>13 DEF ReceiveRetry, RequeueAfterVerification
  <2>3. RepairsOf(done, o.item) \cap Running(done) = {}
    BY DEF RepairsOf, Done, Running, WithStatus
  <2>4. Running(work') = Running(done)
    BY <1>6, <2>1, <2>2, <2>3, MovedFacts
  <2>5. mstatus' = "running" /\ batchErr = "" /\ pc' = "collect"
    BY <1>13 DEF ReceiveRetry, CheckpointOrFail, BatchFails, Completes, Accountable
  <2> QED BY <2>4, <2>5
<1> QED BY <1>8, <1>9, <1>11, <1>12, <1>13 DEF Receive

LEMMA FinishOwned ==
  ASSUME OwnedInv, LeaseInv', NEW i \in live, WorkerFinish(i) PROVE OwnedInv'
<1>1. PICK r \in Results(i) : outcomes' = outcomes \cup {r}
  BY DEF WorkerFinish
<1>2. r.item = i
  BY <1>1 DEF Results
<1>3. UNCHANGED <<pc, todo, batchErr, work, mstatus>> /\ live' = live \ {i}
  BY DEF WorkerFinish, missionVars
<1>4. Items(outcomes') = Items(outcomes) \cup {i} /\ i \notin Items(outcomes)
  BY <1>1, <1>2 DEF Items, OwnedInv, Ownership
<1>5. \A o \in outcomes : o.item # i
  BY <1>4 DEF Items
<1>6. Ownership'
  BY <1>1, <1>2, <1>3, <1>4, <1>5 DEF OwnedInv, Ownership
<1> QED BY <1>3, <1>6 DEF OwnedInv, TodoIsReady, EndedIsQuiet

LEMMA StepOwned == OwnedInv /\ [Next]_vars => OwnedInv'
<1> SUFFICES ASSUME OwnedInv, [Next]_vars PROVE OwnedInv'
  OBVIOUS
<1>1. LeaseInv /\ LeaseInv' /\ WorkGraph(work)
  BY StepLease, WorkTyped DEF OwnedInv, LeaseInv
<1> USE DEF Ownership, TodoIsReady, EndedIsQuiet
<1>2. CASE Begin
  BY <1>1, <1>2
     DEF Begin, CheckpointOrReturn, OwnedInv, LeaseInv, RunningOwned, ErrorsEndBatches
<1>3. CASE LoopInterrupted \/ LoopStuck
  <2>1. "interrupted" \in WorkStatus \ {"running"}
    BY DEF WorkStatus, MissionStatus
  <2>2. Running(work') = {}
    <3>1. Running(work) = {}
      BY <1>1, <1>3 DEF LoopInterrupted, LoopStuck, LeaseInv, RunningOwned
    <3>2. Running(work') \subseteq Running(work)
      BY <1>1, <1>3, <2>1, MovedFacts, CancelRunningFacts
         DEF LoopInterrupted, InterruptWork, LoopStuck, FailMission
    <3> QED BY <3>1, <3>2
  <2>3. pc' = "returned" /\ live' = live /\ outcomes' = outcomes
    BY <1>3 DEF LoopInterrupted, LoopStuck, Return
  <2> QED BY <1>1, <2>2, <2>3 DEF OwnedInv
<1>4. CASE LoopSelect
  <2>1. todo' \subseteq Ready(work)
    BY <1>4 DEF LoopSelect, SelectBatch
  <2> QED BY <1>1, <1>4, <2>1 DEF LoopSelect, missionVars, OwnedInv
<1>5. CASE LoopCompleted
  BY <1>1, <1>5 DEF LoopCompleted, Return, missionVars, OwnedInv
<1>6. CASE \E i \in todo : Start(i)
  BY <1>1, <1>6, StartOwned
<1>7. CASE \E o \in outcomes : Receive(o)
  BY <1>1, <1>7, ReceiveOwned
<1>8. CASE ReportExplorer
  <2>1. pc' = "collect"
    BY <1>8 DEF ReportExplorer, CheckpointOrFail, BatchFails
  <2>2. pc = "report" /\ UNCHANGED <<work, mstatus, live, outcomes>>
    BY <1>8 DEF ReportExplorer, missionVars
  <2>3. batchErr = ""
    BY <1>1, <2>2 DEF LeaseInv, ErrorsEndBatches
  <2> QED BY <1>1, <2>1, <2>2, <2>3 DEF OwnedInv
<1>9. CASE SkipRepairs
  <2>1. "skipped" \in WorkStatus \ {"running"}
    BY DEF WorkStatus, MissionStatus
  <2>2. work' = Moved(work, SkippedRepairs(work, current), "skipped")
    BY <1>9 DEF SkipRepairs
  <2>3. SkippedRepairs(work, current) \cap Running(work) = {}
    BY DEF SkippedRepairs, Running, WithStatus
  <2>4. Running(work') = Running(work)
    BY <1>1, <2>1, <2>2, <2>3, MovedFacts
  <2>5. /\ pc = "skip" /\ pc' = "collect" /\ batchErr = ""
        /\ UNCHANGED <<mstatus, live, outcomes>>
    BY <1>1, <1>9 DEF SkipRepairs, LeaseInv, ErrorsEndBatches
  <2> QED BY <1>1, <2>4, <2>5 DEF OwnedInv
<1>10. CASE BatchEnd
  BY <1>1, <1>10 DEF BatchEnd, missionVars, OwnedInv
<1>11. CASE WorkerStep
  BY <1>1, <1>11, FinishOwned DEF WorkerStep
<1>12. CASE CtxEnds
  BY <1>1, <1>12 DEF CtxEnds, controlVars, missionVars, OwnedInv
<1>13. CASE UNCHANGED vars
  BY <1>1, <1>13 DEF vars, OwnedInv
<1> QED BY <1>2, <1>3, <1>4, <1>5, <1>6, <1>7, <1>8, <1>9, <1>10, <1>11, <1>12,
            <1>13 DEF Next, RunStep

LEMMA AlwaysOwned == Spec => []OwnedInv
BY InitOwned, StepOwned, PTL DEF Spec

LEMMA OwnedIsRunning == OwnedInv => RunningIsOwned
<1> SUFFICES ASSUME OwnedInv PROVE RunningIsOwned
  OBVIOUS
<1>1. ASSUME pc # "returned", batchErr = ""
      PROVE  Running(work) = live \cup Items(outcomes)
  <2>1. live \cup Items(outcomes) \subseteq Running(work)
    BY <1>1 DEF OwnedInv, Ownership
  <2>2. Running(work) \subseteq live \cup Items(outcomes)
    BY <1>1 DEF OwnedInv, LeaseInv, TypeOK, RunningOwned
  <2> QED BY <2>1, <2>2
<1> QED BY <1>1 DEF OwnedInv, EndedIsQuiet, RunningIsOwned, Running, Items

\* While a batch has no error its running items are exactly those a worker is
\* executing or has reported, and a mission that failed or was interrupted has
\* none (runBatch, Fail, FailMission, Interrupt).
THEOREM RunningHasAnOwner == Spec => []RunningIsOwned
BY AlwaysOwned, OwnedIsRunning, PTL

LEMMA OwnedIsStartable == OwnedInv => BatchStaysStartable
<1> SUFFICES ASSUME OwnedInv, pc = "start", NEW i \in todo
             PROVE  i \in Ready(work) /\ (i \in Writers => Writers \cap live = {})
  BY DEF BatchStaysStartable
<1>1. i \in Ready(work)
  BY DEF OwnedInv, TodoIsReady
<1>2. live \subseteq Running(work)
  BY DEF OwnedInv, Ownership, LeaseInv, ErrorsEndBatches
<1>3. i \notin live
  BY <1>1, <1>2, ReadyIsIdle
<1>4. \A j \in live : i \in Writers /\ j \in Writers => i = j
  BY DEF OwnedInv, LeaseInv, Lease
<1> QED BY <1>1, <1>3, <1>4

\* Whatever the workers launched before it do, an item of the batch is still
\* ready, and the workspace still free for it, when its turn comes
\* (selectBatch, Mission.Start).
THEOREM StartsNeverFail == Spec => []BatchStaysStartable
BY AlwaysOwned, OwnedIsStartable, PTL

-----------------------------------------------------------------------------
(* The budget.  BudgetOvershoot is not inductive: what a worker still has to *)
(* report must be counted, and only MaxParallel of them may ever be at work. *)

\* The workers whose usage the mission has still to receive.
Spenders == Cardinality(live) + Cardinality(outcomes)

\* With c the most model calls one worker may report.
SpendInv(c) ==
  /\ IsFiniteSet(DOMAIN work) /\ IsFiniteSet(outcomes)
  /\ Spenders + Cardinality(todo) <= MaxParallel
  /\ calls + Spenders * c < MaxModelCalls + MaxParallel * c

LEMMA Products ==
  ASSUME NEW a \in Nat, NEW b \in Nat, NEW c \in Nat
  PROVE  /\ a * c \in Nat /\ (a + 1) * c = a * c + c
         /\ a <= b => a * c <= b * c
<1>1. a * c \in Nat /\ (a + 1) * c = a * c + c
  OBVIOUS
<1>2. ASSUME a <= b PROVE a * c <= b * c
  <2>1. b - a \in Nat /\ b * c = a * c + (b - a) * c
    BY <1>2
  <2>2. (b - a) * c \in Nat
    BY <2>1
  <2> QED BY <1>1, <2>1, <2>2
<1> QED BY <1>1, <1>2

\* A batch holds at most MaxParallel items (selectBatch).
LEMMA SelectSize ==
  ASSUME NEW ready \in SUBSET Ids, IsFiniteSet(ready)
  PROVE  Cardinality(SelectBatch(ready)) <= MaxParallel
<1> DEFINE eligible == {i \in ready : Mutates(i) =>
                          \A j \in ready : Mutates(j) => Rank[i] <= Rank[j]}
           Below(i) == {j \in eligible : Rank[j] < Rank[i]}
           S == SelectBatch(ready)
           T == 0..(MaxParallel - 1)
           b == [i \in S |-> Cardinality(Below(i))]
<1>1. S = {i \in eligible : Cardinality(Below(i)) < MaxParallel}
  BY DEF SelectBatch
<1>2. IsFiniteSet(eligible) /\ eligible \subseteq Ids
  BY FS_Subset
<1>3. \A i : IsFiniteSet(Below(i)) /\ Cardinality(Below(i)) \in Nat
  BY <1>2, FS_Subset, FS_CardinalityType
<1>m. MaxParallel \in Nat /\ MaxParallel > 0 /\ MaxParallel - 1 \in Int
  BY CoordinatorAssumption
<1>4. b \in [S -> T]
  <2>1. ASSUME NEW i \in S PROVE Cardinality(Below(i)) \in T
    <3>1. Cardinality(Below(i)) < MaxParallel /\ Cardinality(Below(i)) \in Nat
      BY <1>1, <1>3
    <3> QED BY <1>m, <3>1
  <2> QED BY <2>1
<1>5. ASSUME NEW i \in S, NEW j \in S, Rank[i] < Rank[j] PROVE b[i] # b[j]
  <2>1. i \in eligible /\ j \in eligible /\ Rank \in [Ids -> Nat]
    BY <1>1, RankAssumption
  <2>2. Below(i) \subseteq Below(j) /\ i \in Below(j) /\ i \notin Below(i)
    BY <1>2, <1>5, <2>1
  <2> QED BY <1>3, <2>2, FS_Subset
<1>6. ASSUME NEW i \in S, NEW j \in S, b[i] = b[j] PROVE i = j
  <2>1. i \in Ids /\ j \in Ids /\ Rank[i] \in Nat /\ Rank[j] \in Nat
    BY <1>1, <1>2, RankAssumption
  <2>2. ~(Rank[i] < Rank[j]) /\ ~(Rank[j] < Rank[i])
    BY <1>5, <1>6
  <2> QED BY <2>1, <2>2, RankAssumption
<1>7. b \in Injection(S, T)
  BY <1>4, <1>6 DEF Injection, IsInjective
<1>8. IsFiniteSet(T) /\ Cardinality(T) = MaxParallel
  <2>1. /\ IsFiniteSet(0..(MaxParallel - 1))
        /\ Cardinality(0..(MaxParallel - 1))
             = IF 0 > MaxParallel - 1 THEN 0 ELSE (MaxParallel - 1) - 0 + 1
    BY <1>m, FS_Interval
  <2> QED BY <1>m, <2>1
<1> QED BY <1>7, <1>8, FS_Injection

LEMMA InitSpend == ASSUME NEW c \in Nat, Init PROVE SpendInv(c)
<1>1. IsFiniteSet(DOMAIN work)
  BY TopologyAssumption DEF Init, InitialWork
<1>2. Cardinality({}) = 0 /\ IsFiniteSet({})
  BY FS_EmptySet
<1>3. MaxParallel \in Nat \ {0} /\ MaxModelCalls \in Nat \ {0}
  BY CoordinatorAssumption
<1>4. MaxParallel * c \in Nat /\ 0 * c = 0
  BY <1>3, Products
<1>5. /\ Cardinality(live) = 0 /\ Cardinality(outcomes) = 0 /\ Cardinality(todo) = 0
      /\ calls = 0 /\ IsFiniteSet(outcomes)
  BY <1>2 DEF Init
<1>6. Spenders = 0
  BY <1>5 DEF Spenders
<1> QED BY <1>1, <1>3, <1>4, <1>5, <1>6 DEF SpendInv

\* The numbers SpendInv speaks of are naturals.
LEMMA SpendTyped ==
  ASSUME NEW c \in Nat, OwnedInv, SpendInv(c)
  PROVE  /\ IsFiniteSet(todo) /\ IsFiniteSet(live) /\ IsFiniteSet(outcomes)
         /\ Cardinality(todo) \in Nat /\ Cardinality(live) \in Nat
         /\ Cardinality(outcomes) \in Nat /\ Spenders \in Nat /\ calls \in Nat
         /\ MaxParallel \in Nat /\ MaxModelCalls \in Nat
         /\ Spenders * c \in Nat /\ MaxParallel * c \in Nat
<1>1. todo \subseteq DOMAIN work /\ live \subseteq DOMAIN work /\ calls \in Nat
  BY DEF OwnedInv, LeaseInv, TypeOK
<1>2. IsFiniteSet(todo) /\ IsFiniteSet(live) /\ IsFiniteSet(outcomes)
  BY <1>1, FS_Subset DEF SpendInv
<1>3. /\ Cardinality(todo) \in Nat /\ Cardinality(live) \in Nat
      /\ Cardinality(outcomes) \in Nat
  BY <1>2, FS_CardinalityType
<1>4. Spenders \in Nat /\ MaxParallel \in Nat /\ MaxModelCalls \in Nat
  BY <1>3, CoordinatorAssumption DEF Spenders
<1> QED BY <1>1, <1>2, <1>3, <1>4, Products

LEMMA StartSpend ==
  ASSUME NEW c \in Nat, OwnedInv, SpendInv(c), NEW i \in todo, Start(i)
  PROVE  SpendInv(c)'
<1>1. WorkGraph(work) /\ i \in DOMAIN work /\ calls' = calls /\ outcomes' = outcomes
  BY WorkTyped
     DEF OwnedInv, LeaseInv, TypeOK, Start, StartBlocked, StartOverBudget, StartItem,
         UsageUnchanged, Return, Launch
<1>2. DOMAIN work' = DOMAIN work
  BY <1>1, CancelRunningFacts, StartWorkFacts
     DEF Start, StartBlocked, StartOverBudget, StartItem, FailMission, Launch
<1>3. CASE UNCHANGED <<todo, live>>
  BY <1>1, <1>2, <1>3 DEF SpendInv, Spenders
<1>4. CASE Launch(i) /\ calls < MaxModelCalls /\ todo' = todo \ {i} /\ live' = live \cup {i}
  <2>1. pc = "start" /\ i \in Ready(work) /\ batchErr = ""
    BY DEF Start, StartBlocked, StartOverBudget, StartItem, OwnedInv, TodoIsReady,
           LeaseInv, ErrorsEndBatches
  <2>2. i \notin live
    BY <2>1, ReadyIsIdle DEF OwnedInv, Ownership
  <2>3. /\ IsFiniteSet(todo) /\ IsFiniteSet(live) /\ Cardinality(todo) \in Nat
        /\ Spenders \in Nat /\ calls \in Nat /\ MaxParallel \in Nat /\ MaxModelCalls \in Nat
        /\ Cardinality(live) \in Nat /\ Cardinality(outcomes) \in Nat
    BY SpendTyped
  <2>4. Cardinality(todo') = Cardinality(todo) - 1 /\ Cardinality(live') = Cardinality(live) + 1
    BY <1>4, <2>2, <2>3, FS_RemoveElement, FS_AddElement
  <2>5. Spenders' = Spenders + 1
    BY <1>1, <2>3, <2>4 DEF Spenders
  <2>6. Cardinality(todo) >= 1
    BY <2>3, FS_EmptySet
  <2>7. Spenders' + Cardinality(todo') <= MaxParallel /\ Spenders' <= MaxParallel
    BY <2>3, <2>4, <2>5, <2>6 DEF SpendInv
  <2>8. Spenders' * c <= MaxParallel * c /\ Spenders' * c \in Nat /\ MaxParallel * c \in Nat
    BY <2>3, <2>5, <2>7, Products
  <2>9. calls' + Spenders' * c < MaxModelCalls + MaxParallel * c
    BY <1>1, <1>4, <2>3, <2>8
  <2> QED BY <1>1, <1>2, <2>7, <2>9 DEF SpendInv
<1>5. \/ UNCHANGED <<todo, live>>
      \/ Launch(i) /\ calls < MaxModelCalls /\ todo' = todo \ {i} /\ live' = live \cup {i}
  <2>1. calls \in Nat /\ MaxModelCalls \in Nat
    BY SpendTyped
  <2>2. ~BudgetSpent(i) => calls < MaxModelCalls
    BY <2>1 DEF BudgetSpent
  <2> QED BY <2>2 DEF Start, StartBlocked, StartOverBudget, StartItem, Return, Launch
<1> QED BY <1>3, <1>4, <1>5

\* A received outcome turns one of the c calls allowed to it into usage.
LEMMA ReceiveSpend ==
  ASSUME NEW c \in Nat, \A d \in CallCosts : d <= c,
         OwnedInv, SpendInv(c), NEW o \in outcomes, Receive(o)
  PROVE  SpendInv(c)'
<1>1. Received(o)
  BY DEF Receive, Drain, ReceiveOverBudget, ReceiveError, ReceiveUnrecordable,
         ReceiveProposal, ReceiveDone, ReceiveRetry, ReceiveRejection,
         Completes, Accountable
<1>2. /\ outcomes' = outcomes \ {o} /\ calls' = calls + o.cost
      /\ todo' = todo /\ live' = live
  BY <1>1 DEF Received
<1>3. WorkGraph(work) /\ o \in Outcome
  BY WorkTyped DEF OwnedInv, LeaseInv, TypeOK
<1>4. o.cost \in Nat /\ o.cost <= c
  BY <1>3, CoordinatorAssumption DEF Outcome
<1>5. /\ IsFiniteSet(outcomes) /\ Cardinality(todo) \in Nat /\ Cardinality(live) \in Nat
      /\ Cardinality(outcomes) \in Nat /\ Spenders \in Nat /\ calls \in Nat
      /\ MaxParallel \in Nat /\ MaxModelCalls \in Nat /\ MaxParallel * c \in Nat
  BY SpendTyped
<1>6. IsFiniteSet(outcomes') /\ Cardinality(outcomes') = Cardinality(outcomes) - 1
  BY <1>2, <1>5, FS_RemoveElement
<1>7. Cardinality(outcomes') \in Nat
  BY <1>6, FS_CardinalityType
<1>8. Spenders = Spenders' + 1 /\ Spenders' \in Nat
  BY <1>2, <1>5, <1>6, <1>7 DEF Spenders
<1>9. Spenders * c = Spenders' * c + c /\ Spenders' * c \in Nat
  BY <1>5, <1>8, Products
<1>10. calls' + Spenders' * c < MaxModelCalls + MaxParallel * c
  BY <1>2, <1>4, <1>5, <1>9 DEF SpendInv
<1>11. Spenders' + Cardinality(todo') <= MaxParallel
  BY <1>2, <1>5, <1>8 DEF SpendInv
<1>12. IsFiniteSet(DOMAIN work')
  <2> DEFINE done == CompleteWork(work, o.item)
  <2>1. WorkGraph(done) /\ DOMAIN done = DOMAIN work /\ IsFiniteSet(DOMAIN work)
    BY <1>3, CompleteWorkFacts DEF SpendInv
  <2>2. CASE work' \in {work, CancelRunning(work), FailWork(work, o.item), done,
                        CancelRunning(done)}
    BY <1>3, <2>1, <2>2, CancelRunningFacts, FailWorkFacts
  <2>3. CASE work' = AddSubsteps(done, o.proposal)
    <3>1. o.proposal \in Proposals
      BY <1>3 DEF Outcome
    <3>2. /\ DOMAIN o.proposal \subseteq Ids /\ IsFiniteSet(DOMAIN o.proposal)
          /\ o.proposal \in [DOMAIN o.proposal -> SUBSET Ids]
      BY <3>1, CoordinatorAssumption
    <3>3. DOMAIN work' = DOMAIN work \cup DOMAIN o.proposal
      BY <2>1, <2>3, <3>2, AddSubstepsFacts
    <3> QED BY <2>1, <3>2, <3>3, FS_Union
  <2>4. CASE ReceiveRetry(o)
    <3>1. "queued" \in WorkStatus \ {"running"}
      BY DEF WorkStatus, MissionStatus
    <3>2. DOMAIN work' = DOMAIN done
      BY <2>1, <2>4, <3>1, MovedFacts DEF ReceiveRetry, RequeueAfterVerification
    <3> QED BY <2>1, <3>2
  <2> QED BY <2>2, <2>3, <2>4
          DEF Receive, Drain, ReceiveOverBudget, ReceiveError, ReceiveUnrecordable,
              ReceiveProposal, ReceiveDone, ReceiveRejection, FailMission
<1> QED BY <1>6, <1>10, <1>11, <1>12 DEF SpendInv

LEMMA StepSpend ==
  ASSUME NEW c \in Nat, \A d \in CallCosts : d <= c,
         OwnedInv, SpendInv(c), [Next]_vars
  PROVE  SpendInv(c)'
<1>1. /\ WorkGraph(work) /\ live \subseteq DOMAIN work
      /\ IsFiniteSet(todo) /\ IsFiniteSet(live) /\ IsFiniteSet(outcomes)
      /\ Cardinality(todo) \in Nat /\ Cardinality(live) \in Nat
      /\ Cardinality(outcomes) \in Nat
  BY WorkTyped, SpendTyped DEF OwnedInv, LeaseInv, TypeOK
<1>2. ASSUME UNCHANGED <<todo, live, outcomes, calls>>, DOMAIN work' = DOMAIN work
      PROVE  SpendInv(c)'
  BY <1>2 DEF SpendInv, Spenders
<1>3. CASE LoopInterrupted \/ LoopStuck \/ SkipRepairs
  <2>1. "interrupted" \in WorkStatus \ {"running"} /\ "skipped" \in WorkStatus \ {"running"}
    BY DEF WorkStatus, MissionStatus
  <2>2. \/ work' = CancelRunning(work)
        \/ \E S : work' = Moved(work, S, "interrupted")
        \/ \E S : work' = Moved(work, S, "skipped")
    BY <1>3 DEF LoopInterrupted, LoopStuck, SkipRepairs, InterruptWork, FailMission
  <2>3. DOMAIN work' = DOMAIN work
    BY <1>1, <2>1, <2>2, MovedFacts, CancelRunningFacts
  <2> QED BY <1>2, <1>3, <2>3
          DEF LoopInterrupted, LoopStuck, SkipRepairs, Return, UsageUnchanged
<1>4. CASE LoopSelect
  <2>1. Ready(work) \in SUBSET Ids /\ Ready(work) \subseteq DOMAIN work
    BY <1>1 DEF Ready, WithStatus, WorkGraph
  <2>2. IsFiniteSet(Ready(work))
    BY <2>1, FS_Subset DEF SpendInv
  <2>3. /\ todo' = SelectBatch(Ready(work))
        /\ UNCHANGED <<work, live, outcomes, calls>>
    BY <1>4 DEF LoopSelect, missionVars
  <2>4. Cardinality(todo') <= MaxParallel
    BY <2>1, <2>2, <2>3, SelectSize
  <2>5. live = {} /\ outcomes = {}
    BY <1>4 DEF LoopSelect, OwnedInv, LeaseInv, RunningOwned
  <2>6. Spenders = 0 /\ Spenders' = 0
    BY <2>3, <2>5, FS_EmptySet DEF Spenders
  <2>7. IsFiniteSet(SelectBatch(Ready(work)))
    BY <2>2, FS_Subset DEF SelectBatch
  <2>8. Cardinality(todo') \in Nat
    BY <2>3, <2>7, FS_CardinalityType
  <2> QED BY <2>3, <2>4, <2>6, <2>8, CoordinatorAssumption DEF SpendInv
<1>5. CASE \E i \in todo : Start(i)
  BY <1>5, StartSpend
<1>6. CASE \E o \in outcomes : Receive(o)
  BY <1>6, ReceiveSpend
<1>7. CASE WorkerStep
  <2>1. PICK i \in live : WorkerFinish(i)
    BY <1>7 DEF WorkerStep
  <2>2. PICK r \in Results(i) : outcomes' = outcomes \cup {r}
    BY <2>1 DEF WorkerFinish
  <2>3. live' = live \ {i} /\ UNCHANGED <<todo, work, calls>>
    BY <2>1 DEF WorkerFinish, missionVars
  <2>4. r \notin outcomes
    <3>1. r.item = i /\ i \notin Items(outcomes)
      BY <2>2 DEF Results, OwnedInv, Ownership
    <3> QED BY <3>1 DEF Items
  <2>5. /\ IsFiniteSet(outcomes')
        /\ Cardinality(outcomes') = Cardinality(outcomes) + 1
        /\ Cardinality(live') = Cardinality(live) - 1
    BY <1>1, <2>2, <2>3, <2>4, FS_AddElement, FS_RemoveElement
  <2>6. Spenders' = Spenders
    BY <1>1, <2>5 DEF Spenders
  <2> QED BY <2>3, <2>5, <2>6 DEF SpendInv
<1>8. CASE Begin \/ LoopCompleted \/ ReportExplorer \/ BatchEnd \/ CtxEnds \/ UNCHANGED vars
  BY <1>2, <1>8
     DEF Begin, LoopCompleted, ReportExplorer, BatchEnd, CtxEnds, Return, controlVars,
         missionVars, vars
<1> QED BY <1>3, <1>4, <1>5, <1>6, <1>7, <1>8 DEF Next, RunStep

\* When some worker report is the costliest, the mission never spends more
\* than one batch of such reports past its model-call budget: the check before
\* a start, the check after a result and the size of a batch suffice
\* (runBatch, RoleBudgetExceeded, selectBatch).
THEOREM OvershootIsOneBatch ==
  ASSUME NEW c \in CallCosts, \A d \in CallCosts : d <= c
  PROVE  Spec => []BudgetOvershoot
<1>1. c \in Nat
  BY CoordinatorAssumption
<1>2. Init => OwnedInv /\ SpendInv(c)
  BY <1>1, InitOwned, InitSpend
<1>3. OwnedInv /\ SpendInv(c) /\ [Next]_vars => (OwnedInv /\ SpendInv(c))'
  BY <1>1, StepOwned, StepSpend
<1>4. OwnedInv /\ SpendInv(c) => BudgetOvershoot
  <2> SUFFICES ASSUME OwnedInv, SpendInv(c) PROVE BudgetOvershoot
    OBVIOUS
  <2> DEFINE m == CHOOSE x \in CallCosts : \A d \in CallCosts : d <= x
  <2>1. m \in CallCosts /\ \A d \in CallCosts : d <= m
    OBVIOUS
  <2>2. m = c
    BY <1>1, <2>1, CoordinatorAssumption
  <2>3. calls \in Nat /\ Spenders * c \in Nat /\ MaxModelCalls \in Nat /\ MaxParallel * c \in Nat
    BY <1>1, SpendTyped
  <2>4. calls < MaxModelCalls + MaxParallel * c
    BY <2>3 DEF SpendInv
  <2> QED BY <2>2, <2>4 DEF BudgetOvershoot
<1> QED BY <1>2, <1>3, <1>4, PTL DEF Spec

-----------------------------------------------------------------------------
(* What the coordinator makes of the verifiers' reports.                   *)

\* An outcome received before any error belongs to an item of the mission that
\* still runs.
LEMMA ReceivedRuns ==
  ASSUME OwnedInv, NEW o, Received(o), batchErr = ""
  PROVE  /\ o \in outcomes /\ o \in Outcome /\ o \in Results(o.item)
         /\ o.item \in Running(work) /\ o.item \in DOMAIN work
         /\ ~Done(work, o.item)
         /\ pc = "collect" /\ WorkGraph(work)
<1>1. o \in outcomes /\ pc = "collect"
  BY DEF Received
<1>2. o.item \in Items(outcomes)
  BY <1>1 DEF Items
<1>3. o.item \in Running(work)
  BY <1>1, <1>2 DEF OwnedInv, Ownership
<1>4. o \in Outcome /\ o \in Results(o.item) /\ WorkGraph(work)
  BY <1>1, WorkTyped DEF OwnedInv, Ownership, LeaseInv, TypeOK
<1> QED BY <1>1, <1>3, <1>4 DEF Running, WithStatus, Done

\* The handoff of an outcome becomes the last one.
LEMMA HandoffAppended ==
  ASSUME OwnedInv, NEW o, Completes(o)
  PROVE  /\ HandoffOf(o) \in Handoff /\ HandoffOf(o).item = o.item
         /\ Len(handoffs) \in Nat /\ Len(handoffs') = Len(handoffs) + 1
         /\ handoffs'[Len(handoffs) + 1] = HandoffOf(o)
         /\ \A k \in 1..Len(handoffs) : handoffs'[k] = handoffs[k]
<1>1. o \in Outcome
  BY ReceivedRuns DEF Completes, Accountable
<1>2. HandoffOf(o) \in Handoff /\ HandoffOf(o).item = o.item
  BY <1>1 DEF HandoffOf, Handoff, Outcome
<1>3. handoffs \in Seq(Handoff) /\ handoffs' = Append(handoffs, HandoffOf(o))
  BY DEF Completes, OwnedInv, LeaseInv, TypeOK
<1>4. Len(handoffs) \in Nat
  BY <1>3, LenProperties
<1> QED BY <1>2, <1>3, <1>4, AppendProperties

\* The coordinator and the properties mean the same by a passing verification.
LEMMA PassedIsPassing ==
  ASSUME NEW h \in Handoff PROVE HandoffPassed(work, h) <=> Passing(h)
BY DEF HandoffPassed, Passing, HasMutation, Handoff

-----------------------------------------------------------------------------
(* Reopening.                                                              *)

KeepsDone(w, m) == \A i \in DOMAIN w : Done(w, i) => Done(m, i)

Reopens(o, i) == i = o.item \/ (i \in Writers /\ i \in work[o.item].deps)

\* Every step but the retry of a failed verification keeps what is done.
LEMMA ReceiveKeepsDone ==
  ASSUME OwnedInv, NEW o \in outcomes, Receive(o), ~ReceiveRetry(o)
  PROVE  KeepsDone(work, work')
<1>1. CASE Drain(o)
  BY <1>1 DEF Drain, KeepsDone
<1>2. ASSUME Received(o), batchErr = "" PROVE KeepsDone(work, work')
  <2>1. WorkGraph(work) /\ ~Done(work, o.item)
    BY <1>2, ReceivedRuns
  <2> DEFINE done == CompleteWork(work, o.item)
  <2>2. WorkGraph(done) /\ DOMAIN done = DOMAIN work /\ KeepsDone(work, done)
    BY <2>1, CompleteWorkFacts, CompleteWorkAt DEF KeepsDone, Done
  <2>3. CASE ReceiveOverBudget(o) \/ ReceiveUnrecordable(o)
    BY <2>1, <2>3, CancelRunningAt
       DEF ReceiveOverBudget, ReceiveUnrecordable, FailMission, KeepsDone, Done
  <2>4. CASE ReceiveError(o)
    BY <2>1, <2>4, FailWorkAt DEF ReceiveError, KeepsDone, Done
  <2>5. CASE ReceiveProposal(o)
    <3>1. DOMAIN o.proposal \cap DOMAIN done = {} =>
            KeepsDone(done, AddSubsteps(done, o.proposal))
      BY <2>2, AddSubstepsAt DEF KeepsDone, Done
    <3>2. \/ work' = done
          \/ DOMAIN o.proposal \cap DOMAIN done = {} /\ work' = AddSubsteps(done, o.proposal)
      BY <2>5 DEF ReceiveProposal, ValidSubstepProposal
    <3> QED BY <2>2, <3>1, <3>2 DEF KeepsDone
  <2>6. CASE ReceiveDone(o)
    BY <2>2, <2>6 DEF ReceiveDone
  <2>7. CASE ReceiveRejection(o)
    <3>1. KeepsDone(done, CancelRunning(done))
      BY <2>2, CancelRunningAt DEF KeepsDone, Done
    <3> QED BY <2>2, <2>7, <3>1 DEF ReceiveRejection, KeepsDone
  <2>8. ~Drain(o)
    BY <1>2 DEF Drain
  <2> QED BY <2>3, <2>4, <2>5, <2>6, <2>7, <2>8 DEF Receive
<1>3. Drain(o) \/ (Received(o) /\ batchErr = "")
  BY DEF Receive, ReceiveOverBudget, ReceiveError, ReceiveUnrecordable,
         ReceiveProposal, ReceiveDone, ReceiveRejection, Completes, Accountable
<1> QED BY <1>1, <1>2, <1>3

LEMMA OthersKeepDone ==
  ASSUME OwnedInv, [Next]_vars, ~(\E o \in outcomes : Receive(o))
  PROVE  KeepsDone(work, work')
<1>1. WorkGraph(work)
  BY WorkTyped DEF OwnedInv, LeaseInv
<1>2. CASE LoopInterrupted
  BY <1>1, <1>2, MovedAt DEF LoopInterrupted, InterruptWork, WithStatus, KeepsDone, Done
<1>3. CASE LoopStuck
  BY <1>1, <1>3, CancelRunningAt DEF LoopStuck, FailMission, KeepsDone, Done
<1>4. CASE \E i \in todo : Start(i)
  <2>1. PICK i \in todo : Start(i)
    BY <1>4
  <2>2. \/ work' \in {work, CancelRunning(work)}
        \/ i \in Ready(work) /\ work' = StartWork(work, i)
    BY <2>1 DEF Start, StartBlocked, StartOverBudget, StartItem, FailMission, Launch,
                CanStart
  <2>3. CASE i \in Ready(work) /\ work' = StartWork(work, i)
    BY <1>1, <2>3, StartWorkAt, ReadyIsIdle DEF KeepsDone, Done
  <2> QED BY <1>1, <2>2, <2>3, CancelRunningAt DEF KeepsDone, Done
<1>5. CASE SkipRepairs
  <2>1. work' = Moved(work, SkippedRepairs(work, current), "skipped")
    BY <1>5 DEF SkipRepairs
  <2> QED BY <1>1, <2>1, MovedAt DEF KeepsDone, Done
<1>6. CASE UNCHANGED work
  BY <1>6 DEF KeepsDone
<1> QED BY <1>2, <1>3, <1>4, <1>5, <1>6
        DEF Next, RunStep, Begin, LoopSelect, LoopCompleted, ReportExplorer, BatchEnd,
            WorkerStep, WorkerFinish, CtxEnds, missionVars, vars

\* What the retry reopens: the verifier and the writers it depends on.
LEMMA RetryReopens ==
  ASSUME OwnedInv, NEW o \in outcomes, ReceiveRetry(o),
         NEW i \in DOMAIN work, Done(work, i), ~Done(work', i)
  PROVE  /\ Reopens(o, i) /\ RoleOf[o.item] = "verifier" /\ ~Passing(HandoffOf(o))
         /\ Len(handoffs') = Len(handoffs) + 1
         /\ handoffs'[Len(handoffs')] = HandoffOf(o) /\ HandoffOf(o).item = o.item
<1>1. Completes(o)
  BY DEF ReceiveRetry
<1>2. WorkGraph(work) /\ o.item \in DOMAIN work
  BY <1>1, ReceivedRuns DEF Completes, Accountable
<1> DEFINE done == CompleteWork(work, o.item)
<1>3. WorkGraph(done) /\ DOMAIN done = DOMAIN work
  BY <1>2, CompleteWorkFacts
<1>4. Done(done, i) /\ done[o.item].deps = work[o.item].deps
  BY <1>2, CompleteWorkAt DEF Done
<1>5. work' = Moved(done, RepairsOf(done, o.item) \cup {o.item}, "queued")
  BY DEF ReceiveRetry, RequeueAfterVerification
<1>6. i \in RepairsOf(done, o.item) \cup {o.item}
  BY <1>3, <1>4, <1>5, MovedAt DEF Done
<1>7. Reopens(o, i)
  BY <1>4, <1>6 DEF Reopens, RepairsOf
<1>8. /\ HandoffOf(o) \in Handoff /\ HandoffOf(o).item = o.item
      /\ Len(handoffs') = Len(handoffs) + 1
      /\ handoffs'[Len(handoffs')] = HandoffOf(o)
  BY <1>1, HandoffAppended
<1>9. RoleOf[o.item] = "verifier" /\ ~Passing(HandoffOf(o))
  BY <1>8, PassedIsPassing DEF ReceiveRetry, VerificationFailed
<1> QED BY <1>7, <1>8, <1>9

\* Finished work is redone only after a verifier that is it, or depends on it
\* while it writes, reported a failure in that very step: no other outcome, no
\* cancellation and no accepted substep reopens anything
\* (RequeueAfterVerification, failRunning, AddSubsteps).
THEOREM ReopeningNeedsAFailure == Spec => ReopenedOnlyByFailedVerification
<1> DEFINE Reopening ==
      \A i \in DOMAIN work :
         Done(work, i) /\ ~Done(work', i) =>
           /\ Len(handoffs') = Len(handoffs) + 1
           /\ LET h == handoffs'[Len(handoffs')]
              IN /\ RoleOf[h.item] = "verifier" /\ ~Passing(h)
                 /\ i = h.item \/ (i \in Writers /\ i \in work[h.item].deps)
<1>1. ASSUME OwnedInv, [Next]_vars PROVE Reopening
  <2> SUFFICES ASSUME NEW i \in DOMAIN work, Done(work, i), ~Done(work', i)
               PROVE  /\ Len(handoffs') = Len(handoffs) + 1
                      /\ LET h == handoffs'[Len(handoffs')]
                         IN /\ RoleOf[h.item] = "verifier" /\ ~Passing(h)
                            /\ i = h.item \/ (i \in Writers /\ i \in work[h.item].deps)
    OBVIOUS
  <2>1. PICK o \in outcomes : Receive(o)
    BY <1>1, OthersKeepDone DEF KeepsDone
  <2>2. ReceiveRetry(o)
    BY <1>1, <2>1, ReceiveKeepsDone DEF KeepsDone
  <2> QED BY <1>1, <2>2, RetryReopens DEF Reopens
<1>2. OwnedInv /\ [Next]_vars => [Reopening]_vars
  BY <1>1
<1>3. Spec => [][Reopening]_vars
  BY <1>2, AlwaysOwned, PTL DEF Spec
<1> QED BY <1>3 DEF ReopenedOnlyByFailedVerification

-----------------------------------------------------------------------------
(* The repair budget.  BoundedAttempts is not inductive: a start counts one  *)
(* more attempt, so a verifier that may start must have one left.            *)

AttemptLeft(v) ==
  /\ work[v].attempt <= MaxRepairAttempts
  /\ pc # "returned" /\ work[v].status \in {"queued", "interrupted"} =>
       work[v].attempt < MaxRepairAttempts

AttemptsInv == \A v \in DOMAIN work : RoleOf[v] = "verifier" => AttemptLeft(v)

LEMMA InitAttempts == Init => AttemptsInv
<1> SUFFICES ASSUME Init, NEW v \in DOMAIN work PROVE AttemptLeft(v)
  BY DEF AttemptsInv
<1>1. work[v] = NewWork(Topology[v])
  BY DEF Init, InitialWork
<1>2. work[v].attempt = 0
  BY <1>1 DEF NewWork
<1> QED BY <1>2, CoordinatorAssumption DEF AttemptLeft

\* A step that queues no verifier and counts no attempt of one.
LEMMA AttemptsKept ==
  ASSUME AttemptsInv, DOMAIN work' = DOMAIN work, pc = "returned" => pc' = "returned",
         \A v \in DOMAIN work : RoleOf[v] = "verifier" =>
           /\ work'[v].attempt = work[v].attempt
           /\ \/ work'[v].status = work[v].status
              \/ work'[v].status \notin {"queued", "interrupted"}
              \/ pc' = "returned"
  PROVE  AttemptsInv'
BY DEF AttemptsInv, AttemptLeft

LEMMA StartAttempts ==
  ASSUME OwnedInv, AttemptsInv, NEW i \in todo, Start(i) PROVE AttemptsInv'
<1>1. WorkGraph(work) /\ pc = "start"
  BY WorkTyped DEF OwnedInv, LeaseInv, Start, StartBlocked, StartOverBudget, StartItem
<1>2. \/ work' \in {work, CancelRunning(work)}
      \/ i \in Ready(work) /\ work' = StartWork(work, i)
  BY DEF Start, StartBlocked, StartOverBudget, StartItem, FailMission, Launch, CanStart
<1>3. CASE work' \in {work, CancelRunning(work)}
  BY <1>1, <1>3, CancelRunningFacts, CancelRunningAt, AttemptsKept
<1>4. CASE i \in Ready(work) /\ work' = StartWork(work, i)
  <2>1. i \in DOMAIN work /\ work[i].status \in {"queued", "interrupted"}
    BY <1>4, ReadyIsIdle
  <2>2. DOMAIN work' = DOMAIN work
    BY <1>1, <1>4, <2>1, StartWorkFacts
  <2>3. ASSUME NEW v \in DOMAIN work, RoleOf[v] = "verifier" PROVE AttemptLeft(v)'
    <3>1. CASE v # i
      <4>1. work'[v].status = work[v].status /\ work'[v].attempt = work[v].attempt
        BY <1>1, <1>4, <2>1, <3>1, StartWorkAt
      <4> QED BY <1>1, <2>3, <4>1 DEF AttemptsInv, AttemptLeft
    <3>2. CASE v = i
      <4>1. work'[v].status = "running" /\ work'[v].attempt = work[v].attempt + 1
        BY <1>1, <1>4, <2>1, <3>2, StartWorkAt
      <4>2. work[v].attempt < MaxRepairAttempts
        BY <1>1, <2>1, <2>3, <3>2 DEF AttemptsInv, AttemptLeft
      <4>3. work[v].attempt \in Nat /\ MaxRepairAttempts \in Nat
        BY <1>1, CoordinatorAssumption DEF WorkGraph, WorkItem
      <4> QED BY <4>1, <4>2, <4>3 DEF AttemptLeft
    <3> QED BY <3>1, <3>2
  <2> QED BY <2>2, <2>3 DEF AttemptsInv
<1> QED BY <1>2, <1>3, <1>4

LEMMA ReceiveAttempts ==
  ASSUME OwnedInv, AttemptsInv, NEW o \in outcomes, Receive(o) PROVE AttemptsInv'
<1>1. pc = "collect" /\ WorkGraph(work) /\ o \in Outcome
  BY WorkTyped
     DEF OwnedInv, LeaseInv, TypeOK, Receive, Drain, ReceiveOverBudget, ReceiveError,
         ReceiveUnrecordable, ReceiveProposal, ReceiveDone, ReceiveRetry,
         ReceiveRejection, Completes, Accountable, Received
<1> DEFINE done == CompleteWork(work, o.item)
<1>2. WorkGraph(done) /\ DOMAIN done = DOMAIN work
  BY <1>1, CompleteWorkFacts
<1>3. \A v \in DOMAIN work :
        /\ done[v].attempt = work[v].attempt
        /\ done[v].status = IF v = o.item THEN "completed" ELSE work[v].status
  BY <1>1, CompleteWorkAt
<1>4. CASE work' = work
  BY <1>1, <1>4, AttemptsKept
<1>5. CASE work' = CancelRunning(work)
  BY <1>1, <1>5, CancelRunningFacts, CancelRunningAt, AttemptsKept
<1>6. CASE work' = FailWork(work, o.item)
  BY <1>1, <1>6, FailWorkFacts, FailWorkAt, AttemptsKept
<1>7. CASE work' = done
  BY <1>1, <1>2, <1>3, <1>7, AttemptsKept
<1>8. CASE work' = CancelRunning(done)
  <2>1. \A v \in DOMAIN work :
          /\ work'[v].attempt = work[v].attempt
          /\ work'[v].status \in {work[v].status, "completed", "cancelled"}
    BY <1>2, <1>3, <1>8, CancelRunningAt
  <2>2. DOMAIN work' = DOMAIN work
    BY <1>2, <1>8, CancelRunningFacts
  <2> QED BY <1>1, <2>1, <2>2, AttemptsKept
<1>9. CASE DOMAIN o.proposal \cap DOMAIN done = {} /\ work' = AddSubsteps(done, o.proposal)
  <2>1. DOMAIN o.proposal \subseteq Ids /\ o.proposal \in [DOMAIN o.proposal -> SUBSET Ids]
    BY <1>1, CoordinatorAssumption DEF Outcome
  <2>2. DOMAIN work' = DOMAIN work \cup DOMAIN o.proposal
    BY <1>2, <1>9, <2>1, AddSubstepsFacts
  <2>3. ASSUME NEW v \in DOMAIN work, RoleOf[v] = "verifier" PROVE AttemptLeft(v)'
    <3>1. /\ work'[v].attempt = work[v].attempt
          /\ work'[v].status \in {work[v].status, "completed"}
      BY <1>2, <1>3, <1>9, AddSubstepsAt
    <3> QED BY <1>1, <2>3, <3>1 DEF AttemptsInv, AttemptLeft
  <2>4. ASSUME NEW v \in DOMAIN o.proposal PROVE AttemptLeft(v)'
    <3>1. work'[v].attempt = 0
      BY <1>2, <1>9, AddSubstepsAt
    <3> QED BY <3>1, CoordinatorAssumption DEF AttemptLeft
  <2> QED BY <2>2, <2>3, <2>4 DEF AttemptsInv
<1>10. CASE ReceiveRetry(o)
  <2>1. work' = Moved(done, RepairsOf(done, o.item) \cup {o.item}, "queued")
    BY <1>10 DEF ReceiveRetry, RequeueAfterVerification
  <2>2. "queued" \in WorkStatus \ {"running"}
    BY DEF WorkStatus, MissionStatus
  <2>3. DOMAIN work' = DOMAIN work
    BY <1>2, <2>1, <2>2, MovedFacts
  <2>4. ASSUME NEW v \in DOMAIN work, RoleOf[v] = "verifier" PROVE AttemptLeft(v)'
    <3>1. work'[v].attempt = work[v].attempt
      BY <1>2, <1>3, <2>1, MovedAt
    <3>2. CASE v = o.item
      <4>1. done[v].attempt < MaxRepairAttempts
        BY <1>10, <3>2 DEF ReceiveRetry, CanRequeue
      <4>2. work[v].attempt \in Nat /\ MaxRepairAttempts \in Nat
        BY <1>1, CoordinatorAssumption DEF WorkGraph, WorkItem
      <4> QED BY <1>3, <3>1, <4>1, <4>2 DEF AttemptLeft
    <3>3. CASE v # o.item
      <4>1. v \notin Writers
        BY <2>4, RoleAssumption
      <4>2. work'[v].status = work[v].status
        BY <1>2, <1>3, <2>1, <3>3, <4>1, MovedAt DEF RepairsOf
      <4> QED BY <1>1, <2>4, <3>1, <4>2 DEF AttemptsInv, AttemptLeft
    <3> QED BY <3>2, <3>3
  <2> QED BY <2>3, <2>4 DEF AttemptsInv
<1> QED BY <1>4, <1>5, <1>6, <1>7, <1>8, <1>9, <1>10
        DEF Receive, Drain, ReceiveOverBudget, ReceiveError, ReceiveUnrecordable,
            ReceiveProposal, ReceiveDone, ReceiveRejection, FailMission,
            ValidSubstepProposal

LEMMA StepAttempts == OwnedInv /\ AttemptsInv /\ [Next]_vars => AttemptsInv'
<1> SUFFICES ASSUME OwnedInv, AttemptsInv, [Next]_vars PROVE AttemptsInv'
  OBVIOUS
<1>1. WorkGraph(work)
  BY WorkTyped DEF OwnedInv, LeaseInv
<1>2. CASE LoopInterrupted
  <2>1. work' = Moved(work, Running(work), "interrupted") /\ pc' = "returned"
    BY <1>2 DEF LoopInterrupted, InterruptWork, Return, Running
  <2>2. "interrupted" \in WorkStatus \ {"running"}
    BY DEF WorkStatus, MissionStatus
  <2> QED BY <1>1, <2>1, <2>2, MovedFacts, MovedAt, AttemptsKept
<1>3. CASE LoopStuck
  BY <1>1, <1>3, CancelRunningFacts, CancelRunningAt, AttemptsKept
     DEF LoopStuck, FailMission, Return
<1>4. CASE \E i \in todo : Start(i)
  BY <1>4, StartAttempts
<1>5. CASE \E o \in outcomes : Receive(o)
  BY <1>5, ReceiveAttempts
<1>6. CASE SkipRepairs
  <2>1. work' = Moved(work, SkippedRepairs(work, current), "skipped") /\ pc = "skip"
    BY <1>6 DEF SkipRepairs
  <2>2. "skipped" \in WorkStatus \ {"running"}
    BY DEF WorkStatus, MissionStatus
  <2> QED BY <1>1, <2>1, <2>2, MovedFacts, MovedAt, AttemptsKept
<1>7. CASE UNCHANGED work /\ (pc = "returned" => pc' = "returned")
  BY <1>7, AttemptsKept
<1> QED BY <1>2, <1>3, <1>4, <1>5, <1>6, <1>7
        DEF Next, RunStep, Begin, LoopSelect, LoopCompleted, ReportExplorer, BatchEnd,
            WorkerStep, WorkerFinish, CtxEnds, controlVars, missionVars, vars

\* A verifier runs at most MaxRepairAttempts times, whatever it reports and
\* however its repairs are requeued (CanRequeue, RequeueAfterVerification).
THEOREM RepairsAreBounded == Spec => []BoundedAttempts
<1>1. Init => OwnedInv /\ AttemptsInv
  BY InitOwned, InitAttempts
<1>2. OwnedInv /\ AttemptsInv /\ [Next]_vars => (OwnedInv /\ AttemptsInv)'
  BY StepOwned, StepAttempts
<1>3. AttemptsInv => BoundedAttempts
  BY DEF AttemptsInv, AttemptLeft, BoundedAttempts
<1> QED BY <1>1, <1>2, <1>3, PTL DEF Spec

-----------------------------------------------------------------------------
(* The last word of a verifier.  CompletedIsVerified is not inductive: while *)
(* the mission goes on, a verifier that is completed must already have a     *)
(* passing handoff that none of its later ones takes back, and an error must *)
(* never be followed by a completion.                                        *)

LastWordPasses(v) ==
  \E k \in 1..Len(handoffs) :
     /\ handoffs[k].item = v /\ Passing(handoffs[k])
     /\ \A j \in k+1..Len(handoffs) : handoffs[j].item # v

FailedEnds == mstatus = "failed" => pc = "returned" \/ batchErr # ""

CompletedIsDone == mstatus = "completed" => AllCompleted(work)

Stands(v) ==
  /\ work[v].status # "skipped"
  /\ work[v].status = "completed" /\ mstatus # "failed" => LastWordPasses(v)

VerdictsStand == \A v \in DOMAIN work : RoleOf[v] = "verifier" => Stands(v)

VerdictInv == FailedEnds /\ CompletedIsDone /\ VerdictsStand

LEMMA InitVerdict == Init => VerdictInv
<1> SUFFICES ASSUME Init PROVE VerdictInv
  OBVIOUS
<1>1. \A v \in DOMAIN work : work[v].status = "queued"
  <2> TAKE v \in DOMAIN work
  <2>1. work[v] = NewWork(Topology[v])
    BY DEF Init, InitialWork
  <2> QED BY <2>1 DEF NewWork
<1> QED BY <1>1 DEF Init, VerdictInv, FailedEnds, CompletedIsDone, VerdictsStand, Stands

\* A step without a handoff that completes and skips no verifier, unless the
\* mission fails.
LEMMA VerdictsKept ==
  ASSUME VerdictsStand, handoffs' = handoffs, DOMAIN work' = DOMAIN work,
         mstatus = "failed" => mstatus' = "failed",
         \A v \in DOMAIN work : RoleOf[v] = "verifier" =>
           \/ work'[v].status = work[v].status
           \/ work'[v].status \notin {"completed", "skipped"}
  PROVE  VerdictsStand'
<1> SUFFICES ASSUME NEW v \in DOMAIN work, RoleOf[v] = "verifier" PROVE Stands(v)'
  BY DEF VerdictsStand
<1>1. LastWordPasses(v) => LastWordPasses(v)'
  BY DEF LastWordPasses, Passing
<1> QED BY <1>1 DEF VerdictsStand, Stands

\* A handoff of another item takes no verdict back.
LEMMA LastWordKept ==
  ASSUME OwnedInv, NEW o, Completes(o), NEW v, o.item # v,
         DOMAIN work' \cap Writers = DOMAIN work \cap Writers, LastWordPasses(v)
  PROVE  LastWordPasses(v)'
<1>1. PICK k \in 1..Len(handoffs) :
        /\ handoffs[k].item = v /\ Passing(handoffs[k])
        /\ \A j \in k+1..Len(handoffs) : handoffs[j].item # v
  BY DEF LastWordPasses
<1>2. /\ Len(handoffs) \in Nat /\ Len(handoffs') = Len(handoffs) + 1
      /\ handoffs'[Len(handoffs) + 1].item = o.item
      /\ \A j \in 1..Len(handoffs) : handoffs'[j] = handoffs[j]
  BY HandoffAppended
<1>3. k \in 1..Len(handoffs') /\ handoffs'[k] = handoffs[k]
  BY <1>2
<1>4. Passing(handoffs[k])'
  BY <1>1, <1>3 DEF Passing
<1>5. ASSUME NEW j \in k+1..Len(handoffs') PROVE handoffs'[j].item # v
  <2>1. j = Len(handoffs) + 1 \/ (j \in k+1..Len(handoffs) /\ j \in 1..Len(handoffs))
    BY <1>2
  <2> QED BY <1>1, <1>2, <2>1
<1> QED BY <1>1, <1>3, <1>4, <1>5 DEF LastWordPasses

\* A verifier's own passing handoff is its last word.
LEMMA LastWordSaid ==
  ASSUME OwnedInv, NEW o, Completes(o), HandoffPassed(work, HandoffOf(o)),
         DOMAIN work' = DOMAIN work
  PROVE  LastWordPasses(o.item)'
<1>1. /\ Len(handoffs) \in Nat /\ Len(handoffs') = Len(handoffs) + 1
      /\ handoffs'[Len(handoffs')] = HandoffOf(o)
      /\ HandoffOf(o) \in Handoff /\ HandoffOf(o).item = o.item
  BY HandoffAppended
<1>2. Passing(HandoffOf(o))
  BY <1>1, PassedIsPassing
<1>3. Passing(handoffs[Len(handoffs)])'
  BY <1>1, <1>2 DEF Passing
<1>4. Len(handoffs') \in 1..Len(handoffs') /\ Len(handoffs')+1..Len(handoffs') = {}
  BY <1>1
<1> QED BY <1>1, <1>3, <1>4 DEF LastWordPasses

\* The mission has not failed and is not completed when an outcome is handled.
LEMMA HandledWhileRunning ==
  ASSUME OwnedInv, VerdictInv, NEW o, Received(o), batchErr = ""
  PROVE  mstatus \notin {"failed", "completed"}
<1>1. o.item \in DOMAIN work /\ ~Done(work, o.item) /\ pc = "collect"
  BY ReceivedRuns
<1> QED BY <1>1 DEF VerdictInv, FailedEnds, CompletedIsDone, AllCompleted

\* The verdicts after a completion that keeps every other item.
LEMMA CompletionStands ==
  ASSUME OwnedInv, VerdictInv, NEW o, Completes(o),
         DOMAIN work \subseteq DOMAIN work',
         DOMAIN work' \cap Writers = DOMAIN work \cap Writers,
         \A v \in DOMAIN work \ {o.item} : RoleOf[v] = "verifier" =>
            work'[v].status = work[v].status,
         \A v \in DOMAIN work' \ DOMAIN work : work'[v].status = "queued",
         RoleOf[o.item] = "verifier" => Stands(o.item)'
  PROVE  VerdictsStand'
<1>1. mstatus # "failed"
  BY HandledWhileRunning DEF Completes, Accountable
<1> SUFFICES ASSUME NEW v \in DOMAIN work', RoleOf[v] = "verifier" PROVE Stands(v)'
  BY DEF VerdictsStand
<1>2. CASE v \notin DOMAIN work
  BY <1>2 DEF Stands
<1>3. CASE v \in DOMAIN work \ {o.item}
  <2>1. Stands(v) /\ work'[v].status = work[v].status
    BY <1>3 DEF VerdictInv, VerdictsStand
  <2>2. LastWordPasses(v) => LastWordPasses(v)'
    BY <1>3, LastWordKept
  <2> QED BY <1>1, <2>1, <2>2 DEF Stands
<1> QED BY <1>2, <1>3

LEMMA ReceiveVerdict ==
  ASSUME OwnedInv, VerdictInv, NEW o \in outcomes, Receive(o) PROVE VerdictInv'
<1>1. WorkGraph(work) /\ pc = "collect" /\ o \in Outcome
  BY WorkTyped
     DEF OwnedInv, LeaseInv, TypeOK, Receive, Drain, ReceiveOverBudget, ReceiveError,
         ReceiveUnrecordable, ReceiveProposal, ReceiveDone, ReceiveRetry,
         ReceiveRejection, Completes, Accountable, Received
<1> DEFINE done == CompleteWork(work, o.item)
<1>2. WorkGraph(done) /\ DOMAIN done = DOMAIN work
  BY <1>1, CompleteWorkFacts
<1>3. \A v \in DOMAIN work :
        done[v].status = IF v = o.item THEN "completed" ELSE work[v].status
  BY <1>1, CompleteWorkAt
<1>4. CASE Drain(o)
  <2>1. UNCHANGED <<mstatus, work, handoffs, pc, batchErr>>
    BY <1>4 DEF Drain
  <2>2. VerdictsStand'
    BY <2>1, VerdictsKept DEF VerdictInv
  <2> QED BY <2>1, <2>2 DEF VerdictInv, FailedEnds, CompletedIsDone
\* An outcome that fails the mission ends the batch with an error.
<1>5. ASSUME mstatus' = "failed", batchErr' # "",
             \A v \in DOMAIN work' : RoleOf[v] = "verifier" => work'[v].status # "skipped"
      PROVE  VerdictInv'
  BY <1>5 DEF VerdictInv, FailedEnds, CompletedIsDone, VerdictsStand, Stands
<1>6. CASE ReceiveOverBudget(o) \/ ReceiveUnrecordable(o)
  <2>1. /\ mstatus' = "failed" /\ batchErr' # "" /\ work' = CancelRunning(work)
    BY <1>6 DEF ReceiveOverBudget, ReceiveUnrecordable, FailMission, BatchFails
  <2>2. \A v \in DOMAIN work' : RoleOf[v] = "verifier" => work'[v].status # "skipped"
    BY <1>1, <2>1, CancelRunningFacts, CancelRunningAt DEF VerdictInv, VerdictsStand, Stands
  <2> QED BY <1>5, <2>1, <2>2
<1>7. CASE ReceiveError(o)
  <2>1. WorkerErr(o) # ""
    BY DEF WorkerErr, OwnedInv, LeaseInv, TypeOK
  <2>2. /\ mstatus' = "failed" /\ batchErr' # "" /\ work' = FailWork(work, o.item)
    BY <1>7, <2>1 DEF ReceiveError, BatchFails
  <2>3. DOMAIN work' = DOMAIN work
    BY <1>1, <2>2, FailWorkFacts
  <2>4. ASSUME NEW v \in DOMAIN work
        PROVE  work'[v].status \in {work[v].status, "failed", "cancelled"}
    <3>1. FailWork(work, o.item)[v].status
            = IF v = o.item THEN "failed"
              ELSE IF work[v].status = "running" THEN "cancelled" ELSE work[v].status
      BY <1>1, FailWorkAt
    <3> QED BY <2>2, <3>1
  <2>5. \A v \in DOMAIN work' : RoleOf[v] = "verifier" => work'[v].status # "skipped"
    BY <2>3, <2>4 DEF VerdictInv, VerdictsStand, Stands
  <2> QED BY <1>5, <2>2, <2>5
<1>8. CASE ReceiveRejection(o)
  <2>1. /\ mstatus' = "failed" /\ batchErr' # "" /\ work' = CancelRunning(done)
    BY <1>8 DEF ReceiveRejection, BatchFails
  <2>2. DOMAIN work' = DOMAIN work
    BY <1>2, <2>1, CancelRunningFacts
  <2>3. \A v \in DOMAIN work : work'[v].status \in {done[v].status, "cancelled"}
    BY <1>2, <2>1, CancelRunningAt
  <2>4. \A v \in DOMAIN work' : RoleOf[v] = "verifier" => work'[v].status # "skipped"
    BY <1>3, <2>2, <2>3 DEF VerdictInv, VerdictsStand, Stands
  <2> QED BY <1>5, <2>1, <2>4
<1>9. ASSUME Completes(o)
      PROVE  /\ mstatus \notin {"failed", "completed"} /\ o \in Results(o.item)
             /\ o.item \in DOMAIN work
  BY <1>9, HandledWhileRunning, ReceivedRuns DEF Completes, Accountable
\* An explorer's completion: the substeps are read-only and queued.
<1>10. CASE ReceiveProposal(o)
  <2>1. Completes(o) /\ RoleOf[o.item] # "verifier"
    BY <1>9, <1>10 DEF ReceiveProposal, Results
  <2>2. CASE ~ValidSubstepProposal(done, o.proposal)
    <3>1. work' = done /\ mstatus' = StatusAfter(done)
      BY <1>10, <2>2 DEF ReceiveProposal
    <3>2. VerdictsStand'
      BY <1>2, <1>3, <2>1, <3>1, CompletionStands
    <3> QED BY <1>9, <2>1, <3>1, <3>2
            DEF VerdictInv, FailedEnds, CompletedIsDone, StatusAfter
  <2>3. CASE ValidSubstepProposal(done, o.proposal)
    <3>1. work' = AddSubsteps(done, o.proposal) /\ mstatus' = "running"
      BY <1>10, <2>3 DEF ReceiveProposal
    <3>2. DOMAIN o.proposal \subseteq Ids /\ o.proposal \in [DOMAIN o.proposal -> SUBSET Ids]
      BY <1>1, CoordinatorAssumption DEF Outcome
    <3>3. DOMAIN work' = DOMAIN work \cup DOMAIN o.proposal
      BY <1>2, <3>1, <3>2, AddSubstepsFacts
    <3>4. DOMAIN o.proposal \cap DOMAIN done = {} /\ DOMAIN o.proposal \cap Writers = {}
      BY <2>3, RoleAssumption DEF ValidSubstepProposal, ReadOnlyRoles
    <3>5. /\ \A v \in DOMAIN work : work'[v].status = done[v].status
          /\ \A v \in DOMAIN o.proposal : work'[v].status = "queued"
      BY <1>2, <3>1, <3>4, AddSubstepsAt
    <3>6. VerdictsStand'
      BY <1>2, <1>3, <2>1, <3>3, <3>4, <3>5, CompletionStands
    <3> QED BY <3>1, <3>6 DEF VerdictInv, FailedEnds, CompletedIsDone
  <2> QED BY <2>2, <2>3
<1>11. CASE ReceiveDone(o)
  <2>1. Completes(o) /\ work' = done /\ mstatus' = StatusAfter(done)
    BY <1>11 DEF ReceiveDone
  <2>2. RoleOf[o.item] = "verifier" => Stands(o.item)'
    <3> SUFFICES ASSUME RoleOf[o.item] = "verifier" PROVE Stands(o.item)'
      OBVIOUS
    <3>1. HandoffPassed(work, HandoffOf(o))
      BY <1>11 DEF ReceiveDone, VerificationFailed
    <3>2. LastWordPasses(o.item)'
      BY <1>2, <2>1, <3>1, LastWordSaid
    <3>3. work'[o.item].status = "completed"
      BY <1>3, <1>9, <2>1
    <3> QED BY <3>2, <3>3 DEF Stands
  <2>3. VerdictsStand'
    BY <1>2, <1>3, <2>1, <2>2, CompletionStands
  <2> QED BY <1>9, <2>1, <2>3 DEF VerdictInv, FailedEnds, CompletedIsDone, StatusAfter
<1>12. CASE ReceiveRetry(o)
  <2>1. /\ Completes(o) /\ mstatus' = "running"
        /\ work' = Moved(done, RepairsOf(done, o.item) \cup {o.item}, "queued")
    BY <1>12 DEF ReceiveRetry, RequeueAfterVerification
  <2>2. "queued" \in WorkStatus \ {"running"}
    BY DEF WorkStatus, MissionStatus
  <2>3. DOMAIN work' = DOMAIN work
    BY <1>2, <2>1, <2>2, MovedFacts
  <2>4. \A v \in DOMAIN work \ {o.item} : RoleOf[v] = "verifier" =>
          work'[v].status = work[v].status
    <3> SUFFICES ASSUME NEW v \in DOMAIN work \ {o.item}, RoleOf[v] = "verifier"
                 PROVE  work'[v].status = work[v].status
      OBVIOUS
    <3>1. v \notin RepairsOf(done, o.item)
      BY RoleAssumption DEF RepairsOf
    <3> QED BY <1>2, <1>3, <2>1, <3>1, MovedAt
  <2>5. Stands(o.item)'
    <3>1. o.item \in DOMAIN done
      BY <1>2, <1>9, <2>1
    <3>2. ASSUME NEW S, o.item \in S
          PROVE  Moved(done, S, "queued")[o.item].status = "queued"
      BY <1>2, <3>1, <3>2, MovedAt
    <3>3. work'[o.item].status = "queued"
      BY <2>1, <3>2
    <3> QED BY <3>3 DEF Stands
  <2>6. VerdictsStand'
    BY <2>1, <2>3, <2>4, <2>5, CompletionStands
  <2> QED BY <2>1, <2>6 DEF VerdictInv, FailedEnds, CompletedIsDone
<1> QED BY <1>4, <1>6, <1>7, <1>8, <1>10, <1>11, <1>12 DEF Receive

LEMMA StepVerdict == OwnedInv /\ VerdictInv /\ [Next]_vars => VerdictInv'
<1> SUFFICES ASSUME OwnedInv, VerdictInv, [Next]_vars PROVE VerdictInv'
  OBVIOUS
<1>1. WorkGraph(work) /\ FailedEnds /\ CompletedIsDone /\ VerdictsStand
  BY WorkTyped DEF OwnedInv, LeaseInv, VerdictInv
<1>2. ErrorsEndBatches
  BY DEF OwnedInv, LeaseInv
<1> USE DEF FailedEnds, CompletedIsDone
<1>3. CASE LoopInterrupted
  <2>1. /\ work' = Moved(work, Running(work), "interrupted") /\ pc' = "returned"
        /\ handoffs' = handoffs /\ mstatus = "running" /\ mstatus' = "interrupted"
    BY <1>3 DEF LoopInterrupted, InterruptWork, Return, Running
  <2>2. "interrupted" \in WorkStatus \ {"running"}
    BY DEF WorkStatus, MissionStatus
  <2>3. VerdictsStand'
    BY <1>1, <2>1, <2>2, MovedFacts, MovedAt, VerdictsKept
  <2> QED BY <2>1, <2>3 DEF VerdictInv
<1>4. CASE LoopStuck
  <2>1. VerdictsStand'
    BY <1>1, <1>4, CancelRunningFacts, CancelRunningAt, VerdictsKept
       DEF LoopStuck, FailMission
  <2> QED BY <1>4, <2>1 DEF LoopStuck, FailMission, Return, VerdictInv
<1>5. CASE \E i \in todo : Start(i)
  <2>1. PICK i \in todo : Start(i)
    BY <1>5
  <2>2. /\ handoffs' = handoffs /\ pc = "start" /\ mstatus # "failed"
        /\ i \in Ready(work) /\ i \in DOMAIN work
    BY <1>1, <1>2, <2>1, ReadyIsIdle
       DEF Start, StartBlocked, StartOverBudget, StartItem, ErrorsEndBatches,
           OwnedInv, TodoIsReady
  <2>3. CASE StartBlocked(i) \/ StartOverBudget(i)
    <3>1. mstatus' = "failed" /\ work' = CancelRunning(work) /\ pc' = "returned"
      BY <2>3 DEF StartBlocked, StartOverBudget, FailMission, Return
    <3>2. VerdictsStand'
      BY <1>1, <2>2, <3>1, CancelRunningFacts, CancelRunningAt, VerdictsKept
    <3> QED BY <3>1, <3>2 DEF VerdictInv
  <2>4. CASE StartItem(i) /\ ~CanStart(work, i)
    <3>1. mstatus' = mstatus /\ work' = work
      BY <2>4 DEF StartItem
    <3>2. VerdictsStand'
      BY <1>1, <2>2, <3>1, VerdictsKept
    <3> QED BY <1>1, <2>2, <3>1, <3>2 DEF VerdictInv
  <2>5. CASE StartItem(i) /\ CanStart(work, i)
    <3>1. work' = StartWork(work, i) /\ mstatus' = "running"
      BY <2>5 DEF StartItem, Launch
    <3>2. VerdictsStand'
      BY <1>1, <2>2, <3>1, StartWorkFacts, StartWorkAt, VerdictsKept
    <3> QED BY <3>1, <3>2 DEF VerdictInv
  <2> QED BY <2>1, <2>3, <2>4, <2>5 DEF Start
<1>6. CASE \E o \in outcomes : Receive(o)
  BY <1>6, ReceiveVerdict
<1>7. CASE SkipRepairs
  <2>1. /\ work' = Moved(work, SkippedRepairs(work, current), "skipped")
        /\ mstatus' = mstatus /\ handoffs' = handoffs /\ pc = "skip"
    BY <1>7 DEF SkipRepairs
  <2>2. "skipped" \in WorkStatus \ {"running"}
    BY DEF WorkStatus, MissionStatus
  <2>3. DOMAIN work' = DOMAIN work
    BY <1>1, <2>1, <2>2, MovedFacts
  <2>4. \A v \in DOMAIN work :
          /\ v \in SkippedRepairs(work, current) => work'[v].status = "skipped"
          /\ v \notin SkippedRepairs(work, current) => work'[v].status = work[v].status
    <3>1. WorkGraph(work)
      BY <1>1
    <3>2. ASSUME NEW S, NEW v \in DOMAIN work, v \in S
          PROVE  Moved(work, S, "skipped")[v].status = "skipped"
      BY <3>1, <3>2, MovedAt
    <3>3. ASSUME NEW S, NEW v \in DOMAIN work, v \notin S
          PROVE  Moved(work, S, "skipped")[v].status = work[v].status
      BY <3>1, <3>3, MovedAt
    <3> QED BY <2>1, <3>2, <3>3
  <2>5. \A v \in SkippedRepairs(work, current) : RoleOf[v] # "verifier"
    BY RoleAssumption DEF SkippedRepairs, WithStatus
  <2>6. VerdictsStand'
    BY <1>1, <2>1, <2>3, <2>4, <2>5, VerdictsKept
  <2>7. mstatus # "failed"
    BY <1>1, <1>2, <2>1 DEF ErrorsEndBatches
  <2>8. mstatus = "completed" => AllCompleted(work')
    BY <1>1, <2>3, <2>4 DEF AllCompleted, Done
  <2> QED BY <2>1, <2>6, <2>7, <2>8 DEF VerdictInv
<1>8. ASSUME UNCHANGED <<work, handoffs>>, mstatus' \in {mstatus, "running"},
             mstatus = "failed" => mstatus' = "failed" /\ (pc' = "returned" \/ batchErr' # "")
      PROVE  VerdictInv'
  <2>1. VerdictsStand'
    BY <1>1, <1>8, VerdictsKept
  <2> QED BY <1>1, <1>8, <2>1 DEF VerdictInv
<1>9. CASE Begin
  BY <1>1, <1>2, <1>8, <1>9 DEF Begin, ErrorsEndBatches
<1>10. CASE ReportExplorer
  BY <1>1, <1>2, <1>8, <1>10 DEF ReportExplorer, missionVars, ErrorsEndBatches
<1>11. CASE LoopSelect \/ LoopCompleted \/ BatchEnd
  BY <1>1, <1>2, <1>8, <1>11
     DEF LoopSelect, LoopCompleted, BatchEnd, Return, missionVars, ErrorsEndBatches
<1>12. CASE WorkerStep \/ CtxEnds \/ UNCHANGED vars
  <2>1. UNCHANGED <<work, handoffs, mstatus, pc, batchErr>>
    BY <1>12 DEF WorkerStep, WorkerFinish, CtxEnds, controlVars, missionVars, vars
  <2> QED BY <1>1, <1>8, <2>1
<1> QED BY <1>3, <1>4, <1>5, <1>6, <1>7, <1>9, <1>10, <1>11, <1>12 DEF Next, RunStep

LEMMA VerdictIsVerified == VerdictInv => CompletedIsVerified
<1> SUFFICES ASSUME VerdictInv, mstatus = "completed",
                    NEW v \in DOMAIN work, RoleOf[v] = "verifier"
             PROVE  LastWordPasses(v)
  BY DEF CompletedIsVerified, LastWordPasses
<1> QED BY DEF VerdictInv, CompletedIsDone, VerdictsStand, Stands, AllCompleted, Done

\* A mission never completes over a failed verification: the last word of each
\* of its verifiers, an Explorer's included, is a passing one (runBatch,
\* RequeueAfterVerification, AddSubsteps).
THEOREM CompletionIsVerified == Spec => []CompletedIsVerified
<1>1. Init => OwnedInv /\ VerdictInv
  BY InitOwned, InitVerdict
<1>2. OwnedInv /\ VerdictInv /\ [Next]_vars => (OwnedInv /\ VerdictInv)'
  BY StepOwned, StepVerdict
<1> QED BY <1>1, <1>2, VerdictIsVerified, PTL DEF Spec

-----------------------------------------------------------------------------
(* What a step does to the mission, item by item.  The invariants below      *)
(* follow the kinds of step and not the actions.                             *)

SameStatus(i) == work'[i].status = work[i].status

DepsKept ==
  /\ WorkGraph(work) /\ DOMAIN work' = DOMAIN work
  /\ \A i \in DOMAIN work : work'[i].deps = work[i].deps

\* The items stay as they are.
Keeps ==
  /\ DepsKept /\ handoffs' = handoffs /\ \A i \in DOMAIN work : SameStatus(i)
  /\ \/ mstatus' = mstatus
     \/ mstatus # "failed" /\ (mstatus' = "interrupted" \/ pc = "begin")

\* The mission fails, and with it what runs.
Fails ==
  /\ DepsKept /\ handoffs' = handoffs /\ mstatus' = "failed"
  /\ \A i \in DOMAIN work :
        SameStatus(i) \/ (/\ work[i].status = "running"
                          /\ work'[i].status \in {"failed", "cancelled"})

\* Start: a ready item runs.
Starts(i) ==
  /\ DepsKept /\ handoffs' = handoffs /\ mstatus' = "running"
  /\ pc = "start" /\ i \in Ready(work) /\ ~LeadBlocked(i)
  /\ work'[i].status = "running"
  /\ \A j \in DOMAIN work \ {i} : SameStatus(j)

\* Complete: a running item is done, whether or not the mission survives it.
Finishes(o) ==
  /\ DepsKept /\ Completes(o)
  /\ mstatus' \in {"failed", StatusAfter(work')}
  /\ work'[o.item].status = "completed"
  /\ \A i \in DOMAIN work \ {o.item} :
        \/ SameStatus(i)
        \/ /\ mstatus' = "failed"
           /\ work[i].status = "running" /\ work'[i].status = "cancelled"

\* AddSubsteps: an Explorer is done and the substeps it proposed are queued.
Extends(o, p) ==
  /\ WorkGraph(work) /\ Completes(o) /\ mstatus' = "running"
  /\ RoleOf[o.item] = "explorer" /\ p \in Proposals
  /\ DOMAIN work' = DOMAIN work \cup DOMAIN p /\ DOMAIN p \cap DOMAIN work = {}
  /\ AcyclicGraph([i \in DOMAIN p |-> p[i] \cap DOMAIN p])
  /\ \A i \in DOMAIN p :
        /\ RoleOf[i] \in ReadOnlyRoles /\ work'[i].status = "queued"
        /\ work'[i].deps = p[i] /\ p[i] \subseteq DOMAIN work'
  /\ work'[o.item].status = "completed"
  /\ \A i \in DOMAIN work :
        /\ i # o.item => SameStatus(i)
        /\ work'[i].deps = IF RoleOf[i] = "lead" /\ work[i].status = "queued"
                           THEN work[i].deps \cup DOMAIN p ELSE work[i].deps

\* RequeueAfterVerification: the failed verifier and its repairs are queued.
Requeues(o) ==
  /\ DepsKept /\ Completes(o) /\ mstatus' = "running"
  /\ RoleOf[o.item] = "verifier" /\ work'[o.item].status = "queued"
  /\ \A i \in DOMAIN work \ {o.item} :
        \/ SameStatus(i)
        \/ /\ i \in Writers /\ i \in work[o.item].deps /\ Done(work, i)
           /\ work'[i].status = "queued"

\* SkipRepairsAfterReview: repairs that wait for a review of an implementation.
Skips ==
  /\ DepsKept /\ handoffs' = handoffs /\ mstatus' = mstatus /\ pc = "skip"
  /\ \A i \in DOMAIN work :
        \/ SameStatus(i)
        \/ /\ work'[i].status = "skipped" /\ work[i].status = "queued"
           /\ i \in Writers /\ current \in work[i].deps
           /\ work[current].deps \cap DOMAIN work \cap Writers # {}

StepKind ==
  \/ Keeps \/ Fails \/ Skips
  \/ \E i \in todo : Starts(i)
  \/ \E o \in outcomes : Finishes(o) \/ Requeues(o) \/ \E p \in Proposals : Extends(o, p)

LEMMA WorkKept ==
  ASSUME OwnedInv, work' = work PROVE DepsKept /\ \A i \in DOMAIN work : SameStatus(i)
BY WorkTyped DEF OwnedInv, LeaseInv, DepsKept, SameStatus

LEMMA FailMissionFails ==
  ASSUME OwnedInv, FailMission, handoffs' = handoffs PROVE Fails
<1>1. WorkGraph(work) /\ work' = CancelRunning(work) /\ mstatus' = "failed"
  BY WorkTyped DEF OwnedInv, LeaseInv, FailMission
<1>2. DOMAIN work' = DOMAIN work
  BY <1>1, CancelRunningFacts
<1>3. ASSUME NEW i \in DOMAIN work
      PROVE  /\ work'[i].deps = work[i].deps
             /\ work'[i].status = IF work[i].status = "running" THEN "cancelled"
                                  ELSE work[i].status
  BY <1>1, CancelRunningAt
<1> QED BY <1>1, <1>2, <1>3 DEF Fails, DepsKept, SameStatus

LEMMA StartKind ==
  ASSUME OwnedInv, NEW i \in todo, Start(i) PROVE Keeps \/ Fails \/ Starts(i)
<1>1. CASE StartBlocked(i) \/ StartOverBudget(i)
  BY <1>1, FailMissionFails DEF StartBlocked, StartOverBudget
<1>2. CASE StartItem(i) /\ ~CanStart(work, i)
  BY <1>2, WorkKept DEF StartItem, Keeps
<1>3. CASE StartItem(i) /\ CanStart(work, i)
  <2>1. /\ WorkGraph(work) /\ i \in Ready(work) /\ i \in DOMAIN work
        /\ work' = StartWork(work, i) /\ mstatus' = "running" /\ handoffs' = handoffs
        /\ pc = "start" /\ ~LeadBlocked(i)
    BY <1>3, WorkTyped, ReadyIsIdle
       DEF OwnedInv, LeaseInv, StartItem, CanStart, Launch
  <2>2. DOMAIN work' = DOMAIN work
    BY <2>1, StartWorkFacts
  <2>3. ASSUME NEW j \in DOMAIN work
        PROVE  /\ work'[j].deps = work[j].deps
               /\ work'[j].status = IF j = i THEN "running" ELSE work[j].status
    BY <2>1, StartWorkAt
  <2> QED BY <2>1, <2>2, <2>3 DEF Starts, DepsKept, SameStatus
<1> QED BY <1>1, <1>2, <1>3 DEF Start

\* A substep keeps the dependencies it was proposed with, and only a queued lead
\* gets more of them.
LEMMA SubstepDeps ==
  ASSUME NEW w, NEW p, NEW i \in DOMAIN p PROVE AddSubsteps(w, p)[i].deps = p[i]
<1>1. AddSubsteps(w, p)[i] = NewWork(p[i])
  BY DEF AddSubsteps
<1> QED BY <1>1 DEF NewWork

LEMMA OlderDeps ==
  ASSUME NEW w, WorkGraph(w), NEW p, NEW i \in DOMAIN w \ DOMAIN p
  PROVE  /\ RoleOf[i] = "lead" /\ w[i].status = "queued" =>
              AddSubsteps(w, p)[i].deps = w[i].deps \cup DOMAIN p
         /\ RoleOf[i] # "lead" \/ w[i].status # "queued" =>
              AddSubsteps(w, p)[i].deps = w[i].deps
<1>1. w[i] \in WorkItem
  BY DEF WorkGraph
<1>2. AddSubsteps(w, p)[i] = IF RoleOf[i] = "lead" /\ w[i].status = "queued"
                             THEN [w[i] EXCEPT !.deps = @ \cup DOMAIN p] ELSE w[i]
  BY DEF AddSubsteps
<1> QED BY <1>1, <1>2 DEF WorkItem

LEMMA ReceiveKind ==
  ASSUME OwnedInv, NEW o \in outcomes, Receive(o)
  PROVE  \/ Keeps \/ Fails \/ Finishes(o) \/ Requeues(o)
         \/ \E p \in Proposals : Extends(o, p)
<1>1. CASE Drain(o)
  BY <1>1, WorkKept DEF Drain, Keeps
<1>2. CASE ReceiveOverBudget(o) \/ ReceiveUnrecordable(o)
  BY <1>2, FailMissionFails DEF ReceiveOverBudget, ReceiveUnrecordable
<1>3. WorkGraph(work)
  BY WorkTyped DEF OwnedInv, LeaseInv
<1>4. CASE ReceiveError(o)
  <2>1. /\ work' = FailWork(work, o.item) /\ mstatus' = "failed" /\ handoffs' = handoffs
        /\ work[o.item].status = "running"
    BY <1>4, ReceivedRuns DEF ReceiveError, Accountable, Running, WithStatus
  <2>2. DOMAIN work' = DOMAIN work
    BY <1>3, <2>1, FailWorkFacts
  <2>3. ASSUME NEW i \in DOMAIN work
        PROVE  /\ work'[i].deps = work[i].deps
               /\ work'[i].status = IF i = o.item THEN "failed"
                                    ELSE IF work[i].status = "running" THEN "cancelled"
                                    ELSE work[i].status
    BY <1>3, <2>1, FailWorkAt
  <2> QED BY <1>3, <2>1, <2>2, <2>3 DEF Fails, DepsKept, SameStatus
<1>5. ASSUME Completes(o)
      PROVE  o.item \in DOMAIN work /\ o \in Results(o.item) /\ o \in Outcome
  BY <1>5, ReceivedRuns DEF Completes, Accountable
<1> DEFINE done == CompleteWork(work, o.item)
<1>6. WorkGraph(done) /\ DOMAIN done = DOMAIN work
  BY <1>3, CompleteWorkFacts
<1>7. ASSUME NEW i \in DOMAIN work
      PROVE  /\ done[i].status = IF i = o.item THEN "completed" ELSE work[i].status
             /\ done[i].deps = work[i].deps
  BY <1>3, CompleteWorkAt
<1>8. CASE Completes(o) /\ work' = done /\ mstatus' = StatusAfter(work')
  BY <1>3, <1>5, <1>6, <1>7, <1>8 DEF Finishes, DepsKept, SameStatus
<1>9. CASE ReceiveDone(o)
  BY <1>8, <1>9 DEF ReceiveDone
<1>10. CASE ReceiveRejection(o)
  <2>1. work' = CancelRunning(done) /\ mstatus' = "failed" /\ Completes(o)
    BY <1>10 DEF ReceiveRejection
  <2>2. DOMAIN work' = DOMAIN work
    BY <1>6, <2>1, CancelRunningFacts
  <2>3. ASSUME NEW i \in DOMAIN work
        PROVE  /\ work'[i].deps = done[i].deps
               /\ work'[i].status = IF done[i].status = "running" THEN "cancelled"
                                    ELSE done[i].status
    BY <1>6, <2>1, CancelRunningAt
  <2> QED BY <1>3, <1>5, <1>7, <2>1, <2>2, <2>3 DEF Finishes, DepsKept, SameStatus
<1>11. CASE ReceiveRetry(o)
  <2>1. /\ Completes(o) /\ mstatus' = "running" /\ RoleOf[o.item] = "verifier"
        /\ work' = Moved(done, RepairsOf(done, o.item) \cup {o.item}, "queued")
    BY <1>11 DEF ReceiveRetry, RequeueAfterVerification, VerificationFailed
  <2>2. DOMAIN work' = DOMAIN work
    BY <1>6, <2>1 DEF Moved
  <2>3. ASSUME NEW S, NEW i \in DOMAIN work
        PROVE  /\ Moved(done, S, "queued")[i].deps = done[i].deps
               /\ Moved(done, S, "queued")[i].status = IF i \in S THEN "queued"
                                                       ELSE done[i].status
    BY <1>6, <2>3, MovedAt
  <2>4. ASSUME NEW i \in RepairsOf(done, o.item), i # o.item
        PROVE  i \in Writers /\ i \in work[o.item].deps /\ Done(work, i)
    BY <1>5, <1>6, <1>7, <2>1, <2>4 DEF RepairsOf, Done
  <2>5. DepsKept
    BY <1>3, <1>7, <2>1, <2>2, <2>3 DEF DepsKept
  <2>6. work'[o.item].status = "queued"
    <3>1. ASSUME NEW S, o.item \in S
          PROVE  Moved(done, S, "queued")[o.item].status = "queued"
      BY <1>5, <2>1, <2>3, <3>1
    <3> QED BY <2>1, <3>1
  <2>7. ASSUME NEW i \in DOMAIN work \ {o.item}
        PROVE  \/ SameStatus(i)
               \/ /\ i \in Writers /\ i \in work[o.item].deps /\ Done(work, i)
                  /\ work'[i].status = "queued"
    <3>1. CASE i \in RepairsOf(done, o.item)
      BY <2>1, <2>3, <2>4, <2>7, <3>1
    <3>2. CASE i \notin RepairsOf(done, o.item)
      BY <1>7, <2>1, <2>3, <2>7, <3>2 DEF SameStatus
    <3> QED BY <3>1, <3>2
  <2> QED BY <2>1, <2>5, <2>6, <2>7 DEF Requeues
<1>12. CASE ReceiveProposal(o) /\ ~ValidSubstepProposal(done, o.proposal)
  BY <1>8, <1>12 DEF ReceiveProposal
<1>13. CASE ReceiveProposal(o) /\ ValidSubstepProposal(done, o.proposal)
  <2>1. Completes(o) /\ work' = AddSubsteps(done, o.proposal) /\ mstatus' = "running"
    BY <1>13 DEF ReceiveProposal
  <2>2. RoleOf[o.item] = "explorer" /\ o.proposal \in Proposals
    BY <1>5, <1>13, <2>1 DEF ReceiveProposal, Results, Outcome
  <2>3. DOMAIN o.proposal \subseteq Ids /\ o.proposal \in [DOMAIN o.proposal -> SUBSET Ids]
    BY <2>2, CoordinatorAssumption
  <2>4. /\ DOMAIN o.proposal \cap DOMAIN work = {}
        /\ AcyclicGraph([i \in DOMAIN o.proposal |-> o.proposal[i] \cap DOMAIN o.proposal])
        /\ \A i \in DOMAIN o.proposal : RoleOf[i] \in ReadOnlyRoles
        /\ \A i \in DOMAIN o.proposal : o.proposal[i] \subseteq DOMAIN o.proposal \cup DOMAIN work
    BY <1>6, <1>13 DEF ValidSubstepProposal
  <2>5. DOMAIN work' = DOMAIN work \cup DOMAIN o.proposal
    BY <1>6, <2>1, <2>3, AddSubstepsFacts
  <2>6. ASSUME NEW i \in DOMAIN o.proposal
        PROVE  work'[i].status = "queued" /\ work'[i].deps = o.proposal[i]
    <3>1. AddSubsteps(done, o.proposal)[i].status = "queued"
      BY <1>6, <2>6, AddSubstepsAt
    <3>2. AddSubsteps(done, o.proposal)[i].deps = o.proposal[i]
      BY <2>6, SubstepDeps
    <3> QED BY <2>1, <3>1, <3>2
  <2>7. ASSUME NEW i \in DOMAIN work
        PROVE  /\ work'[i].status = done[i].status
               /\ work'[i].deps = IF RoleOf[i] = "lead" /\ done[i].status = "queued"
                                  THEN done[i].deps \cup DOMAIN o.proposal ELSE done[i].deps
    <3>1. i \in DOMAIN done \ DOMAIN o.proposal
      BY <1>6, <2>4, <2>7
    <3>2. AddSubsteps(done, o.proposal)[i].status = done[i].status
      BY <1>6, <3>1, AddSubstepsAt
    <3>3. /\ RoleOf[i] = "lead" /\ done[i].status = "queued" =>
               AddSubsteps(done, o.proposal)[i].deps = done[i].deps \cup DOMAIN o.proposal
          /\ RoleOf[i] # "lead" \/ done[i].status # "queued" =>
               AddSubsteps(done, o.proposal)[i].deps = done[i].deps
      <4> HIDE DEF done
      <4> QED BY <1>6, <3>1, OlderDeps
    <3> QED BY <2>1, <3>2, <3>3
  <2>8. ASSUME NEW i \in DOMAIN work
        PROVE  /\ i # o.item => SameStatus(i)
               /\ work'[i].deps = IF RoleOf[i] = "lead" /\ work[i].status = "queued"
                                  THEN work[i].deps \cup DOMAIN o.proposal ELSE work[i].deps
    BY <1>7, <2>2, <2>7 DEF SameStatus
  <2>9. work'[o.item].status = "completed"
    BY <1>5, <1>7, <2>1, <2>7
  <2>10. Extends(o, o.proposal)
    BY <1>3, <2>1, <2>2, <2>4, <2>5, <2>6, <2>8, <2>9 DEF Extends
  <2> QED BY <2>2, <2>10
<1> QED BY <1>1, <1>2, <1>4, <1>9, <1>10, <1>11, <1>12, <1>13 DEF Receive

LEMMA SkipKind == ASSUME OwnedInv, SkipRepairs PROVE Skips
<1> DEFINE S == SkippedRepairs(work, current)
<1>1. /\ WorkGraph(work) /\ pc = "skip" /\ mstatus' = mstatus /\ handoffs' = handoffs
      /\ work' = Moved(work, S, "skipped")
  BY WorkTyped DEF OwnedInv, LeaseInv, SkipRepairs
<1>2. DOMAIN work' = DOMAIN work
  BY <1>1 DEF Moved
<1>3. ASSUME NEW T, NEW i \in DOMAIN work
      PROVE  /\ Moved(work, T, "skipped")[i].deps = work[i].deps
             /\ Moved(work, T, "skipped")[i].status = IF i \in T THEN "skipped"
                                                      ELSE work[i].status
  BY <1>1, <1>3, MovedAt
<1>4. \A i \in S : /\ work[i].status = "queued" /\ i \in Writers /\ current \in work[i].deps
                   /\ work[current].deps \cap DOMAIN work \cap Writers # {}
  BY DEF SkippedRepairs, WithStatus
<1>5. DepsKept
  BY <1>1, <1>2, <1>3 DEF DepsKept
<1>6. ASSUME NEW i \in DOMAIN work
      PROVE  \/ SameStatus(i)
             \/ i \in S /\ work'[i].status = "skipped"
  BY <1>1, <1>3 DEF SameStatus
<1> QED BY <1>1, <1>4, <1>5, <1>6 DEF Skips

LEMMA StepKinds ==
  ASSUME OwnedInv, VerdictInv, [Next]_vars PROVE StepKind
<1> USE DEF StepKind
<1>1. CASE Begin
  BY <1>1, WorkKept DEF Begin, Keeps, VerdictInv, FailedEnds, OwnedInv, LeaseInv, ErrorsEndBatches
<1>2. CASE LoopInterrupted
  <2>1. /\ work' = Moved(work, {}, "interrupted") /\ WorkGraph(work)
        /\ mstatus = "running" /\ mstatus' = "interrupted" /\ handoffs' = handoffs
    <3>1. Running(work) = {}
      BY <1>2 DEF LoopInterrupted, OwnedInv, LeaseInv, RunningOwned
    <3> QED BY <1>2, <3>1, WorkTyped
            DEF LoopInterrupted, InterruptWork, Running, OwnedInv, LeaseInv
  <2>2. DOMAIN work' = DOMAIN work
    BY <2>1 DEF Moved
  <2>3. ASSUME NEW i \in DOMAIN work
        PROVE  SameStatus(i) /\ work'[i].deps = work[i].deps
    BY <2>1, MovedAt DEF SameStatus
  <2> QED BY <2>1, <2>2, <2>3 DEF Keeps, DepsKept
<1>3. CASE LoopStuck
  BY <1>3, FailMissionFails DEF LoopStuck
<1>4. CASE \E i \in todo : Start(i)
  BY <1>4, StartKind
<1>5. CASE \E o \in outcomes : Receive(o)
  BY <1>5, ReceiveKind
<1>6. CASE SkipRepairs
  BY <1>6, SkipKind
<1>7. CASE UNCHANGED missionVars
  BY <1>7, WorkKept DEF missionVars, Keeps
<1> QED BY <1>1, <1>2, <1>3, <1>4, <1>5, <1>6, <1>7
        DEF Next, RunStep, LoopSelect, LoopCompleted, ReportExplorer, BatchEnd,
            WorkerStep, WorkerFinish, CtxEnds, missionVars, vars

-----------------------------------------------------------------------------
(* The lead gate.  What the two topologies of coordinator.go share, for any  *)
(* number of stages: one lead, waiting for every verifier; every stage leads *)
(* to it; and a repair that a review of an implementation may skip waits for *)
(* that review alone.                                                        *)

IsVerifier(v) == RoleOf[v] = "verifier"

LeadShape(l) ==
  /\ l \in DOMAIN Topology
  /\ \A i \in DOMAIN Topology : RoleOf[i] = "lead" <=> i = l
  /\ Topology[l] = {i \in DOMAIN Topology : IsVerifier(i)}
  /\ \A C \in SUBSET (DOMAIN Topology \ {l}) :
        C # {} => \E i \in C, j \in DOMAIN Topology \ C : i \in Topology[j]
  /\ \A i, r \in DOMAIN Topology :
        /\ i \in Writers /\ r \in Topology[i]
        /\ RoleOf[r] = "reviewer" /\ Topology[r] \cap Writers # {}
        => Topology[i] = {r}

\* The topology of a coding goal and that of a question have this shape, whatever
\* substeps are proposed later (coordinator.go).
THEOREM MissionsHaveALead ==
  ASSUME Topology \in {MutationTopology, ReadOnlyTopology},
         \A i \in DOMAIN Topology : RoleOf[i] = StageRole(i),
         Writers \cap DOMAIN Topology \subseteq {"build", "repair"}
  PROVE  LeadShape("lead")
<1>1. CASE Topology = MutationTopology
  <2> DEFINE D == {"explore", "preflight", "build", "review", "repair", "verify", "lead"}
  <2>1. DOMAIN Topology = D
    BY <1>1 DEF MutationTopology
  <2>2. /\ Topology["build"] = {"explore", "preflight"} /\ Topology["review"] = {"build"}
        /\ Topology["repair"] = {"review"} /\ Topology["verify"] = {"repair"}
        /\ Topology["lead"] = {"verify"} /\ Topology["explore"] = {}
        /\ Topology["preflight"] = {}
    BY <1>1 DEF MutationTopology
  <2>3. \A i \in D : (RoleOf[i] = "lead" <=> i = "lead") /\ (IsVerifier(i) <=> i = "verify")
    BY <2>1 DEF StageRole, IsVerifier
  <2>4. ASSUME NEW C \in SUBSET (D \ {"lead"}), C # {}
        PROVE  \E i \in C, j \in D \ C : i \in Topology[j]
    <3>1. CASE "verify" \in C
      BY <2>2, <2>4, <3>1
    <3>2. CASE "repair" \in C /\ "verify" \notin C
      BY <2>2, <2>4, <3>2
    <3>3. CASE "review" \in C /\ "repair" \notin C
      BY <2>2, <2>4, <3>3
    <3>4. CASE "build" \in C /\ "review" \notin C
      BY <2>2, <2>4, <3>4
    <3>5. CASE C \cap {"explore", "preflight"} # {} /\ "build" \notin C
      BY <2>2, <2>4, <3>5
    <3> QED BY <2>4, <3>1, <3>2, <3>3, <3>4, <3>5
  <2>5. ASSUME NEW i \in D, NEW r \in D, i \in Writers, r \in Topology[i],
               RoleOf[r] = "reviewer", Topology[r] \cap Writers # {}
        PROVE  Topology[i] = {r}
    <3>1. i \in {"build", "repair"}
      BY <2>1, <2>5
    <3> QED BY <2>2, <2>5, <3>1
  <2> QED BY <2>1, <2>2, <2>3, <2>4, <2>5 DEF LeadShape
<1>2. CASE Topology = ReadOnlyTopology
  <2> DEFINE D == {"explore", "review", "verify", "lead"}
  <2>1. DOMAIN Topology = D
    BY <1>2 DEF ReadOnlyTopology
  <2>2. /\ Topology["explore"] = {} /\ Topology["review"] = {}
        /\ Topology["verify"] = {"explore", "review"} /\ Topology["lead"] = {"verify"}
    BY <1>2 DEF ReadOnlyTopology
  <2>3. \A i \in D : (RoleOf[i] = "lead" <=> i = "lead") /\ (IsVerifier(i) <=> i = "verify")
    BY <2>1 DEF StageRole, IsVerifier
  <2>4. ASSUME NEW C \in SUBSET (D \ {"lead"}), C # {}
        PROVE  \E i \in C, j \in D \ C : i \in Topology[j]
    <3>1. CASE "verify" \in C
      BY <2>2, <2>4, <3>1
    <3>2. CASE C \cap {"explore", "review"} # {} /\ "verify" \notin C
      BY <2>2, <2>4, <3>2
    <3> QED BY <2>4, <3>1, <3>2
  <2>5. \A i \in D : i \notin Writers
    BY <2>1
  <2> QED BY <2>1, <2>2, <2>3, <2>4, <2>5 DEF LeadShape
<1> QED BY <1>1, <1>2

LEMMA LeadIsNoWriter ==
  ASSUME NEW l, LeadShape(l)
  PROVE  l \in Ids /\ RoleOf[l] = "lead" /\ l \notin Writers /\ ~IsVerifier(l)
BY TopologyAssumption, RoleAssumption DEF LeadShape, IsVerifier

-----------------------------------------------------------------------------
\* A mission with an item that failed or was cancelled has failed, no item is
\* interrupted while Run goes on, and only a completed review may skip repairs.
StageInv ==
  /\ pc = "begin" => \A i \in DOMAIN work : work[i].status = "queued"
  /\ \A i \in DOMAIN work :
        /\ work[i].status # "interrupted"
        /\ work[i].status \in {"failed", "cancelled"} => mstatus = "failed"
  /\ pc = "skip" => /\ current \in DOMAIN work
                    /\ work[current].status = "completed"
                    /\ RoleOf[current] = "reviewer"

LEMMA InitStage == Init => StageInv
<1> SUFFICES ASSUME Init PROVE StageInv
  OBVIOUS
<1>1. ASSUME NEW i \in DOMAIN work PROVE work[i].status = "queued"
  <2>1. work[i] = NewWork(Topology[i])
    BY DEF Init, InitialWork
  <2> QED BY <2>1 DEF NewWork
<1> QED BY <1>1 DEF Init, StageInv

\* Which steps leave Run at its beginning or before the skipping of repairs.
LEMMA StagesOfRun ==
  ASSUME [Next]_vars
  PROVE  /\ pc' = "begin" => pc = "begin" /\ work' = work
         /\ pc' = "skip" =>
              \/ pc = "skip" /\ work' = work /\ current' = current
              \/ \E o \in outcomes : /\ ReceiveDone(o) /\ RoleOf[o.item] = "reviewer"
                                     /\ current' = o.item
<1>1. CASE Begin \/ LoopInterrupted \/ LoopStuck \/ LoopSelect \/ LoopCompleted
  BY <1>1 DEF Begin, LoopInterrupted, LoopStuck, LoopSelect, LoopCompleted, Return,
              CheckpointOrReturn
<1>2. CASE \E i \in todo : Start(i)
  <2>1. PICK i \in todo : Start(i)
    BY <1>2
  <2>2. pc' \in {"start", "collect", "returned"}
    BY <2>1 DEF Start, StartBlocked, StartOverBudget, StartItem, Launch, Return,
                CheckpointOrReturn
  <2> QED BY <2>2
<1>3. CASE \E o \in outcomes : Receive(o)
  <2>1. PICK o \in outcomes : Receive(o)
    BY <1>3
  <2>2. CASE ReceiveDone(o)
    BY <2>2 DEF ReceiveDone, CheckpointOrFail, BatchFails
  <2>3. CASE ~ReceiveDone(o)
    <3>1. pc' \in {"collect", "report"}
      BY <2>1, <2>3
         DEF Receive, Drain, ReceiveOverBudget, ReceiveError, ReceiveUnrecordable,
             ReceiveProposal, ReceiveRetry, ReceiveRejection, Received, BatchFails,
             CheckpointOrFail
    <3> QED BY <3>1
  <2> QED BY <2>2, <2>3
<1>4. CASE ReportExplorer \/ SkipRepairs \/ BatchEnd
  BY <1>4 DEF ReportExplorer, SkipRepairs, BatchEnd, CheckpointOrFail, BatchFails
<1>5. CASE WorkerStep \/ CtxEnds \/ UNCHANGED vars
  BY <1>5 DEF WorkerStep, WorkerFinish, CtxEnds, missionVars, controlVars, vars
<1> QED BY <1>1, <1>2, <1>3, <1>4, <1>5 DEF Next, RunStep

LEMMA StepStage ==
  OwnedInv /\ VerdictInv /\ StageInv /\ [Next]_vars => StageInv'
<1> SUFFICES ASSUME OwnedInv, VerdictInv, StageInv, [Next]_vars PROVE StageInv'
  OBVIOUS
<1>1. pc' = "begin" => \A i \in DOMAIN work' : work'[i].status = "queued"
  BY StagesOfRun DEF StageInv
<1>2. pc' = "skip" => /\ current' \in DOMAIN work'
                      /\ work'[current'].status = "completed"
                      /\ RoleOf[current'] = "reviewer"
  <2>1. CASE pc = "skip" /\ work' = work /\ current' = current
    BY <2>1 DEF StageInv
  <2>2. ASSUME NEW o \in outcomes, ReceiveDone(o)
        PROVE  o.item \in DOMAIN work' /\ work'[o.item].status = "completed"
    <3>1. o.item \in DOMAIN work /\ WorkGraph(work) /\ work' = CompleteWork(work, o.item)
      BY <2>2, ReceivedRuns DEF ReceiveDone, Completes, Accountable
    <3> QED BY <3>1, CompleteWorkFacts, CompleteWorkAt
  <2> QED BY <2>1, <2>2, StagesOfRun
<1>3. ASSUME NEW i \in DOMAIN work'
      PROVE  /\ work'[i].status # "interrupted"
             /\ work'[i].status \in {"failed", "cancelled"} => mstatus' = "failed"
  <2> DEFINE Settled == /\ work'[i].status # "interrupted"
                        /\ work'[i].status \in {"failed", "cancelled"} => mstatus' = "failed"
  <2>1. i \in DOMAIN work => /\ work[i].status # "interrupted"
                             /\ work[i].status \in {"failed", "cancelled"} => mstatus = "failed"
    BY DEF StageInv
  <2>2. CASE Keeps
    <3>1. CASE mstatus' = mstatus
      BY <1>3, <2>1, <2>2, <3>1 DEF Keeps, DepsKept, SameStatus
    <3>2. CASE mstatus # "failed"
      BY <1>3, <2>1, <2>2, <3>2 DEF Keeps, DepsKept, SameStatus
    <3> QED BY <2>2, <3>1, <3>2 DEF Keeps
  <2>3. CASE Fails \/ Skips
    BY <1>3, <2>1, <2>3 DEF Fails, Skips, DepsKept, SameStatus
  <2>4. ASSUME NEW s \in todo, Starts(s) PROVE Settled
    <3>1. mstatus # "failed"
      BY <2>4 DEF Starts, VerdictInv, FailedEnds, OwnedInv, LeaseInv, ErrorsEndBatches
    <3> QED BY <1>3, <2>1, <2>4, <3>1 DEF Starts, DepsKept, SameStatus
  <2>5. ASSUME NEW o \in outcomes, Completes(o) PROVE mstatus # "failed"
    BY <2>5, HandledWhileRunning DEF Completes, Accountable
  <2>6. ASSUME NEW o \in outcomes, Finishes(o) \/ Requeues(o) PROVE Settled
    BY <1>3, <2>1, <2>5, <2>6 DEF Finishes, Requeues, DepsKept, SameStatus
  <2>7. ASSUME NEW o \in outcomes, NEW p, Extends(o, p) PROVE Settled
    <3>1. mstatus # "failed"
      BY <2>5, <2>7 DEF Extends
    <3>2. CASE i \in DOMAIN p
      BY <2>7, <3>2 DEF Extends
    <3>3. CASE i \in DOMAIN work
      BY <2>1, <2>7, <3>1, <3>3 DEF Extends, SameStatus
    <3> QED BY <1>3, <2>7, <3>2, <3>3 DEF Extends
  <2> QED BY <2>2, <2>3, <2>4, <2>6, <2>7, StepKinds DEF StepKind
<1> QED BY <1>1, <1>2, <1>3 DEF StageInv

-----------------------------------------------------------------------------
\* The stages keep the dependencies of the topology; only the lead, while it is
\* queued, gets the substeps for dependencies.
GraphInv(l) ==
  /\ DOMAIN Topology \subseteq DOMAIN work
  /\ \A i \in DOMAIN Topology \ {l} : work[i].deps = Topology[i]
  /\ Topology[l] \subseteq work[l].deps
  /\ \A i \in DOMAIN work : work[i].deps \subseteq DOMAIN work
  /\ \A i \in DOMAIN work \ DOMAIN Topology :
        /\ RoleOf[i] \in ReadOnlyRoles
        /\ work[l].status = "queued" => i \in work[l].deps

LEMMA InitGraph == ASSUME NEW l, LeadShape(l), Init PROVE GraphInv(l)
<1>1. DOMAIN work = DOMAIN Topology
  BY DEF Init, InitialWork
<1>2. ASSUME NEW i \in DOMAIN work PROVE work[i].deps = Topology[i]
  <2>1. work[i] = NewWork(Topology[i])
    BY <1>1 DEF Init, InitialWork
  <2> QED BY <2>1 DEF NewWork
<1> QED BY <1>1, <1>2, TopologyAssumption DEF GraphInv, LeadShape

LEMMA StepGraph ==
  ASSUME NEW l, LeadShape(l), OwnedInv, VerdictInv, GraphInv(l), [Next]_vars
  PROVE  GraphInv(l)'
<1>1. l \in DOMAIN work /\ l \notin Writers /\ RoleOf[l] = "lead"
  BY LeadIsNoWriter DEF GraphInv, LeadShape
<1>2. ASSUME DepsKept, work'[l].status = "queued" => work[l].status = "queued"
      PROVE  GraphInv(l)'
  BY <1>1, <1>2 DEF GraphInv, DepsKept
<1>3. CASE Keeps \/ Fails \/ Skips
  BY <1>1, <1>2, <1>3 DEF Keeps, Fails, Skips, SameStatus
<1>4. ASSUME NEW i \in todo, Starts(i) PROVE GraphInv(l)'
  BY <1>1, <1>2, <1>4 DEF Starts, SameStatus
<1>5. ASSUME NEW o \in outcomes, Finishes(o) PROVE GraphInv(l)'
  BY <1>1, <1>2, <1>5 DEF Finishes, SameStatus
<1>6. ASSUME NEW o \in outcomes, Requeues(o) PROVE GraphInv(l)'
  BY <1>1, <1>2, <1>6 DEF Requeues, SameStatus
<1>7. ASSUME NEW o \in outcomes, NEW p, Extends(o, p) PROVE GraphInv(l)'
  <2>1. l # o.item /\ work'[l].status = work[l].status
    BY <1>1, <1>7 DEF Extends, SameStatus
  <2>2. \A i \in DOMAIN Topology \ {l} : work'[i].deps = Topology[i]
    <3> TAKE i \in DOMAIN Topology \ {l}
    <3>1. i \in DOMAIN work /\ RoleOf[i] # "lead" /\ work[i].deps = Topology[i]
      BY DEF GraphInv, LeadShape
    <3> QED BY <1>7, <3>1 DEF Extends
  <2>3. Topology[l] \subseteq work'[l].deps
    <3>1. Topology[l] \subseteq work[l].deps
      BY DEF GraphInv
    <3>2. work[l].deps \subseteq work'[l].deps
      BY <1>1, <1>7 DEF Extends
    <3> QED BY <3>1, <3>2
  <2>4. \A i \in DOMAIN work' : work'[i].deps \subseteq DOMAIN work'
    <3> TAKE i \in DOMAIN work'
    <3>1. CASE i \in DOMAIN p
      BY <1>7, <3>1 DEF Extends
    <3>2. CASE i \in DOMAIN work
      <4>1. work[i].deps \subseteq DOMAIN work
        BY <3>2 DEF GraphInv
      <4>2. work'[i].deps \subseteq work[i].deps \cup DOMAIN p
        BY <1>7, <3>2 DEF Extends
      <4> QED BY <1>7, <4>1, <4>2 DEF Extends
    <3> QED BY <1>7, <3>1, <3>2 DEF Extends
  <2>5. ASSUME NEW i \in DOMAIN work' \ DOMAIN Topology
        PROVE  /\ RoleOf[i] \in ReadOnlyRoles
               /\ work'[l].status = "queued" => i \in work'[l].deps
    <3>1. work'[l].status = "queued" => work'[l].deps = work[l].deps \cup DOMAIN p
      BY <1>1, <1>7, <2>1 DEF Extends
    <3>2. CASE i \in DOMAIN p
      BY <1>7, <3>1, <3>2 DEF Extends
    <3>3. CASE i \in DOMAIN work
      BY <2>1, <2>5, <3>1, <3>3 DEF GraphInv
    <3> QED BY <1>7, <2>5, <3>2, <3>3 DEF Extends
  <2>6. DOMAIN Topology \subseteq DOMAIN work'
    BY <1>7 DEF Extends, GraphInv
  <2> QED BY <2>2, <2>3, <2>4, <2>5, <2>6 DEF GraphInv
<1> QED BY <1>3, <1>4, <1>5, <1>6, <1>7, StepKinds DEF StepKind

-----------------------------------------------------------------------------
(* Nothing is done before what it depends on, unless a verifier that has     *)
(* still to speak for that dependency is waiting: this is what a failed      *)
(* verification leaves of the order of the graph.                            *)

Waiting(v) == IsVerifier(v) /\ work[v].status \notin {"running", "completed", "skipped"}

Settled(i) ==
  Done(work, i) \/ \E v \in DOMAIN work : Waiting(v) /\ i \in work[v].deps

Begun(j) == work[j].status \in {"running", "completed", "skipped"}

DepsInv == \A j \in DOMAIN work : Begun(j) => \A i \in work[j].deps : Settled(i)

LEMMA InitDeps == Init => DepsInv
<1> SUFFICES ASSUME Init, NEW j \in DOMAIN work PROVE ~Begun(j)
  BY DEF DepsInv
<1>1. work[j] = NewWork(Topology[j])
  BY DEF Init, InitialWork
<1> QED BY <1>1 DEF NewWork, Begun

\* A dependency stays settled when it stays done and the verifiers still wait.
LEMMA SettledKept ==
  ASSUME NEW i, Settled(i), Done(work, i) => Done(work', i),
         DOMAIN work \subseteq DOMAIN work',
         \A v \in DOMAIN work : Waiting(v) /\ i \in work[v].deps =>
            Waiting(v)' /\ work'[v].deps = work[v].deps
  PROVE  Settled(i)'
BY DEF Settled

LEMMA StepDeps ==
  ASSUME NEW l, LeadShape(l), OwnedInv, VerdictInv, StageInv, GraphInv(l), DepsInv,
         [Next]_vars
  PROVE  DepsInv'
<1> SUFFICES ASSUME NEW j \in DOMAIN work', Begun(j)', NEW i \in work'[j].deps
             PROVE  Settled(i)'
  BY DEF DepsInv
<1>1. ASSUME DepsKept, Begun(j)
      PROVE  j \in DOMAIN work /\ i \in work[j].deps /\ i \in DOMAIN work /\ Settled(i)
  BY <1>1 DEF DepsKept, GraphInv, DepsInv
<1>2. CASE Keeps
  <2>1. DepsKept /\ Begun(j)
    BY <1>2 DEF Keeps, DepsKept, SameStatus, Begun
  <2> QED BY <1>1, <1>2, <2>1, SettledKept DEF Keeps, DepsKept, SameStatus, Done, Waiting
<1>3. CASE Fails
  <2>1. DepsKept /\ Begun(j)
    BY <1>3 DEF Fails, DepsKept, SameStatus, Begun
  <2>2. Done(work, i) => Done(work', i)
    BY <1>1, <1>3, <2>1 DEF Fails, SameStatus, Done
  <2>3. \A v \in DOMAIN work : Waiting(v) => Waiting(v)' /\ work'[v].deps = work[v].deps
    BY <1>3 DEF Fails, DepsKept, SameStatus, Waiting
  <2> QED BY <1>1, <2>1, <2>2, <2>3, SettledKept DEF DepsKept
<1>4. ASSUME NEW s \in todo, Starts(s) PROVE Settled(i)'
  <2>1. /\ DepsKept /\ s \in DOMAIN work /\ ~Done(work, s)
        /\ \A d \in work[s].deps : d \in DOMAIN work /\ Done(work, d)
    BY <1>4, ReadyIsIdle DEF Starts, Ready
  <2>2. ASSUME NEW d \in DOMAIN work, Done(work, d) PROVE Done(work', d)
    BY <1>4, <2>1, <2>2 DEF Starts, SameStatus, Done
  <2>3. CASE i \in work[s].deps
    BY <2>1, <2>2, <2>3 DEF Settled
  <2>4. CASE i \notin work[s].deps
    <3>1. Begun(j)
      BY <1>4, <2>1, <2>4 DEF Starts, DepsKept, SameStatus, Begun
    <3>2. Settled(i) /\ i \in DOMAIN work
      BY <1>1, <2>1, <3>1
    <3>3. \A v \in DOMAIN work : Waiting(v) /\ i \in work[v].deps =>
            Waiting(v)' /\ work'[v].deps = work[v].deps
      BY <1>4, <2>4 DEF Starts, DepsKept, SameStatus, Waiting
    <3> QED BY <2>1, <2>2, <3>2, <3>3, SettledKept DEF DepsKept
  <2> QED BY <2>3, <2>4
\* What an outcome finds: its item runs.
<1>5. ASSUME NEW o \in outcomes, Completes(o)
      PROVE  o.item \in DOMAIN work /\ work[o.item].status = "running"
  BY <1>5, ReceivedRuns DEF Completes, Accountable, Running, WithStatus
<1>6. ASSUME NEW o \in outcomes, Finishes(o) PROVE Settled(i)'
  <2>1. DepsKept /\ o.item \in DOMAIN work /\ work[o.item].status = "running"
    BY <1>5, <1>6 DEF Finishes
  <2>2. Begun(j)
    BY <1>6, <2>1 DEF Finishes, DepsKept, SameStatus, Begun
  <2>3. Done(work, i) => Done(work', i)
    BY <1>1, <1>6, <2>1, <2>2 DEF Finishes, SameStatus, Done
  <2>4. \A v \in DOMAIN work : Waiting(v) => Waiting(v)' /\ work'[v].deps = work[v].deps
    BY <1>6, <2>1 DEF Finishes, DepsKept, SameStatus, Waiting
  <2> QED BY <1>1, <2>1, <2>2, <2>3, <2>4, SettledKept DEF DepsKept
<1>7. ASSUME NEW o \in outcomes, NEW p, Extends(o, p) PROVE Settled(i)'
  <2>1. o.item \in DOMAIN work /\ work[o.item].status = "running"
    BY <1>5, <1>7 DEF Extends
  <2>2. j \in DOMAIN work /\ Begun(j)
    BY <1>7, <2>1 DEF Extends, SameStatus, Begun
  <2>3. work'[j].deps = work[j].deps
    BY <1>7, <2>2 DEF Extends, Begun
  <2>4. Settled(i) /\ i \in DOMAIN work
    BY <2>2, <2>3 DEF DepsInv, GraphInv
  <2>5. Done(work, i) => Done(work', i)
    BY <1>7, <2>1, <2>4 DEF Extends, SameStatus, Done
  <2>6. \A v \in DOMAIN work : Waiting(v) => Waiting(v)' /\ work'[v].deps = work[v].deps
    BY <1>7, <2>1 DEF Extends, SameStatus, Waiting, IsVerifier
  <2> QED BY <1>7, <2>4, <2>5, <2>6, SettledKept DEF Extends
\* The verifier that failed waits for the writers it sends back.
<1>8. ASSUME NEW o \in outcomes, Requeues(o) PROVE Settled(i)'
  <2> DEFINE v == o.item
  <2>1. DepsKept /\ v \in DOMAIN work /\ work[v].status = "running"
    BY <1>5, <1>8 DEF Requeues
  <2>2. Waiting(v)'
    BY <1>8 DEF Requeues, Waiting, IsVerifier
  <2>3. Begun(j)
    BY <1>8, <2>1 DEF Requeues, DepsKept, SameStatus, Begun
  <2>4. i \in DOMAIN work /\ Settled(i)
    BY <1>1, <2>1, <2>3
  <2>5. CASE Done(work, i) /\ ~Done(work', i)
    <3>1. i \in work[v].deps
      BY <1>8, <2>1, <2>4, <2>5 DEF Requeues, SameStatus, Done
    <3> QED BY <2>1, <2>2, <3>1 DEF DepsKept, Settled
  <2>6. CASE Done(work, i) => Done(work', i)
    <3>1. ASSUME NEW u \in DOMAIN work, Waiting(u)
          PROVE  Waiting(u)' /\ work'[u].deps = work[u].deps
      <4>1. u # v /\ u \notin Writers
        BY <2>1, <3>1, RoleAssumption DEF Waiting, IsVerifier
      <4> QED BY <1>8, <2>1, <3>1, <4>1 DEF Requeues, DepsKept, SameStatus, Waiting
    <3> QED BY <2>1, <2>4, <2>6, <3>1, SettledKept DEF DepsKept
  <2> QED BY <2>5, <2>6
\* A skipped repair waits for nothing but the review that has just ended.
<1>9. CASE Skips
  <2>1. /\ DepsKept /\ current \in DOMAIN work /\ work[current].status = "completed"
        /\ RoleOf[current] = "reviewer"
    BY <1>9 DEF Skips, StageInv
  <2>2. ASSUME NEW d \in DOMAIN work, Done(work, d) PROVE Done(work', d)
    BY <1>9, <2>2 DEF Skips, SameStatus, Done
  <2>3. ASSUME NEW v \in DOMAIN work, Waiting(v)
        PROVE  Waiting(v)' /\ work'[v].deps = work[v].deps
    <3>1. v \notin Writers
      BY <2>3, RoleAssumption DEF Waiting, IsVerifier
    <3> QED BY <1>9, <2>3, <3>1 DEF Skips, DepsKept, SameStatus, Waiting
  <2>4. CASE Begun(j)
    <3>1. i \in DOMAIN work /\ Settled(i)
      BY <1>1, <2>1, <2>4
    <3> QED BY <2>1, <2>2, <2>3, <3>1, SettledKept DEF DepsKept
  <2>5. CASE ~Begun(j)
    <3>1. /\ j \in DOMAIN work /\ j \in Writers /\ current \in work[j].deps
          /\ work[current].deps \cap Writers # {} /\ i \in work[j].deps
      BY <1>9, <2>1, <2>5 DEF Skips, DepsKept, SameStatus, Begun
    <3>2. RoleOf[j] \notin ReadOnlyRoles /\ j # l /\ current # l
      BY <2>1, <3>1, LeadIsNoWriter, RoleAssumption DEF ReadOnlyRoles
    <3>3. j \in DOMAIN Topology /\ work[j].deps = Topology[j]
      BY <3>1, <3>2 DEF GraphInv
    <3>4. current \in DOMAIN Topology
      BY <3>1, <3>3, TopologyAssumption
    <3>5. work[current].deps = Topology[current]
      BY <3>2, <3>4 DEF GraphInv
    <3>6. i = current
      BY <2>1, <3>1, <3>3, <3>4, <3>5 DEF LeadShape
    <3> QED BY <2>1, <2>2, <3>6 DEF Settled, Done
  <2> QED BY <2>4, <2>5
<1> QED BY <1>2, <1>3, <1>4, <1>6, <1>7, <1>8, <1>9, StepKinds DEF StepKind

\* When every verifier is done, so is every stage but the lead.
LEMMA VerifiersComeLast ==
  ASSUME NEW l, LeadShape(l), GraphInv(l), DepsInv,
         \A v \in DOMAIN work : IsVerifier(v) => Done(work, v)
  PROVE  \A i \in DOMAIN Topology \ {l} : Done(work, i)
<1> DEFINE C == {i \in DOMAIN Topology \ {l} : ~Done(work, i)}
<1> SUFFICES ASSUME C # {} PROVE FALSE
  OBVIOUS
<1>1. C \in SUBSET (DOMAIN Topology \ {l})
  OBVIOUS
<1>2. PICK i \in C, j \in DOMAIN Topology \ C : i \in Topology[j]
  BY <1>1 DEF LeadShape
<1>3. i \in DOMAIN work /\ ~Done(work, i)
  BY <1>2 DEF GraphInv
<1>4. CASE j = l
  BY <1>2, <1>3, <1>4 DEF LeadShape
<1>5. CASE j # l
  <2>1. j \in DOMAIN work /\ Done(work, j) /\ work[j].deps = Topology[j]
    BY <1>2, <1>5 DEF GraphInv
  <2>2. Settled(i)
    BY <1>2, <2>1 DEF DepsInv, Begun, Done
  <2> QED BY <1>3, <2>2 DEF Settled, Waiting, Done
<1> QED BY <1>4, <1>5

-----------------------------------------------------------------------------
\* The handoff of a writer never ends the story: some verifier has still to
\* speak, or has spoken since.
Spoken(k) ==
  \E v \in DOMAIN work :
     IsVerifier(v) /\ (~Done(work, v) \/ \E j \in k+1..Len(handoffs) : handoffs[j].item = v)

Covered(k) ==
  /\ handoffs[k].item \in DOMAIN work
  /\ ~IsVerifier(handoffs[k].item) => handoffs[k].checks = "none"
  /\ handoffs[k].item \in Writers => Spoken(k)

CoverInv == \A k \in 1..Len(handoffs) : Covered(k)

\* Without a handoff, and without a verifier that becomes done.
LEMMA CoverKept ==
  ASSUME CoverInv, DepsKept, handoffs' = handoffs,
         \A v \in DOMAIN work : IsVerifier(v) /\ Done(work', v) => Done(work, v)
  PROVE  CoverInv'
<1> SUFFICES ASSUME NEW k \in 1..Len(handoffs) PROVE Covered(k)'
  BY DEF CoverInv
<1>1. Covered(k)
  BY DEF CoverInv
<1>2. Spoken(k) => Spoken(k)'
  BY DEF Spoken, DepsKept
<1> QED BY <1>1, <1>2 DEF Covered, DepsKept

\* With the handoff of  o , which alone may become done.
LEMMA CoverExtended ==
  ASSUME OwnedInv, CoverInv, NEW o, Completes(o), DOMAIN work \subseteq DOMAIN work',
         \A v \in DOMAIN work \ {o.item} : IsVerifier(v) /\ Done(work', v) => Done(work, v),
         o.item \in Writers => \E v \in DOMAIN work : IsVerifier(v) /\ ~Done(work', v)
  PROVE  CoverInv'
<1>1. /\ Len(handoffs) \in Nat /\ Len(handoffs') = Len(handoffs) + 1
      /\ handoffs'[Len(handoffs) + 1] = HandoffOf(o) /\ HandoffOf(o).item = o.item
      /\ \A k \in 1..Len(handoffs) : handoffs'[k] = handoffs[k]
  BY HandoffAppended
<1>2. o.item \in DOMAIN work /\ o \in Results(o.item)
  BY ReceivedRuns DEF Completes, Accountable
<1> SUFFICES ASSUME NEW k \in 1..Len(handoffs') PROVE Covered(k)'
  BY DEF CoverInv
<1>3. CASE k \in 1..Len(handoffs)
  <2>1. Covered(k) /\ handoffs'[k] = handoffs[k]
    BY <1>1, <1>3 DEF CoverInv
  <2>2. ASSUME Spoken(k) PROVE Spoken(k)'
    <3>1. PICK v \in DOMAIN work :
            /\ IsVerifier(v)
            /\ ~Done(work, v) \/ \E j \in k+1..Len(handoffs) : handoffs[j].item = v
      BY <2>2 DEF Spoken
    <3>2. CASE \E j \in k+1..Len(handoffs) : handoffs[j].item = v
      <4>1. PICK j \in k+1..Len(handoffs) : handoffs[j].item = v
        BY <3>2
      <4>2. j \in 1..Len(handoffs) /\ j \in k+1..Len(handoffs')
        BY <1>1, <1>3
      <4>3. handoffs'[j].item = v
        BY <1>1, <4>1, <4>2
      <4> QED BY <3>1, <4>2, <4>3 DEF Spoken
    <3>3. CASE v = o.item
      <4>1. Len(handoffs') \in k+1..Len(handoffs') /\ handoffs'[Len(handoffs')].item = v
        BY <1>1, <1>3, <3>3
      <4> QED BY <3>1, <4>1 DEF Spoken
    <3>4. CASE v # o.item /\ ~Done(work, v)
      <4>1. v \in DOMAIN work' /\ ~Done(work', v)
        BY <3>1, <3>4
      <4> QED BY <3>1, <4>1 DEF Spoken
    <3> QED BY <3>1, <3>2, <3>3, <3>4
  <2> QED BY <2>1, <2>2 DEF Covered
<1>4. CASE k = Len(handoffs) + 1
  <2>1. handoffs'[k].item = o.item /\ handoffs'[k].checks = o.checks
    BY <1>1, <1>4 DEF HandoffOf
  <2>2. ~IsVerifier(o.item) => o.checks = "none"
    BY <1>2 DEF Results, IsVerifier
  <2>3. o.item \in Writers => Spoken(k)'
    BY DEF Spoken
  <2> QED BY <1>2, <2>1, <2>2, <2>3 DEF Covered
<1> QED BY <1>1, <1>3, <1>4

LEMMA StepCover ==
  ASSUME NEW l, LeadShape(l), OwnedInv, VerdictInv, GraphInv(l), DepsInv, CoverInv,
         [Next]_vars
  PROVE  CoverInv'
<1>1. \A v \in DOMAIN work : IsVerifier(v) => v \notin Writers
  BY RoleAssumption DEF IsVerifier
<1>2. CASE Keeps
  BY <1>2, CoverKept DEF Keeps, SameStatus, Done
<1>3. CASE Fails
  BY <1>3, CoverKept DEF Fails, SameStatus, Done
<1>4. CASE Skips
  BY <1>1, <1>4, CoverKept DEF Skips, SameStatus, Done
<1>5. ASSUME NEW s \in todo, Starts(s) PROVE CoverInv'
  <2>1. \A v \in DOMAIN work : Done(work', v) => Done(work, v)
    BY <1>5 DEF Starts, SameStatus, Done
  <2> QED BY <1>5, <2>1, CoverKept DEF Starts
<1>6. ASSUME NEW o \in outcomes, Completes(o)
      PROVE  o.item \in DOMAIN work /\ ~Done(work, o.item)
  BY <1>6, ReceivedRuns DEF Completes, Accountable
<1>7. ASSUME NEW o \in outcomes, Finishes(o) PROVE CoverInv'
  <2>1. \A v \in DOMAIN work \ {o.item} : Done(work', v) => Done(work, v)
    BY <1>7 DEF Finishes, SameStatus, Done
  <2>2. Completes(o) /\ o.item \in DOMAIN work /\ ~Done(work, o.item) /\ DepsKept
    BY <1>6, <1>7 DEF Finishes
  <2>3. o.item \in Writers => \E v \in DOMAIN work : IsVerifier(v) /\ ~Done(work', v)
    <3> SUFFICES ASSUME o.item \in Writers
                 PROVE  \E v \in DOMAIN work : IsVerifier(v) /\ ~Done(work', v)
      OBVIOUS
    <3>1. o.item \in DOMAIN Topology \ {l}
      BY <2>2, LeadIsNoWriter, RoleAssumption DEF GraphInv, ReadOnlyRoles
    <3>2. PICK v \in DOMAIN work : IsVerifier(v) /\ ~Done(work, v)
      BY <2>2, <3>1, VerifiersComeLast
    <3>3. v # o.item
      BY <1>1, <3>2
    <3> QED BY <2>1, <3>2, <3>3
  <2> QED BY <2>1, <2>2, <2>3, CoverExtended DEF DepsKept
<1>8. ASSUME NEW o \in outcomes, Requeues(o) PROVE CoverInv'
  <2>1. \A v \in DOMAIN work \ {o.item} : Done(work', v) => Done(work, v)
    BY <1>8 DEF Requeues, SameStatus, Done
  <2>2. Completes(o) /\ DepsKept /\ o.item \notin Writers
    BY <1>6, <1>8, RoleAssumption DEF Requeues
  <2> QED BY <2>1, <2>2, CoverExtended DEF DepsKept
<1>9. ASSUME NEW o \in outcomes, NEW p, Extends(o, p) PROVE CoverInv'
  <2>1. \A v \in DOMAIN work \ {o.item} : Done(work', v) => Done(work, v)
    BY <1>9 DEF Extends, SameStatus, Done
  <2>2. Completes(o) /\ DOMAIN work \subseteq DOMAIN work' /\ o.item \notin Writers
    BY <1>6, <1>9, RoleAssumption DEF Extends
  <2> QED BY <2>1, <2>2, CoverExtended
<1> QED BY <1>2, <1>3, <1>4, <1>5, <1>7, <1>8, <1>9, StepKinds DEF StepKind

-----------------------------------------------------------------------------
\* Some verification passed and nothing since has put it in doubt.
Verified ==
  \E k \in 1..Len(handoffs) :
     /\ IsVerifier(handoffs[k].item) /\ Passing(handoffs[k])
     /\ \A j \in k+1..Len(handoffs) :
          handoffs[j].item \notin Writers /\ handoffs[j].checks # "fail"

\* The lead works, or has worked, on the finished work of all the others.
LeadInv(l) ==
  /\ work[l].status # "skipped"
  /\ work[l].status = "completed" => mstatus # "running"
  /\ work[l].status \in {"running", "completed"} =>
       Verified /\ \A i \in DOMAIN work \ {l} : Done(work, i)

\* What the coordinator checks when it starts the lead (verificationPassed)
\* looks at the last handoff with a verdict; that no other verifier's verdict
\* and no writer comes after it follows from the invariants.
LEMMA LeadStartsVerified ==
  ASSUME NEW l, LeadShape(l), OwnedInv, VerdictInv, StageInv, GraphInv(l), DepsInv,
         CoverInv, Starts(l)
  PROVE  Verified /\ \A i \in DOMAIN work \ {l} : Done(work, i)
<1>1. /\ l \in DOMAIN work /\ work[l].status = "queued"
      /\ \A d \in work[l].deps : Done(work, d)
  BY ReadyIsIdle DEF Starts, StageInv, Ready
<1>2. \A i \in DOMAIN work \ DOMAIN Topology : Done(work, i)
  BY <1>1 DEF GraphInv
<1>3. \A v \in DOMAIN work : IsVerifier(v) => Done(work, v)
  BY <1>1, <1>2 DEF GraphInv, LeadShape
<1>4. \A i \in DOMAIN work \ {l} : Done(work, i)
  BY <1>2, <1>3, VerifiersComeLast
<1>5. mstatus # "failed"
  BY DEF Starts, VerdictInv, FailedEnds, OwnedInv, LeaseInv, ErrorsEndBatches
<1>6. \A v \in DOMAIN work : IsVerifier(v) => LastWordPasses(v)
  BY <1>3, <1>5 DEF VerdictInv, VerdictsStand, Stands, Done, IsVerifier
<1>7. /\ handoffs \in Seq(Handoff) /\ Len(handoffs) \in Nat
      /\ \A k \in 1..Len(handoffs) : handoffs[k] \in Handoff
  BY ElementOfSeq, LenProperties DEF OwnedInv, LeaseInv, TypeOK
<1>8. VerificationPassed(work, handoffs)
  BY LeadIsNoWriter DEF Starts, LeadBlocked
<1>9. PICK k \in Evidence(work, handoffs) :
        /\ \A j \in Evidence(work, handoffs) : j <= k
        /\ HandoffPassed(work, handoffs[k])
  BY <1>8 DEF VerificationPassed
<1>10. k \in 1..Len(handoffs) /\ IsVerifier(handoffs[k].item) /\ Passing(handoffs[k])
  BY <1>7, <1>9, PassedIsPassing DEF Evidence, IsVerifier
<1>11. ASSUME NEW j \in k+1..Len(handoffs)
       PROVE  handoffs[j].item \notin Writers /\ handoffs[j].checks # "fail"
  <2>1. j \in 1..Len(handoffs) /\ j > k
    BY <1>7, <1>10
  <2>2. j \notin Evidence(work, handoffs)
    BY <1>9, <1>10, <2>1 DEF Evidence
  <2>3. Covered(j)
    BY <2>1 DEF CoverInv
  <2>4. handoffs[j].checks # "fail"
    BY <2>1, <2>2, <2>3 DEF Covered, Evidence, IsVerifier
  <2>5. ASSUME handoffs[j].item \in Writers PROVE FALSE
    <3>1. HasMutation(work) /\ Spoken(j)
      BY <2>3, <2>5 DEF Covered, HasMutation
    <3>2. PICK v \in DOMAIN work : IsVerifier(v) /\
                 \E m \in j+1..Len(handoffs) : handoffs[m].item = v
      BY <1>3, <3>1 DEF Spoken
    <3>3. PICK m \in j+1..Len(handoffs) : handoffs[m].item = v
      BY <3>2
    <3>4. PICK n \in 1..Len(handoffs) :
            /\ handoffs[n].item = v /\ Passing(handoffs[n])
            /\ \A q \in n+1..Len(handoffs) : handoffs[q].item # v
      BY <1>6, <3>2 DEF LastWordPasses
    <3>5. n > k
      <4>1. m \in Nat /\ n \in Nat /\ j \in Nat /\ k \in Nat /\ m > j /\ m <= Len(handoffs)
        BY <1>7, <1>10, <2>1, <3>3, <3>4
      <4>2. ~(m > n)
        BY <1>7, <3>3, <3>4, <4>1
      <4> QED BY <2>1, <4>1, <4>2
    <3>6. handoffs[n].checks = "pass"
      BY <3>1, <3>4 DEF Passing, HasMutation
    <3>7. n \in Evidence(work, handoffs)
      BY <3>2, <3>4, <3>6 DEF Evidence, IsVerifier
    <3> QED BY <1>7, <1>9, <1>10, <3>5, <3>7
  <2> QED BY <2>4, <2>5
<1>12. Verified
  BY <1>10, <1>11 DEF Verified
<1> QED BY <1>4, <1>12

\* A verification stays good while nobody, or only the lead, hands off.
LEMMA VerifiedKept ==
  ASSUME Verified, handoffs' = handoffs, DOMAIN work' = DOMAIN work PROVE Verified'
BY DEF Verified, Passing

LEMMA VerifiedExtended ==
  ASSUME OwnedInv, Verified, DOMAIN work' = DOMAIN work, NEW o, Completes(o),
         ~IsVerifier(o.item), o.item \notin Writers
  PROVE  Verified'
<1>1. /\ Len(handoffs) \in Nat /\ Len(handoffs') = Len(handoffs) + 1
      /\ handoffs'[Len(handoffs) + 1] = HandoffOf(o)
      /\ \A j \in 1..Len(handoffs) : handoffs'[j] = handoffs[j]
  BY HandoffAppended
<1>2. HandoffOf(o).item = o.item /\ HandoffOf(o).checks = "none"
  BY ReceivedRuns DEF Completes, Accountable, HandoffOf, Results, IsVerifier
<1>3. PICK k \in 1..Len(handoffs) :
        /\ IsVerifier(handoffs[k].item) /\ Passing(handoffs[k])
        /\ \A j \in k+1..Len(handoffs) :
             handoffs[j].item \notin Writers /\ handoffs[j].checks # "fail"
  BY DEF Verified
<1>4. k \in 1..Len(handoffs') /\ handoffs'[k] = handoffs[k]
  BY <1>1
<1>5. Passing(handoffs[k])'
  BY <1>3, <1>4 DEF Passing
<1>6. ASSUME NEW j \in k+1..Len(handoffs')
      PROVE  handoffs'[j].item \notin Writers /\ handoffs'[j].checks # "fail"
  <2>1. j = Len(handoffs) + 1 \/ (j \in k+1..Len(handoffs) /\ j \in 1..Len(handoffs))
    BY <1>1
  <2> QED BY <1>1, <1>2, <1>3, <2>1
<1> QED BY <1>3, <1>4, <1>5, <1>6 DEF Verified

LEMMA InitLead == ASSUME NEW l, LeadShape(l), Init PROVE LeadInv(l)
<1>1. work[l] = NewWork(Topology[l])
  BY DEF Init, InitialWork, LeadShape
<1> QED BY <1>1 DEF NewWork, LeadInv

LEMMA StepLead ==
  ASSUME NEW l, LeadShape(l), OwnedInv, VerdictInv, StageInv, GraphInv(l), DepsInv,
         CoverInv, LeadInv(l), [Next]_vars
  PROVE  LeadInv(l)'
<1>1. l \in DOMAIN work /\ l \notin Writers /\ RoleOf[l] = "lead" /\ ~IsVerifier(l)
  BY LeadIsNoWriter DEF GraphInv, LeadShape
<1> DEFINE AtWork == work[l].status \in {"running", "completed"}
           AllOthers == \A i \in DOMAIN work \ {l} : Done(work, i)
\* Without a handoff, and with the lead as it was or out of work.
<1>2. ASSUME DepsKept, handoffs' = handoffs,
             SameStatus(l) \/ work'[l].status \in {"failed", "cancelled"},
             mstatus' = "running" => mstatus = "running" \/ ~AtWork,
             AtWork => \A i \in DOMAIN work : Done(work, i) => Done(work', i)
      PROVE  LeadInv(l)'
  <2>1. AtWork' => AtWork
    BY <1>2 DEF SameStatus
  <2>2. AtWork => Verified' /\ AllOthers'
    BY <1>2, VerifiedKept DEF LeadInv, DepsKept
  <2>3. work'[l].status = "completed" => work[l].status = "completed"
    BY <1>2 DEF SameStatus
  <2> QED BY <1>2, <2>1, <2>2, <2>3 DEF LeadInv, SameStatus
<1>3. CASE Keeps
  <2>1. mstatus' = "running" => mstatus = "running" \/ ~AtWork
    BY <1>1, <1>3 DEF Keeps, StageInv
  <2>2. \A i \in DOMAIN work : Done(work, i) => Done(work', i)
    BY <1>3 DEF Keeps, SameStatus, Done
  <2> QED BY <1>1, <1>2, <1>3, <2>1, <2>2 DEF Keeps
<1>4. CASE Fails
  <2>1. \A i \in DOMAIN work : Done(work, i) => Done(work', i)
    BY <1>4 DEF Fails, SameStatus, Done
  <2> QED BY <1>1, <1>2, <1>4, <2>1 DEF Fails
<1>5. CASE Skips
  <2>1. \A i \in DOMAIN work : Done(work, i) => Done(work', i)
    BY <1>5 DEF Skips, SameStatus, Done
  <2> QED BY <1>1, <1>2, <1>5, <2>1 DEF Skips
\* While the lead is at work no other item is.
<1>6. ASSUME AtWork, NEW i \in DOMAIN work, ~Done(work, i) PROVE i = l
  BY <1>6 DEF LeadInv
<1>7. ASSUME NEW s \in todo, Starts(s) PROVE LeadInv(l)'
  <2>1. DepsKept /\ s \in DOMAIN work /\ ~Done(work, s) /\ s \notin Running(work)
    BY <1>7, ReadyIsIdle DEF Starts
  <2>2. CASE s = l
    <3>1. Verified /\ AllOthers
      BY <1>7, <2>2, LeadStartsVerified
    <3>2. Verified'
      BY <1>7, <2>1, <3>1, VerifiedKept DEF Starts, DepsKept
    <3>3. AllOthers'
      BY <1>7, <2>1, <2>2, <3>1 DEF Starts, DepsKept, SameStatus, Done
    <3>4. work'[l].status = "running"
      BY <1>7, <2>2 DEF Starts
    <3> QED BY <3>2, <3>3, <3>4 DEF LeadInv
  <2>3. CASE s # l
    <3>1. ~AtWork /\ SameStatus(l)
      BY <1>1, <1>6, <1>7, <2>1, <2>3 DEF Starts
    <3> QED BY <1>2, <1>7, <2>1, <3>1 DEF Starts
  <2> QED BY <2>2, <2>3
<1>8. ASSUME NEW o \in outcomes, Completes(o)
      PROVE  /\ o.item \in DOMAIN work /\ ~Done(work, o.item)
             /\ work[o.item].status = "running"
  BY <1>8, ReceivedRuns DEF Completes, Accountable, Running, WithStatus
\* The outcome of another item leaves the lead where it was: not at work.
<1>9. ASSUME NEW o \in outcomes, Completes(o), o.item # l,
             SameStatus(l) \/ work'[l].status = "cancelled"
      PROVE  LeadInv(l)'
  <2>1. ~AtWork
    BY <1>6, <1>8, <1>9
  <2>2. work'[l].status \notin {"skipped", "running", "completed"}
    BY <1>9, <2>1 DEF SameStatus, LeadInv
  <2> QED BY <2>2 DEF LeadInv
<1>10. ASSUME NEW o \in outcomes, Finishes(o) PROVE LeadInv(l)'
  <2>1. Completes(o) /\ DepsKept
    BY <1>10 DEF Finishes
  <2>2. CASE o.item # l
    BY <1>1, <1>9, <1>10, <2>1, <2>2 DEF Finishes
  <2>3. CASE o.item = l
    <3>1. Verified /\ AllOthers
      BY <1>8, <2>1, <2>3 DEF LeadInv
    <3>2. Verified'
      BY <1>1, <2>1, <2>3, <3>1, VerifiedExtended DEF DepsKept
    <3>3. AllOthers'
      BY <1>10, <2>1, <2>3, <3>1 DEF Finishes, DepsKept, SameStatus, Done
    <3>4. work'[l].status = "completed"
      BY <1>10, <2>3 DEF Finishes
    <3>5. AllCompleted(work')
      BY <3>3, <3>4 DEF AllCompleted, Done
    <3>6. mstatus' # "running"
      BY <1>10, <3>5 DEF Finishes, StatusAfter
    <3> QED BY <3>2, <3>3, <3>4, <3>6 DEF LeadInv
  <2> QED BY <2>2, <2>3
<1>11. ASSUME NEW o \in outcomes, Requeues(o) PROVE LeadInv(l)'
  <2>1. o.item # l /\ SameStatus(l)
    BY <1>1, <1>11 DEF Requeues
  <2> QED BY <1>9, <1>11, <2>1 DEF Requeues
<1>12. ASSUME NEW o \in outcomes, NEW p, Extends(o, p) PROVE LeadInv(l)'
  <2>1. o.item # l /\ SameStatus(l)
    BY <1>1, <1>12 DEF Extends
  <2> QED BY <1>9, <1>12, <2>1 DEF Extends
<1> QED BY <1>3, <1>4, <1>5, <1>7, <1>10, <1>11, <1>12, StepKinds DEF StepKind

-----------------------------------------------------------------------------
\* The inductive invariant of a mission with a lead.
MissionInv(l) ==
  /\ OwnedInv /\ VerdictInv /\ StageInv
  /\ GraphInv(l) /\ DepsInv /\ CoverInv /\ LeadInv(l)

LEMMA AlwaysMission == ASSUME NEW l, LeadShape(l) PROVE Spec => []MissionInv(l)
<1>1. Init => CoverInv
  <2>1. Init => Len(handoffs) = 0
    BY EmptySeq DEF Init
  <2> QED BY <2>1 DEF CoverInv
<1>2. Init => MissionInv(l)
  BY <1>1, InitOwned, InitVerdict, InitStage, InitGraph, InitDeps, InitLead DEF MissionInv
<1>3. MissionInv(l) /\ [Next]_vars => MissionInv(l)'
  BY StepOwned, StepVerdict, StepStage, StepGraph, StepDeps, StepCover, StepLead
     DEF MissionInv
<1> QED BY <1>2, <1>3, PTL DEF Spec

LEMMA LeadIsVerified ==
  ASSUME NEW l, LeadShape(l), MissionInv(l) PROVE LeadOnVerifiedWork
<1> SUFFICES ASSUME NEW m \in WithStatus(work, {"running", "completed"}),
                    RoleOf[m] = "lead"
             PROVE  Verified
  BY DEF LeadOnVerifiedWork, Verified, IsVerifier
<1>1. m \in DOMAIN work /\ work[m].status \in {"running", "completed"}
  BY DEF WithStatus
<1>2. m = l
  BY <1>1 DEF MissionInv, GraphInv, LeadShape, ReadOnlyRoles
<1> QED BY <1>1, <1>2 DEF MissionInv, LeadInv

\* Whatever the verifiers, the repairs and the substeps do, the lead of a mission
\* never works, and has never finished, on work that some verification does not
\* stand behind: a pass after which no writer handed off and no check failed
\* (runBatch, verificationPassed, RequeueAfterVerification).
THEOREM LeadWaitsForAPass ==
  ASSUME NEW l, LeadShape(l) PROVE Spec => []LeadOnVerifiedWork
<1>1. MissionInv(l) => LeadOnVerifiedWork
  BY LeadIsVerified
<1> QED BY <1>1, AlwaysMission, PTL

LEMMA SomethingIsReady ==
  ASSUME NEW l, LeadShape(l), MissionInv(l), pc = "loop", mstatus = "running",
         AcyclicWork
  PROVE  Ready(work) # {}
<1> DEFINE C == {i \in DOMAIN work : ~Done(work, i)}
           deps == [i \in DOMAIN work |-> work[i].deps]
<1>1. l \in C
  BY DEF MissionInv, GraphInv, LeadInv, LeadShape, Done
<1>2. C \in (SUBSET DOMAIN deps) \ {{}}
  <2>1. C # {}
    BY <1>1
  <2>2. C \in SUBSET DOMAIN deps
    OBVIOUS
  <2> QED BY <2>1, <2>2
<1>3. PICK i \in C : deps[i] \cap C = {}
  BY <1>2 DEF AcyclicWork, AcyclicGraph
<1>4. \A d \in work[i].deps : d \in DOMAIN work /\ Done(work, d)
  BY <1>3 DEF MissionInv, GraphInv
<1>5. work[i].status \in WorkStatus
  BY <1>3, WorkTyped DEF MissionInv, OwnedInv, LeaseInv, WorkGraph, WorkItem
<1>6. work[i].status # "running"
  BY <1>3 DEF MissionInv, OwnedInv, LeaseInv, RunningOwned, Running, WithStatus
<1>7. work[i].status \in {"queued", "interrupted"}
  BY <1>3, <1>5, <1>6 DEF MissionInv, StageInv, WorkStatus, MissionStatus, Done
<1> QED BY <1>3, <1>4, <1>7 DEF Ready, WithStatus

\* A mission with a lead that has not ended always has an item to start, unless
\* its substeps closed a cycle (Mission.Ready, SkipRepairsAfterReview).
THEOREM MissionsGoOn ==
  ASSUME NEW l, LeadShape(l) PROVE Spec => []NeverStuck
<1>1. MissionInv(l) => NeverStuck
  BY SomethingIsReady DEF NeverStuck
<1> QED BY <1>1, AlwaysMission, PTL

-----------------------------------------------------------------------------
(* Cycles.  ValidateSubstepProposal looks for a cycle among the substeps of  *)
(* one proposal only; a substep may wait for a queued lead, which then waits *)
(* for it.  As long as nobody waits for a lead the whole graph stays acyclic. *)

LeadsAreLast ==
  /\ \A i \in DOMAIN Topology : \A d \in Topology[i] : RoleOf[d] # "lead"
  /\ \A p \in Proposals : \A i \in DOMAIN p : \A d \in p[i] : RoleOf[d] # "lead"

\* The two topologies of coordinator.go are acyclic.
LEMMA MissionsAreAcyclic ==
  ASSUME Topology \in {MutationTopology, ReadOnlyTopology} PROVE AcyclicGraph(Topology)
<1> SUFFICES ASSUME NEW C \in (SUBSET DOMAIN Topology) \ {{}}
             PROVE  \E i \in C : Topology[i] \cap C = {}
  BY DEF AcyclicGraph
<1> C \in SUBSET DOMAIN Topology /\ C # {}
  OBVIOUS
<1>1. CASE Topology = MutationTopology
  <2>1. DOMAIN Topology
          = {"explore", "preflight", "build", "review", "repair", "verify", "lead"}
    BY <1>1 DEF MutationTopology
  <2>2. /\ Topology["build"] = {"explore", "preflight"} /\ Topology["review"] = {"build"}
        /\ Topology["repair"] = {"review"} /\ Topology["verify"] = {"repair"}
        /\ Topology["lead"] = {"verify"} /\ Topology["explore"] = {}
        /\ Topology["preflight"] = {}
    BY <1>1 DEF MutationTopology
  <2>3. CASE C \cap {"explore", "preflight"} # {}
    BY <2>2, <2>3
  <2>4. CASE C \cap {"explore", "preflight"} = {} /\ C \cap {"build", "review", "repair"} # {}
    BY <2>2, <2>4
  <2>5. CASE C \subseteq {"verify", "lead"}
    BY <2>2, <2>5
  <2> QED BY <2>1, <2>3, <2>4, <2>5
<1>2. CASE Topology = ReadOnlyTopology
  <2>1. DOMAIN Topology = {"explore", "review", "verify", "lead"}
    BY <1>2 DEF ReadOnlyTopology
  <2>2. /\ Topology["explore"] = {} /\ Topology["review"] = {}
        /\ Topology["verify"] = {"explore", "review"} /\ Topology["lead"] = {"verify"}
    BY <1>2 DEF ReadOnlyTopology
  <2> QED BY <2>1, <2>2
<1> QED BY <1>1, <1>2

CycleInv ==
  /\ AcyclicWork
  /\ \A i \in DOMAIN work : \A d \in work[i].deps : d \in DOMAIN work /\ RoleOf[d] # "lead"

LEMMA InitCycle ==
  ASSUME AcyclicGraph(Topology), LeadsAreLast, Init PROVE CycleInv
<1>1. DOMAIN work = DOMAIN Topology
  BY DEF Init, InitialWork
<1>2. ASSUME NEW i \in DOMAIN work PROVE work[i].deps = Topology[i]
  <2>1. work[i] = NewWork(Topology[i])
    BY <1>1 DEF Init, InitialWork
  <2> QED BY <2>1 DEF NewWork
<1>3. AcyclicWork
  BY <1>1, <1>2 DEF AcyclicWork, AcyclicGraph
<1> QED BY <1>1, <1>2, <1>3, TopologyAssumption DEF CycleInv, LeadsAreLast

\* New items that wait for no lead keep a graph acyclic, if they are acyclic among
\* themselves and only leads come to wait for them.
LEMMA ExtensionIsAcyclic ==
  ASSUME LeadsAreLast, CycleInv, NEW o, NEW p, Extends(o, p) PROVE AcyclicWork'
<1> SUFFICES ASSUME NEW C \in (SUBSET DOMAIN work') \ {{}}
             PROVE  \E i \in C : work'[i].deps \cap C = {}
  <2> DEFINE deps == [i \in DOMAIN work' |-> work'[i].deps]
  <2>1. DOMAIN deps = DOMAIN work' /\ \A i \in DOMAIN work' : deps[i] = work'[i].deps
    OBVIOUS
  <2>2. AcyclicWork' <=> AcyclicGraph(deps)
    BY DEF AcyclicWork
  <2> HIDE DEF deps
  <2> QED BY <2>1, <2>2 DEF AcyclicGraph
<1> C \in SUBSET DOMAIN work' /\ C # {}
  OBVIOUS
<1>1. /\ DOMAIN work' = DOMAIN work \cup DOMAIN p /\ DOMAIN p \cap DOMAIN work = {}
      /\ \A i \in DOMAIN p : RoleOf[i] # "lead" /\ work'[i].deps = p[i]
      /\ \A i \in DOMAIN p : \A d \in p[i] : RoleOf[d] # "lead"
  BY DEF Extends, ReadOnlyRoles, LeadsAreLast
<1>2. \A i \in DOMAIN work : RoleOf[i] # "lead" => work'[i].deps = work[i].deps
  BY DEF Extends
<1>3. \A i \in DOMAIN work : work'[i].deps \subseteq work[i].deps \cup DOMAIN p
  BY DEF Extends
<1> DEFINE Old == {i \in C \cap DOMAIN work : RoleOf[i] # "lead"}
           New == C \cap DOMAIN p
<1>4. CASE Old # {}
  <2>1. Old \in (SUBSET DOMAIN work) \ {{}}
    BY <1>4
  <2>2. PICK i \in Old : work[i].deps \cap Old = {}
    <3> DEFINE deps == [i \in DOMAIN work |-> work[i].deps]
    <3>1. Old \in (SUBSET DOMAIN deps) \ {{}}
      <4>1. DOMAIN deps = DOMAIN work
        OBVIOUS
      <4> HIDE DEF Old, deps
      <4> QED BY <2>1, <4>1
    <3>2. PICK i \in Old : deps[i] \cap Old = {}
      <4> HIDE DEF Old
      <4> QED BY <3>1 DEF CycleInv, AcyclicWork, AcyclicGraph
    <3> QED BY <3>2
  <2>3. work[i].deps \cap C \subseteq Old
    BY <2>2 DEF CycleInv
  <2> QED BY <1>2, <2>2, <2>3
<1>5. CASE Old = {} /\ New # {}
  <2>1. PICK i \in New : (p[i] \cap DOMAIN p) \cap New = {}
    <3> DEFINE peers == [i \in DOMAIN p |-> p[i] \cap DOMAIN p]
    <3>1. New \in (SUBSET DOMAIN peers) \ {{}}
      BY <1>5
    <3>2. AcyclicGraph(peers)
      BY DEF Extends
    <3>3. PICK i \in New : peers[i] \cap New = {}
      <4> HIDE DEF New
      <4> QED BY <3>1, <3>2 DEF AcyclicGraph
    <3> QED BY <3>3
  <2>2. p[i] \cap C \subseteq New
    BY <1>1, <1>5, <2>1
  <2> QED BY <1>1, <2>1, <2>2
<1>6. CASE Old = {} /\ New = {}
  <2>1. \A i \in C : i \in DOMAIN work /\ RoleOf[i] = "lead"
    BY <1>1, <1>6
  <2>2. PICK i \in C : TRUE
    OBVIOUS
  <2>3. work'[i].deps \cap C = {}
    BY <1>1, <1>3, <2>1, <2>2 DEF CycleInv
  <2> QED BY <2>3
<1> QED BY <1>4, <1>5, <1>6

LEMMA StepCycle ==
  ASSUME LeadsAreLast, OwnedInv, VerdictInv, CycleInv, [Next]_vars PROVE CycleInv'
<1>1. CASE DepsKept
  <2>1. [i \in DOMAIN work |-> work[i].deps]' = [i \in DOMAIN work |-> work[i].deps]
    BY <1>1 DEF DepsKept
  <2> QED BY <1>1, <2>1 DEF CycleInv, AcyclicWork, DepsKept
<1>2. ASSUME NEW o \in outcomes, NEW p, Extends(o, p) PROVE CycleInv'
  <2>1. ASSUME NEW i \in DOMAIN work', NEW d \in work'[i].deps
        PROVE  d \in DOMAIN work' /\ RoleOf[d] # "lead"
    <3>1. CASE i \in DOMAIN p
      BY <1>2, <2>1, <3>1 DEF Extends, LeadsAreLast
    <3>2. CASE i \in DOMAIN work /\ d \in work[i].deps
      BY <1>2, <3>2 DEF Extends, CycleInv
    <3>3. CASE d \in DOMAIN p
      BY <1>2, <3>3 DEF Extends, ReadOnlyRoles
    <3>4. i \in DOMAIN work => d \in work[i].deps \/ d \in DOMAIN p
      BY <1>2, <2>1 DEF Extends
    <3> QED BY <1>2, <3>1, <3>2, <3>3, <3>4 DEF Extends
  <2> QED BY <1>2, <2>1, ExtensionIsAcyclic DEF CycleInv
<1> QED BY <1>1, <1>2, StepKinds
        DEF StepKind, Keeps, Fails, Skips, Starts, Finishes, Requeues

\* However many substeps are accepted, the work graph never gets a cycle if no
\* item of the topology and no substep waits for a lead (ValidateSubstepProposal,
\* AddSubsteps).
THEOREM SubstepsCloseNoCycle ==
  ASSUME AcyclicGraph(Topology), LeadsAreLast PROVE Spec => []AcyclicWork
<1>1. Init => OwnedInv /\ VerdictInv /\ CycleInv
  BY InitOwned, InitVerdict, InitCycle
<1>2. OwnedInv /\ VerdictInv /\ CycleInv /\ [Next]_vars
        => (OwnedInv /\ VerdictInv /\ CycleInv)'
  BY StepOwned, StepVerdict, StepCycle
<1>3. CycleInv => AcyclicWork
  BY DEF CycleInv
<1> QED BY <1>1, <1>2, <1>3, PTL DEF Spec

\* Such a mission never fails for want of an item to start: the branch of Run that
\* gives up on a stuck graph is dead.
THEOREM StuckBranchIsDead ==
  ASSUME NEW l, LeadShape(l), AcyclicGraph(Topology), LeadsAreLast
  PROVE  Spec => [][~LoopStuck]_vars
<1>1. MissionInv(l) /\ AcyclicWork => ~LoopStuck
  BY SomethingIsReady DEF LoopStuck
<1> QED BY <1>1, AlwaysMission, SubstepsCloseNoCycle, PTL

\* The missions the coordinator builds, for every budget and whatever its workers
\* report and propose: the lead has a standing verification behind it, and the loop
\* an item to start unless a substep waits for the lead (coordinator.go).
THEOREM CoordinatedMissions ==
  ASSUME Topology \in {MutationTopology, ReadOnlyTopology},
         \A i \in DOMAIN Topology : RoleOf[i] = StageRole(i),
         Writers \cap DOMAIN Topology \subseteq {"build", "repair"}
  PROVE  Spec => [](LeadOnVerifiedWork /\ NeverStuck)
<1>1. LeadShape("lead")
  BY MissionsHaveALead
<1>2. (Spec => []LeadOnVerifiedWork) /\ (Spec => []NeverStuck)
  BY <1>1, LeadWaitsForAPass, MissionsGoOn
<1> QED BY <1>2, PTL
=============================================================================
