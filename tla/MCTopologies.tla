----------------------------- MODULE MCTopologies -----------------------------
(* Two more missions of the coordinator: one built with AddWork, and the      *)
(* read-only mission of a question.                                           *)
EXTENDS Naturals, Sequences, TLC

VARIABLES
  mission,  \* which of the two a behaviour runs
  mstatus, work, handoffs, calls, roleCalls, pc, todo, live, outcomes, current,
  batchErr, ctx, ret, events, ckpt

vars ==
  <<mission, mstatus, work, handoffs, calls, roleCalls, pc, todo, live, outcomes,
    current, batchErr, ctx, ret, events, ckpt>>

NoSubstep == [i \in {} |-> {}]

\* A reviewer that waits for the lead.
AfterLead == "audit" :> {"lead"}

-----------------------------------------------------------------------------
(* Two writers ready at once, one of them an operator, and a lead that no     *)
(* verifier stands before.  A second reviewer competes with the first for the *)
(* role's budget, or waits for the lead.                                      *)

GeneralTopology ==
  [i \in {"read-a", "read-b", "write-a", "write-b", "lead"} |->
     IF i = "lead" THEN {"read-b"} ELSE {}]

GeneralIds == DOMAIN GeneralTopology \cup {"audit"}

GeneralRoleOf ==
  [i \in GeneralIds |->
     CASE i = "lead" -> "lead"
       [] i = "read-a" -> "explorer"
       [] i \in {"read-b", "audit"} -> "reviewer"
       [] i = "write-a" -> "builder"
       [] i = "write-b" -> "operator"]

\* The order of sort.Strings, here and below.
GeneralRank ==
  [i \in GeneralIds |->
     CASE i = "audit" -> 0 [] i = "lead" -> 1 [] i = "read-a" -> 2
       [] i = "read-b" -> 3 [] i = "write-a" -> 4 [] i = "write-b" -> 5]

AllRoles == {"lead", "explorer", "builder", "reviewer", "verifier", "operator"}

General ==
  INSTANCE Coordinator WITH
    Ids <- GeneralIds, RoleOf <- GeneralRoleOf, Writers <- {"write-a", "write-b"},
    Topology <- GeneralTopology, Rank <- GeneralRank,
    MaxWorkItems <- 12, MaxHandoffs <- 4, MaxProposedSubsteps <- 8,
    MaxParallel <- 2, MaxRepairAttempts <- 2, MaxModelCalls <- 3,
    RoleLimit <- [r \in AllRoles |-> IF r = "reviewer" THEN 2 ELSE 0],
    CallCosts <- {0, 1, 2}, Proposals <- {NoSubstep, AfterLead, "audit" :> {}}

-----------------------------------------------------------------------------
(* Two substeps in a row, and two that wait for each other.                   *)

QuestionIds == DOMAIN General!ReadOnlyTopology \cup {"audit", "recheck"}

QuestionRoleOf ==
  [i \in QuestionIds |->
     CASE i = "audit" -> "reviewer"
       [] i = "recheck" -> "verifier"
       [] OTHER -> General!StageRole(i)]

QuestionRank ==
  [i \in QuestionIds |->
     CASE i = "audit" -> 0 [] i = "explore" -> 1 [] i = "lead" -> 2
       [] i = "recheck" -> 3 [] i = "review" -> 4 [] i = "verify" -> 5]

Question ==
  INSTANCE Coordinator WITH
    Ids <- QuestionIds, RoleOf <- QuestionRoleOf, Writers <- {},
    Topology <- General!ReadOnlyTopology, Rank <- QuestionRank,
    MaxWorkItems <- 12, MaxHandoffs <- 48, MaxProposedSubsteps <- 8,
    MaxParallel <- 3, MaxRepairAttempts <- 2, MaxModelCalls <- 30,
    RoleLimit <- [r \in AllRoles |-> 0], CallCosts <- {1},
    Proposals <-
      {NoSubstep,
       ("audit" :> {"recheck"}) @@ ("recheck" :> {}),
       ("audit" :> {"recheck"}) @@ ("recheck" :> {"audit"})}

-----------------------------------------------------------------------------
Init ==
  \/ mission = "general" /\ General!Init
  \/ mission = "question" /\ Question!Init

Next ==
  /\ UNCHANGED mission
  /\ \/ mission = "general" /\ General!Next
     \/ mission = "question" /\ Question!Next

Running ==
  IF mission = "general" THEN General!RunStep ELSE Question!RunStep

Working ==
  IF mission = "general" THEN General!WorkerStep ELSE Question!WorkerStep

Spec ==
  /\ Init /\ [][Next]_vars
  /\ WF_vars(Running /\ UNCHANGED mission) /\ WF_vars(Working /\ UNCHANGED mission)

-----------------------------------------------------------------------------
(* The properties of Coordinator, each where it says something.               *)

\* The workspace never has two writers at work (team.go Start, selectBatch).
SingleWriter == mission = "general" => General!SingleWriter

\* What is in the batch can still be started when its turn comes (selectBatch).
BatchStaysStartable == mission = "general" => General!BatchStaysStartable

\* The call budget is overshot by one batch at most (RoleBudgetExceeded).
BudgetOvershoot == mission = "general" => General!BudgetOvershoot

\* A running item is one a worker executes or has reported (Fail, Interrupt).
RunningIsOwned == mission = "general" => General!RunningIsOwned

\* A question is answered on the last word of every verifier (HandoffChecksPassed).
CompletedIsVerified == mission = "question" => Question!CompletedIsVerified

\* Proposed substeps close no cycle among themselves (ValidateSubstepProposal).
AcyclicWork == mission = "question" => Question!AcyclicWork
=============================================================================
