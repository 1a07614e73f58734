------------------------------- MODULE Mission -------------------------------
(***************************************************************************)
(* The mission of a Team Run (src/internal/team/team.go): a graph of work  *)
(* items, each owned by one role, and the handoffs they leave behind.      *)
(* The state of the items is a function  work  from the ids present in the *)
(* mission to [status, attempt, deps]; every method of Mission is an       *)
(* operator from one such function to the next.  Texts (titles, goals,     *)
(* errors), timestamps and Employee assignments are left out.              *)
(***************************************************************************)
EXTENDS Naturals, Sequences, FiniteSets

CONSTANTS
  Ids,                  \* every work item id, of the topology or of a substep
  RoleOf,               \* the role each id works under
  Writers,              \* the ids with MutatesWorkspace set
  Topology,             \* the initial graph: id -> set of ids it depends on
  Rank,                 \* the order of sort.Strings on ids
  MaxWorkItems,         \* Budget.MaxWorkItems
  MaxHandoffs,          \* the cap on mission.Handoffs
  MaxProposedSubsteps   \* the cap on one Explorer proposal

Roles == {"lead", "explorer", "builder", "reviewer", "verifier", "operator"}

ReadOnlyRoles == {"explorer", "reviewer", "verifier"}

\* A graph is acyclic when every set of its nodes has one without a
\* dependency inside the set.
AcyclicGraph(deps) ==
  \A C \in (SUBSET DOMAIN deps) \ {{}} : \E i \in C : deps[i] \cap C = {}

\* AddWork: a known role, writers only for builder and operator.
ASSUME RoleAssumption ==
  /\ RoleOf \in [Ids -> Roles]
  /\ Writers \subseteq {i \in Ids : RoleOf[i] \in {"builder", "operator"}}

\* AddWork: a dependency is an item added earlier, so the graph has no cycle.
ASSUME TopologyAssumption ==
  /\ DOMAIN Topology \subseteq Ids /\ IsFiniteSet(DOMAIN Topology)
  /\ DOMAIN Topology # {}
  /\ \A i \in DOMAIN Topology : Topology[i] \subseteq DOMAIN Topology

ASSUME RankAssumption ==
  /\ Rank \in [Ids -> Nat]
  /\ \A i, j \in Ids : Rank[i] = Rank[j] => i = j

ASSUME LimitAssumption ==
  MaxWorkItems \in Nat /\ MaxHandoffs \in Nat /\ MaxProposedSubsteps \in Nat

MissionStatus ==
  {"queued", "running", "completed", "failed", "cancelled", "interrupted"}

WorkStatus == MissionStatus \cup {"skipped"}

WorkItem == [status : WorkStatus, attempt : Nat, deps : SUBSET Ids]

\* A handoff keeps what later decisions read: whose it is, whether its checks
\* all passed, one failed or none was run, and whether it lists issues.
Handoff == [item : Ids, checks : {"pass", "fail", "none"}, issues : BOOLEAN]

-----------------------------------------------------------------------------
(* The topologies of coordinator.go.                                       *)

MutationTopology ==
  [i \in {"explore", "preflight", "build", "review", "repair", "verify", "lead"} |->
     CASE i \in {"explore", "preflight"} -> {}
       [] i = "build"  -> {"explore", "preflight"}
       [] i = "review" -> {"build"}
       [] i = "repair" -> {"review"}
       [] i = "verify" -> {"repair"}
       [] i = "lead"   -> {"verify"}]

ReadOnlyTopology ==
  [i \in {"explore", "review", "verify", "lead"} |->
     CASE i \in {"explore", "review"} -> {}
       [] i = "verify" -> {"explore", "review"}
       [] i = "lead"   -> {"verify"}]

StageRole(i) ==
  CASE i = "explore" -> "explorer"
    [] i \in {"preflight", "review"} -> "reviewer"
    [] i \in {"build", "repair"} -> "builder"
    [] i = "verify" -> "verifier"
    [] i = "lead" -> "lead"

NewWork(deps) == [status |-> "queued", attempt |-> 0, deps |-> deps]

InitialWork == [i \in DOMAIN Topology |-> NewWork(Topology[i])]

-----------------------------------------------------------------------------
(* Scheduling.                                                             *)

\* Mutant: a skipped item does not count as done.
DoneCompletedOnly(w, i) == w[i].status = "completed"

Done(w, i) == w[i].status \in {"completed", "skipped"}

AllCompleted(w) == \A i \in DOMAIN w : Done(w, i)

WithStatus(w, S) == {i \in DOMAIN w : w[i].status \in S}

Ready(w) ==
  {i \in WithStatus(w, {"queued", "interrupted"}) :
     \A d \in w[i].deps : d \in DOMAIN w /\ Done(w, d)}

\* Mutant: the lease follows the role instead of the flag.
MutatesAsBuilder(i) == RoleOf[i] = "builder"

Mutates(i) == i \in Writers

CanStart(w, i) ==
  /\ i \in Ready(w)
  /\ Mutates(i) => \A j \in WithStatus(w, {"running"}) : Mutates(j) => j = i

StartWork(w, i) ==
  [w EXCEPT ![i].status = "running", ![i].attempt = @ + 1]

CompleteWork(w, i) == [w EXCEPT ![i].status = "completed"]

Moved(w, S, status) ==
  [i \in DOMAIN w |-> IF i \in S THEN [w[i] EXCEPT !.status = status] ELSE w[i]]

\* Mutant: a status no other code knows.
CancelRunningMisspelt(w) == Moved(w, WithStatus(w, {"running"}), "canceled")

\* failRunning: whatever still runs is cancelled.
CancelRunning(w) == Moved(w, WithStatus(w, {"running"}), "cancelled")

FailWork(w, i) == CancelRunning([w EXCEPT ![i].status = "failed"])

InterruptWork(w) == Moved(w, WithStatus(w, {"running"}), "interrupted")

CancelWork(w) ==
  Moved(w, WithStatus(w, {"queued", "running", "interrupted"}), "cancelled")

-----------------------------------------------------------------------------
(* Verification, repair and review.                                        *)

HasMutation(w) == DOMAIN w \cap Writers # {}

\* Mutant: issues do not fail a verification without checks.
HandoffPassedIgnoringIssues(w, h) ==
  IF h.checks = "none" THEN ~HasMutation(w) ELSE h.checks = "pass"

\* HandoffChecksPassed: with no check run, only a read-only mission may pass.
HandoffPassed(w, h) ==
  IF h.checks = "none" THEN ~HasMutation(w) /\ ~h.issues ELSE h.checks = "pass"

\* The verifier handoffs the lead gate looks at; in a mutating mission one
\* without checks is passed over.
Evidence(w, hs) ==
  {k \in 1..Len(hs) : /\ RoleOf[hs[k].item] = "verifier"
                      /\ hs[k].checks = "none" => ~HasMutation(w)}

VerificationPassed(w, hs) ==
  \E k \in Evidence(w, hs) :
     /\ \A j \in Evidence(w, hs) : j <= k
     /\ HandoffPassed(w, hs[k])

RepairsOf(w, v) ==
  {d \in w[v].deps \cap DOMAIN w : d \in Writers /\ Done(w, d)}

\* Mutant: one attempt too many.
CanRequeueOnceMore(w, v, maxAttempts) ==
  w[v].attempt <= maxAttempts /\ RepairsOf(w, v) # {}

CanRequeue(w, v, maxAttempts) ==
  w[v].attempt < maxAttempts /\ RepairsOf(w, v) # {}

\* Mutant: everything done is reopened.
RequeueEverything(w, v) == Moved(w, {i \in DOMAIN w : Done(w, i)}, "queued")

\* Mutant: the verifier that failed keeps its completion.
RequeueRepairsOnly(w, v) == Moved(w, RepairsOf(w, v), "queued")

RequeueAfterVerification(w, v) ==
  Moved(w, RepairsOf(w, v) \cup {v}, "queued")

\* Only a review of an implementation may skip the repairs waiting for it.
SkippedRepairs(w, r) ==
  IF w[r].deps \cap DOMAIN w \cap Writers = {} THEN {}
  ELSE {i \in WithStatus(w, {"queued"}) \cap Writers : r \in w[i].deps}

-----------------------------------------------------------------------------
(* Substeps: a proposal p maps each new id to the ids it depends on.       *)

\* Mutant: a cycle between peers is not looked for.
ValidWithoutCycleCheck(w, p) ==
  /\ Cardinality(DOMAIN p) \in 1..MaxProposedSubsteps
  /\ Cardinality(DOMAIN w) + Cardinality(DOMAIN p) <= MaxWorkItems
  /\ DOMAIN p \cap DOMAIN w = {}

ValidSubstepProposal(w, p) ==
  LET open == DOMAIN w \ WithStatus(w, {"completed", "failed", "cancelled"})
  IN /\ Cardinality(DOMAIN p) \in 1..MaxProposedSubsteps
     /\ Cardinality(DOMAIN w) + Cardinality(DOMAIN p) <= MaxWorkItems
     /\ DOMAIN p \cap DOMAIN w = {}
     /\ \A i \in DOMAIN p : RoleOf[i] \in ReadOnlyRoles
     /\ \A i \in DOMAIN p : Cardinality(p[i]) <= MaxProposedSubsteps
     /\ \A i \in DOMAIN p : p[i] \subseteq DOMAIN p \cup open
     /\ AcyclicGraph([i \in DOMAIN p |-> p[i] \cap DOMAIN p])

\* Mutant: the lead does not wait for the new items.
AddSubstepsLeadUnwired(w, p) ==
  [i \in DOMAIN w \cup DOMAIN p |-> IF i \in DOMAIN p THEN NewWork(p[i]) ELSE w[i]]

\* Every lead still queued waits for the new items too.
AddSubsteps(w, p) ==
  [i \in DOMAIN w \cup DOMAIN p |->
     IF i \in DOMAIN p THEN NewWork(p[i])
     ELSE IF RoleOf[i] = "lead" /\ w[i].status = "queued"
          THEN [w[i] EXCEPT !.deps = @ \cup DOMAIN p]
          ELSE w[i]]
=============================================================================
