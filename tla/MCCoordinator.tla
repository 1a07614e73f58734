---------------------------- MODULE MCCoordinator ----------------------------
(* The mission of a coding goal, with and without an Explorer's proposal.     *)
EXTENDS Coordinator, TLC

MCIds == DOMAIN MutationTopology \cup {"recheck"}

MCRoleOf == [i \in MCIds |-> IF i = "recheck" THEN "verifier" ELSE StageRole(i)]

MCWriters == {"build", "repair"}

\* The order of sort.Strings.
MCRank ==
  [i \in MCIds |->
     CASE i = "build" -> 1 [] i = "explore" -> 2 [] i = "lead" -> 3
       [] i = "preflight" -> 4 [] i = "recheck" -> 5 [] i = "repair" -> 6
       [] i = "review" -> 7 [] i = "verify" -> 8]

NoLimits == [r \in Roles |-> 0]

\* A second verifier on the build stage; a proposal refused because it
\* depends on completed work; one that waits for the lead, which is accepted
\* and waits for it in turn.
RecheckBuild == "recheck" :> {"build"}
DependsOnDone == "recheck" :> {"explore"}
WaitsForLead == "recheck" :> {"lead"}
RecheckProposals == {NoProposal, RecheckBuild, DependsOnDone, WaitsForLead}
=============================================================================
