SPECIFICATION Spec
CONSTANTS
  Ids <- MCIds
  RoleOf <- MCRoleOf
  Writers <- MCWriters
  Topology <- MutationTopology
  Rank <- MCRank
  MaxWorkItems = 12
  MaxHandoffs = 48
  MaxProposedSubsteps = 8
  MaxParallel = 3
  MaxRepairAttempts = 2
  MaxModelCalls = 30
  RoleLimit <- NoLimits
  CallCosts = {1}
  Proposals <- RecheckProposals
INVARIANTS
  TypeOK LeadOnVerifiedWork BoundedAttempts NeverStuck
PROPERTIES
  ReopenedOnlyByFailedVerification Terminates
CHECK_DEADLOCK FALSE
