SPECIFICATION Spec
CONSTANTS
  Ids <- MCIds
  User <- MCUser
  Group <- MCGroup
  Policies <- MCPolicies
INVARIANTS DecisionsFollowPolicy TuplesAccepted DistinctTuples
