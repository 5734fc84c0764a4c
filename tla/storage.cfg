SPECIFICATION FairSpec
CONSTANTS
  proposal = proposal
  membership = membership
  Payload <- MCPayload
  Normal <- MCNormal
  Membership <- MCMembership
  MaxTerm = 2
  MaxIndex = 3
  MaxBatch = 2
CHECK_DEADLOCK FALSE
INVARIANTS TypeOK LogContiguous Recoverable StatesTrue
PROPERTIES SnapshotForward ImplementsReplicatedState CatchesUp
