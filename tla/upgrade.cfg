\* Rolling upgrade of three members, one unplanned failover, any task may fail.
SPECIFICATION FairSpec
CONSTANTS
  N = 3
  ReplicaState = "running"
  PrimaryRole = "master"
  MaxChanges = 1
INVARIANTS
  TypeOK
  OnePrimary
  PausedOnlyForMaintenance
  OneMemberAway
  CompleteWhenUndisturbed
  PromotesUpgraded
  OneServerRestarts
PROPERTIES
  BatchSparesLocatedLeader
  ImplementsMaintenance
  Terminates
  PauseIsTransient
CHECK_DEADLOCK FALSE
