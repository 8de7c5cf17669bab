\* Two hosts, two overlapping runs over two of the roles, one rotation, one failover or
\* one Patroni that fails.
SPECIFICATION FairSpec
CONSTANTS
  Node = {n1, n2}
  Runs = 2
  FirstLeader = n1
  Roles <- TwoRoles
  MaxRotations = 1
  MaxFailures = 1
INVARIANTS
  TypeOK
  RotationTakesHold
  StaleOnlyIfReloadMissed
  SyncedAfterFullPass
PROPERTY
  StandbysReturn
