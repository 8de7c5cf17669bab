\* The health gate against the states Patroni 4 reports.
SPECIFICATION Spec
CONSTANTS
  N = 2
  ReplicaState = "streaming"
  PrimaryRole = "primary"
  MaxChanges = 0
INVARIANT
  HealthyClusterPasses
CHECK_DEADLOCK FALSE
