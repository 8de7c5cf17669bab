\* A failover while no member leads.
SPECIFICATION Spec
CONSTANTS
  N = 2
  ReplicaState = "running"
  PrimaryRole = "master"
  MaxChanges = 1
  Run = {r1}
  SilentStatus = TRUE
INVARIANT
  FailoverNeedsNoLeader
CHECK_DEADLOCK FALSE
