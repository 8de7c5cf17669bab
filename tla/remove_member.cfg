\* A removal while the located leader leads.
SPECIFICATION Spec
CONSTANTS
  N = 2
  ReplicaState = "running"
  PrimaryRole = "master"
  MaxChanges = 1
  Run = {r1}
  SilentStatus = TRUE
INVARIANT
  RemovalNotRefused
CHECK_DEADLOCK FALSE
