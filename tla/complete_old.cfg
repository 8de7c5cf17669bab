\* An undisturbed run completes and the servers still run the old packages.
SPECIFICATION Spec
CONSTANTS
  N = 2
  ReplicaState = "running"
  PrimaryRole = "master"
  MaxChanges = 0
INVARIANT
  CompleteMeansRestarted
CHECK_DEADLOCK FALSE
