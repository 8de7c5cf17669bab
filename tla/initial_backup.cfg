\* A first deployment whose initial backup is refused.
SPECIFICATION Spec
CONSTANTS
  Node = {n1, n2}
  None = None
  MaxMoves = 0
  MaxTimed = 0
INVARIANT
  InitialBackupOnlyWarns
CHECK_DEADLOCK FALSE
