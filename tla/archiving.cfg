\* Activation and initial backup on up to three hosts while the lead is lost twice and
\* the timers take backups.
SPECIFICATION FairSpec
CONSTANTS
  Node = {n1, n2, n3}
  None = None
  MaxMoves = 2
  MaxTimed = 2
INVARIANTS
  TypeOK
  LeaderArchives
  OnlyDisturbedPlaysFail
  RecoveryPoint
PROPERTY
  Terminates
CHECK_DEADLOCK FALSE
