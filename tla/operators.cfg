\* Two overlapping lifecycle runs on up to three members, whose leader may be lost once.
SPECIFICATION Spec
CONSTANTS
  N = 3
  ReplicaState = "running"
  PrimaryRole = "master"
  MaxChanges = 1
  Run = {r1, r2}
  SilentStatus = FALSE
INVARIANTS
  TypeOK
  SwitchoverMovedLeader
  SomeMemberSurvives
PROPERTIES
  RemovalSparesLeader
  KeysLostOnlyIfLeadMoved
SYMMETRY RunSymmetry
CHECK_DEADLOCK FALSE
