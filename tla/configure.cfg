\* Two overlapping runs of ./configure, any of which may be killed.
SPECIFICATION Spec
CONSTANTS
  Run = {r1, r2}
  MachineSecret = {superuser}
  Response <- SomeResponses
INVARIANTS
  TypeOK
  SuccessHasSecrets
  VaultReadable
  NothingLeftBehind
  DerivedAgree
PROPERTY
  ImplementsSecretStore
SYMMETRY RunSymmetry
CHECK_DEADLOCK FALSE
