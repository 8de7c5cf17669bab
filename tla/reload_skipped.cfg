\* One Patroni that fails and comes back, and a deployment of a rotated vault.
SPECIFICATION Spec
CONSTANTS
  Node = {n1, n2}
  Runs = 1
  FirstLeader = n1
  Roles <- TwoRoles
  MaxRotations = 1
  MaxFailures = 1
INVARIANT
  SkippedReloadRedundant
