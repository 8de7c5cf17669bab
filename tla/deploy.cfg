\* One edit of any field of a whole response, or two of the hosts; deployments that
\* fail anywhere.
SPECIFICATION Spec
CONSTANTS
  Node = {m, p, q, r, s}
  Database = {p, q, r, s}
  Start <- Starts
  Edited <- Edits
  MaxEdits = 2
INVARIANTS
  TypeOK
  FilesAgree
  PlainResponsesGenerate
  CheckedSecretsSuffice
  GuideFitsDeployment
  OnlyKnownRefusals
  OneStoreUnlessRefounded
PROPERTIES
  ImplementsStore
