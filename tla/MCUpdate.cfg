\* Every step may fail, the script may be killed anywhere, and the operator
\* runs it twice.
SPECIFICATION Spec
CONSTANTS
  Digest <- MCDigest
  Content <- MCContent
  Archives <- MCArchives
  Manifests <- MCManifests
  NoArchive = NoArchive
  Versions = {v1, v2, v3}
  First = v1
  NoManifest = NoManifest
  Pulled = Pulled
  NoImage = NoImage
  Faults = {"stage", "prepare", "stop", "backup", "copy", "env", "pull", "import", "up", "verify", "restore", "kill"}
  MaxRuns = 2
INVARIANTS
  TypeOK
  StateSurvives
  SuccessIsVerified
  RollbackRestores
  ImportedIsWhole
SYMMETRY NewVersions
CHECK_DEADLOCK FALSE
