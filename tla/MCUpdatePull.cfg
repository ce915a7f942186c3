\* Only the image can be neither pulled nor imported.
SPECIFICATION Spec
CONSTANTS
  Digest <- MCDigest
  Content <- MCContent
  Archives <- MCArchives
  Manifests <- MCManifests
  NoArchive = NoArchive
  Versions = {v1, v2}
  First = v1
  NoManifest = NoManifest
  Pulled = Pulled
  NoImage = NoImage
  Faults = {"pull", "import"}
  MaxRuns = 1
INVARIANTS
  FailureRollsBack
CHECK_DEADLOCK FALSE
