\* Only the download of assets can fail.
SPECIFICATION Spec
CONSTANTS
  Digest <- MCDigest
  Content <- MCContent
  Archives <- MCArchives
  Manifests <- MCManifests
  NoArchive = NoArchive
  Versions = {v1, v2}
  First = v1
  NoManifest = NoManifest
  Pulled = Pulled
  NoImage = NoImage
  Faults = {"stage"}
  MaxRuns = 1
INVARIANTS
  MismatchRejected
CHECK_DEADLOCK FALSE
