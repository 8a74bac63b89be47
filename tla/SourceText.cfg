SPECIFICATION Spec
CONSTANTS
  Digest <- MCDigest
  Profiles <- SourceTextProfiles
  Requests <- SourceTextRequests
  Assigned = {"main"}
  Spellings = {"lower"}
  Values = {0}
  Objects <- MCObjects
  Columns <- MCColumns
  MaxChanges = 0
INVARIANT RepresentationIsMatched
