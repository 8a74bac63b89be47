SPECIFICATION Spec
CONSTANTS
  Digest <- MCDigest
  Profiles <- MCProfiles
  Requests <- MCRequests
  Assigned = {"main"}
  Spellings = {"lower", "upper"}
  Values = {0, 1}
  Objects <- MCObjects
  Columns <- MCColumns
  MaxChanges = 2
INVARIANTS
  PublishedShapesAreUsable
  ExecutedIsAllowed
  PrecheckIsNecessary
