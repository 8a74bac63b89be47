SPECIFICATION Spec
CONSTANTS
  Plans <- MCPlans
  Controls <- MCControls
  Fold <- MCFold
  None = None
INVARIANTS
  AdmittedIsSafe
  RefusedIsUnsafe
