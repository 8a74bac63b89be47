SPECIFICATION Spec
CONSTANTS
  Main = "main"
  Root <- MCRoot
  Graphs <- MCGraphs
  AllBudgets <- MCBudgets
  Sizes <- MCSizes
  MaxGrowth = 1
INVARIANTS
  AssemblyIsExpansion
  OutcomeIsJustified
  ReadsAreWhole
