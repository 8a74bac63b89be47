SPECIFICATION Spec
CONSTANTS
  b1 = b1
  b2 = b2
  ds = ds
  None = None
  Requests = {r1, r2}
  Operations = {"select"}
  Bindings <- MCBindings
  Datasources <- MCDatasources
  DatasourceOf <- MCDatasourceOf
  Required <- MCBindings
  Semantics = {0, 1}
  GlobalLimit = 1
  BindingLimit <- MCBindingLimit
  Polled = TRUE
  WriterFails = FALSE
  MaxRestarts = 2
  Events <- MCEvents
  Cancellable <- MCCancellable
INVARIANTS
  SnapshotsAgree
  ConcurrencyBounded
PROPERTY
  ReadyIsFresh
SYMMETRY RequestSymmetry
CHECK_DEADLOCK FALSE
