SPECIFICATION Spec
CONSTANTS
  b1 = b1
  b2 = b2
  ds = ds
  None = None
  Requests = {r1, r2}
  Operations = {"explain_select", "select", "list_objects", "describe_object"}
  Bindings <- MCOneBinding
  Datasources <- MCDatasources
  DatasourceOf <- MCDatasourceOf
  Required = {}
  Semantics = {0}
  GlobalLimit = 1
  BindingLimit <- MCBindingLimit
  Polled = FALSE
  WriterFails = TRUE
  MaxRestarts = 0
  Events <- MCEvents
  Cancellable <- MCCancellable
INVARIANT
  RefusalIsCompleted
CHECK_DEADLOCK FALSE
