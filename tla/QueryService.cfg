SPECIFICATION FairSpec
CONSTANTS
  b1 = b1
  b2 = b2
  ds = ds
  None = None
  Requests = {r1, r2}
  Operations = {"explain_select", "aggregate", "select_keyset",
                "describe_object_statistics", "list_query_shapes"}
  Bindings <- MCOneBinding
  Datasources <- MCDatasources
  DatasourceOf <- MCDatasourceOf
  Required = {}
  Semantics = {0}
  GlobalLimit = 2
  BindingLimit <- MCBindingLimit
  Polled = FALSE
  WriterFails = TRUE
  MaxRestarts = 0
  Events <- MCEvents
  Cancellable <- MCCancellable
INVARIANTS
  TypeOK
  TokensMatchHolders
  AuditedBeforeExecution
  SuccessIsAudited
  DenialIsAudited
  AllowIsPaired
PROPERTY
  EveryRequestAnswered
CHECK_DEADLOCK FALSE
