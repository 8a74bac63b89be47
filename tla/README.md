# Verification of Quordon

Quordon is an HTTP gateway that lets clients run a small set of read-only
operations against MySQL: list and describe objects, explain, select, aggregate,
keyset pages, table statistics and the list of permitted query shapes. Every
operation is authorized by a deny-by-default policy, bounded in time, rows,
bytes and concurrency, and recorded in an append-only audit log; a request
whose audit cannot be written must not reach the database or return a result.

This directory holds TLA+ models of that code, the TLC configurations that check
them on small instances, and TLAPS proofs of the properties that matter most.
`PROJECT.json` gives, for every definition, the source lines it models, and for
every property a variant of the code ("Variant:" in the modules) that breaks it.

## 1. The system

| Part | State | Operations | Talks to |
|---|---|---|---|
| Audit sink (`internal/audit`) | `ready` flag, one-slot channel, worker goroutine, the file | `Write`, `Ready`, the loop `run` | the query service calls it; it calls an `io.Writer` |
| Query service (`internal/queryservice`) | capacity gates, query-shape snapshots | eight handlers, `InitializeQueryShapeDiscovery`, `Ready` | HTTP calls it; it calls policy, sink, database manager |
| Query-shape discovery (`query_shapes.go`) | map of snapshots under a mutex | publish at startup, look up, drop on a contradicting observation | all handlers and `Ready` |
| Database manager (`internal/database`) | datasources, fixed after startup | dispatch | the adapter |
| MySQL adapter (`internal/adapters/mysql8`) | a pool of sessions | one method per operation | the patched driver |
| Keyset pagination (`keyset.go` in the adapter and the service) | none of its own; the cursor is with the client | compile, bind, collect, validate | the adapter's session |
| Row collection (`collectSelectRows`, `collectAggregateRowsWithSpec`) | the result being built | one row at a time | the adapter's session |
| Plan admission (`validateAggregatePlan`) | none | a check of an EXPLAIN document | the adapter |
| Policy (`internal/policy`) | rules, fixed after startup | authorize, discover shapes | the service |
| Request specifications (`internal/queryspec`) | none | decode, validate, normalise | HTTP, service, adapter |
| Configuration (`internal/config`), secrets, authentication | read once | load, validate | startup |
| HTTP API (`internal/httpapi`) | none shared | routing, limits, error mapping | the service |
| Start and shutdown (`cmd/quordon`) | listener, signal, grace period | start, serve until shutdown | everything |

What is hard here, and so what the models are about:

* **The audit log.** Handlers write concurrently through one worker; a call may
  time out or be cancelled while its line is queued, being written or already
  in the file; the writer may block for ever, fail, or write half a line.
  Correct: a nil return means a whole line in the file; nothing follows a torn
  line; no line twice; lines of consecutive calls in call order; a failure turns
  readiness off for good; every call returns.
* **The handlers.** Two waits for the audit, one for the database, two tokens
  taken in two steps and given back by a deferred call, with a failure possible
  at each point. Correct: no execution before a durable allow decision, no
  result without a durable completion, no denial told without its line, no token
  lost or counted twice, every accepted request answered.
* **Snapshots.** Each request probes the server and may find that its identifier
  semantics changed; answers are applied out of order. Correct: no published
  snapshot contradicts an observation, and ready is never answered from one that
  this check's own probe contradicted.
* **Sessions.** A pooled connection is given a socket deadline, a pinned time
  zone, a transaction and unread rows, and every step of setting up or undoing
  can fail; when the client goes away, `database/sql` undoes some of it from
  goroutines of its own. Correct: what returns to the pool is as it was opened,
  or is closed, and undoing is bounded in time.
* **Pages and bytes.** Responses are cut to an exact byte budget whose envelope
  depends on the outcome (digits of `row_count`, `true`/`false`, `next_cursor`),
  and scans continue over a table that changes. Correct: nothing delivered twice
  or skipped, the counted bytes are the encoded bytes, pages are not cut early.

* **The policy.** A request passes validation, a check before the server is
  asked how it compares names, authorization under its answer, and, for two
  operations, a comparison on the executing connection; shapes are validated when
  the configuration is loaded and published before that server is known.
  Correct: these agree on what a shape permits, in every spelling; what is
  executed is allowed as the executing server reads it.
* **Loading.** Documents are read while files may change, and aliases, references
  and overrides are resolved with a cache under budgets. Correct: the result is
  the plain expansion, exact in size; budgets neither leak nor refuse what fits.
* **Plans.** EXPLAIN writes index names unescaped into merge expressions, and the
  tables of a plan come in the random order of a Go map. Correct: a required
  index counts only when a stored table is really read through it.
* **Shutdown.** The listener returns before the handlers do. Correct: a signal
  ends the process, with status 0 only when every accepted request was answered.

The complete list, with lines, is `hazards` in `PROJECT.json`.

## 2. Modules

| Module | Models | Used by |
|---|---|---|
| `AuditLog` | what the sink promises: a fail-stop log (abstract specification) | composed into `QueryService`; implemented by `AuditSink` |
| `AuditSink` | `audit.go`: callers, worker, channel, flag, timers, cancellation | `MCAuditSink` |
| `QueryService` | the eight handlers, gates, snapshots, `Ready`, over `AuditLog` | `MCQueryService` |
| `MySQLSession` | one pooled connection through every adapter method | `MCMySQLSession` |
| `KeysetPaging` | cursor predicate, row collection, validation, the client's scan | `MCKeysetPaging` |
| `RowCollection` | result sets of select and aggregate cut to a byte budget | `MCRowCollection` |
| `QueryShapes` | specifications and shapes: normalisation, signatures, parameter counts, validation (operators only) | extended by `Policy` |
| `Policy` | authorization of every operation, publication of shapes, a server that is replaced | `MCPolicy` |
| `PolicyAssembly` | the reading of policy documents and the resolution of `$ref`, `$override` and aliases | `MCPolicyAssembly` |
| `PlanAdmission` | the check of a plan, with the parser of index merges | `MCPlanAdmission` |
| `Shutdown` | start, serving, signal, grace period, exit | itself |
| `ResponseSize` | the digits of a number, which both collectors count with | `KeysetPaging`, `RowCollection` |
| `AuditSinkProofs`, `QueryServiceProofs`, `MySQLSessionProofs`, `RowCollectionProofs`, `KeysetPagingProofs`, `PolicyProofs`, `PolicyAssemblyProofs` | theorems about the module of that name | |
| `ResponseSizeProofs` | theorems about sums and digits | the three modules that count bytes |

### AuditSink and AuditLog

A call of `Write` is an event with a program counter (`called`, `enqueue`,
`await`, `timeout`, then `acked` or `failed`). Go's `select` between channel
operation and context is two actions that may both be enabled (`Enqueue` or
`AwaitResult`, and `ContextDone`). `ready` is read in `Admit` before the
encoding, and again by the worker in `CheckReady`; it is cleared by
`WriteTimeoutError` or by `SendReply`, which happen after the step that found
the failure. The channel of a call holds one result: `Put` waits for an empty
place, and `AwaitResult` empties it, so that the worker would wait for ever if it
ever had a second reply for a call that has given up. `WriterReturns` leaves nothing, a part or all of the line in the
file. `Cancellable` are the calls whose context comes from the client (decision
events); denials and completions use `context.WithoutCancel`. `prior` is a history
variable: the calls that had returned when a call began.

`AuditLog` has one action per promise: `BeginLine`, `EndLine`, `FailLine`, `Ack`,
`Fail`. In the refinement the log is already closed when the writer has failed
and the flag is not yet cleared (`open <- ready /\ worker.reply # "error"`).

### QueryService

The handlers share one shape, and what distinguishes them is a record per
operation (`ExplainFlow` ... `ListQueryShapesFlow`): whether it probes, where an
empty response is measured, what a full gate leads to, whether the adapter
compares the semantics again, and how denials and failures are answered. Each
action runs to the next point where another goroutine can be noticed: a call of
the sink, a database call, a channel operation, the mutex. The two halves of
`acquireCapacity` are separate actions since other handlers see the global token
in between. What the policy decides and what the database returns are free
choices. `entered` is the set of requests that passed both gates; `observed` is a
history variable with all semantics seen per datasource.

A readiness check runs beside the requests: `ReadyStart`, a `ReadyProbe` and a
`ReadyObserve` per datasource, `ReadyFinish`.

### MySQLSession

The connection is a record (socket, zone, transaction, unread rows, deadline); a
method is a program counter and the set of deferred calls that still have
something to undo, which run in reverse order. Each statement succeeds, is
rejected, or loses the connection. The request's context may be done at any time
(`ContextDone`): a statement that takes it then fails, `Commit` fails without being
sent and leaves connection and transaction open, and two goroutines of `database/sql`
run beside the method. `RowsAwaitDone` closes the rows; `TxAwaitDone` claims the
transaction that `BeginTx` returned, after which the deferred `tx.Rollback` returns at
once, and `TxRollback` sends the ROLLBACK later. `conn.Close` and the discarding of a
pinned session wait for it (`TxReleased`), the deferred `clearDeadline` does not. `sqlTx` says
who still has to end that transaction. Transactions that the adapter begins by a
statement of its own (aggregate, keyset) have no such goroutine.

Assumed of the driver and server: COMMIT and ROLLBACK of a read-only transaction end
it or the connection is lost; `AbortConnection` closes the socket; a session that is
lost is ended by the server. `database/sql` is modelled from how the adapter uses
`Conn`, `Tx` and `Rows`: a `Tx` is ended by the first of `Commit`, `Rollback` and its
goroutine, rows are closed before its ROLLBACK is sent, and `Conn` is released behind it.
The success branch of `UnwindZone` mirrors the code, although every path that reaches
it has set the error.

### KeysetPaging

A row is its key, a tuple of `order_by` values; its other columns enter only
through the size of the encoded row. Cells and bound values carry the form of
their text, because a timestamp is written with a space in a row and as
`...T...Z` in a cursor, and a predicate that compares the two forms selects
nothing. `TakeRow`, `SeeMore` and `Finish` follow `collectKeysetRows`: a row may
be taken provisionally, when the page fits only if nothing follows.
The client repeats pages that failed or were lost, and stops at `result_too_large`.
Assumed: the key is not null, which `validateKeysetSource` checks, and unique, which it
does not: the documents make that the duty of the shape's author
(`docs/policy-configuration.md:621-623`), and completeness of a scan rests on it. An
empty page with an empty `next_cursor` is longer than one without.

`PageIsCutLate` compares with the page that has one row more. It does not say
that a larger page never fits: a row whose own cursor is very long can end a page
although the complete remainder, which needs no cursor, would have fitted.

### RowCollection

One loop for `select`, where the budget is that of columns and rows, and for
grouped and scalar `aggregate`, where it is that of the whole response. A row is
the size of its encoding. A grouped row that fits only because `true` is a byte
shorter than `false` stays only when another row follows it.

### QueryShapes and Policy

A name is a pair of letters and case, so that the three ways of comparing names
(exactly, without case, or by the server's rule) differ. A predicate has a field,
an operator, the types and the values of its arguments; a filter is a predicate or
one group of them, and its order is that of an injective `Digest`, as the code
sorts by hash: of the arrangements of a group, the sorted one is chosen. `ConfiguredShapeSignature` and the signatures of requests are kept
apart, because the code builds them in different functions. `Policy` has one
profile and one request: `Publish`, `Receive`, `Check` (up to the probe), `Probe`,
`Authorize`, `Execute`; `ReplaceServer` may come between any two. `Instances` are
the requests that a client may build from a published shape: any spelling that
the document's server cannot tell apart, any values in each predicate, any page and
limit, with predicates in any order. `PublishedShapesAreUsable` names the two cases in
which the code refuses such a request (section 6). The concurrency around this is `QueryService`'s, which
leaves the verdict open.

### PolicyAssembly

`resolve` is a recursion; its calls are an explicit stack, and each call takes one
of `CallTooDeep`, `CallActive`, `CallCached`, `CallFresh` and each return one of the
`Complete...` actions. An assembled node is named by the source node that created
it, which makes sharing visible: `content` is the children of assembled nodes, and
an override that wrote into a shared base would change it. A reference with an
override is a kind of its own, since an empty override is more than a reference: it
needs a mapping for its base and creates, and charges, a new one. `document` is four
steps (`OpenDocument`, `ReadDocument`, `StatAgain`, `Parse`), each but the last of
which may fail (`FileFails`), with `Grow` between them.
Checks in sequence are a list of conditions of which the first decides (`Errors`).
An override costs two levels of depth (the mapping and the hop to it), although its
values are resolved one level below it; a cached override is charged with its final
nodes only, although the first resolution also charged the branches it replaced.
`OutcomeIsJustified` has four parts: `LoadedIsGrounded`, `CycleIsJustified`,
`DepthIsJustified`, `ExpansionIsJustified`. The last two compare with the levels and
charges of a resolution without cache (`FullDepth`, `FullCharge`: a child adds a level,
but one that an override brings along adds two;
`Charges` counts what `charge` is called with); their converses are not claimed. One
corner of the code limits what can be said. An override is cached with the height of
what it keeps, so that a later call of it passes the depth check where a walk would
find its base too deep: the loading goes on, and may then be refused for expansion, or
succeed. `ExpansionIsJustified` admits the first; in the second `AssemblyIsExpansion`
says that the tree still is the expansion, within all budgets, for which `Expansion` walks
as far as the graph goes and not as far as the budget. One of the graphs shows both.

### PlanAdmission

A table of a plan is the fields the code looks at and, unseen by it, the indexes
the read uses. A key is a sequence of tokens, an index name too, and the server
writes names as they are: an index called `union(a` and one called `b)` give the key
of a merge of `a` and `b`. The parser runs token by token over its stack of
argument counts. `Safe` is stated over the indexes that are used, never over the
text. Assumed of the server: the indexes of a merge are among `possible_keys`.

### Shutdown

Two goroutines, the channel that is closed and the channel with one slot, the grace
period, and requests in their handlers. Assumed of `net/http`: once `Shutdown` is
called `ListenAndServe` returns `ErrServerClosed`; `Shutdown` returns nil when no
handler runs and an error when its context ends.

## 3. Runs

| Run | Instance | Shows |
|---|---|---|
| `AuditSink` | three calls: cancellable, not cancellable, not encodable | the sink's safety properties, that it implements `AuditLog`, that every call returns, a stalled writer is reported and an abandoned call never blocks the worker |
| `QueryService` | two requests of five operations (`explain_select` stands for `select`, `list_objects` and `describe_object`, which differ only in answering `not_found`; statistics does that too), global gate 2, binding gate 1, failing audit writer | what clients are told agrees with the log; no token is lost; every accepted request is answered |
| `Discovery` | two requests, readiness checks, two bindings of one datasource, global gate 1, two changes of the server | snapshots agree with observations; ready is fresh; the gates hold |
| `RefusalAudit` | two requests of the four older operations | **expected violation**, see section 6 |
| `MySQLSession` | every method, one after the other, for ever, with the context done at any time | the pool holds only clean connections; reads are pinned; cleanup is bounded, but for one ROLLBACK |
| `KeysetScan` | keys of two columns (descending timestamp, ascending integer), all tables of up to 4 rows, 2 changes, 1 failed page, 8 budgets, limits 1-3; and tables of up to 12 rows under every budget | the scan is ordered, complete, exact, cut late, and ends |
| `RowCollection` | every result set of up to 4 rows of 2-4 bytes and some of 8-12, every budget from 4 to 48 | bytes are exact, `truncated` is true, the prefix is the largest |
| `Policy` | 16 profiles with scalar, grouped and keyset shapes, at and above the parameter limit, with predicates that differ only in representation, patterns in either case, two replacements of the server | published shapes are usable, what is executed is allowed, the early check refuses nothing that a server would grant |
| `SourceText` | a keyset shape with a predicate, requests in both representations | **expected violation**, see section 6 |
| `PolicyAssembly` | 2,416 graphs over two documents, seven sets of budgets, from files that grow by a byte or inline | what loads is the expansion, without cycles or dangling targets; refusals for a cycle, depth or expansion are justified; documents are read whole |
| `PlanAdmission` | merges up to two levels over three indexes (one called `union`), keys one token away from them, four odd names, pairs of tables, 16 controls | admission agrees with the indexes really used, both ways |
| `Shutdown` | three requests that may hang | a signal ends the process, status 0 only when all were answered |

**Bounds.** Two callers fill the sink's slot and worker, the third is then the one
that waits; a torn line needs one event in the writer and one behind it. For the
gates two requests are enough: one that holds both tokens and one that takes the
global one and loses the second step; any number is covered by the proofs. A stale observation needs two requests and two changes of the
server. Pages need a row before, at and behind the cut, and equal and different
values in the first key column; ten rows add a digit to `row_count`. Budgets are
taken byte by byte where the property is about a byte. `MySQLSession` has no
bound: its state is finite and TLC visits all of it. The shapes of `Policy` need
exactly 6 parameters on a later page, and profiles allow 4 to 6; a stale name needs
one replacement of the server and a second one to come back. Graphs of
`PolicyAssembly` have three nodes that refer to each other within and across the
documents, which gives cycles, diamonds (a cached result at two depths), overrides
of overrides, empty overrides and replaced branches; the budgets are chosen around the sizes these
reach, so that each of the errors occurs. The constants `Polled`,
`WriterFails`, `MaxRestarts`, `MaxChanges` and `MaxFailures` switch off parts of
the environment that a run does not ask about; the theorems hold for all values.
`CHECK_DEADLOCK FALSE` is set where the set of calls, requests or changes is finite
and the system stops when they are used up; `MySQLSession` checks deadlock.

**Fairness.** In `AuditSink`, goroutines that can run do run and armed timers fire
(Go's scheduler and runtime timers); nothing is assumed of the writer, of clients
and of new calls. In `QueryService`, a handler's step is fair: audit calls return
because of `EveryCallReturns`, and database calls because each has a context
deadline that is also bound to the socket; neither the audit writer, the servers,
the readiness checks nor the clients are fair. In `KeysetPaging` the handler and
the client that reads its answers are fair, and failures are finitely many. In
`Shutdown` the two goroutines run and the grace period passes; handlers, the
signal and the listener's failure are not fair.

## 4. Proofs

TLAPS checks every theorem for all values of the constants under the named
assumptions of the modules, which TLC evaluates in every run: any finite set of
requests, any gates, any number of bindings, datasources and semantics, any rows,
keys and budgets, any profiles and source graphs. The properties are those that
TLC checks on the instances of section 3; the proofs are by induction over the steps.

*`AuditSinkProofs`*: `TypeSafety`, `AcknowledgedLinesAreDurable`,
`NothingFollowsATornLine`, `EventsAreLoggedOnce`, `FailuresCloseTheSink`,
`LinesFollowCalls`, `SinkImplementsLog`, `RepliesNeverWait`. None of these is inductive alone. The
inductive invariant adds that a reply in a result channel or in the worker's hand
is true of the file (`RepliesAreTrue`), that a torn line stops the worker before
the flag says so (`TornStops`), that an event is in only one of slot, worker and
file (`InOnePlace`), and that calls that returned before another began are not
still queued (`PriorIsAhead`). The refinement then follows step by step.
`RepliesNeverWait` is the safety part of `WorkerNeverBlocks`: when the worker has a
reply, the place for it is empty, because a call is with the worker at most once and
has no result before (`OneReply`).

*`QueryServiceProofs`*: `TypeSafety`, `NoTokenIsLost`, `GatesBoundConcurrency`,
`NoUnauditedExecution`, `NoUnauditedSuccess`, `NoUnauditedDenial`,
`AllowDecisionsArePaired`, `StaleSnapshotsAreDropped`, `ReadinessIsFresh`. The
invariant `ServiceInv` has a part per concern: `LogInv` (the log's own, kept by every
step of the fail-stop log),
`RequestInv` (for each place in a handler, which events were called and what
their calls returned: `Trail`, and which answer is prepared: `Answer`), `GateInv`
(tokens are the cardinalities of their holders), `OrderInv` (a completion is
called only when the decision is in the log), `DiscoveryInv` (snapshots against
observations, and what the running readiness check has seen).

Together the two give the result for the real sink: `QueryService` is stated over
`AuditLog`, and `SinkImplementsLog` says `JSONSink` is one.

*`MySQLSessionProofs`*: `PoolStaysClean`, `ReadsStayPinned`, `CleanupStaysBounded`. That
a pooled connection is clean depends on where a method failed, so the invariant ties
the connection to the deferred calls: `Due` says which are pending at each place of
each method, `Matched` that an open connection has a pinned zone or a deadline exactly
when the call that undoes it is pending, a transaction exactly when such a call or
`database/sql`'s goroutine will end it, and unread rows only while they are being read;
and `Owned` says who ends the
driver's transaction: the method, the deferred `Rollback` or that goroutine, for which
a method with a pinned session waits before its deadline is cleared. Assumed:
only `KindsAssumption`, that the methods are those of the adapter.

*`ResponseSizeProofs`*: what the collectors count with. Sums over finite sets (the
library's `SumFunctionOnSet`) can be taken apart at any element, and `decimalDigits`
satisfies its recursive equation and never decreases. The library's induction
theorems take an operator, which the provers cannot instantiate; `NatInductionBySet`
and `SubsetInductionBySet` take the set of the arguments for which a claim holds
instead, and follow from the existence of least elements. That the recursive
definitions have a solution at all is proved the same way (`SumExists`,
`CountsExists`).

*`RowCollectionProofs`*: `BytesStayExact`, `TruncationStaysTrue`, `PrefixStaysLargest`.
`Accounted` is the invariant of the loop: the counter is the size of the response
with these rows, and a provisional row fills the budget to the byte, so that it has
to go if no row follows. Assumed (`CollectionAssumption`): an encoded row has at
least two bytes, the empty response at least one.

*`KeysetPagingProofs`*: `ScanStaysOrdered`, `ScanStaysComplete`, `AccountingStaysExact`,
`PagesAreCutLate`. First that ORDER BY is a strict total order of the keys
(`OrderIsStrict`, `OrderIsTotal`) and that the nested predicate of
`compileKeysetCursor`, bound to a cursor that went through the client, selects
exactly what follows (`CursorSelectsWhatFollows`, for any number of columns and
directions). The invariant then relates three rounds: `ScanOK` the client's rows and
cursor with the table, `SnapshotOK` the rows the query sees, `CollectionOK` the loop's
counters with the encodings, `PageOK` what the page says of itself. Assumed
(`PagingAssumption`, `NoneIsNoCursor`): finitely many keys, sizes are numbers, and
the byte facts stated with them.

*`PolicyProofs`*: `ExecutedStaysAllowed`, `PrecheckStaysNecessary`. For the first, a
pattern of the validated length matches exactly the names that it should
(`MatchIsNaming`), each authorization that grants has passed its resource and field
checks (`KeysetGranted` ... `SchemaGranted`), and names stay allowed in the canonical
form in which statistics are read (`CanonicalAllowed`); the invariant carries the grant
and the probed semantics from `Authorize` to `Execute`. For the
second, a request that has the signature of a shape under the rules of some server
has it without regard to case too (`SignatureIsLifted`: fields are compared without
case by every server, and schema and object names that are equal under its rule are
equal in lower case), and what the normalized request uses the request uses as it was
written (`NormalizedFeatures`). The latter needs that a sorted group has the predicates of
the group: digests that are numbers put every group in an order (`OrderExists`, by
induction over its length), so that the sorted arrangement which the model chooses
exists. Every request is covered, those a client builds from a published shape
too (`InstanceIsAQuery`). Assumed: patterns are sequences of names, queries and shapes
are what the decoders make (`PatternsAssumption`, `QueriesAssumption`), digests are
numbers (`DigestsAssumption`; that they differ is used by the run and by no proof).
Nothing is assumed of how often the server is replaced.

*`PolicyAssemblyProofs`*: `ReadsStayWhole`, `CyclesStayJustified`, `LoadedStaysGrounded`,
`DepthStaysJustified`, `ExpansionStaysJustified`, and the last four together as
`OutcomesStayJustified`. Each but the last adds an invariant to the one before.

* `Inv`, about the reading: between the first `Stat` and the parse the limit stays within
  both budgets and what was read is a beginning of the file of the length of the limit;
  the second `Stat` then shows that it is all (`FetchOK`). That the calls of `resolve` are
  of nodes of the graph is needed to know that a requested document has a file.
* `WalkInv`, about the calls: the frames of the stack are a path of the graph from the
  root, each of a node that has no result and is not already on the path, and each has
  the results of its first children (`WalkOK`); what is below a result has its result
  too and does not lead back to it (`ResolvedOK`). A cycle that is found closes a path, and the
  set of nodes with results is closed, so that when the root is in it, all that can be
  reached is. Reachability is defined by walks of at most as many steps as the graph has
  nodes; that this is enough is `ReachableClosed`.
* `DepthInv`: the height of a result is one that calls of its node reach in a resolution
  without cache (`Reaches`), and more than the heights of what was assembled below it
  (`HeightsOK`); the root is at least as deep as each call, plus what its node reaches
  (`DepthsOK`). The height of an override is that of what it keeps, some of it from the
  base and some of its own; `OverriddenOrigin` says where each child comes from.
* `ExpansionInv`, for policies within the limit of depth: a result has no more nodes than
  a call of its node is charged with, and neither has what was assembled for it, child by
  child (`ChargesOK`); and there is a ledger of what was charged before each call in
  progress (`SpentOK`): it grows from call to call by no more than the charges of the
  children that have returned, `expandedNodes` is within it and those of the last call,
  and with the charge of the call itself it stays within `FullCharge`. The charges are
  defined level by level; that more levels than a node is deep add nothing is
  `ChargesStable`.

Assumed: budgets and sizes are numbers, graphs are finite and contain the root, an alias
or a reference has one target, and the keys and values of an override come in pairs
(`BudgetsAssumption`, `SizesAssumption`, `GraphsAssumption`). Cycles, dangling targets and
references between any documents are not excluded.

**Only model-checked.** Liveness (`EveryCallReturns`, `StallIsReported`,
`WorkerNeverBlocks`, `EveryRequestAnswered`, `ScanEnds`, `SignalEndsProcess`): fairness
and `ENABLED` are out of the prover's reach. `AssemblyIsExpansion` compares trees of any
depth, which needs an induction over the trees that two recursive definitions build.
`PublishedShapesAreUsable` has two exceptions (section 6), and rests on how
validation, publication and matching treat each field of a shape. `PlanAdmission`'s properties
depend on which keys the server can write, a grammar that its instance gives by
enumeration.

## 5. Not modelled

JSON decoding of requests, portable value syntax, the strict decode of the policy
into its types, field validation outside shapes, HTTP routing and error mapping,
authentication, statistics validation, the size bounds of schema lists and of
audit events, and the byte bound of a continuation request
(`keysetContinuationRequestFits`) are pure functions of one request or of the
startup files, without state or order; most are about text. SQL text, character
sets, the MySQL protocol and the YAML parser are out of scope (text, vendored
code). The gateway keeps nothing across a restart but the log it appends to, so
there is no recovery to model. `Shutdown` is not composed with the sink: a handler
that is cut at the end of the grace period may leave an allow line unpaired, and
the process then reports failure.

## 6. Findings

`docs/security-model.md:390-392` says that a request refused by an exhausted
capacity after its allow decision has a paired `query_completion` event with
`error_kind: capacity`. `Explain`, `Select`, `ListObjects` and `DescribeObject` return
the capacity error without writing it; the other four operations write it. The run
`RefusalAudit` shows an allow line that stays unpaired; `AllowIsPaired` states, and
`AllowDecisionsArePaired` proves, exactly what does hold.

`docs/policy-configuration.md:785` says that the representation takes part in shape
matching. `queryKeysetShapeFilter` (`internal/policy/keyset.go:284-305`) drops it from
the predicates of a keyset request, while the configured shape keeps it. The run
`SourceText` grants a request whose predicate compares the source text against a
shape whose predicate does not; for the same reason a keyset shape with a
`source_text` predicate matches no request.

The representation is lost in a second place. Two predicates of a shape that differ
only in representation pass the validation of the configuration
(`internal/config/config.go:1160-1171`) and are published, but
`exactAggregateFilterDigest` (`internal/queryspec/aggregate.go:634-646`) leaves it out, so
that a request with equal values in the two is refused as having duplicates. No
document promises otherwise; `PublishedShapesAreUsable` names both cases, the run
`Policy` has a profile that reaches them, and requests with different values in the
two predicates are shown to be granted.

`docs/operations.md:201-202` says that the operation's deadline, which is bound to
the connection, also bounds `Commit` and `Rollback`, which take no context. In `Explain`
and `Select` it does not bound every ROLLBACK. When the request's context is done
`database/sql`'s goroutine may claim the transaction first; the deferred `tx.Rollback`
then returns at once, the deferred `clearDeadline` removes the deadline, and the
ROLLBACK is sent afterwards, while `conn.Close` waits for it: unless the DSN sets a
`readTimeout`, a server that does not answer holds the handler and its capacity.
`CleanupIsBounded` names the case, and the run `MySQLSession` reaches it: a query is
rejected, `ContextDone`, `TxAwaitDone`, `UnwindTransaction` returns at once,
`UnwindDeadline`, `TxRollback`. `CleanupStaysBounded` proves that it is the only one: it
does not occur with a pinned session, nor while the context is not done. The connection
is never pooled before the ROLLBACK has ended (`PooledIsClean`).

## 7. Plan

1. Done: all modules of section 2, and the proofs of section 4.
2. Proofs left: `PublishedShapesAreUsable`; that admission implies the marks and estimates of a plan; that the
   counts of a loaded policy (`result.nodes`, `result.size`) are those of its expansion.
3. Statistics validation, schema list bounds, and the bound of a continuation
   request, if a use for them beyond arithmetic is found.
