---------------------------- MODULE QueryService ----------------------------
(***************************************************************************)
(* queryservice.Service: every HTTP request runs one operation handler in  *)
(* its own goroutine.  The handlers share the audit sink (AuditLog, whose  *)
(* actions this module composes with its own), the global and per-binding  *)
(* capacity gates, and the query-shape snapshots, which a request deletes  *)
(* when it observes that the database server's identifier semantics are    *)
(* not the ones the snapshot was built for.  The database, the readiness   *)
(* endpoint and the clients are the environment.                           *)
(***************************************************************************)
EXTENDS AuditLog, FiniteSets

CONSTANTS
  Requests,       \* the requests the server receives
  Operations,     \* the operations they ask for
  Bindings,       \* the configured (profile, datasource) pairs
  Datasources,
  DatasourceOf,   \* DatasourceOf[b]: the datasource of a binding
  Required,       \* the discovery bindings that readiness depends on
  Semantics,      \* identifier semantics a server can report
  GlobalLimit,    \* hard_limits.max_concurrency
  BindingLimit,   \* BindingLimit[b]: effective max_concurrency of a binding
  Polled,         \* bound: whether anybody polls the readiness endpoint
  WriterFails,    \* bound: whether the audit writer can fail or tear a line
  MaxRestarts     \* bound: how often the servers change their semantics

VARIABLES
  pc,          \* pc[r]: where the handler of r is
  op,          \* op[r]: the operation r asks for
  binding,     \* binding[r]: the binding r names
  authorized,  \* authorized[r]: the semantics r was authorized under
  outcome,     \* outcome[r]: what the completion event of r says
  response,    \* response[r]: what the handler of r returns once it is done
  entered,     \* the requests that passed both gates and reached the database
  global,      \* len(s.globalCapacity)
  gate,        \* gate[b]: len(s.bindingCapacity[b])
  snapshots,   \* s.queryShapes: the semantics a snapshot was built for, or None
  serving,     \* the HTTP listener is open
  health,      \* the readiness check: what it does and has seen
  server,      \* server[d]: the semantics of the database server now
  restarts,    \* how often the servers changed
  observed     \* history: observed[d], the semantics seen since startup

requestVars == <<pc, op, binding, authorized, outcome, response, entered>>
gateVars == <<global, gate>>
worldVars == <<snapshots, serving, health, server, restarts, observed>>
vars == <<logVars, requestVars, gateVars, worldVars>>

AllOperations == {"list_objects", "describe_object", "explain_select", "select",
                  "select_keyset", "aggregate", "list_query_shapes",
                  "describe_object_statistics"}
EventKinds == {"allow", "deny", "completion"}

ASSUME ServiceAssumption ==
  /\ IsFiniteSet(Requests)
  /\ Operations \subseteq AllOperations
  /\ DatasourceOf \in [Bindings -> Datasources]
  /\ Required \subseteq Bindings
  /\ GlobalLimit \in Nat
  /\ BindingLimit \in [Bindings -> Nat]
  /\ Polled \in BOOLEAN /\ WriterFails \in BOOLEAN
  /\ MaxRestarts \in Nat
  /\ None \notin Semantics
  /\ Events = Requests \X EventKinds
  /\ Cancellable = Requests \X {"allow"}

-----------------------------------------------------------------------------
(* How the handlers differ.  "probes": the operation asks the datasource   *)
(* for its semantics before it is authorized; "envelope": where the size   *)
(* of an empty response is checked; "refusal": what follows a full gate    *)
(* after the allow decision; "recheck": the adapter compares the semantics *)
(* of its own connection with the authorized ones; "fails": authorization  *)
(* can fail other than by a denial; "denial": how a policy denial after    *)
(* the probe is answered; "failure": how a failed database call is: a      *)
(* missing object is answered like one the policy hides.                   *)

ExplainFlow ==
  [probes |-> TRUE, envelope |-> "none", refusal |-> "silent",
   recheck |-> FALSE, fails |-> FALSE, denial |-> {"denied"},
   failure |-> {"error"}]
SelectFlow ==
  [probes |-> TRUE, envelope |-> "none", refusal |-> "silent",
   recheck |-> FALSE, fails |-> FALSE, denial |-> {"denied"},
   failure |-> {"error"}]
ListObjectsFlow ==
  [probes |-> TRUE, envelope |-> "none", refusal |-> "silent",
   recheck |-> FALSE, fails |-> FALSE, denial |-> {"not_found"},
   failure |-> {"error"}]
DescribeObjectFlow ==
  [probes |-> TRUE, envelope |-> "none", refusal |-> "silent",
   recheck |-> FALSE, fails |-> FALSE, denial |-> {"not_found"},
   failure |-> {"error", "not_found"}]
AggregateFlow ==
  [probes |-> TRUE, envelope |-> "after_allow", refusal |-> "completed",
   recheck |-> FALSE, fails |-> TRUE, denial |-> {"denied"},
   failure |-> {"error"}]
SelectKeysetFlow ==
  [probes |-> TRUE, envelope |-> "before_probe", refusal |-> "completed",
   recheck |-> TRUE, fails |-> TRUE, denial |-> {"denied"},
   failure |-> {"error"}]
DescribeObjectStatisticsFlow ==
  [probes |-> TRUE, envelope |-> "after_allow", refusal |-> "completed",
   recheck |-> TRUE, fails |-> FALSE, denial |-> {"denied", "not_found"},
   failure |-> {"error", "not_found"}]
ListQueryShapesFlow ==
  [probes |-> FALSE, envelope |-> "none", refusal |-> "completed",
   recheck |-> FALSE, fails |-> TRUE, denial |-> {},
   failure |-> {"error"}]

Flow ==
  [o \in AllOperations |->
     CASE o = "explain_select" -> ExplainFlow
       [] o = "select" -> SelectFlow
       [] o = "list_objects" -> ListObjectsFlow
       [] o = "describe_object" -> DescribeObjectFlow
       [] o = "aggregate" -> AggregateFlow
       [] o = "select_keyset" -> SelectKeysetFlow
       [] o = "describe_object_statistics" -> DescribeObjectStatisticsFlow
       [] o = "list_query_shapes" -> ListQueryShapesFlow]

-----------------------------------------------------------------------------
HandlerStates == {"new", "prechecks", "probe", "observe", "lookup", "denying",
                  "deciding", "admitted", "gating", "executing", "completing",
                  "releasing", "done"}
Outcomes == {"none", "success", "error", "capacity", "not_implemented"}
Responses == {"none", "success", "invalid", "denied", "not_found", "not_implemented",
              "capacity", "error", "service_unavailable"}

\* The handlers that hold a token of the global gate, and of a binding's gate.
HoldsGlobal(r) == pc[r] \in {"gating", "executing", "releasing"}
                  \/ (pc[r] = "completing" /\ r \in entered)
HoldsBinding(r) == HoldsGlobal(r) /\ pc[r] # "gating"
GlobalHolders == {r \in Requests : HoldsGlobal(r)}
BindingHolders(b) == {r \in Requests : binding[r] = b /\ HoldsBinding(r)}

TypeOK ==
  /\ LogTypeOK
  /\ pc \in [Requests -> HandlerStates]
  /\ op \in [Requests -> Operations \cup {None}]
  /\ binding \in [Requests -> Bindings \cup {None}]
  /\ authorized \in [Requests -> Semantics \cup {None}]
  /\ outcome \in [Requests -> Outcomes]
  /\ response \in [Requests -> Responses]
  /\ entered \in SUBSET Requests
  /\ global \in Nat
  /\ gate \in [Bindings -> Nat]
  /\ snapshots \in [Bindings -> Semantics \cup {None}]
  /\ serving \in BOOLEAN
  /\ health \in [at : {"idle", "probing", "probed"}, left : SUBSET Datasources,
                 now : Datasources \cup {None},
                 seen : [Datasources -> Semantics \cup {None}], ready : BOOLEAN]
  /\ server \in [Datasources -> Semantics]
  /\ restarts \in 0..MaxRestarts
  /\ observed \in [Datasources -> SUBSET Semantics]

NothingSeen == [d \in Datasources |-> None]

Init ==
  /\ LogInit
  /\ pc = [r \in Requests |-> "new"]
  /\ op = [r \in Requests |-> None]
  /\ binding = [r \in Requests |-> None]
  /\ authorized = [r \in Requests |-> None]
  /\ outcome = [r \in Requests |-> "none"]
  /\ response = [r \in Requests |-> "none"]
  /\ entered = {}
  /\ global = 0
  /\ gate = [b \in Bindings |-> 0]
  /\ snapshots = [b \in Bindings |-> None]
  /\ serving = FALSE
  /\ health = [at |-> "idle", left |-> {}, now |-> None, seen |-> NothingSeen, ready |-> FALSE]
  /\ server \in [Datasources -> Semantics]
  /\ restarts = 0
  /\ observed = [d \in Datasources |-> {}]

-----------------------------------------------------------------------------
(* Startup and shared state. *)

\* InitializeQueryShapeDiscovery, before the listener opens: one probe per
\* datasource; a failed probe leaves its snapshots unpublished until restart.
InitializeQueryShapeDiscovery ==
  /\ ~serving
  /\ serving' = TRUE
  /\ \E reachable \in SUBSET Datasources :
       /\ snapshots' = [b \in Bindings |-> IF DatasourceOf[b] \in reachable
                                           THEN server[DatasourceOf[b]] ELSE None]
       /\ observed' = [d \in Datasources |-> IF d \in reachable THEN {server[d]} ELSE {}]
  /\ UNCHANGED <<logVars, requestVars, gateVars, health, server, restarts>>

\* Variant: the answer is noted and the snapshots stay published.
ObserveOnly(d, s) ==
  /\ observed' = [observed EXCEPT ![d] = @ \cup {s}]
  /\ UNCHANGED snapshots

\* observeIdentifierSemantics, under discoveryMu: every snapshot of the
\* datasource that was built for other semantics is deleted.
ObserveIdentifierSemantics(d, s) ==
  /\ snapshots' = [b \in Bindings |->
                     IF DatasourceOf[b] = d /\ snapshots[b] # s THEN None ELSE snapshots[b]]
  /\ observed' = [observed EXCEPT ![d] = @ \cup {s}]

\* Environment: a database server comes back with other semantics.
ServerChanges(d) ==
  /\ restarts < MaxRestarts
  /\ restarts' = restarts + 1
  /\ \E s \in Semantics \ {server[d]} : server' = [server EXCEPT ![d] = s]
  /\ UNCHANGED <<logVars, requestVars, gateVars, snapshots, serving, health, observed>>

-----------------------------------------------------------------------------
(* One request. *)

Goto(r, state) == pc' = [pc EXCEPT ![r] = state]
Respond(r, answer) == response' = [response EXCEPT ![r] = answer]

\* The handler starts a completion event that says o, and will answer with a.
StartCompletion(r, o, a) ==
  /\ Goto(r, "completing")
  /\ outcome' = [outcome EXCEPT ![r] = o]
  /\ Respond(r, a)
  /\ Call(<<r, "completion">>)

\* writeDenial, and the answer that follows it.
StartDenial(r, a) ==
  /\ Goto(r, "denying")
  /\ Respond(r, a)
  /\ Call(<<r, "deny">>)
  /\ UNCHANGED outcome

StartAllow(r) ==
  /\ Goto(r, "deciding")
  /\ Call(<<r, "allow">>)
  /\ UNCHANGED <<outcome, response>>

Arrive(r) ==
  /\ serving
  /\ pc[r] = "new"
  /\ Goto(r, "prechecks")
  /\ \E o \in Operations, b \in Bindings :
       /\ op' = [op EXCEPT ![r] = o]
       /\ binding' = [binding EXCEPT ![r] = b]
  /\ UNCHANGED <<logVars, authorized, outcome, response, entered, gateVars, worldVars>>

\* Everything before the first datasource call: shape and size of the
\* request, the principal's assignment, feature policy, adapter capability,
\* and for keyset requests the size of an empty page.
Prechecks(r) ==
  /\ pc[r] = "prechecks"
  /\ \/ /\ Goto(r, "done")
        /\ Respond(r, "invalid")
        /\ UNCHANGED <<outcome, logVars>>
     \/ StartDenial(r, "denied")
     \/ StartCompletion(r, "not_implemented", "not_implemented")
     \/ /\ Flow[op[r]].envelope = "before_probe"
        /\ StartCompletion(r, "error", "error")
     \/ /\ Goto(r, IF Flow[op[r]].probes THEN "probe" ELSE "lookup")
        /\ UNCHANGED <<outcome, response, logVars>>
  /\ UNCHANGED <<op, binding, authorized, entered, gateVars, worldVars>>

\* databases.IdentifierSemantics: the answer is of the moment it was read.
Probe(r) ==
  /\ pc[r] = "probe"
  /\ \/ /\ Goto(r, "observe")
        /\ authorized' = [authorized EXCEPT ![r] = server[DatasourceOf[binding[r]]]]
        /\ UNCHANGED <<outcome, response, logVars>>
     \/ /\ StartCompletion(r, "error", "error")
        /\ UNCHANGED authorized
  /\ UNCHANGED <<op, binding, entered, gateVars, worldVars>>

\* The probe's answer is applied to the snapshots, then the request is
\* authorized under it: denied, rejected or allowed.
Authorize(r) ==
  /\ pc[r] = "observe"
  /\ ObserveIdentifierSemantics(DatasourceOf[binding[r]], authorized[r])
  /\ \/ \E a \in Flow[op[r]].denial : StartDenial(r, a)
     \/ /\ Flow[op[r]].fails
        /\ StartCompletion(r, "error", "error")
     \/ StartAllow(r)
  /\ UNCHANGED <<op, binding, authorized, entered, gateVars, serving, health, server, restarts>>

\* ListQueryShapes takes its token from the snapshot under the read lock.
Lookup(r) ==
  /\ pc[r] = "lookup"
  /\ \/ /\ snapshots[binding[r]] = None
        /\ StartCompletion(r, "error", "service_unavailable")
        /\ UNCHANGED authorized
     \/ /\ snapshots[binding[r]] # None
        /\ StartCompletion(r, "error", "error")
        /\ UNCHANGED authorized
     \/ /\ snapshots[binding[r]] # None
        /\ authorized' = [authorized EXCEPT ![r] = snapshots[binding[r]]]
        /\ StartAllow(r)
  /\ UNCHANGED <<op, binding, entered, gateVars, worldVars>>

\* Variant: a failed decision event does not stop the request.
DecidedIgnoresError(r) ==
  /\ pc[r] = "deciding"
  /\ Ack(<<r, "allow">>) \/ Fail(<<r, "allow">>)
  /\ Goto(r, "admitted")
  /\ UNCHANGED <<op, binding, authorized, outcome, response, entered, gateVars, worldVars>>

\* Variant: the decision waits for its line, without a timeout.
DecidedWaits(r) ==
  /\ pc[r] = "deciding"
  /\ Ack(<<r, "allow">>)
  /\ Goto(r, "admitted")
  /\ UNCHANGED <<op, binding, authorized, outcome, response, entered, gateVars, worldVars>>

\* The allow decision is in the log, or the request ends here.
Decided(r) ==
  /\ pc[r] = "deciding"
  /\ \/ /\ Ack(<<r, "allow">>)
        /\ Goto(r, "admitted")
        /\ UNCHANGED response
     \/ /\ Fail(<<r, "allow">>)
        /\ Goto(r, "done")
        /\ Respond(r, "service_unavailable")
  /\ UNCHANGED <<op, binding, authorized, outcome, entered, gateVars, worldVars>>

\* Variant: the denial is answered although its event failed.
DeniedIgnoresError(r) ==
  /\ pc[r] = "denying"
  /\ Ack(<<r, "deny">>) \/ Fail(<<r, "deny">>)
  /\ Goto(r, "done")
  /\ UNCHANGED <<op, binding, authorized, outcome, response, entered, gateVars, worldVars>>

Denied(r) ==
  /\ pc[r] = "denying"
  /\ \/ /\ Ack(<<r, "deny">>)
        /\ UNCHANGED response
     \/ /\ Fail(<<r, "deny">>)
        /\ Respond(r, "service_unavailable")
  /\ Goto(r, "done")
  /\ UNCHANGED <<op, binding, authorized, outcome, entered, gateVars, worldVars>>

\* Variant: no handler writes a completion event for a full gate.
RefuseSilently(r) ==
  /\ Goto(r, "done")
  /\ Respond(r, "capacity")
  /\ UNCHANGED <<outcome, logVars>>

\* A full gate after the allow decision: some handlers write a completion
\* event, the others answer at once.
Refuse(r) ==
  \/ /\ Flow[op[r]].refusal = "completed"
     /\ StartCompletion(r, "capacity", "capacity")
  \/ /\ Flow[op[r]].refusal = "silent"
     /\ Goto(r, "done")
     /\ Respond(r, "capacity")
     /\ UNCHANGED <<outcome, logVars>>

\* Variant: the gate is one larger than the limit.
AcquireGlobalOffByOne(r) ==
  /\ pc[r] = "admitted"
  /\ \/ /\ global <= GlobalLimit
        /\ global' = global + 1
        /\ Goto(r, "gating")
        /\ UNCHANGED <<outcome, response, logVars>>
     \/ /\ global > GlobalLimit
        /\ Refuse(r)
        /\ UNCHANGED global
  /\ UNCHANGED <<op, binding, authorized, entered, gate, worldVars>>

\* acquireCapacity, first half: a token of the global gate, without waiting.
\* Aggregate and statistics check their empty response just before it.
AcquireGlobal(r) ==
  /\ pc[r] = "admitted"
  /\ \/ /\ Flow[op[r]].envelope = "after_allow"
        /\ StartCompletion(r, "error", "error")
        /\ UNCHANGED global
     \/ /\ global < GlobalLimit
        /\ global' = global + 1
        /\ Goto(r, "gating")
        /\ UNCHANGED <<outcome, response, logVars>>
     \/ /\ global >= GlobalLimit
        /\ Refuse(r)
        /\ UNCHANGED global
  /\ UNCHANGED <<op, binding, authorized, entered, gate, worldVars>>

\* Variant: a full binding gate keeps the global token.
AcquireBindingLeaks(r) ==
  /\ pc[r] = "gating"
  /\ \/ /\ gate[binding[r]] < BindingLimit[binding[r]]
        /\ gate' = [gate EXCEPT ![binding[r]] = @ + 1]
        /\ Goto(r, "executing")
        /\ entered' = entered \cup {r}
        /\ UNCHANGED <<outcome, response, logVars>>
     \/ /\ gate[binding[r]] >= BindingLimit[binding[r]]
        /\ Refuse(r)
        /\ UNCHANGED <<gate, entered>>
  /\ UNCHANGED <<op, binding, authorized, global, worldVars>>

\* acquireCapacity, second half: a token of the binding's gate, or the global
\* token is given back.
AcquireBinding(r) ==
  /\ pc[r] = "gating"
  /\ \/ /\ gate[binding[r]] < BindingLimit[binding[r]]
        /\ gate' = [gate EXCEPT ![binding[r]] = @ + 1]
        /\ Goto(r, "executing")
        /\ entered' = entered \cup {r}
        /\ UNCHANGED <<global, outcome, response, logVars>>
     \/ /\ gate[binding[r]] >= BindingLimit[binding[r]]
        /\ global' = global - 1
        /\ Refuse(r)
        /\ UNCHANGED <<gate, entered>>
  /\ UNCHANGED <<op, binding, authorized, worldVars>>

\* The manager's call returns (ListQueryShapes: the payload is built from the
\* token).  An adapter that rechecks the semantics fails when they differ;
\* any call can fail or exceed the deadline.
Execute(r) ==
  /\ pc[r] = "executing"
  /\ \/ /\ Flow[op[r]].recheck => server[DatasourceOf[binding[r]]] = authorized[r]
        /\ StartCompletion(r, "success", "success")
     \/ \E a \in Flow[op[r]].failure : StartCompletion(r, "error", a)
  /\ UNCHANGED <<op, binding, authorized, entered, gateVars, worldVars>>

\* Variant: the result is returned although its event failed.
CompletedIgnoresError(r) ==
  /\ pc[r] = "completing"
  /\ Ack(<<r, "completion">>) \/ Fail(<<r, "completion">>)
  /\ Goto(r, IF r \in entered THEN "releasing" ELSE "done")
  /\ UNCHANGED <<op, binding, authorized, outcome, response, entered, gateVars, worldVars>>

\* The completion event is written, or no result is returned.  The tokens are
\* still held: they are returned by a deferred call.
Completed(r) ==
  /\ pc[r] = "completing"
  /\ \/ /\ Ack(<<r, "completion">>)
        /\ UNCHANGED response
     \/ /\ Fail(<<r, "completion">>)
        /\ Respond(r, "service_unavailable")
  /\ Goto(r, IF r \in entered THEN "releasing" ELSE "done")
  /\ UNCHANGED <<op, binding, authorized, outcome, entered, gateVars, worldVars>>

\* Variant: the global token is released once more.
ReleaseTwice(r) ==
  /\ pc[r] = "releasing"
  /\ gate' = [gate EXCEPT ![binding[r]] = @ - 1]
  /\ global' = global - 2
  /\ Goto(r, "done")
  /\ UNCHANGED <<logVars, op, binding, authorized, outcome, response, entered, worldVars>>

\* The deferred release: the binding's token, then the global one.
Release(r) ==
  /\ pc[r] = "releasing"
  /\ gate' = [gate EXCEPT ![binding[r]] = @ - 1]
  /\ global' = global - 1
  /\ Goto(r, "done")
  /\ UNCHANGED <<logVars, op, binding, authorized, outcome, response, entered, worldVars>>

-----------------------------------------------------------------------------
(* Ready: the audit sink, the databases, a fresh probe of every datasource *)
(* a required snapshot depends on, then the snapshots themselves.          *)

ReadyStart ==
  /\ Polled /\ serving /\ health.at = "idle"
  /\ \/ /\ open
        /\ health' = [at |-> "probing", left |-> {DatasourceOf[b] : b \in Required},
                      now |-> None, seen |-> NothingSeen, ready |-> FALSE]
     \/ health' = [health EXCEPT !.ready = FALSE]
  /\ UNCHANGED <<logVars, requestVars, gateVars, snapshots, serving, server, restarts, observed>>

ReadyProbe(d) ==
  /\ health.at = "probing" /\ d \in health.left
  /\ \/ health' = [health EXCEPT !.at = "probed", !.now = d, !.seen[d] = server[d]]
     \/ health' = [health EXCEPT !.at = "idle"]
  /\ UNCHANGED <<logVars, requestVars, gateVars, snapshots, serving, server, restarts, observed>>

\* Variant: readiness probes the datasource and drops the answer.
ReadyObserveDrops ==
  /\ health.at = "probed"
  /\ health' = [health EXCEPT !.at = "probing", !.left = @ \ {health.now}]
  /\ UNCHANGED <<logVars, requestVars, gateVars, snapshots, serving, server, restarts, observed>>

ReadyObserve ==
  /\ health.at = "probed"
  /\ ObserveIdentifierSemantics(health.now, health.seen[health.now])
  /\ health' = [health EXCEPT !.at = "probing", !.left = @ \ {health.now}]
  /\ UNCHANGED <<logVars, requestVars, gateVars, serving, server, restarts>>

ReadyFinish ==
  /\ health.at = "probing" /\ health.left = {}
  /\ health' = [health EXCEPT !.at = "idle",
                              !.ready = \A b \in Required : snapshots[b] # None]
  /\ UNCHANGED <<logVars, requestVars, gateVars, snapshots, serving, server, restarts, observed>>

Ready ==
  \/ ReadyStart
  \/ \E d \in Datasources : ReadyProbe(d)
  \/ ReadyObserve
  \/ ReadyFinish

-----------------------------------------------------------------------------
Handler(r) ==
  \/ Prechecks(r)
  \/ Probe(r)
  \/ Authorize(r)
  \/ Lookup(r)
  \/ Decided(r)
  \/ Denied(r)
  \/ AcquireGlobal(r)
  \/ AcquireBinding(r)
  \/ Execute(r)
  \/ Completed(r)
  \/ Release(r)

\* The sink's own steps: lines are written one at a time and may fail.
Sink ==
  /\ \E e \in Events : 
       \/ BeginLine(e)
       \/ EndLine(e)
       \/ WriterFails /\ FailLine(e)
  /\ UNCHANGED <<requestVars, gateVars, worldVars>>

Next ==
  \/ InitializeQueryShapeDiscovery
  \/ \E r \in Requests : Arrive(r)
  \/ \E r \in Requests : Handler(r)
  \/ Sink
  \/ Ready
  \/ \E d \in Datasources : ServerChanges(d)

Spec == Init /\ [][Next]_vars

\* A handler goroutine is scheduled; audit writes return (AuditSink) and
\* database calls end by their deadline.  Clients, servers, readiness checks
\* and the audit writer are not fair.
FairSpec == Spec /\ \A r \in Requests : WF_vars(Handler(r))

-----------------------------------------------------------------------------
(* Properties. *)

Done(r, answers) == pc[r] = "done" /\ response[r] \in answers

Before(e, f) ==
  \E i, j \in 1..Len(log) : i < j /\ log[i].event = e /\ log[j].event = f

\* Every token in the two gates belongs to a handler that will give it back,
\* also after a failed second acquire or a failed completion event.
TokensMatchHolders ==
  /\ global = Cardinality(GlobalHolders)
  /\ \A b \in Bindings : gate[b] = Cardinality(BindingHolders(b))

\* Never more database operations at once than the hard limit, nor per
\* binding than its effective max_concurrency.
ConcurrencyBounded ==
  /\ Cardinality(GlobalHolders) <= GlobalLimit
  /\ \A b \in Bindings : Cardinality(BindingHolders(b)) <= BindingLimit[b]

\* The database is reached only by a request whose allow decision is a whole
\* line of the log and that was never denied.
AuditedBeforeExecution ==
  \A r \in entered : Durable(<<r, "allow">>) /\ ~Logged(<<r, "deny">>)

\* A result is returned only when the log has the decision and, behind it,
\* the completion, and the completion says success.
SuccessIsAudited ==
  \A r \in Requests :
    Done(r, {"success"}) =>
      /\ Durable(<<r, "allow">>) /\ Durable(<<r, "completion">>)
      /\ Before(<<r, "allow">>, <<r, "completion">>)
      /\ outcome[r] = "success" /\ r \in entered

\* A client that is told of a denial has its denial in the log, never passed
\* a gate and was never allowed.  "Not found" is either such a denial or the
\* audited answer of the database, and the client cannot tell which.
DenialIsAudited ==
  \A r \in Requests :
    Done(r, {"denied", "not_found"}) =>
      \/ Durable(<<r, "deny">>) /\ ~Logged(<<r, "allow">>) /\ r \notin entered
      \/ /\ response[r] = "not_found" /\ r \in entered /\ outcome[r] = "error"
         /\ Durable(<<r, "allow">>) /\ Durable(<<r, "completion">>)

\* An allow decision in the log of a finished request has a completion beside
\* it, unless the audit failed (the answer is service_unavailable) or the
\* handler is one of those that answer a full gate at once.
AllowIsPaired ==
  \A r \in Requests :
    pc[r] = "done" /\ Durable(<<r, "allow">>) =>
      \/ Durable(<<r, "completion">>)
      \/ response[r] = "service_unavailable"
      \/ response[r] = "capacity" /\ Flow[op[r]].refusal = "silent"

\* A published snapshot agrees with every observation of its datasource since
\* startup, by any request of any binding and by readiness checks.
SnapshotsAgree ==
  \A b \in Bindings :
    snapshots[b] # None => observed[DatasourceOf[b]] \subseteq {snapshots[b]}

\* When readiness answers ready, every required snapshot is for the semantics
\* this very check has just read from its datasource.
ReadyIsFresh ==
  [][health.at = "probing" /\ health'.ready
       => \A b \in Required : snapshots[b] = health.seen[DatasourceOf[b]]]_vars

\* Every request the server accepts is answered, whatever the audit sink, the
\* gates and the databases do.
EveryRequestAnswered ==
  \A r \in Requests : pc[r] = "prechecks" ~> pc[r] = "done"

\* docs/security-model.md: a request refused by a full gate after its allow
\* decision has a paired completion event with error_kind capacity.
RefusalIsCompleted ==
  \A r \in Requests : Done(r, {"capacity"}) => Durable(<<r, "completion">>)
=============================================================================
