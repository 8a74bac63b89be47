------------------------- MODULE QueryServiceProofs -------------------------
(***************************************************************************)
(* The audit, capacity and snapshot properties of the query service, for   *)
(* any number of requests, bindings, datasources and server changes.       *)
(***************************************************************************)
EXTENDS QueryService, SequenceTheorems, FiniteSetTheorems, TLAPS

-----------------------------------------------------------------------------
(* What every user of the fail-stop log can rely on: lines are never lost,   *)
(* an acknowledged event is durable, an event nobody wrote is not logged.    *)

LogInv ==
  /\ LogTypeOK
  /\ \A e \in Events : status[e] = "acked" => Durable(e)
  /\ \A e \in Events : Logged(e) \/ writing = e => status[e] # "idle"

(* A line that is added is the last one and leaves the others in place. *)
LEMMA AddedLine ==
  ASSUME LogTypeOK, NEW e \in Events, NEW w \in BOOLEAN,
         log' = Append(log, [event |-> e, whole |-> w])
  PROVE  /\ log' \in Seq(Line)
         /\ Len(log) \in Nat /\ Len(log') = Len(log) + 1
         /\ \A i \in 1..Len(log) : i \in 1..Len(log') /\ log'[i] = log[i]
         /\ \A i \in 1..Len(log') : i \in 1..Len(log) \/ i = Len(log) + 1
         /\ log'[Len(log) + 1].event = e
         /\ log'[Len(log) + 1].whole = w
<1> DEFINE l == [event |-> e, whole |-> w]
<1>1. l \in Line /\ log \in Seq(Line)
  BY DEF Line, LogTypeOK
<1>2. /\ Append(log, l) \in Seq(Line)
      /\ Len(log) \in Nat
      /\ Len(Append(log, l)) = Len(log) + 1
      /\ \A i \in 1..Len(log) : Append(log, l)[i] = log[i]
      /\ Append(log, l)[Len(log) + 1] = l
  BY <1>1, AppendProperties, LenProperties
<1> QED
  BY <1>2

(* Calls and answers leave the file alone; the writer adds at most one line, *)
(* of the event it was writing.                                              *)
LEMMA LogGrows ==
  ASSUME LogTypeOK, [LogNext]_logVars
  PROVE  /\ \A e \in Events : Durable(e) => Durable(e)'
         /\ \A e \in Events : Logged(e)' => Logged(e) \/ writing = e
         /\ log' \in Seq(Line)
<1>1. CASE log' = log
  BY <1>1 DEF Durable, Logged, LogTypeOK
<1>2. ASSUME NEW e \in Events, NEW w \in BOOLEAN, writing = e,
             log' = Append(log, [event |-> e, whole |-> w])
      PROVE  /\ \A f \in Events : Durable(f) => Durable(f)'
             /\ \A f \in Events : Logged(f)' => Logged(f) \/ writing = f
             /\ log' \in Seq(Line)
  <2>1. \A f \in Events : Durable(f) => Durable(f)'
    BY <1>2, AddedLine DEF Durable
  <2>2. \A f \in Events : Logged(f)' => Logged(f) \/ writing = f
    BY <1>2, AddedLine DEF Logged
  <2> QED
    BY <1>2, <2>1, <2>2, AddedLine
<1>3. \/ log' = log
      \/ \E e \in Events : \E w \in BOOLEAN :
           writing = e /\ log' = Append(log, [event |-> e, whole |-> w])
  BY DEF LogNext, logVars, Call, BeginLine, EndLine, FailLine, Ack, Fail
<1> QED
  BY <1>1, <1>2, <1>3

(* An acknowledged event stays in the file, and an event that nobody wrote   *)
(* never reaches it: the two facts the audit properties rest on.             *)
LEMMA LogInvStep == LogInv /\ [LogNext]_logVars => LogInv'
<1> SUFFICES ASSUME LogInv, [LogNext]_logVars PROVE LogInv'
  OBVIOUS
<1> USE LogAssumption DEF LogInv
<1>1. /\ \A e \in Events : Durable(e) => Durable(e)'
      /\ \A e \in Events : Logged(e)' => Logged(e) \/ writing = e
      /\ log' \in Seq(Line)
  BY LogGrows
<1>2. LogTypeOK'
  <2>1. open' \in BOOLEAN /\ writing' \in Events \cup {None}
    BY DEF LogTypeOK, LogNext, logVars, Call, BeginLine, EndLine, FailLine, Ack, Fail
  <2>2. status' \in [Events -> {"idle", "pending", "acked", "failed"}]
    BY DEF LogTypeOK, LogNext, logVars, Call, BeginLine, EndLine, FailLine, Ack, Fail
  <2> QED
    BY <1>1, <2>1, <2>2 DEF LogTypeOK
<1>3. \A e \in Events : status'[e] = "acked" => status[e] = "acked" \/ Durable(e)
  BY DEF LogTypeOK, LogNext, logVars, Call, BeginLine, EndLine, FailLine, Ack, Fail
<1>4. \A e \in Events : status[e] # "idle" => status'[e] # "idle"
  BY DEF LogTypeOK, LogNext, logVars, Call, BeginLine, EndLine, FailLine, Ack, Fail
<1>5. \A e \in Events : writing' = e => status[e] # "idle"
  BY DEF LogTypeOK, LogNext, logVars, Call, BeginLine, EndLine, FailLine, Ack, Fail
<1> QED
  BY <1>1, <1>2, <1>3, <1>4, <1>5

(* An empty file and no calls. *)
LEMMA LogInvInit == LogInit => LogInv
  BY LogAssumption DEF LogInit, LogInv, LogTypeOK, Logged, Durable

-----------------------------------------------------------------------------
(* Every step of the service is a step of the log or leaves it alone. *)

(* Every request has one event of each kind. *)
LEMMA EventOfRequest ==
  ASSUME NEW r \in Requests, NEW k \in EventKinds
  PROVE  <<r, k>> \in Events
  BY ServiceAssumption

(* A handler calls Write, hears of its end, or leaves the log alone. *)
LEMMA HandlerLog ==
  ASSUME NEW r \in Requests, Handler(r)
  PROVE  [LogNext]_logVars
<1>1. \A k \in EventKinds : <<r, k>> \in Events
  BY EventOfRequest
<1>2. "allow" \in EventKinds /\ "deny" \in EventKinds /\ "completion" \in EventKinds
  BY DEF EventKinds
<1>3. \A k \in EventKinds :
        Call(<<r, k>>) \/ Ack(<<r, k>>) \/ Fail(<<r, k>>) => LogNext
  BY <1>1 DEF LogNext
<1>4. CASE Prechecks(r) \/ Probe(r) \/ Authorize(r) \/ Lookup(r)
  BY <1>2, <1>3, <1>4 DEF Prechecks, Probe, Authorize, Lookup, StartDenial,
                          StartCompletion, StartAllow
<1>5. CASE AcquireGlobal(r) \/ AcquireBinding(r) \/ Execute(r)
  BY <1>2, <1>3, <1>5 DEF AcquireGlobal, AcquireBinding, Execute, Refuse, StartCompletion
<1>6. CASE Decided(r) \/ Denied(r) \/ Completed(r) \/ Release(r)
  BY <1>2, <1>3, <1>6 DEF Decided, Denied, Completed, Release
<1> QED
  BY <1>4, <1>5, <1>6 DEF Handler

(* The service uses the log only through the actions of AuditLog. *)
LEMMA NextLog == [Next]_vars => [LogNext]_logVars
<1> SUFFICES ASSUME [Next]_vars PROVE [LogNext]_logVars
  OBVIOUS
<1>1. CASE \E r \in Requests : Handler(r)
  BY <1>1, HandlerLog
<1>2. CASE Sink
  BY <1>2 DEF Sink, LogNext
<1>3. CASE InitializeQueryShapeDiscovery \/ Ready \/ (\E r \in Requests : Arrive(r))
           \/ (\E d \in Datasources : ServerChanges(d)) \/ UNCHANGED vars
  BY <1>3 DEF InitializeQueryShapeDiscovery, Ready, ReadyStart, ReadyProbe, ReadyObserve,
              ReadyFinish, Arrive, ServerChanges, vars
<1> QED
  BY <1>1, <1>2, <1>3 DEF Next

-----------------------------------------------------------------------------
(* Snapshots and readiness. *)

\* What a running readiness check has seen has been applied to the snapshots,
\* except for the answer it has just read.
HealthInv ==
  /\ health.at # "idle" => ~health.ready
  /\ health.at # "idle" =>
       \A b \in Required :
         DatasourceOf[b] \in health.left
           \/ health.seen[DatasourceOf[b]] \in observed[DatasourceOf[b]]

\* The part of the state the snapshots depend on.
WorldTypeOK ==
  /\ snapshots \in [Bindings -> Semantics \cup {None}]
  /\ serving \in BOOLEAN
  /\ ~serving => health.at = "idle"
  /\ health \in [at : {"idle", "probing", "probed"}, left : SUBSET Datasources,
                 now : Datasources \cup {None},
                 seen : [Datasources -> Semantics \cup {None}], ready : BOOLEAN]
  /\ health.at = "probed" => health.now \in health.left /\ health.seen[health.now] \in Semantics
  /\ server \in [Datasources -> Semantics]
  /\ restarts \in 0..MaxRestarts
  /\ observed \in [Datasources -> SUBSET Semantics]

\* The part of the state a handler owns; what it needs is there when it needs it.
RequestTypeOK ==
  /\ pc \in [Requests -> HandlerStates]
  /\ op \in [Requests -> Operations \cup {None}]
  /\ binding \in [Requests -> Bindings \cup {None}]
  /\ authorized \in [Requests -> Semantics \cup {None}]
  /\ outcome \in [Requests -> Outcomes]
  /\ response \in [Requests -> Responses]
  /\ entered \in SUBSET Requests
  /\ \A r \in Requests : pc[r] # "new" => op[r] \in Operations /\ binding[r] \in Bindings
  /\ \A r \in Requests : pc[r] = "observe" => authorized[r] \in Semantics

DiscoveryInv == WorldTypeOK /\ SnapshotsAgree /\ HealthInv

(* An observation keeps only the snapshots that agree with it. *)
LEMMA ObserveKeeps ==
  ASSUME NEW d \in Datasources, NEW s \in Semantics, WorldTypeOK, SnapshotsAgree,
         ObserveIdentifierSemantics(d, s)
  PROVE  /\ SnapshotsAgree'
         /\ snapshots' \in [Bindings -> Semantics \cup {None}]
         /\ observed' \in [Datasources -> SUBSET Semantics]
         /\ \A c \in Datasources : observed[c] \subseteq observed'[c]
         /\ s \in observed'[d]
<1> USE ServiceAssumption DEF WorldTypeOK, ObserveIdentifierSemantics
<1>1. /\ observed' \in [Datasources -> SUBSET Semantics]
      /\ \A c \in Datasources : observed'[c] = IF c = d THEN observed[d] \cup {s} ELSE observed[c]
  OBVIOUS
<1>2. \A b \in Bindings :
        snapshots'[b] = IF DatasourceOf[b] = d /\ snapshots[b] # s THEN None ELSE snapshots[b]
  OBVIOUS
<1>3. SnapshotsAgree'
  BY <1>1, <1>2 DEF SnapshotsAgree
<1> QED
  BY <1>1, <1>3

(* How the operations answer denials and failed database calls. *)
LEMMA FlowAnswers ==
  ASSUME NEW o \in Operations
  PROVE  /\ Flow[o].denial \subseteq {"denied", "not_found"}
         /\ Flow[o].failure \subseteq {"error", "not_found"}
  BY ServiceAssumption
  DEF Flow, AllOperations, ExplainFlow, SelectFlow, ListObjectsFlow, DescribeObjectFlow,
      AggregateFlow, SelectKeysetFlow, DescribeObjectStatisticsFlow, ListQueryShapesFlow

(* The handlers' own variables keep their types, and a handler that has a    *)
(* probe's answer to apply has one.                                          *)
LEMMA RequestTypes ==
  ASSUME RequestTypeOK, WorldTypeOK, [Next]_vars
  PROVE  RequestTypeOK'
<1> USE ServiceAssumption DEF RequestTypeOK, Goto, Respond, HandlerStates, Outcomes, Responses
<1>1. ASSUME NEW r \in Requests, Prechecks(r) PROVE RequestTypeOK'
  BY <1>1 DEF Prechecks, StartDenial, StartCompletion
<1>2. ASSUME NEW r \in Requests, Probe(r) PROVE RequestTypeOK'
  BY <1>2 DEF Probe, StartCompletion, WorldTypeOK
<1>3. ASSUME NEW r \in Requests, Authorize(r) PROVE RequestTypeOK'
  <2>1. op[r] \in Operations
    BY <1>3 DEF Authorize
  <2> QED
    BY <1>3, <2>1, FlowAnswers DEF Authorize, StartDenial, StartCompletion, StartAllow
<1>4. ASSUME NEW r \in Requests, Lookup(r) PROVE RequestTypeOK'
  BY <1>4 DEF Lookup, StartCompletion, StartAllow, WorldTypeOK
<1>5. ASSUME NEW r \in Requests, Decided(r) \/ Denied(r) \/ Completed(r) PROVE RequestTypeOK'
  BY <1>5 DEF Decided, Denied, Completed
<1>6. ASSUME NEW r \in Requests, AcquireGlobal(r) PROVE RequestTypeOK'
  BY <1>6 DEF AcquireGlobal, Refuse, StartCompletion
<1>7. ASSUME NEW r \in Requests, AcquireBinding(r) PROVE RequestTypeOK'
  BY <1>7 DEF AcquireBinding, Refuse, StartCompletion
<1>8. ASSUME NEW r \in Requests, Execute(r) PROVE RequestTypeOK'
  <2>1. op[r] \in Operations
    BY <1>8 DEF Execute
  <2> QED
    BY <1>8, <2>1, FlowAnswers DEF Execute, StartCompletion
<1>9. ASSUME NEW r \in Requests, Release(r) PROVE RequestTypeOK'
  BY <1>9 DEF Release
<1>10. ASSUME NEW r \in Requests, Arrive(r) PROVE RequestTypeOK'
  BY <1>10 DEF Arrive
<1>11. CASE requestVars' = requestVars
  BY <1>11 DEF requestVars
<1>12. CASE InitializeQueryShapeDiscovery \/ Sink \/ Ready
            \/ (\E d \in Datasources : ServerChanges(d)) \/ UNCHANGED vars
  BY <1>11, <1>12 DEF InitializeQueryShapeDiscovery, Sink, Ready, ReadyStart, ReadyProbe,
                      ReadyObserve, ReadyFinish, ServerChanges, vars
<1> QED
  BY <1>1, <1>2, <1>3, <1>4, <1>5, <1>6, <1>7, <1>8, <1>9, <1>10, <1>12 DEF Next, Handler

(* A published snapshot never disagrees with an observation, and what a      *)
(* readiness check has seen is among the observations.                       *)
LEMMA DiscoveryStep ==
  ASSUME RequestTypeOK, DiscoveryInv, [Next]_vars
  PROVE  DiscoveryInv'
<1> USE ServiceAssumption DEF DiscoveryInv
<1>1. CASE InitializeQueryShapeDiscovery
  <2>1. PICK reachable \in SUBSET Datasources :
          /\ snapshots' = [b \in Bindings |-> IF DatasourceOf[b] \in reachable
                                              THEN server[DatasourceOf[b]] ELSE None]
          /\ observed' = [d \in Datasources |-> IF d \in reachable THEN {server[d]} ELSE {}]
    BY <1>1 DEF InitializeQueryShapeDiscovery
  <2>2. WorldTypeOK'
    BY <1>1, <2>1 DEF InitializeQueryShapeDiscovery, WorldTypeOK
  <2>3. SnapshotsAgree'
    BY <2>1 DEF SnapshotsAgree
  <2>4. health.at = "idle" /\ health' = health
    BY <1>1 DEF InitializeQueryShapeDiscovery, WorldTypeOK
  <2>5. HealthInv'
    BY <2>4 DEF HealthInv
  <2> QED
    BY <2>2, <2>3, <2>5
<1>2. ASSUME NEW r \in Requests, Authorize(r) PROVE DiscoveryInv'
  <2>1. /\ DatasourceOf[binding[r]] \in Datasources /\ authorized[r] \in Semantics
        /\ ObserveIdentifierSemantics(DatasourceOf[binding[r]], authorized[r])
        /\ UNCHANGED <<serving, health, server, restarts>>
    BY <1>2 DEF Authorize, RequestTypeOK
  <2>2. /\ SnapshotsAgree'
        /\ snapshots' \in [Bindings -> Semantics \cup {None}]
        /\ observed' \in [Datasources -> SUBSET Semantics]
        /\ \A c \in Datasources : observed[c] \subseteq observed'[c]
    BY <2>1, ObserveKeeps
  <2> QED
    BY <2>1, <2>2 DEF WorldTypeOK, HealthInv
<1>3. CASE ReadyObserve
  <2>1. /\ health.now \in Datasources /\ health.seen[health.now] \in Semantics
        /\ ObserveIdentifierSemantics(health.now, health.seen[health.now])
        /\ UNCHANGED <<serving, server, restarts>>
    BY <1>3 DEF ReadyObserve, WorldTypeOK
  <2>2. /\ SnapshotsAgree'
        /\ snapshots' \in [Bindings -> Semantics \cup {None}]
        /\ observed' \in [Datasources -> SUBSET Semantics]
        /\ \A c \in Datasources : observed[c] \subseteq observed'[c]
        /\ health.seen[health.now] \in observed'[health.now]
    BY <2>1, ObserveKeeps
  <2>3. health.at = "probed" /\ health' = [health EXCEPT !.at = "probing", !.left = @ \ {health.now}]
    BY <1>3 DEF ReadyObserve
  <2>4. WorldTypeOK'
    BY <2>1, <2>2, <2>3 DEF WorldTypeOK
  <2>5. HealthInv'
    BY <2>2, <2>3 DEF WorldTypeOK, HealthInv
  <2> QED
    BY <2>2, <2>4, <2>5
<1>4. ASSUME NEW d \in Datasources, ReadyProbe(d) PROVE DiscoveryInv'
  <2>1. /\ health.at = "probing" /\ d \in health.left
        /\ UNCHANGED <<snapshots, serving, server, restarts, observed>>
    BY <1>4 DEF ReadyProbe
  <2>2. SnapshotsAgree'
    BY <2>1 DEF SnapshotsAgree
  <2>3. CASE health' = [health EXCEPT !.at = "probed", !.now = d, !.seen[d] = server[d]]
    <3>1. /\ health'.at = "probed" /\ health'.now = d /\ health'.left = health.left
          /\ health'.ready = health.ready /\ health'.seen = [health.seen EXCEPT ![d] = server[d]]
      BY <2>3 DEF WorldTypeOK
    <3>2. health'.seen \in [Datasources -> Semantics \cup {None}] /\ health'.seen[d] \in Semantics
          /\ \A c \in Datasources \ {d} : health'.seen[c] = health.seen[c]
      BY <3>1 DEF WorldTypeOK
    <3>3. health' \in [at : {"idle", "probing", "probed"}, left : SUBSET Datasources,
                       now : Datasources \cup {None},
                       seen : [Datasources -> Semantics \cup {None}], ready : BOOLEAN]
      BY <2>3, <3>1, <3>2 DEF WorldTypeOK
    <3>4. WorldTypeOK'
      BY <2>1, <3>1, <3>2, <3>3 DEF WorldTypeOK
    <3>5. HealthInv'
      BY <2>1, <3>1, <3>2 DEF HealthInv
    <3> QED
      BY <2>2, <3>4, <3>5
  <2>4. CASE health' = [health EXCEPT !.at = "idle"]
    BY <2>1, <2>2, <2>4 DEF WorldTypeOK, HealthInv
  <2> QED
    BY <1>4, <2>3, <2>4 DEF ReadyProbe
<1>5. CASE ReadyStart
  <2>1. serving /\ health.at = "idle" /\ UNCHANGED <<snapshots, serving, server, restarts, observed>>
    BY <1>5 DEF ReadyStart
  <2>2. SnapshotsAgree'
    BY <2>1 DEF SnapshotsAgree
  <2>3. CASE health' = [at |-> "probing", left |-> {DatasourceOf[b] : b \in Required},
                        now |-> None, seen |-> NothingSeen, ready |-> FALSE]
    <3>1. {DatasourceOf[b] : b \in Required} \in SUBSET Datasources
          /\ NothingSeen \in [Datasources -> Semantics \cup {None}]
      BY DEF NothingSeen
    <3>2. WorldTypeOK'
      BY <2>1, <2>3, <3>1 DEF WorldTypeOK
    <3>3. HealthInv'
      BY <2>3 DEF HealthInv
    <3> QED
      BY <2>2, <3>2, <3>3
  <2>4. CASE health' = [health EXCEPT !.ready = FALSE]
    BY <2>1, <2>2, <2>4 DEF WorldTypeOK, HealthInv
  <2> QED
    BY <1>5, <2>3, <2>4 DEF ReadyStart
<1>6. CASE ReadyFinish
  BY <1>6 DEF ReadyFinish, WorldTypeOK, HealthInv, SnapshotsAgree
<1>7. ASSUME NEW d \in Datasources, ServerChanges(d) PROVE DiscoveryInv'
  BY <1>7 DEF ServerChanges, WorldTypeOK, HealthInv, SnapshotsAgree
<1>8. CASE worldVars' = worldVars
  BY <1>8 DEF worldVars, WorldTypeOK, HealthInv, SnapshotsAgree
<1>9. ASSUME NEW r \in Requests, Handler(r) \/ Arrive(r), ~Authorize(r) PROVE worldVars' = worldVars
  BY <1>9 DEF Handler, Arrive, Prechecks, Probe, Lookup, Decided, Denied, AcquireGlobal,
              AcquireBinding, Execute, Completed, Release
<1>10. CASE Sink \/ UNCHANGED vars
  BY <1>8, <1>10 DEF Sink, vars
<1> QED
  BY <1>1, <1>2, <1>3, <1>4, <1>5, <1>6, <1>7, <1>8, <1>9, <1>10 DEF Next, Ready

-----------------------------------------------------------------------------
(* The audit trail of one request. *)

S(r, k) == status[<<r, k>>]
Undecided == {"new", "prechecks", "probe", "observe", "lookup", "denying"}
Uncompleted == Undecided \cup {"deciding", "admitted", "gating", "executing"}
Admitted == {"admitted", "gating", "executing", "releasing"}

\* How the handler's position, its answer and its three events go together.
Trail(r) ==
  /\ r \in entered => pc[r] \in {"executing", "completing", "releasing", "done"}
  /\ pc[r] \in {"executing", "releasing"} => r \in entered
  /\ pc[r] \in Undecided => S(r, "allow") = "idle"
  /\ pc[r] \in Admitted \/ r \in entered => S(r, "allow") = "acked"
  /\ pc[r] \notin {"denying", "done"} \/ r \in entered => S(r, "deny") = "idle"
  /\ pc[r] \in Uncompleted => S(r, "completion") = "idle"

\* What the handler is about to answer, or has answered.
Answer(r) ==
  /\ response[r] = "denied" \/ (response[r] = "not_found" /\ r \notin entered) =>
       /\ S(r, "allow") = "idle"
       /\ r \notin entered
       /\ pc[r] = "denying" \/ (pc[r] = "done" /\ S(r, "deny") = "acked")
  /\ response[r] = "success" \/ (response[r] = "not_found" /\ r \in entered) =>
       /\ r \in entered
       /\ outcome[r] = IF response[r] = "success" THEN "success" ELSE "error"
       /\ \/ pc[r] = "completing"
          \/ pc[r] \in {"releasing", "done"} /\ S(r, "completion") = "acked"
  /\ pc[r] = "done" =>
       \/ S(r, "allow") = "idle"
       \/ S(r, "completion") = "acked"
       \/ response[r] = "service_unavailable"
       \/ response[r] = "capacity" /\ Flow[op[r]].refusal = "silent"
  /\ pc[r] = "releasing" => S(r, "completion") = "acked" \/ response[r] = "service_unavailable"

RequestInv == \A r \in Requests : Trail(r) /\ Answer(r)

\* Nothing of request q changes.
Untouched(q) ==
  /\ pc'[q] = pc[q] /\ op'[q] = op[q] /\ outcome'[q] = outcome[q] /\ response'[q] = response[q]
  /\ q \in entered' <=> q \in entered
  /\ \A k \in EventKinds : S(q, k)' = S(q, k)

(* What holds of a request keeps holding while nothing of it changes. *)
LEMMA UntouchedKeeps ==
  ASSUME NEW q \in Requests, Untouched(q), Trail(q), Answer(q)
  PROVE  Trail(q)' /\ Answer(q)'
  BY DEF Untouched, Trail, Answer, EventKinds

(* A call, an acknowledgement or a failure moves one event of one request. *)
Moves(r, k, from, to) ==
  /\ S(r, k) = from
  /\ S(r, k)' = to
  /\ \A q \in Requests, j \in EventKinds : q # r \/ j # k => S(q, j)' = S(q, j)

(* Each of the three sink calls moves exactly its own event. *)
LEMMA EventMoves ==
  ASSUME LogTypeOK, NEW r \in Requests, NEW k \in EventKinds
  PROVE  /\ Call(<<r, k>>) => Moves(r, k, "idle", "pending")
         /\ Ack(<<r, k>>) => Moves(r, k, "pending", "acked")
         /\ Fail(<<r, k>>) => Moves(r, k, "pending", "failed")
<1>1. \A q \in Requests, j \in EventKinds : <<q, j>> \in Events
  BY EventOfRequest
<1>2. \A q \in Requests, j \in EventKinds : q # r \/ j # k => <<q, j>> # <<r, k>>
  OBVIOUS
<1> QED
  BY <1>1, <1>2 DEF Moves, S, Call, Ack, Fail, LogTypeOK

(* With the log unchanged no event moves. *)
LEMMA QuietMoves ==
  ASSUME UNCHANGED logVars
  PROVE  \A q \in Requests, j \in EventKinds : S(q, j)' = S(q, j)
  BY DEF logVars, S

(* The handler of one request leaves every other request alone. *)
LEMMA OthersUntouched ==
  ASSUME LogTypeOK, RequestTypeOK, NEW r \in Requests, Handler(r), NEW q \in Requests, q # r
  PROVE  Untouched(q)
<1>1. \A k \in EventKinds : S(q, k)' = S(q, k)
  <2>1. \/ UNCHANGED logVars
        \/ \E k \in EventKinds : Call(<<r, k>>) \/ Ack(<<r, k>>) \/ Fail(<<r, k>>)
    BY DEF Handler, Prechecks, Probe, Authorize, Lookup, Decided, Denied, AcquireGlobal,
           AcquireBinding, Execute, Completed, Release, Refuse, StartDenial, StartCompletion,
           StartAllow, EventKinds
  <2>2. ASSUME NEW k \in EventKinds, Call(<<r, k>>) \/ Ack(<<r, k>>) \/ Fail(<<r, k>>)
        PROVE  \A j \in EventKinds : S(q, j)' = S(q, j)
    BY <2>2, EventMoves DEF Moves
  <2> QED
    BY <2>1, <2>2, QuietMoves
<1>2. pc'[q] = pc[q]
  BY DEF Handler, Prechecks, Probe, Authorize, Lookup, Decided, Denied, AcquireGlobal,
         AcquireBinding, Execute, Completed, Release, Refuse, StartDenial, StartCompletion,
         StartAllow, Goto, RequestTypeOK
<1>3. outcome'[q] = outcome[q] /\ response'[q] = response[q]
  BY DEF Handler, Prechecks, Probe, Authorize, Lookup, Decided, Denied, AcquireGlobal,
         AcquireBinding, Execute, Completed, Release, Refuse, StartDenial, StartCompletion,
         StartAllow, Respond, RequestTypeOK
<1>4. op' = op /\ (q \in entered' <=> q \in entered)
  BY DEF Handler, Prechecks, Probe, Authorize, Lookup, Decided, Denied, AcquireGlobal,
         AcquireBinding, Execute, Completed, Release
<1> QED
  BY <1>1, <1>2, <1>3, <1>4 DEF Untouched

(* What the ways to go on after a check do to the request itself. *)
LEMMA Starts ==
  ASSUME LogTypeOK, RequestTypeOK, NEW r \in Requests
  PROVE  /\ \A o, a : StartCompletion(r, o, a) =>
              /\ pc'[r] = "completing" /\ outcome'[r] = o /\ response'[r] = a
              /\ S(r, "completion")' = "pending"
              /\ S(r, "allow")' = S(r, "allow") /\ S(r, "deny")' = S(r, "deny")
         /\ \A a : StartDenial(r, a) =>
              /\ pc'[r] = "denying" /\ response'[r] = a /\ outcome'[r] = outcome[r]
              /\ S(r, "deny")' = "pending"
              /\ S(r, "allow")' = S(r, "allow") /\ S(r, "completion")' = S(r, "completion")
         /\ StartAllow(r) =>
              /\ pc'[r] = "deciding" /\ response'[r] = response[r] /\ outcome'[r] = outcome[r]
              /\ S(r, "deny")' = S(r, "deny") /\ S(r, "completion")' = S(r, "completion")
  BY EventMoves DEF StartCompletion, StartDenial, StartAllow, Goto, Respond, RequestTypeOK,
     Moves, EventKinds

(* What the end of an audit call does to the request's events. *)
LEMMA Ends ==
  ASSUME LogTypeOK, NEW r \in Requests
  PROVE  /\ Ack(<<r, "allow">>) =>
              /\ S(r, "allow")' = "acked" /\ S(r, "deny")' = S(r, "deny")
              /\ S(r, "completion")' = S(r, "completion")
         /\ Fail(<<r, "allow">>) =>
              S(r, "deny")' = S(r, "deny") /\ S(r, "completion")' = S(r, "completion")
         /\ Ack(<<r, "deny">>) =>
              /\ S(r, "deny")' = "acked" /\ S(r, "allow")' = S(r, "allow")
              /\ S(r, "completion")' = S(r, "completion")
         /\ Fail(<<r, "deny">>) =>
              S(r, "allow")' = S(r, "allow") /\ S(r, "completion")' = S(r, "completion")
         /\ Ack(<<r, "completion">>) =>
              /\ S(r, "completion")' = "acked" /\ S(r, "allow")' = S(r, "allow")
              /\ S(r, "deny")' = S(r, "deny")
         /\ Fail(<<r, "completion">>) =>
              S(r, "allow")' = S(r, "allow") /\ S(r, "deny")' = S(r, "deny")
  BY EventMoves DEF Moves, EventKinds

(* One handler step keeps its own request's trail and answer in order. *)
LEMMA OwnStep ==
  ASSUME LogTypeOK, RequestTypeOK, NEW r \in Requests, Trail(r), Answer(r), Handler(r)
  PROVE  Trail(r)' /\ Answer(r)'
<1> USE DEF Trail, Answer, Undecided, Uncompleted, Admitted
<1>1. UNCHANGED logVars => \A k \in EventKinds : S(r, k)' = S(r, k)
  BY QuietMoves
<1>2. "allow" \in EventKinds /\ "deny" \in EventKinds /\ "completion" \in EventKinds
  BY DEF EventKinds
<1>3. CASE Prechecks(r)
  <2>1. pc[r] = "prechecks" /\ entered' = entered /\ op' = op
    BY <1>3 DEF Prechecks
  <2>2. CASE Goto(r, "done") /\ Respond(r, "invalid") /\ UNCHANGED <<outcome, logVars>>
    BY <2>1, <2>2, <1>1, <1>2 DEF Goto, Respond, RequestTypeOK
  <2>3. CASE StartDenial(r, "denied")
    BY <2>1, <2>3, Starts
  <2>4. CASE \E o \in {"error", "not_implemented"} : StartCompletion(r, o, o)
    BY <2>1, <2>4, Starts
  <2>5. CASE /\ Goto(r, IF Flow[op[r]].probes THEN "probe" ELSE "lookup")
             /\ UNCHANGED <<outcome, response, logVars>>
    BY <2>1, <2>5, <1>1, <1>2 DEF Goto, RequestTypeOK
  <2> QED
    BY <1>3, <2>2, <2>3, <2>4, <2>5 DEF Prechecks
<1>4. CASE Probe(r)
  <2>1. pc[r] = "probe" /\ entered' = entered /\ op' = op
    BY <1>4 DEF Probe
  <2>2. CASE StartCompletion(r, "error", "error")
    BY <2>1, <2>2, Starts
  <2>3. CASE Goto(r, "observe") /\ UNCHANGED <<outcome, response, logVars>>
    BY <2>1, <2>3, <1>1, <1>2 DEF Goto, RequestTypeOK
  <2> QED
    BY <1>4, <2>2, <2>3 DEF Probe
<1>5. CASE Authorize(r)
  <2>1. pc[r] = "observe" /\ entered' = entered /\ op' = op
    BY <1>5 DEF Authorize
  <2>2. CASE StartCompletion(r, "error", "error")
    BY <2>1, <2>2, Starts
  <2>3. CASE StartAllow(r)
    BY <2>1, <2>3, Starts
  <2>4. ASSUME NEW a \in Flow[op[r]].denial, StartDenial(r, a) PROVE Trail(r)' /\ Answer(r)'
    <3>1. a \in {"denied", "not_found"}
      BY <2>1, FlowAnswers DEF RequestTypeOK
    <3> QED
      BY <2>1, <2>4, <3>1, Starts
  <2> QED
    BY <1>5, <2>2, <2>3, <2>4 DEF Authorize
<1>6. CASE Lookup(r)
  <2>1. pc[r] = "lookup" /\ entered' = entered /\ op' = op
    BY <1>6 DEF Lookup
  <2>2. CASE \E a \in {"error", "service_unavailable"} : StartCompletion(r, "error", a)
    BY <2>1, <2>2, Starts
  <2>3. CASE StartAllow(r)
    BY <2>1, <2>3, Starts
  <2> QED
    BY <1>6, <2>2, <2>3 DEF Lookup
<1>7. CASE Decided(r)
  <2>1. pc[r] = "deciding" /\ entered' = entered /\ op' = op /\ outcome' = outcome
    BY <1>7 DEF Decided
  <2>2. CASE Ack(<<r, "allow">>) /\ Goto(r, "admitted") /\ UNCHANGED response
    BY <2>1, <2>2, Ends DEF Goto, RequestTypeOK
  <2>3. CASE Fail(<<r, "allow">>) /\ Goto(r, "done") /\ Respond(r, "service_unavailable")
    BY <2>1, <2>3, Ends DEF Goto, Respond, RequestTypeOK
  <2> QED
    BY <1>7, <2>2, <2>3 DEF Decided
<1>8. CASE Denied(r)
  <2>1. pc[r] = "denying" /\ entered' = entered /\ op' = op /\ outcome' = outcome
    BY <1>8 DEF Denied
  <2>2. CASE Ack(<<r, "deny">>) /\ Goto(r, "done") /\ UNCHANGED response
    BY <2>1, <2>2, Ends DEF Goto, RequestTypeOK
  <2>3. CASE Fail(<<r, "deny">>) /\ Goto(r, "done") /\ Respond(r, "service_unavailable")
    BY <2>1, <2>3, Ends DEF Goto, Respond, RequestTypeOK
  <2> QED
    BY <1>8, <2>2, <2>3 DEF Denied
<1>9. ASSUME pc[r] \in {"admitted", "gating"}, entered' = entered, op' = op, Refuse(r)
      PROVE  Trail(r)' /\ Answer(r)'
  <2>1. CASE StartCompletion(r, "capacity", "capacity")
    BY <1>9, <2>1, Starts
  <2>2. CASE /\ Flow[op[r]].refusal = "silent" /\ Goto(r, "done") /\ Respond(r, "capacity")
             /\ UNCHANGED <<outcome, logVars>>
    BY <1>9, <2>2, <1>1, <1>2 DEF Goto, Respond, RequestTypeOK
  <2> QED
    BY <1>9, <2>1, <2>2 DEF Refuse
<1>10. CASE AcquireGlobal(r)
  <2>1. pc[r] = "admitted" /\ entered' = entered /\ op' = op
    BY <1>10 DEF AcquireGlobal
  <2>2. CASE StartCompletion(r, "error", "error")
    BY <2>1, <2>2, Starts
  <2>3. CASE Goto(r, "gating") /\ UNCHANGED <<outcome, response, logVars>>
    BY <2>1, <2>3, <1>1, <1>2 DEF Goto, RequestTypeOK
  <2> QED
    BY <1>10, <1>9, <2>1, <2>2, <2>3 DEF AcquireGlobal
<1>11. CASE AcquireBinding(r)
  <2>1. pc[r] = "gating" /\ op' = op
    BY <1>11 DEF AcquireBinding
  <2>2. CASE /\ Goto(r, "executing") /\ entered' = entered \cup {r}
             /\ UNCHANGED <<outcome, response, logVars>>
    BY <2>1, <2>2, <1>1, <1>2 DEF Goto, RequestTypeOK
  <2> QED
    BY <1>11, <1>9, <2>1, <2>2 DEF AcquireBinding
<1>12. CASE Execute(r)
  <2>1. pc[r] = "executing" /\ entered' = entered /\ op' = op
    BY <1>12 DEF Execute
  <2>2. CASE StartCompletion(r, "success", "success")
    BY <2>1, <2>2, Starts
  <2>3. ASSUME NEW a \in Flow[op[r]].failure, StartCompletion(r, "error", a)
        PROVE  Trail(r)' /\ Answer(r)'
    <3>1. a \in {"error", "not_found"}
      BY <2>1, FlowAnswers DEF RequestTypeOK
    <3> QED
      BY <2>1, <2>3, <3>1, Starts
  <2> QED
    BY <1>12, <2>2, <2>3 DEF Execute
<1>13. CASE Completed(r)
  <2>1. /\ pc[r] = "completing" /\ entered' = entered /\ op' = op /\ outcome' = outcome
        /\ Goto(r, IF r \in entered THEN "releasing" ELSE "done")
    BY <1>13 DEF Completed
  <2>2. CASE Ack(<<r, "completion">>) /\ UNCHANGED response
    BY <2>1, <2>2, Ends DEF Goto, RequestTypeOK
  <2>3. CASE Fail(<<r, "completion">>) /\ Respond(r, "service_unavailable")
    BY <2>1, <2>3, Ends DEF Goto, Respond, RequestTypeOK
  <2> QED
    BY <1>13, <2>2, <2>3 DEF Completed
<1>14. CASE Release(r)
  BY <1>14, <1>1, <1>2 DEF Release, Goto, RequestTypeOK
<1> QED
  BY <1>3, <1>4, <1>5, <1>6, <1>7, <1>8, <1>10, <1>11, <1>12, <1>13, <1>14 DEF Handler

(* Arrivals, the sink, readiness checks and servers touch no trail. *)
LEMMA QuietStep ==
  ASSUME LogTypeOK, RequestTypeOK, RequestInv, [Next]_vars,
         ~ \E r \in Requests : Handler(r)
  PROVE  RequestInv'
<1>1. ASSUME NEW r \in Requests, Arrive(r) PROVE RequestInv'
  <2>1. /\ pc[r] = "new" /\ pc' = [pc EXCEPT ![r] = "prechecks"]
        /\ entered' = entered /\ outcome' = outcome /\ response' = response
        /\ \E o \in Operations : op' = [op EXCEPT ![r] = o]
    BY <1>1 DEF Arrive, Goto
  <2>2. \A q \in Requests, k \in EventKinds : S(q, k)' = S(q, k)
    BY <1>1, QuietMoves DEF Arrive
  <2>3. ASSUME NEW q \in Requests, q # r PROVE Trail(q)' /\ Answer(q)'
    <3>1. Untouched(q)
      BY <2>1, <2>2, <2>3 DEF Untouched, RequestTypeOK
    <3> QED
      BY <3>1, UntouchedKeeps DEF RequestInv
  <2>4. Trail(r)' /\ Answer(r)'
    BY <2>1, <2>2 DEF RequestInv, RequestTypeOK, Trail, Answer, Undecided, Uncompleted, Admitted,
                      EventKinds
  <2> QED
    BY <2>3, <2>4 DEF RequestInv
<1>2. ASSUME requestVars' = requestVars, status' = status PROVE RequestInv'
  <2>1. \A q \in Requests : Untouched(q)
    BY <1>2 DEF Untouched, requestVars, S
  <2> QED
    BY <2>1, UntouchedKeeps DEF RequestInv
<1>3. CASE Sink
  <2>1. status' = status /\ requestVars' = requestVars
    BY <1>3 DEF Sink, BeginLine, EndLine, FailLine
  <2> QED
    BY <1>2, <2>1
<1>4. CASE InitializeQueryShapeDiscovery \/ Ready
            \/ (\E d \in Datasources : ServerChanges(d)) \/ UNCHANGED vars
  <2>1. status' = status /\ requestVars' = requestVars
    BY <1>4 DEF InitializeQueryShapeDiscovery, Ready, ReadyStart, ReadyProbe, ReadyObserve,
                ReadyFinish, ServerChanges, vars, logVars
  <2> QED
    BY <1>2, <2>1
<1> QED
  BY <1>1, <1>3, <1>4 DEF Next

(* Every step keeps every request's trail and answer in order. *)
LEMMA RequestStep ==
  ASSUME LogTypeOK, RequestTypeOK, RequestInv, [Next]_vars
  PROVE  RequestInv'
<1>1. ASSUME NEW r \in Requests, Handler(r) PROVE RequestInv'
  <2>1. Trail(r)' /\ Answer(r)'
    BY <1>1, OwnStep DEF RequestInv
  <2>2. ASSUME NEW q \in Requests, q # r PROVE Trail(q)' /\ Answer(q)'
    BY <1>1, <2>2, OthersUntouched, UntouchedKeeps DEF RequestInv
  <2> QED
    BY <2>1, <2>2 DEF RequestInv
<1> QED
  BY <1>1, QuietStep

-----------------------------------------------------------------------------
(* The capacity gates. *)

GateInv ==
  /\ global \in 0..GlobalLimit
  /\ gate \in [Bindings -> Nat]
  /\ \A b \in Bindings : gate[b] <= BindingLimit[b]
  /\ TokensMatchHolders

(* Two sets that differ in at most one member differ in at most one token. *)
LEMMA OneMember ==
  ASSUME NEW T, IsFiniteSet(T), NEW A \in SUBSET T, NEW B \in SUBSET T, NEW r \in T,
         \A q \in T \ {r} : q \in A <=> q \in B
  PROVE  /\ Cardinality(A) \in Nat /\ Cardinality(B) \in Nat
         /\ (r \in A <=> r \in B) => Cardinality(B) = Cardinality(A)
         /\ r \notin A /\ r \in B => Cardinality(B) = Cardinality(A) + 1
         /\ r \in A /\ r \notin B => Cardinality(B) = Cardinality(A) - 1
<1>1. IsFiniteSet(A) /\ IsFiniteSet(B)
  BY FS_Subset
<1>2. Cardinality(A) \in Nat /\ Cardinality(B) \in Nat
  BY <1>1, FS_CardinalityType
<1>3. CASE r \in A <=> r \in B
  <2>1. A = B
    BY <1>3
  <2> QED
    BY <1>2, <1>3, <2>1
<1>4. CASE r \notin A /\ r \in B
  <2>1. B = A \cup {r}
    BY <1>4
  <2> QED
    BY <1>1, <1>2, <1>4, <2>1, FS_AddElement
<1>5. CASE r \in A /\ r \notin B
  <2>1. B = A \ {r}
    BY <1>5
  <2> QED
    BY <1>1, <1>2, <1>5, <2>1, FS_RemoveElement
<1> QED
  BY <1>3, <1>4, <1>5

\* No request but r acquires or returns a token.
OthersHold(r) ==
  \A q \in Requests \ {r} :
    /\ binding'[q] = binding[q]
    /\ HoldsGlobal(q)' <=> HoldsGlobal(q)
    /\ HoldsBinding(q)' <=> HoldsBinding(q)

(* How the number of holders follows from what one request does. *)
LEMMA HoldersMove ==
  ASSUME GateInv, NEW r \in Requests, OthersHold(r)
  PROVE  /\ (HoldsGlobal(r)' <=> HoldsGlobal(r)) => Cardinality(GlobalHolders)' = global
         /\ ~HoldsGlobal(r) /\ HoldsGlobal(r)' => Cardinality(GlobalHolders)' = global + 1
         /\ HoldsGlobal(r) /\ ~HoldsGlobal(r)' => Cardinality(GlobalHolders)' = global - 1
         /\ \A b \in Bindings :
              /\ (binding[r] = b /\ HoldsBinding(r) <=> binding'[r] = b /\ HoldsBinding(r)')
                   => Cardinality(BindingHolders(b))' = gate[b]
              /\ ~HoldsBinding(r) /\ HoldsBinding(r)' /\ binding'[r] = b
                   => Cardinality(BindingHolders(b))' = gate[b] + 1
              /\ HoldsBinding(r) /\ ~HoldsBinding(r)' /\ binding[r] = b
                   => Cardinality(BindingHolders(b))' = gate[b] - 1
<1>1. IsFiniteSet(Requests)
  BY ServiceAssumption
<1>2. /\ GlobalHolders \in SUBSET Requests /\ GlobalHolders' \in SUBSET Requests
      /\ \A q \in Requests : (q \in GlobalHolders <=> HoldsGlobal(q))
                             /\ (q \in GlobalHolders' <=> HoldsGlobal(q)')
  BY DEF GlobalHolders
<1>3. \A q \in Requests \ {r} : q \in GlobalHolders <=> q \in GlobalHolders'
  BY <1>2 DEF OthersHold
<1>4. /\ (HoldsGlobal(r)' <=> HoldsGlobal(r)) => Cardinality(GlobalHolders)' = global
      /\ ~HoldsGlobal(r) /\ HoldsGlobal(r)' => Cardinality(GlobalHolders)' = global + 1
      /\ HoldsGlobal(r) /\ ~HoldsGlobal(r)' => Cardinality(GlobalHolders)' = global - 1
  BY <1>1, <1>2, <1>3, OneMember DEF GateInv, TokensMatchHolders
<1>5. ASSUME NEW b \in Bindings
      PROVE  /\ (binding[r] = b /\ HoldsBinding(r) <=> binding'[r] = b /\ HoldsBinding(r)')
                  => Cardinality(BindingHolders(b))' = gate[b]
             /\ ~HoldsBinding(r) /\ HoldsBinding(r)' /\ binding'[r] = b
                  => Cardinality(BindingHolders(b))' = gate[b] + 1
             /\ HoldsBinding(r) /\ ~HoldsBinding(r)' /\ binding[r] = b
                  => Cardinality(BindingHolders(b))' = gate[b] - 1
  <2>1. /\ BindingHolders(b) \in SUBSET Requests /\ BindingHolders(b)' \in SUBSET Requests
        /\ \A q \in Requests :
             /\ q \in BindingHolders(b) <=> binding[q] = b /\ HoldsBinding(q)
             /\ q \in BindingHolders(b)' <=> binding'[q] = b /\ HoldsBinding(q)'
    BY DEF BindingHolders
  <2>2. \A q \in Requests \ {r} : q \in BindingHolders(b) <=> q \in BindingHolders(b)'
    BY <2>1 DEF OthersHold
  <2>3. gate[b] = Cardinality(BindingHolders(b))
    BY DEF GateInv, TokensMatchHolders
  <2> QED
    BY <1>1, <2>1, <2>2, <2>3, OneMember
<1> QED
  BY <1>4, <1>5

(* Only the stepping handler's tokens move. *)
LEMMA HandlerHolds ==
  ASSUME LogTypeOK, RequestTypeOK, NEW r \in Requests, Handler(r)
  PROVE  OthersHold(r) /\ binding' = binding
<1>1. binding' = binding
  BY DEF Handler, Prechecks, Probe, Authorize, Lookup, Decided, Denied, AcquireGlobal,
         AcquireBinding, Execute, Completed, Release
<1>2. \A q \in Requests \ {r} : Untouched(q)
  BY OthersUntouched
<1> QED
  BY <1>1, <1>2 DEF OthersHold, Untouched, HoldsGlobal, HoldsBinding

(* A step in which nobody acquires or returns a token. *)
LEMMA GatesIdle ==
  ASSUME GateInv, NEW r \in Requests, OthersHold(r), UNCHANGED gateVars,
         HoldsGlobal(r)' <=> HoldsGlobal(r), HoldsBinding(r)' <=> HoldsBinding(r),
         HoldsBinding(r) => binding'[r] = binding[r]
  PROVE  GateInv'
<1>1. global' = global /\ gate' = gate
  BY DEF gateVars
<1>2. Cardinality(GlobalHolders)' = global
  BY HoldersMove
<1>3. \A b \in Bindings : Cardinality(BindingHolders(b))' = gate[b]
  BY HoldersMove
<1> QED
  BY <1>1, <1>2, <1>3 DEF GateInv, TokensMatchHolders

(* Where a handler leaves after a full gate, it holds no token. *)
LEMMA RefusedHoldsNothing ==
  ASSUME RequestTypeOK, NEW r \in Requests, r \notin entered, entered' = entered, Refuse(r)
  PROVE  ~HoldsGlobal(r)' /\ ~HoldsBinding(r)'
  BY DEF Refuse, StartCompletion, Goto, RequestTypeOK, HoldsGlobal, HoldsBinding

(* A handler step takes and returns exactly the tokens it counts. *)
LEMMA GateHandler ==
  ASSUME LogTypeOK, RequestTypeOK, RequestInv, GateInv, NEW r \in Requests, Handler(r)
  PROVE  GateInv'
<1>1. OthersHold(r) /\ binding' = binding
  BY HandlerHolds
<1>2. /\ r \in entered => pc[r] \in {"executing", "completing", "releasing", "done"}
      /\ pc[r] \in {"executing", "releasing"} => r \in entered
  BY DEF RequestInv, Trail
<1>3. pc[r] # "new" => binding[r] \in Bindings
  BY DEF RequestTypeOK
<1>4. CASE Prechecks(r) \/ Probe(r) \/ Authorize(r) \/ Lookup(r) \/ Decided(r) \/ Denied(r)
  <2>1. /\ pc[r] \in {"prechecks", "probe", "observe", "lookup", "deciding", "denying"}
        /\ UNCHANGED gateVars /\ entered' = entered
        /\ pc'[r] \in {"done", "denying", "completing", "probe", "lookup", "observe",
                       "deciding", "admitted"}
    BY <1>4 DEF Prechecks, Probe, Authorize, Lookup, Decided, Denied, StartDenial,
                StartCompletion, StartAllow, Goto, RequestTypeOK
  <2>2. ~HoldsGlobal(r) /\ ~HoldsGlobal(r)' /\ ~HoldsBinding(r) /\ ~HoldsBinding(r)'
    BY <1>2, <2>1 DEF HoldsGlobal, HoldsBinding
  <2> QED
    BY <1>1, <2>1, <2>2, GatesIdle
<1>5. CASE AcquireGlobal(r)
  <2>1. pc[r] = "admitted" /\ r \notin entered /\ entered' = entered /\ gate' = gate
    BY <1>2, <1>5 DEF AcquireGlobal
  <2>2. ~HoldsGlobal(r) /\ ~HoldsBinding(r)
    BY <2>1 DEF HoldsGlobal, HoldsBinding
  <2>3. CASE global < GlobalLimit /\ global' = global + 1 /\ Goto(r, "gating")
    <3>1. HoldsGlobal(r)' /\ ~HoldsBinding(r)'
      BY <2>3 DEF Goto, RequestTypeOK, HoldsGlobal, HoldsBinding
    <3>2. Cardinality(GlobalHolders)' = global + 1
      BY <1>1, <2>2, <3>1, HoldersMove
    <3>3. \A b \in Bindings : Cardinality(BindingHolders(b))' = gate[b]
      BY <1>1, <2>2, <3>1, HoldersMove
    <3> QED
      BY <2>1, <2>3, <3>2, <3>3, ServiceAssumption DEF GateInv, TokensMatchHolders
  <2>4. CASE StartCompletion(r, "error", "error") /\ UNCHANGED global
    <3>1. ~HoldsGlobal(r)' /\ ~HoldsBinding(r)'
      BY <2>1, <2>4 DEF StartCompletion, Goto, RequestTypeOK, HoldsGlobal, HoldsBinding
    <3> QED
      BY <1>1, <2>1, <2>2, <2>4, <3>1, GatesIdle DEF gateVars
  <2>5. CASE Refuse(r) /\ UNCHANGED global
    BY <1>1, <2>1, <2>2, <2>5, RefusedHoldsNothing, GatesIdle DEF gateVars
  <2> QED
    BY <1>5, <2>3, <2>4, <2>5 DEF AcquireGlobal
<1>6. CASE AcquireBinding(r)
  <2>1. pc[r] = "gating" /\ r \notin entered /\ binding[r] \in Bindings
    BY <1>2, <1>3, <1>6 DEF AcquireBinding
  <2>2. HoldsGlobal(r) /\ ~HoldsBinding(r)
    BY <2>1 DEF HoldsGlobal, HoldsBinding
  <2>3. CASE /\ gate[binding[r]] < BindingLimit[binding[r]]
             /\ gate' = [gate EXCEPT ![binding[r]] = @ + 1]
             /\ Goto(r, "executing") /\ UNCHANGED global
    <3>1. HoldsGlobal(r)' /\ HoldsBinding(r)'
      BY <2>3 DEF Goto, RequestTypeOK, HoldsGlobal, HoldsBinding
    <3>2. Cardinality(GlobalHolders)' = global
      BY <1>1, <2>2, <3>1, HoldersMove
    <3>3. ASSUME NEW b \in Bindings
          PROVE  Cardinality(BindingHolders(b))' = gate'[b] /\ gate'[b] <= BindingLimit[b]
      <4>1. CASE b = binding[r]
        <5>1. Cardinality(BindingHolders(b))' = gate[b] + 1
          BY <1>1, <2>2, <3>1, <4>1, HoldersMove
        <5>2. gate'[b] = gate[b] + 1 /\ gate[b] < BindingLimit[b]
          BY <2>3, <4>1 DEF GateInv
        <5>3. gate[b] \in Nat /\ BindingLimit[b] \in Nat
          BY ServiceAssumption DEF GateInv
        <5> QED
          BY <5>1, <5>2, <5>3
      <4>2. CASE b # binding[r]
        <5>1. ~(binding[r] = b /\ HoldsBinding(r)) /\ ~(binding'[r] = b /\ HoldsBinding(r)')
          BY <1>1, <4>2
        <5>2. Cardinality(BindingHolders(b))' = gate[b]
          BY <1>1, <5>1, HoldersMove
        <5> QED
          BY <2>3, <4>2, <5>2 DEF GateInv
      <4> QED
        BY <4>1, <4>2
    <3>4. gate' \in [Bindings -> Nat]
      BY <2>1, <2>3 DEF GateInv
    <3> QED
      BY <2>3, <3>2, <3>3, <3>4 DEF GateInv, TokensMatchHolders
  <2>4. CASE global' = global - 1 /\ Refuse(r) /\ UNCHANGED <<gate, entered>>
    <3>1. ~HoldsGlobal(r)' /\ ~HoldsBinding(r)'
      BY <2>1, <2>4, RefusedHoldsNothing
    <3>2. Cardinality(GlobalHolders)' = global - 1
      BY <1>1, <2>2, <3>1, HoldersMove
    <3>3. \A b \in Bindings : Cardinality(BindingHolders(b))' = gate[b]
      BY <1>1, <2>2, <3>1, HoldersMove
    <3>4. global - 1 \in Nat
      <4>1. GlobalHolders' \in SUBSET Requests
        BY DEF GlobalHolders
      <4> QED
        BY <3>2, <4>1, ServiceAssumption, FS_Subset, FS_CardinalityType
    <3> QED
      BY <2>4, <3>2, <3>3, <3>4, ServiceAssumption DEF GateInv, TokensMatchHolders
  <2> QED
    BY <1>6, <2>3, <2>4 DEF AcquireBinding
<1>7. CASE Execute(r) \/ Completed(r)
  <2>1. UNCHANGED gateVars /\ entered' = entered /\ pc[r] \in {"executing", "completing"}
    BY <1>7 DEF Execute, Completed
  <2>2. pc'[r] = IF pc[r] = "executing" THEN "completing"
                 ELSE IF r \in entered THEN "releasing" ELSE "done"
    BY <1>7 DEF Execute, Completed, StartCompletion, Goto, RequestTypeOK
  <2>3. (HoldsGlobal(r)' <=> HoldsGlobal(r)) /\ (HoldsBinding(r)' <=> HoldsBinding(r))
    BY <1>2, <2>1, <2>2 DEF HoldsGlobal, HoldsBinding
  <2> QED
    BY <1>1, <2>1, <2>3, GatesIdle
<1>8. CASE Release(r)
  <2>1. /\ pc[r] = "releasing" /\ binding[r] \in Bindings /\ entered' = entered
        /\ gate' = [gate EXCEPT ![binding[r]] = @ - 1] /\ global' = global - 1
        /\ pc'[r] = "done"
    BY <1>3, <1>8 DEF Release, Goto, RequestTypeOK
  <2>2. HoldsGlobal(r) /\ HoldsBinding(r) /\ ~HoldsGlobal(r)' /\ ~HoldsBinding(r)'
    BY <2>1 DEF HoldsGlobal, HoldsBinding
  <2>3. Cardinality(GlobalHolders)' = global - 1
    BY <1>1, <2>2, HoldersMove
  <2>4. global - 1 \in Nat
    <3>1. GlobalHolders' \in SUBSET Requests
      BY DEF GlobalHolders
    <3> QED
      BY <2>3, <3>1, ServiceAssumption, FS_Subset, FS_CardinalityType
  <2>5. ASSUME NEW b \in Bindings
        PROVE  /\ Cardinality(BindingHolders(b))' = gate'[b]
               /\ gate'[b] \in Nat /\ gate'[b] <= BindingLimit[b]
    <3>1. CASE b = binding[r]
      <4>1. Cardinality(BindingHolders(b))' = gate[b] - 1
        BY <1>1, <2>2, <3>1, HoldersMove
      <4>2. BindingHolders(b)' \in SUBSET Requests
        BY DEF BindingHolders
      <4>3. gate[b] - 1 \in Nat
        BY <4>1, <4>2, ServiceAssumption, FS_Subset, FS_CardinalityType
      <4>4. gate'[b] = gate[b] - 1 /\ gate[b] <= BindingLimit[b]
        BY <2>1, <3>1 DEF GateInv
      <4>5. gate[b] \in Nat /\ BindingLimit[b] \in Nat
        BY ServiceAssumption DEF GateInv
      <4> QED
        BY <4>1, <4>3, <4>4, <4>5
    <3>2. CASE b # binding[r]
      <4>1. ~(binding[r] = b /\ HoldsBinding(r)) /\ ~(binding'[r] = b /\ HoldsBinding(r)')
        BY <1>1, <3>2
      <4>2. Cardinality(BindingHolders(b))' = gate[b]
        BY <1>1, <4>1, HoldersMove
      <4> QED
        BY <2>1, <3>2, <4>2 DEF GateInv
    <3> QED
      BY <3>1, <3>2
  <2>6. gate' \in [Bindings -> Nat]
    BY <2>1, <2>5 DEF GateInv
  <2> QED
    BY <2>1, <2>3, <2>4, <2>5, <2>6, ServiceAssumption DEF GateInv, TokensMatchHolders
<1> QED
  BY <1>4, <1>5, <1>6, <1>7, <1>8 DEF Handler

(* The gates stay in step with the handlers. *)
LEMMA GateStep ==
  ASSUME LogTypeOK, RequestTypeOK, RequestInv, GateInv, [Next]_vars
  PROVE  GateInv'
<1>1. ASSUME NEW r \in Requests, Handler(r) PROVE GateInv'
  BY <1>1, GateHandler
<1>2. ASSUME NEW r \in Requests, Arrive(r) PROVE GateInv'
  <2>1. /\ pc[r] = "new" /\ pc' = [pc EXCEPT ![r] = "prechecks"] /\ entered' = entered
        /\ \E b \in Bindings : binding' = [binding EXCEPT ![r] = b]
        /\ UNCHANGED gateVars
    BY <1>2 DEF Arrive, Goto
  <2>2. OthersHold(r)
    BY <2>1 DEF OthersHold, HoldsGlobal, HoldsBinding, RequestTypeOK
  <2>3. ~HoldsGlobal(r) /\ ~HoldsGlobal(r)' /\ ~HoldsBinding(r) /\ ~HoldsBinding(r)'
    BY <2>1 DEF HoldsGlobal, HoldsBinding, RequestTypeOK
  <2> QED
    BY <2>1, <2>2, <2>3, GatesIdle
<1>3. CASE InitializeQueryShapeDiscovery \/ Sink \/ Ready
            \/ (\E d \in Datasources : ServerChanges(d)) \/ UNCHANGED vars
  <2>1. requestVars' = requestVars /\ UNCHANGED gateVars
    BY <1>3 DEF InitializeQueryShapeDiscovery, Sink, Ready, ReadyStart, ReadyProbe, ReadyObserve,
                ReadyFinish, ServerChanges, vars
  <2> QED
    BY <2>1 DEF GateInv, TokensMatchHolders, GlobalHolders, BindingHolders, HoldsGlobal,
                HoldsBinding, requestVars, gateVars
<1> QED
  BY <1>1, <1>2, <1>3 DEF Next

-----------------------------------------------------------------------------
(* The order of a request's lines. *)

\* A completion of a request that reached the database stands behind its
\* allow decision in the log.
OrderInv ==
  \A r \in entered : \A j \in 1..Len(log) :
    log[j].event = <<r, "completion">> =>
      \E i \in 1..Len(log) : i < j /\ log[i].event = <<r, "allow">>

(* The decision is in the file before the completion is written. *)
LEMMA OrderStep ==
  ASSUME LogInv, RequestTypeOK, RequestInv, OrderInv, [Next]_vars
  PROVE  OrderInv'
<1> USE DEF OrderInv
<1>1. ASSUME NEW r \in Requests, AcquireBinding(r) PROVE OrderInv'
  <2>1. log' = log \/ UNCHANGED logVars
    BY <1>1 DEF AcquireBinding, Refuse, StartCompletion, Call
  <2>2. log' = log /\ entered' \subseteq entered \cup {r} /\ pc[r] = "gating"
    BY <1>1, <2>1 DEF AcquireBinding, logVars
  <2>3. ~Logged(<<r, "completion">>)
    <3>1. S(r, "completion") = "idle"
      BY <2>2 DEF RequestInv, Trail, Uncompleted
    <3> QED
      BY <3>1, EventOfRequest DEF LogInv, S, EventKinds
  <2> QED
    BY <2>2, <2>3 DEF Logged
<1>2. ASSUME entered' = entered, log' = log PROVE OrderInv'
  BY <1>2
<1>3. ASSUME NEW e \in Events, NEW w \in BOOLEAN, entered' = entered,
             log' = Append(log, [event |-> e, whole |-> w])
      PROVE  OrderInv'
  <2> SUFFICES ASSUME NEW r \in entered, NEW j \in 1..Len(log'), log'[j].event = <<r, "completion">>
               PROVE  \E i \in 1..Len(log') : i < j /\ log'[i].event = <<r, "allow">>
    BY <1>3
  <2>1. LogTypeOK
    BY DEF LogInv
  <2>2. /\ Len(log) \in Nat /\ Len(log') = Len(log) + 1
        /\ \A i \in 1..Len(log) : i \in 1..Len(log') /\ log'[i] = log[i]
        /\ j \in 1..Len(log) \/ j = Len(log) + 1
    BY <1>3, <2>1, AddedLine
  <2>3. CASE j \in 1..Len(log)
    BY <2>2, <2>3
  <2>4. CASE j = Len(log) + 1
    <3>1. Durable(<<r, "allow">>)
      <4>1. r \in Requests /\ S(r, "allow") = "acked"
        BY DEF RequestInv, Trail, RequestTypeOK
      <4> QED
        BY <4>1, EventOfRequest DEF LogInv, S, EventKinds
    <3> QED
      BY <2>2, <2>4, <3>1 DEF Durable
  <2> QED
    BY <2>2, <2>3, <2>4
<1>4. CASE Sink
  <2>1. entered' = entered
    BY <1>4 DEF Sink, requestVars
  <2>2. \/ log' = log
        \/ \E e \in Events : \E w \in BOOLEAN : log' = Append(log, [event |-> e, whole |-> w])
    BY <1>4 DEF Sink, BeginLine, EndLine, FailLine
  <2> QED
    BY <1>2, <1>3, <2>1, <2>2
<1>5. ASSUME NEW r \in Requests, Handler(r), ~AcquireBinding(r) PROVE OrderInv'
  <2>1. entered' = entered
    BY <1>5 DEF Handler, Prechecks, Probe, Authorize, Lookup, Decided, Denied, AcquireGlobal,
                Execute, Completed, Release
  <2>2. log' = log
    BY <1>5 DEF Handler, Prechecks, Probe, Authorize, Lookup, Decided, Denied, AcquireGlobal,
                Execute, Completed, Release, Refuse, StartDenial, StartCompletion, StartAllow,
                Call, Ack, Fail, logVars
  <2> QED
    BY <1>2, <2>1, <2>2
<1>6. CASE InitializeQueryShapeDiscovery \/ Ready \/ (\E r \in Requests : Arrive(r))
            \/ (\E d \in Datasources : ServerChanges(d)) \/ UNCHANGED vars
  <2>1. log' = log /\ entered' = entered
    BY <1>6 DEF InitializeQueryShapeDiscovery, Ready, ReadyStart, ReadyProbe, ReadyObserve,
                ReadyFinish, Arrive, ServerChanges, vars, logVars, requestVars
  <2> QED
    BY <1>2, <2>1
<1> QED
  BY <1>1, <1>4, <1>5, <1>6 DEF Next

-----------------------------------------------------------------------------
(* The theorems. *)

ServiceInv ==
  /\ LogInv
  /\ RequestTypeOK
  /\ DiscoveryInv
  /\ RequestInv
  /\ GateInv
  /\ OrderInv

(* At startup no request, no line and no token exists. *)
LEMMA InitServiceInv == Init => ServiceInv
<1> SUFFICES ASSUME Init PROVE ServiceInv
  OBVIOUS
<1> USE ServiceAssumption DEF Init
<1>1. LogInv /\ LogTypeOK
  BY LogInvInit DEF LogInv
<1>2. RequestTypeOK
  BY DEF RequestTypeOK, HandlerStates, Outcomes, Responses
<1>3. DiscoveryInv
  <2>1. NothingSeen \in [Datasources -> Semantics \cup {None}]
    BY DEF NothingSeen
  <2>2. /\ health = [at |-> "idle", left |-> {}, now |-> None, seen |-> NothingSeen, ready |-> FALSE]
        /\ health.at = "idle"
    OBVIOUS
  <2>3. restarts \in 0..MaxRestarts /\ server \in [Datasources -> Semantics]
        /\ observed \in [Datasources -> SUBSET Semantics]
        /\ snapshots \in [Bindings -> Semantics \cup {None}]
    OBVIOUS
  <2>4. health \in [at : {"idle", "probing", "probed"}, left : SUBSET Datasources,
                    now : Datasources \cup {None},
                    seen : [Datasources -> Semantics \cup {None}], ready : BOOLEAN]
    <3> HIDE DEF Init
    <3> QED
      BY <2>1, <2>2
  <2>5. WorldTypeOK
    <3>1. serving \in BOOLEAN
      OBVIOUS
    <3> HIDE DEF Init
    <3> QED
      BY <2>2, <2>3, <2>4, <3>1 DEF WorldTypeOK
  <2> QED
    BY <2>2, <2>5 DEF DiscoveryInv, SnapshotsAgree, HealthInv
<1>4. RequestInv
  <2>1. \A r \in Requests : S(r, "allow") = "idle" /\ S(r, "deny") = "idle"
                           /\ S(r, "completion") = "idle"
    BY EventOfRequest DEF S, LogInit, EventKinds
  <2> QED
    BY <2>1 DEF RequestInv, Trail, Answer, Undecided, Uncompleted, Admitted
<1>5. GateInv
  <2>1. GlobalHolders = {} /\ \A b \in Bindings : BindingHolders(b) = {}
    BY DEF GlobalHolders, BindingHolders, HoldsBinding, HoldsGlobal
  <2>2. Cardinality({}) = 0
    BY FS_EmptySet
  <2>3. TokensMatchHolders
    BY <2>1, <2>2 DEF TokensMatchHolders
  <2>4. global \in 0..GlobalLimit /\ gate \in [Bindings -> Nat]
    OBVIOUS
  <2>5. ASSUME NEW b \in Bindings PROVE gate[b] <= BindingLimit[b]
    <3>1. gate[b] = 0 /\ BindingLimit[b] \in Nat
      OBVIOUS
    <3> QED
      BY <3>1
  <2> QED
    BY <2>3, <2>4, <2>5 DEF GateInv
<1>6. OrderInv
  BY DEF OrderInv
<1> QED
  BY <1>1, <1>2, <1>3, <1>4, <1>5, <1>6 DEF ServiceInv

(* The conjunction is inductive. *)
LEMMA NextServiceInv == ServiceInv /\ [Next]_vars => ServiceInv'
<1> SUFFICES ASSUME ServiceInv, [Next]_vars PROVE ServiceInv'
  OBVIOUS
<1> USE DEF ServiceInv
<1>1. LogInv'
  BY NextLog, LogInvStep
<1>2. LogTypeOK /\ WorldTypeOK
  BY DEF LogInv, DiscoveryInv
<1>3. RequestTypeOK'
  BY <1>2, RequestTypes
<1>4. DiscoveryInv'
  BY DiscoveryStep
<1>5. RequestInv'
  BY <1>2, RequestStep
<1>6. GateInv'
  BY <1>2, GateStep
<1>7. OrderInv'
  BY OrderStep
<1> QED
  BY <1>1, <1>3, <1>4, <1>5, <1>6, <1>7

(* The inductive invariant holds in every reachable state of the service.  *)
THEOREM Invariance == Spec => []ServiceInv
<1>1. Init => ServiceInv
  BY InitServiceInv
<1>2. ServiceInv /\ [Next]_vars => ServiceInv'
  BY NextServiceInv
<1> QED
  BY <1>1, <1>2, PTL DEF Spec

(* Every variable of the service keeps its type; in particular no gate is    *)
(* released below zero.                                                      *)
THEOREM TypeSafety == Spec => []TypeOK
<1>1. ServiceInv => TypeOK
  BY ServiceAssumption DEF ServiceInv, LogInv, RequestTypeOK, DiscoveryInv, WorldTypeOK, GateInv,
     TypeOK
<1> QED
  BY <1>1, Invariance, PTL

(* acquireCapacity and the deferred release leak no token and invent none,   *)
(* whatever fails in between.                                                *)
THEOREM NoTokenIsLost == Spec => []TokensMatchHolders
<1>1. ServiceInv => TokensMatchHolders
  BY DEF ServiceInv, GateInv
<1> QED
  BY <1>1, Invariance, PTL

(* The two gates bound the operations that are on the databases at once.     *)
THEOREM GatesBoundConcurrency == Spec => []ConcurrencyBounded
<1>1. ServiceInv => ConcurrencyBounded
  BY ServiceAssumption DEF ServiceInv, GateInv, TokensMatchHolders, ConcurrencyBounded
<1> QED
  BY <1>1, Invariance, PTL

(* No database operation runs without its allow decision in the audit file.  *)
THEOREM NoUnauditedExecution == Spec => []AuditedBeforeExecution
<1>1. ServiceInv => AuditedBeforeExecution
  <2> SUFFICES ASSUME ServiceInv, NEW r \in entered
               PROVE  Durable(<<r, "allow">>) /\ ~Logged(<<r, "deny">>)
    BY DEF AuditedBeforeExecution
  <2>1. r \in Requests /\ S(r, "allow") = "acked" /\ S(r, "deny") = "idle"
    BY DEF ServiceInv, RequestTypeOK, RequestInv, Trail
  <2> QED
    BY <2>1, EventOfRequest DEF ServiceInv, LogInv, S, EventKinds
<1> QED
  BY <1>1, Invariance, PTL

(* No result leaves the service without its two lines, in order.             *)
THEOREM NoUnauditedSuccess == Spec => []SuccessIsAudited
<1>1. ServiceInv => SuccessIsAudited
  <2> SUFFICES ASSUME ServiceInv, NEW r \in Requests, Done(r, {"success"})
               PROVE  /\ Durable(<<r, "allow">>) /\ Durable(<<r, "completion">>)
                      /\ Before(<<r, "allow">>, <<r, "completion">>)
                      /\ outcome[r] = "success" /\ r \in entered
    BY DEF SuccessIsAudited
  <2>1. Trail(r) /\ Answer(r) /\ pc[r] = "done" /\ response[r] = "success"
    BY DEF ServiceInv, RequestInv, Done
  <2>2. /\ r \in entered /\ outcome[r] = "success"
        /\ S(r, "allow") = "acked" /\ S(r, "completion") = "acked"
    BY <2>1 DEF Trail, Answer
  <2>3. Durable(<<r, "allow">>) /\ Durable(<<r, "completion">>)
    BY <2>2, EventOfRequest DEF ServiceInv, LogInv, S, EventKinds
  <2>4. Before(<<r, "allow">>, <<r, "completion">>)
    BY <2>2, <2>3 DEF ServiceInv, OrderInv, Before, Durable
  <2> QED
    BY <2>2, <2>3, <2>4
<1> QED
  BY <1>1, Invariance, PTL

(* A denial the client hears of is in the audit file and had no effect; an   *)
(* object that the database does not have is audited as an executed request. *)
THEOREM NoUnauditedDenial == Spec => []DenialIsAudited
<1>1. ServiceInv => DenialIsAudited
  <2> SUFFICES ASSUME ServiceInv, NEW r \in Requests, Done(r, {"denied", "not_found"})
               PROVE  \/ Durable(<<r, "deny">>) /\ ~Logged(<<r, "allow">>) /\ r \notin entered
                      \/ /\ response[r] = "not_found" /\ r \in entered /\ outcome[r] = "error"
                         /\ Durable(<<r, "allow">>) /\ Durable(<<r, "completion">>)
    BY DEF DenialIsAudited
  <2>1. Trail(r) /\ Answer(r) /\ pc[r] = "done" /\ response[r] \in {"denied", "not_found"}
    BY DEF ServiceInv, RequestInv, Done
  <2>2. CASE response[r] = "denied" \/ (response[r] = "not_found" /\ r \notin entered)
    <3>1. S(r, "allow") = "idle" /\ S(r, "deny") = "acked" /\ r \notin entered
      BY <2>1, <2>2 DEF Answer
    <3> QED
      BY <3>1, EventOfRequest DEF ServiceInv, LogInv, S, EventKinds
  <2>3. CASE response[r] = "not_found" /\ r \in entered
    <3>1. S(r, "allow") = "acked" /\ S(r, "completion") = "acked" /\ outcome[r] = "error"
      BY <2>1, <2>3 DEF Trail, Answer
    <3> QED
      BY <2>3, <3>1, EventOfRequest DEF ServiceInv, LogInv, S, EventKinds
  <2> QED
    BY <2>1, <2>2, <2>3
<1> QED
  BY <1>1, Invariance, PTL

(* An allow decision without a completion beside it has one of two reasons.  *)
THEOREM AllowDecisionsArePaired == Spec => []AllowIsPaired
<1>1. ServiceInv => AllowIsPaired
  <2> SUFFICES ASSUME ServiceInv, NEW r \in Requests, pc[r] = "done", Durable(<<r, "allow">>)
               PROVE  \/ Durable(<<r, "completion">>)
                      \/ response[r] = "service_unavailable"
                      \/ response[r] = "capacity" /\ Flow[op[r]].refusal = "silent"
    BY DEF AllowIsPaired
  <2>1. <<r, "allow">> \in Events /\ <<r, "completion">> \in Events
    BY EventOfRequest DEF EventKinds
  <2>2. S(r, "allow") # "idle"
    BY <2>1 DEF ServiceInv, LogInv, S, Durable, Logged
  <2>3. \/ S(r, "completion") = "acked"
        \/ response[r] = "service_unavailable"
        \/ response[r] = "capacity" /\ Flow[op[r]].refusal = "silent"
    BY <2>2 DEF ServiceInv, RequestInv, Answer
  <2> QED
    BY <2>1, <2>3 DEF ServiceInv, LogInv, S
<1> QED
  BY <1>1, Invariance, PTL

(* No observation of other semantics leaves a snapshot published.            *)
THEOREM StaleSnapshotsAreDropped == Spec => []SnapshotsAgree
<1>1. ServiceInv => SnapshotsAgree
  BY DEF ServiceInv, DiscoveryInv
<1> QED
  BY <1>1, Invariance, PTL

(* Readiness never reports ready on a snapshot older than its own probe.     *)
THEOREM ReadinessIsFresh == Spec => ReadyIsFresh
<1> DEFINE Fresh == health.at = "probing" /\ health'.ready
                      => \A b \in Required : snapshots[b] = health.seen[DatasourceOf[b]]
<1>1. ServiceInv /\ [Next]_vars => [Fresh]_vars
  <2> SUFFICES ASSUME ServiceInv, [Next]_vars, health.at = "probing", health'.ready, ~UNCHANGED vars
               PROVE  \A b \in Required : snapshots[b] = health.seen[DatasourceOf[b]]
    OBVIOUS
  <2>1. ~health.ready
    BY DEF ServiceInv, DiscoveryInv, HealthInv
  <2>2. health' # health
    BY <2>1
  <2>3. ReadyFinish \/ \E d \in Datasources : ReadyProbe(d)
    BY <2>2 DEF Next, Handler, Prechecks, Probe, Authorize, Lookup, Decided, Denied,
                AcquireGlobal, AcquireBinding, Execute, Completed, Release, Arrive, Sink,
                InitializeQueryShapeDiscovery, ServerChanges, Ready, ReadyStart, ReadyObserve,
                worldVars
  <2>4. ~ \E d \in Datasources : ReadyProbe(d)
    BY <2>1 DEF ReadyProbe, ServiceInv, DiscoveryInv, WorldTypeOK
  <2>5. ReadyFinish
    BY <2>3, <2>4
  <2>6. health.left = {} /\ (health'.ready <=> \A b \in Required : snapshots[b] # None)
    BY <2>5 DEF ReadyFinish, ServiceInv, DiscoveryInv, WorldTypeOK
  <2>7. ASSUME NEW b \in Required PROVE snapshots[b] = health.seen[DatasourceOf[b]]
    <3>1. b \in Bindings /\ snapshots[b] # None
      BY <2>6, ServiceAssumption
    <3>2. health.seen[DatasourceOf[b]] \in observed[DatasourceOf[b]]
      BY <2>6 DEF ServiceInv, DiscoveryInv, HealthInv
    <3> QED
      BY <3>1, <3>2 DEF ServiceInv, DiscoveryInv, SnapshotsAgree
  <2> QED
    BY <2>7
<1> QED
  BY <1>1, Invariance, PTL DEF Spec, ReadyIsFresh
=============================================================================
