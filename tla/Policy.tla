------------------------------- MODULE Policy -------------------------------
(***************************************************************************)
(* Authorization of a request against a profile: the shapes published when *)
(* the gateway starts, the checks made before the server is asked how it   *)
(* compares names, the authorization under its answer, and the execution,  *)
(* on a server that may have been replaced since.  One profile, one        *)
(* principal, one request at a time; QueryService models the concurrency.  *)
(***************************************************************************)
EXTENDS QueryShapes

CONSTANTS
  Profiles,     \* the profiles a configuration file may hold, valid or not
  Requests,     \* requests written by a client that has not read the shapes
  Assigned,     \* the datasources the principal is assigned
  Spellings,    \* the cases in which a client may write a name
  Values,       \* the values it may use in a predicate
  Objects, Columns,  \* the names the server lists
  MaxChanges    \* bound: how often the server is replaced by one of other rules

ASSUME MaxChangesAssumption == MaxChanges \in Nat

\* A pattern is a sequence of names.
ASSUME PatternsAssumption ==
  \A p \in Profiles : \A rules \in {p.schemas, p.objects, p.fields} :
    rules.allow \cup rules.deny \subseteq Seq(STRING \X STRING)

\* What the decoders of requests and of the configuration make: a query of the
\* API, or a shape.
Identifiers == STRING \X (Spellings \cup {"lower"})
AllPredicates ==
  [field : Identifiers, representation : STRING, operator : STRING,
   types : Seq(STRING), values : Seq(Values)]
AllFilters == [kind : STRING, operator : STRING, expressions : Seq(AllPredicates)]
AllOutputs ==
  [kind : STRING, field : Identifiers, function : STRING, alias : Identifiers,
   representation : STRING, boundaries : Nat]
AllOrders ==
  [kind : STRING, field : Identifiers, alias : Identifiers,
   representation : STRING, direction : STRING]
AllQueries ==
  [name : STRING, mode : STRING, schema : Identifiers, object : Identifiers,
   projection : Seq(AllOutputs), filter : AllFilters, orderBy : Seq(AllOrders),
   groupBy : Seq(Identifiers), limit : Nat]

ASSUME QueriesAssumption ==
  /\ \A p \in Profiles : p.shapes \subseteq AllQueries
  /\ \A r \in Requests :
       /\ r.operation \in {"select", "explain_select", "aggregate", "select_keyset",
                           "list_objects", "describe_object", "describe_object_statistics"}
       /\ r.query \in AllQueries

\* Digests are numbers, and those of different predicates differ: of the
\* predicates that are written, and of what a client makes of a shape's, with
\* the names of their columns in the server's form.
Written ==
  (UNION {Predicates(s.filter) : s \in UNION {p.shapes : p \in Profiles}})
    \cup (UNION {Predicates(r.query.filter) : r \in Requests})
Hashed ==
  UNION {{[e EXCEPT !.field = CanonicalIdentifier(@, TRUE), !.values = v] :
            v \in {<<>>, e.values} \cup {[j \in DOMAIN e.types |-> x] : x \in Values}} : e \in Written}
ASSUME DigestsAssumption ==
  \A a, b \in Hashed : Digest(a) \in Int /\ (Digest(a) = Digest(b) => a = b)

VARIABLES
  profile,      \* the profile of the loaded configuration
  server,       \* how the server compares names now
  changes,      \* replacements of the server left
  document,     \* the published shapes with the semantics they were built under
  phase,        \* of the process, and of the one request
  request,      \* operation, datasource, shape name, page, query, origin
  seen,         \* the semantics the probe returned
  verdict,      \* "granted", "done", or why the request was refused
  execution     \* what was read, and how the server that read it compares names

vars == <<profile, server, changes, document, phase, request, seen, verdict, execution>>

None == [none |-> TRUE]

-----------------------------------------------------------------------------
(* Patterns. *)

Match(pattern, value, sem) ==
  LET insensitive == <<sem.schemas, sem.objects, sem.fields>>
  IN  /\ Len(pattern) = Len(value)
      /\ \A i \in DOMAIN pattern :
           \/ pattern[i] = Wild
           \/ CanonicalIdentifier(pattern[i], insensitive[i])
                = CanonicalIdentifier(value[i], insensitive[i])

Allowed(rules, value, sem) ==
  /\ \A pattern \in rules.deny : ~Match(pattern, value, sem)
  /\ rules.allow = {} \/ \E pattern \in rules.allow : Match(pattern, value, sem)

ResourceAllowed(p, q, sem) ==
  /\ Allowed(p.schemas, <<q.schema>>, sem)
  /\ Allowed(p.objects, <<q.schema, q.object>>, sem)
FieldAllowed(p, q, field, sem) == Allowed(p.fields, <<q.schema, q.object, field>>, sem)
FieldsAllowed(p, q, sem) == \A field \in ReferencedFields(q) : FieldAllowed(p, q, field, sem)

-----------------------------------------------------------------------------
(* Query features. *)

FilterAllowed(policy, q) ==
  q.filter # NoFilter =>
    /\ policy.filtering
    /\ {p.operator : p \in Predicates(q.filter)} \subseteq policy.operators

AuthorizeFeatures(policy, q) ==
  /\ UsesSourceText(q) => policy.sourceText
  /\ FilterAllowed(policy, q)
  /\ q.groupBy # <<>> => policy.groupBy
  /\ q.orderBy # <<>> => policy.sorting
  /\ \A out \in Outputs(q) : out.kind = "aggregate" => out.function \in policy.aggregates

AggregateFeaturesAllowed(policy, q) ==
  /\ FilterAllowed(policy, q)
  /\ q.mode = "grouped" => policy.groupBy
  /\ q.orderBy # <<>> => policy.sorting
  /\ \A out \in Outputs(q) : out.kind = "measure" => Function(out) \in policy.aggregates

AuthorizeAggregateFeatures(policy, q) ==
  (UsesSourceText(q) => policy.sourceText) /\ AggregateFeaturesAllowed(policy, q)

AuthorizeKeysetFeatures(policy, q) ==
  (UsesSourceText(q) => policy.sourceText) /\ policy.sorting /\ FilterAllowed(policy, q)

-----------------------------------------------------------------------------
(* Matching a request with the shapes of its profile. *)

\* The signature of an aggregate request must be that of exactly one shape
\* that grants the limit.
MatchAggregateShape(p, q, sem) ==
  LET normalized == NormalizeIdentifiers(q, sem)
      matching == {s \in p.shapes :
                     /\ s.mode # "keyset"
                     /\ q.mode = "grouped" => q.limit <= s.limit
                     /\ ShapeFilterIsDistinct(s.filter, sem.fields)
                     /\ ConfiguredShapeSignature(s, sem) = AggregateQuerySignature(normalized)}
  IN  IF Cardinality(matching) = 1 THEN matching ELSE {}

ConfiguredKeysetSignatureEqual(s, q, sem) ==
  /\ ShapeFilterIsDistinct(s.filter, sem.fields)
  /\ ConfiguredShapeSignature(s, sem) = RequestKeysetSignature(NormalizeIdentifiers(q, sem), sem)

FindKeysetShape(p, name) == {s \in p.shapes : s.mode = "keyset" /\ s.name = name}

\* Variant: the check before the probe compares table names with their case.
PotentialMatchCaseSensitive(s, q) ==
  KeysetNormalizes(q, CaseSensitive) /\ ConfiguredKeysetSignatureEqual(s, q, CaseSensitive)

PotentialKeysetShapeMatch(s, q) ==
  KeysetNormalizes(q, CaseInsensitive) /\ ConfiguredKeysetSignatureEqual(s, q, CaseInsensitive)

MatchKeysetShape(p, name, q, sem) ==
  {s \in FindKeysetShape(p, name) : ConfiguredKeysetSignatureEqual(s, q, sem)}

-----------------------------------------------------------------------------
(* Authorization.  Each operator is the reason of the refusal, or granted. *)

\* Checks made one after the other, each a condition that refuses and its reason.
FirstReason(checks) ==
  LET refusing == {i \in DOMAIN checks : checks[i][1]}
  IN  IF refusing = {} THEN "granted" ELSE checks[Min(refusing)][2]

AuthorizeBinding(p, r) ==
  r.datasource \in Assigned /\ r.datasource \in p.datasources /\ r.operation \in p.operations

PrecheckKeysetSelect(p, r) ==
  /\ \E s \in FindKeysetShape(p, r.shape) :
       r.query.limit <= s.limit /\ PotentialKeysetShapeMatch(s, r.query)
  /\ AuthorizeKeysetFeatures(p.query, r.query)

\* What AuthorizeKeysetSelect does after it has repeated the check above.
AuthorizeKeysetSelect(p, r, sem) ==
  LET q == NormalizeIdentifiers(r.query, sem)
  IN  FirstReason(
        <<<<~KeysetNormalizes(r.query, sem), "invalid">>,
          <<~\E s \in MatchKeysetShape(p, r.shape, r.query, sem) : q.limit <= s.limit, "feature">>,
          <<~ResourceAllowed(p, q, sem), "resource">>,
          <<~FieldsAllowed(p, q, sem), "field">>,
          <<~AuthorizeKeysetFeatures(p.query, q), "feature">>>>)

AuthorizeAggregate(p, r, sem) ==
  LET q == NormalizeIdentifiers(r.query, sem)
      shape == MatchAggregateShape(p, r.query, sem)
  IN  FirstReason(
        <<<<~AggregateNormalizes(r.query, sem), "invalid">>,
          <<~ResourceAllowed(p, q, sem), "resource">>,
          <<~FieldsAllowed(p, q, sem), "field">>,
          <<~AuthorizeAggregateFeatures(p.query, q) \/ shape = {}, "feature">>,
          <<\E s \in shape : Parameters(q, r.page) + NumericBucketParameters(q, s)
                              > p.limits.parameters, "invalid">>>>)

AuthorizeQuery(p, r, sem) ==
  FirstReason(
    <<<<r.operation = "select" /\ ~ValidateSimpleSelect(r.query), "invalid">>,
      <<~ResourceAllowed(p, r.query, sem), "resource">>,
      <<~FieldsAllowed(p, r.query, sem), "field">>,
      <<~AuthorizeFeatures(p.query, r.query), "feature">>>>)

AuthorizeSchema(p, r, sem) ==
  FirstReason(
    <<<<~Allowed(p.schemas, <<r.query.schema>>, sem), "resource">>,
      <<r.operation # "list_objects" /\ ~ResourceAllowed(p, r.query, sem), "resource">>>>)

AuthorizeRequest(p, r, sem) ==
  CASE r.operation = "select_keyset" -> AuthorizeKeysetSelect(p, r, sem)
    [] r.operation = "aggregate" -> AuthorizeAggregate(p, r, sem)
    [] r.operation \in {"select", "explain_select"} -> AuthorizeQuery(p, r, sem)
    [] r.operation \in {"list_objects", "describe_object", "describe_object_statistics"} ->
         AuthorizeSchema(p, r, sem)

Validate(r) ==
  CASE r.query.mode = "select" -> ValidateSelect(r.query)
    [] r.query.mode = "keyset" -> ValidateKeyset(r.query)
    [] r.query.mode \in {"scalar", "grouped"} -> ValidateAggregate(r.query)
    [] r.query.mode = "schema" -> TRUE

\* The handler, up to the probe.
CheckBeforeProbe(p, r) ==
  FirstReason(
    <<<<~Validate(r), "invalid">>,
      <<~AuthorizeBinding(p, r), "operation">>,
      <<r.query.mode # "schema" /\ ~WithinLimits(r.query, r.page, p.limits), "invalid">>,
      <<UsesSourceText(r.query) /\ ~p.query.sourceText, "feature">>,
      <<r.operation = "select_keyset" /\ ~PrecheckKeysetSelect(p, r), "feature">>>>)

-----------------------------------------------------------------------------
(* Publication and what a client makes of it. *)

\* BuildQueryShapeDocument succeeds.
Publishable(p, sem) ==
  \A s \in p.shapes :
    /\ s.mode # "keyset" => AggregateFeaturesAllowed(p.query, s)
    /\ ResourceAllowed(p, s, sem) /\ FieldsAllowed(p, s, sem)
    /\ ShapeFilterIsDistinct(s.filter, sem.fields)

PublicShape(s, sem) ==
  LET digest(p) == AggregateFilterShapeDigest([p EXCEPT !.field = CanonicalIdentifier(@, sem.fields)])
  IN  [s EXCEPT !.filter.expressions =
         CHOOSE t \in Arrangements(@) : \A i, j \in DOMAIN t : i < j => ~(digest(t[j]) < digest(t[i]))]

\* A name in a case the server cannot tell from the published one.
Respelled(id, case, insensitive) ==
  IF insensitive /\ id # NoName THEN <<id[1], case>> ELSE id

\* What a client makes of an output, an order and a predicate of a shape.
OutputOf(out, c, sem) ==
  [out EXCEPT !.field = Respelled(@, c, sem.fields), !.alias = Respelled(@, c, TRUE),
              !.boundaries = 0]
OrderOf(o, c, sem) ==
  [o EXCEPT !.field = Respelled(@, c, sem.fields), !.alias = Respelled(@, c, TRUE)]
PredicateOf(e, c, v, sem) ==
  [e EXCEPT !.field = Respelled(@, c, sem.fields), !.values = [j \in DOMAIN e.types |-> v]]

\* A query a client may build from a published shape: in any spelling the
\* server accepts, the predicates in either order, any values of the types given.
InstanceQuery(s, sem, c, v, reversed, limit) ==
  LET e == s.filter.expressions
      at(i) == IF reversed THEN Len(e) + 1 - i ELSE i
  IN  [s EXCEPT
         !.schema = Respelled(@, c, sem.schemas),
         !.object = Respelled(@, c, sem.objects),
         !.projection = [i \in DOMAIN @ |-> OutputOf(@[i], c, sem)],
         !.filter.expressions = [i \in DOMAIN e |-> PredicateOf(e[at(i)], c, v[at(i)], sem)],
         !.orderBy = [i \in DOMAIN @ |-> OrderOf(@[i], c, sem)],
         !.limit = limit]

Instances(s, sem) ==
  {[operation |-> IF s.mode = "keyset" THEN "select_keyset" ELSE "aggregate",
    datasource |-> d, shape |-> s.name, page |-> page, origin |-> sem,
    query |-> InstanceQuery(s, sem, c, v, reversed, limit)] :
     d \in profile.datasources \cap Assigned, c \in Spellings,
     v \in [DOMAIN s.filter.expressions -> Values], reversed \in BOOLEAN,
     page \in IF s.mode = "keyset" THEN {"first", "after"} ELSE {"first"},
     limit \in IF s.mode = "scalar" THEN {0} ELSE {1, s.limit}}

-----------------------------------------------------------------------------
(* Actions. *)

\* A principal is assigned a datasource of each of its profiles.
ValidatePrincipal(p) == p.datasources \cap Assigned # {}

Init ==
  /\ profile \in {p \in Profiles : ValidateProfile(p) /\ ValidatePrincipal(p)}
  /\ server \in MySQLSemantics
  /\ changes = MaxChanges
  /\ document = None
  /\ phase = "starting"
  /\ request = None /\ seen = None /\ verdict = "none" /\ execution = None

\* InitializeQueryShapes: the static check of every shape, then the document
\* under the semantics of the server; either failure ends the start.
Publish ==
  /\ phase = "starting"
  /\ IF "list_query_shapes" \notin profile.operations
       THEN phase' = "serving" /\ UNCHANGED document
       ELSE IF Publishable(profile, Exact) /\ Publishable(profile, server)
         THEN /\ phase' = "serving"
              /\ document' = [semantics |-> server,
                              shapes |-> {PublicShape(s, server) : s \in profile.shapes}]
         ELSE phase' = "stopped" /\ UNCHANGED document
  /\ UNCHANGED <<profile, server, changes, request, seen, verdict, execution>>

\* ... and a server that does not answer leaves the binding without a document.
PublishUnready ==
  /\ phase = "starting" /\ "list_query_shapes" \in profile.operations
  /\ Publishable(profile, Exact)
  /\ phase' = "serving"
  /\ UNCHANGED <<profile, server, changes, document, request, seen, verdict, execution>>

Receive(r) ==
  /\ phase = "serving"
  /\ phase' = "received"
  /\ request' = r
  /\ UNCHANGED <<profile, server, changes, document, seen, verdict, execution>>

\* A request of a client that has not read the published shapes.
ReceiveFresh == \E r \in Requests : Receive(r)

\* A request built from one of them, perhaps after the server has changed.
ReceivePublished ==
  /\ document # None
  /\ \E s \in document.shapes : \E r \in Instances(s, document.semantics) : Receive(r)

Answer(v) == phase' = "answered" /\ verdict' = v

Check ==
  /\ phase = "received"
  /\ LET v == CheckBeforeProbe(profile, request)
     IN  IF v = "granted" THEN phase' = "checked" /\ UNCHANGED verdict ELSE Answer(v)
  /\ UNCHANGED <<profile, server, changes, document, request, seen, execution>>

\* IdentifierSemantics, and observeIdentifierSemantics, which drops a document
\* built under other semantics.
Probe ==
  /\ phase = "checked"
  /\ phase' = "probed"
  /\ seen' = server
  /\ document' = IF document # None /\ document.semantics # server THEN None ELSE document
  /\ UNCHANGED <<profile, server, changes, request, verdict, execution>>

Authorize ==
  /\ phase = "probed"
  /\ LET v == AuthorizeRequest(profile, request, seen)
     IN  IF v = "granted" THEN phase' = "authorized" /\ verdict' = v ELSE Answer(v)
  /\ UNCHANGED <<profile, server, changes, document, request, seen, execution>>

\* Variant: the execution relies on the probe of the authorization.
RecheckOmitted(r, sem) == TRUE

\* A keyset page and table statistics are read on a connection that has told
\* again how it compares names.
Recheck(r, sem) ==
  r.operation \in {"select_keyset", "describe_object_statistics"} => sem = seen

\* Names in what is sent; list_objects and describe_object return the names the
\* policy allows, judged by the semantics of the authorization.
Reads(p, r) ==
  LET q == IF r.operation \in {"aggregate", "select_keyset", "describe_object_statistics"}
             THEN NormalizeIdentifiers(r.query, seen) ELSE r.query
  IN  CASE r.operation = "list_objects" ->
             {<<q.schema, o>> : o \in {o \in Objects : Allowed(p.objects, <<q.schema, o>>, seen)}}
        [] r.operation = "describe_object" ->
             {<<q.schema, q.object, c>> : c \in {c \in Columns : FieldAllowed(p, q, c, seen)}}
        [] r.operation = "describe_object_statistics" -> {<<q.schema, q.object>>}
        [] OTHER -> {<<q.schema, q.object>>}
                      \cup {<<q.schema, q.object, f>> : f \in ReferencedFields(q)}

Execute ==
  /\ phase = "authorized"
  /\ IF Recheck(request, server)
       THEN Answer("done") /\ execution' = [reads |-> Reads(profile, request), server |-> server]
       ELSE Answer("unavailable") /\ UNCHANGED execution
  /\ UNCHANGED <<profile, server, changes, document, request, seen>>

\* The next request.
Finish ==
  /\ phase = "answered"
  /\ phase' = "serving"
  /\ request' = None /\ seen' = None /\ verdict' = "none" /\ execution' = None
  /\ UNCHANGED <<profile, server, changes, document>>

\* The datasource's address leads to a server of the other kind.
ReplaceServer ==
  /\ phase # "stopped" /\ changes > 0
  /\ changes' = changes - 1
  /\ server' \in MySQLSemantics \ {server}
  /\ UNCHANGED <<profile, document, phase, request, seen, verdict, execution>>

Stopped == phase = "stopped" /\ UNCHANGED vars

Next ==
  \/ Publish \/ PublishUnready \/ ReceiveFresh \/ ReceivePublished \/ Check \/ Probe \/ Authorize
  \/ Execute \/ Finish \/ ReplaceServer \/ Stopped

Spec == Init /\ [][Next]_vars

-----------------------------------------------------------------------------
(* Properties. *)

Refused == verdict \in {"operation", "invalid", "feature", "resource", "field"}

\* A request built from a published shape, in any spelling the server of the
\* document could not tell apart, for any page and any limit the shape names,
\* is refused only by a probe that finds a server with other rules: validation
\* of the configuration, publication, precheck and authorization agree on what
\* a shape permits.  They do not where a representation is all that tells two
\* predicates apart, which is lost when duplicates are refused, and for keyset
\* pages with a predicate on source text, which is lost in the signature.
PublishedShapesAreUsable ==
  phase = "answered" /\ Refused /\ request.origin # None =>
    \/ seen # None /\ seen # request.origin
    \/ ~ExactlyDistinct(request.query.filter)
    \/ /\ request.operation = "select_keyset"
       /\ \E p \in Predicates(request.query.filter) : p.representation = "source_text"

\* What was executed names nothing that a deny pattern names and only what the
\* allow patterns name, as the server that executed it compares names.  The
\* operations that ask again on the executing connection keep this whatever
\* happens to the server; the others when it is the server that was probed.
ExecutedIsAllowed ==
  execution # None
    /\ (request.operation \in {"select_keyset", "describe_object_statistics"}
          \/ execution.server = seen) =>
    LET sem == execution.server
        rules == <<profile.schemas, profile.objects, profile.fields>>
        insensitive == <<sem.schemas, sem.objects, TRUE>>
        same(i, x, y) == x = y \/ (insensitive[i] /\ x[1] = y[1])
        named(name, patterns) == \E pattern \in patterns :
          \A i \in DOMAIN name : pattern[i] = Wild \/ same(i, pattern[i], name[i])
    IN  \A read \in execution.reads : \A depth \in 1..Len(read) :
          LET name == SubSeq(read, 1, depth)
          IN  /\ ~named(name, rules[depth].deny)
              /\ rules[depth].allow = {} \/ named(name, rules[depth].allow)

\* PrecheckKeysetSelect refuses, before any server is asked, only what the
\* authorization would refuse under the rules of every server.
PrecheckIsNecessary ==
  phase = "answered" /\ seen = None /\ request.operation = "select_keyset"
    /\ verdict = "feature" =>
    \A sem \in MySQLSemantics : AuthorizeKeysetSelect(profile, request, sem) # "granted"

\* docs/policy-configuration.md: the representation is part of shape matching.
\* A keyset request is granted only with the representations of its shape.
RepresentationIsMatched ==
  phase = "authorized" /\ request.operation = "select_keyset" =>
    \A s \in FindKeysetShape(profile, request.shape) :
      {<<p.field[1], p.representation>> : p \in Predicates(s.filter)}
        = {<<p.field[1], p.representation>> : p \in Predicates(request.query.filter)}
=============================================================================
