----------------------------- MODULE QueryShapes ----------------------------
(***************************************************************************)
(* The queries of the API and the shapes a profile configures for them, as *)
(* data: identifiers under a server's case rules, filters, signatures, the *)
(* checks of a configuration when it is loaded and of a request when it    *)
(* is authorized.  An identifier is a name and a spelling; two spellings   *)
(* of a name differ in case only.  A query and a shape have the same form: *)
(* mode, source, projection, filter, order and limit, the shape with the   *)
(* types of the values where the query has the values.                     *)
(***************************************************************************)
EXTENDS Integers, Sequences, FiniteSets, SequencesExt

CONSTANT
  Digest(_)   \* sha256 of a predicate as a number: its place in a sorted group

-----------------------------------------------------------------------------
(* Identifiers. *)

NoName == <<"", "lower">>
Wild == <<"*", "lower">>

\* domain.IdentifierSemantics of a MySQL server: lower_case_table_names is 0,
\* or 1 or 2; column names never depend on case.
CaseSensitive == [schemas |-> FALSE, objects |-> FALSE, fields |-> TRUE]
CaseInsensitive == [schemas |-> TRUE, objects |-> TRUE, fields |-> TRUE]
MySQLSemantics == {CaseSensitive, CaseInsensitive}

\* The zero value, under which the static checks run: every name as it is.
Exact == [schemas |-> FALSE, objects |-> FALSE, fields |-> FALSE]

CanonicalIdentifier(id, insensitive) == IF insensitive THEN <<id[1], "lower">> ELSE id

-----------------------------------------------------------------------------
(* Filters: none, a predicate, or a group of predicates.                   *)

NoFilter == [kind |-> "none", operator |-> "", expressions |-> <<>>]
Predicate(field, representation, operator, types, values) ==
  [field |-> field, representation |-> representation, operator |-> operator,
   types |-> types, values |-> values]
Single(p) == [kind |-> "predicate", operator |-> "", expressions |-> <<p>>]
Group(operator, ps) == [kind |-> "group", operator |-> operator, expressions |-> ps]

Predicates(f) == ToSet(f.expressions)
FilterParameters(f) ==
  FoldSeq(LAMBDA p, n : n + Len(p.types), 0, f.expressions)
FilterDepth(f) == CASE f.kind = "none" -> 0 [] f.kind = "predicate" -> 1 [] f.kind = "group" -> 2

ShapeOf(p) == [p EXCEPT !.values = <<>>]
AggregateFilterShapeDigest(p) == Digest(ShapeOf(p))

\* A group is sorted by shape digest, then by value digest.
Precedes(a, b) ==
  \/ AggregateFilterShapeDigest(a) < AggregateFilterShapeDigest(b)
  \/ /\ AggregateFilterShapeDigest(a) = AggregateFilterShapeDigest(b)
     /\ Digest(a) < Digest(b)

Arrangements(s) == {[i \in DOMAIN s |-> s[p[i]]] : p \in Bijection(DOMAIN s, DOMAIN s)}
SortedPredicates(ps) ==
  CHOOSE t \in Arrangements(ps) : \A i, j \in DOMAIN t : i < j => ~Precedes(t[j], t[i])

CanonicalPredicates(f, insensitive) ==
  [i \in DOMAIN f.expressions |->
     [f.expressions[i] EXCEPT !.field = CanonicalIdentifier(@, insensitive)]]

NormalizeAggregateFilter(f, insensitive) ==
  [f EXCEPT !.expressions = SortedPredicates(CanonicalPredicates(f, insensitive))]

\* The error of normalizeAggregateFilterNode: predicates that have become equal.
FilterNormalizes(f, insensitive) == IsInjective(CanonicalPredicates(f, insensitive))

\* rejectExactFilterDuplicates compares what was written, without representation.
ExactlyDistinct(f) ==
  IsInjective([i \in DOMAIN f.expressions |-> [f.expressions[i] EXCEPT !.representation = ""]])

\* The filter of a signature: of an aggregate request, and of a keyset request,
\* which leaves the representation out.
QueryAggregateShapeFilter(f) ==
  [f EXCEPT !.expressions = [i \in DOMAIN @ |-> ShapeOf(@[i])]]
QueryKeysetShapeFilter(f, insensitive) ==
  [f EXCEPT !.expressions =
     [i \in DOMAIN @ |->
        [ShapeOf(@[i]) EXCEPT !.field = CanonicalIdentifier(@, insensitive),
                              !.representation = ""]]]

\* The filter of a configured shape, sorted; it fails on predicates of one shape.
ConfiguredAggregateShapeFilter(f, insensitive) == NormalizeAggregateFilter(f, insensitive)
ShapeFilterIsDistinct(f, insensitive) == FilterNormalizes(f, insensitive)

-----------------------------------------------------------------------------
(* Queries.  An output has a field or an alias or both; an order names a   *)
(* field or an alias.                                                      *)

Outputs(q) == ToSet(q.projection)
Orders(q) == ToSet(q.orderBy)
IsDimension(out) == out.kind \in {"dimension", "time_bucket", "numeric_bucket"}
HasAlias(out) ==
  \/ out.kind \in {"measure", "time_bucket", "numeric_bucket"}
  \/ out.kind = "field" /\ out.alias # NoName
OutputName(out) == IF HasAlias(out) THEN out.alias ELSE out.field
Target(o) == IF o.kind \in {"dimension", "field"} THEN o.field ELSE o.alias

CanonicalOutputs(q, sem) ==
  [i \in DOMAIN q.projection |->
     [q.projection[i] EXCEPT !.field = CanonicalIdentifier(@, sem.fields),
                             !.alias = CanonicalIdentifier(@, TRUE)]]
CanonicalOrders(q, sem) ==
  [i \in DOMAIN q.orderBy |->
     [q.orderBy[i] EXCEPT !.field = CanonicalIdentifier(@, sem.fields),
                          !.alias = CanonicalIdentifier(@, TRUE)]]
CanonicalSource(q, sem) ==
  [q EXCEPT !.schema = CanonicalIdentifier(@, sem.schemas),
            !.object = CanonicalIdentifier(@, sem.objects)]

NormalizeIdentifiers(q, sem) ==
  [CanonicalSource(q, sem) EXCEPT
     !.projection = CanonicalOutputs(q, sem),
     !.filter = NormalizeAggregateFilter(@, sem.fields),
     !.orderBy = CanonicalOrders(q, sem)]

NamesDiffer(outputs) == IsInjective([i \in DOMAIN outputs |-> OutputName(outputs[i])])

\* The conditions under which NormalizeAggregateIdentifiers returns no error.
AggregateNormalizes(q, sem) ==
  LET outputs == CanonicalOutputs(q, sem)
      orders == CanonicalOrders(q, sem)
      timeFields == SelectSeq(outputs, LAMBDA out : out.kind = "time_bucket")
  IN  /\ NamesDiffer(outputs)
      /\ IsInjective([i \in DOMAIN timeFields |-> timeFields[i].field])
      /\ FilterNormalizes(q.filter, sem.fields)
      /\ \A i \in DOMAIN orders : \E out \in ToSet(outputs) :
           /\ out.kind = orders[i].kind
           /\ OutputName(out) = Target(orders[i])
           /\ out.kind = "dimension" => out.representation = orders[i].representation
      /\ IsInjective([i \in DOMAIN orders |-> <<orders[i].kind, Target(orders[i])>>])

\* ... and NormalizeKeysetIdentifiers: every key is projected exactly once,
\* in the representation it is ordered by.
KeysetNormalizes(q, sem) ==
  LET outputs == CanonicalOutputs(q, sem)
      orders == CanonicalOrders(q, sem)
      projecting(o) == {i \in DOMAIN outputs : outputs[i].field = o.field}
  IN  /\ NamesDiffer(outputs)
      /\ FilterNormalizes(q.filter, sem.fields)
      /\ IsInjective([i \in DOMAIN orders |-> orders[i].field])
      /\ \A o \in ToSet(orders) :
           /\ Cardinality(projecting(o)) = 1
           /\ \A i \in projecting(o) : outputs[i].representation = o.representation

\* The fields a query names, wherever it names them.
ReferencedFields(q) ==
  ({out.field : out \in Outputs(q)} \cup {p.field : p \in Predicates(q.filter)}
     \cup ToSet(q.groupBy) \cup {o.field : o \in Orders(q)}) \ {NoName}

UsesSourceText(q) ==
  \E x \in Outputs(q) \cup Predicates(q.filter) \cup Orders(q) : x.representation = "source_text"

-----------------------------------------------------------------------------
(* Signatures: what a request and a shape must have in common.             *)

\* The type and bounds of the values and of a bucket are not in the outputs.
OutputSignature(outputs) == [i \in DOMAIN outputs |-> [outputs[i] EXCEPT !.boundaries = 0]]
SignatureOf(q, outputs, filter, orders) ==
  [mode |-> q.mode, schema |-> q.schema, object |-> q.object,
   projection |-> OutputSignature(outputs), filter |-> filter, orderBy |-> orders]

AggregateQuerySignature(q) ==
  SignatureOf(q, q.projection, QueryAggregateShapeFilter(q.filter), q.orderBy)
RequestKeysetSignature(q, sem) ==
  SignatureOf(CanonicalSource(q, sem), CanonicalOutputs(q, sem),
              QueryKeysetShapeFilter(q.filter, sem.fields), CanonicalOrders(q, sem))
ConfiguredShapeSignature(shape, sem) ==
  SignatureOf(CanonicalSource(shape, sem), CanonicalOutputs(shape, sem),
              ConfiguredAggregateShapeFilter(shape.filter, sem.fields),
              CanonicalOrders(shape, sem))

\* canonicalAggregateRequestSignature and canonicalKeysetRequestSignature.
CanonicalRequestSignature(shape) == ConfiguredShapeSignature(shape, CaseInsensitive)

-----------------------------------------------------------------------------
(* Limits. *)

KeysetCursorParameterCount(width) == (width * (width + 1)) \div 2

\* Each bound of a numeric bucket is bound in SELECT, GROUP BY and its ORDER BY.
NumericBucketParameters(q, shape) ==
  FoldSeq(LAMBDA out, n :
            n + IF out.kind # "numeric_bucket" THEN 0
                ELSE out.boundaries *
                     (2 + Cardinality({i \in DOMAIN q.orderBy :
                             /\ q.orderBy[i].kind = "numeric_bucket"
                             /\ q.orderBy[i].alias[1] = out.alias[1]})),
          0, shape.projection)

\* The values of the filter, those of the cursor, and LIMIT and OFFSET.
Parameters(q, page) ==
  FilterParameters(q.filter)
    + (CASE q.mode = "scalar" -> 0
         [] q.mode = "grouped" -> 1
         [] q.mode = "select" -> 2
         [] q.mode = "keyset" ->
              1 + IF page = "after" THEN KeysetCursorParameterCount(Len(q.orderBy)) ELSE 0)

\* RevalidateAggregate, RevalidateKeyset and Revalidate.
WithinLimits(q, page, limits) ==
  /\ Len(q.projection) <= limits.projection
  /\ Len(q.orderBy) <= limits.orderBy
  /\ Len(q.groupBy) <= limits.groupBy
  /\ Cardinality({i \in DOMAIN q.projection : IsDimension(q.projection[i])}) <= limits.groupBy
  /\ Len(q.filter.expressions) <= limits.predicates
  /\ FilterDepth(q.filter) <= limits.depth
  /\ Parameters(q, page) <= limits.parameters
  /\ q.mode \in {"grouped", "keyset"} => q.limit <= limits.rows

-----------------------------------------------------------------------------
(* What a decoded request must be, whatever the policy and the server.     *)

ValidArity(p) ==
  CASE p.operator \in {"is_null", "is_not_null"} -> p.types = <<>>
    [] p.operator \in {"in", "not_in"} -> p.types # <<>>
    [] OTHER -> Len(p.types) = 1

ValidGroup(f) == f.kind = "group" => f.operator \in {"and", "or"} /\ Len(f.expressions) >= 2

ValidateFilter(f) ==
  /\ ValidGroup(f)
  /\ \A p \in Predicates(f) :
       /\ ValidArity(p)
       /\ p.representation = "source_text" => ToSet(p.types) \subseteq {"string"}

Lowered(outputs) ==
  [i \in DOMAIN outputs |-> CanonicalIdentifier(OutputName(outputs[i]), TRUE)]
LoweredAliases(items) == [i \in DOMAIN items |-> CanonicalIdentifier(items[i].alias, TRUE)]
Fields(items) == [i \in DOMAIN items |-> items[i].field]
Named(field, fields) == \E f \in fields : f[1] = field[1]

\* A query with aggregates or GROUP BY, for explain_select only.
ValidateGroupedShape(q) ==
  LET plain == {out \in Outputs(q) : out.kind = "field"}
      grouped == q.groupBy # <<>> \/ plain # Outputs(q)
  IN  grouped =>
        /\ \A out \in Outputs(q) : out.representation = ""
        /\ \A x \in plain \cup Orders(q) : Named(x.field, ToSet(q.groupBy))

ValidateSelect(q) ==
  /\ q.projection # <<>>
  /\ \A out \in Outputs(q) : out.representation # "" => out.kind = "field"
  /\ ValidateFilter(q.filter)
  /\ ValidateGroupedShape(q)

ValidateSimpleSelect(q) == q.groupBy = <<>> /\ \A out \in Outputs(q) : out.kind = "field"

ValidateAggregate(q) ==
  /\ q.projection # <<>>
  /\ IsInjective(Lowered(q.projection))
  /\ IsInjective(Fields(SelectSeq(q.projection, LAMBDA out : out.kind = "time_bucket")))
  /\ \A out \in Outputs(q) : out.representation # "" => out.kind = "dimension"
  /\ IF q.mode = "scalar"
       THEN \A out \in Outputs(q) : out.kind = "measure"
       ELSE /\ \E out \in Outputs(q) : IsDimension(out)
            /\ \E out \in Outputs(q) : out.kind = "measure"
            /\ q.limit >= 1
  /\ q.mode = "scalar" => q.orderBy = <<>> /\ q.limit = 0
  /\ ValidateFilter(q.filter) /\ ExactlyDistinct(q.filter)
  /\ IsInjective(LoweredAliases(SelectSeq(q.orderBy, LAMBDA o : o.kind = "numeric_bucket")))
  /\ \A o \in Orders(q) :
       LET potential == {out \in Outputs(q) : out.kind = o.kind /\ OutputName(out)[1] = Target(o)[1]}
       IN  /\ o.representation # "" => o.kind = "dimension"
           /\ o.kind = "numeric_bucket" => potential # {}
           /\ o.kind = "dimension" /\ potential # {} =>
                \E out \in potential : out.representation = o.representation

ValidateKeyset(q) ==
  /\ q.projection # <<>> /\ q.orderBy # <<>> /\ q.limit >= 1
  /\ \A out \in Outputs(q) : out.kind = "field"
  /\ IsInjective(Lowered(q.projection))
  /\ IsInjective(Fields(q.orderBy))
  /\ ValidateFilter(q.filter) /\ ExactlyDistinct(q.filter)

-----------------------------------------------------------------------------
(* Loading a configuration: Config.Validate, for one profile.              *)

Function(out) == IF out.function = "count_all" THEN "count" ELSE out.function

SourceTextAllowed(shape, query) ==
  /\ UsesSourceText(shape) => query.sourceText
  /\ \A out \in Outputs(shape) : out.representation # "" => out.kind \in {"dimension", "field"}
  /\ \A o \in Orders(shape) : o.representation # "" => o.kind \in {"dimension", "field"}
  /\ \A p \in Predicates(shape.filter) :
       p.representation # "" => ToSet(p.types) \subseteq {"string"}

ValidateShapeFilter(f, query, limits) ==
  f # NoFilter =>
    /\ query.filtering
    /\ {p.operator : p \in Predicates(f)} \subseteq query.operators
    /\ ValidGroup(f) /\ \A p \in Predicates(f) : ValidArity(p)
    /\ FilterDepth(f) <= limits.depth
    /\ Len(f.expressions) <= limits.predicates
    /\ ShapeFilterIsDistinct(f, TRUE)

ValidateAggregateShape(shape, query, limits) ==
  /\ shape.mode \in {"scalar", "grouped"}
  /\ shape.projection # <<>> /\ Len(shape.projection) <= limits.projection
  /\ shape.mode = "scalar" =>
       /\ \A out \in Outputs(shape) : out.kind = "measure"
       /\ shape.orderBy = <<>> /\ shape.limit = 0
  /\ shape.mode = "grouped" =>
       /\ {out.kind : out \in Outputs(shape)} \cap {"measure"} # {}
       /\ \E out \in Outputs(shape) : IsDimension(out)
       /\ shape.limit \in 1..limits.rows
       /\ query.groupBy
  /\ Cardinality({i \in DOMAIN shape.projection : IsDimension(shape.projection[i])})
       <= limits.groupBy
  /\ shape.orderBy # <<>> => query.sorting
  /\ Len(shape.orderBy) <= limits.orderBy
  /\ \A out \in Outputs(shape) : out.kind = "measure" => Function(out) \in query.aggregates
  /\ AggregateNormalizes(shape, CaseInsensitive)
  /\ SourceTextAllowed(shape, query)
  /\ ValidateShapeFilter(shape.filter, query, limits)
  /\ Parameters(shape, "first") + NumericBucketParameters(shape, shape) <= limits.parameters

\* Variant: a cursor is counted with one parameter for each of its columns.
AfterPageParametersLinear(shape) == 1 + FilterParameters(shape.filter) + Len(shape.orderBy)

AfterPageParameters(shape) ==
  1 + FilterParameters(shape.filter) + KeysetCursorParameterCount(Len(shape.orderBy))

ValidateKeysetShapeFilterTypes(f) ==
  \A p \in Predicates(f) :
    /\ p.operator = "like" => ToSet(p.types) \subseteq {"string", "bytes"}
    /\ p.operator \in {"in", "not_in"} => Cardinality(ToSet(p.types)) = 1

ValidateKeysetShape(shape, query, limits) ==
  /\ shape.mode = "keyset"
  /\ shape.projection # <<>> /\ Len(shape.projection) <= limits.projection
  /\ \A out \in Outputs(shape) : out.kind = "field"
  /\ shape.orderBy # <<>> /\ Len(shape.orderBy) <= limits.orderBy
  /\ query.sorting
  /\ KeysetNormalizes(shape, CaseInsensitive)
  /\ shape.limit \in 1..limits.rows
  /\ SourceTextAllowed(shape, query)
  /\ ValidateShapeFilter(shape.filter, query, limits)
  /\ ValidateKeysetShapeFilterTypes(shape.filter)
  /\ AfterPageParameters(shape) <= limits.parameters

\* Shapes have names of their own, and no two of one kind the same signature.
ValidateShapes(shapes, query, limits) ==
  /\ \A s \in shapes : IF s.mode = "keyset" THEN ValidateKeysetShape(s, query, limits)
                                             ELSE ValidateAggregateShape(s, query, limits)
  /\ \A s, t \in shapes :
       s # t => /\ s.name # t.name
                /\ CanonicalRequestSignature(s) # CanonicalRequestSignature(t)

\* A pattern has one segment for each part of the name.
ValidatePatterns(rules, segments) ==
  \A pattern \in rules.allow \cup rules.deny : Len(pattern) = segments

ValidateProfile(p) ==
  /\ p.datasources # {} /\ p.operations # {}
  /\ p.schemas.allow # {} /\ p.objects.allow # {}
  /\ ValidatePatterns(p.schemas, 1) /\ ValidatePatterns(p.objects, 2)
  /\ ValidatePatterns(p.fields, 3)
  /\ "aggregate" \in p.operations <=> \E s \in p.shapes : s.mode # "keyset"
  /\ "select_keyset" \in p.operations <=> \E s \in p.shapes : s.mode = "keyset"
  /\ "list_query_shapes" \in p.operations => p.operations \cap {"aggregate", "select_keyset"} # {}
  /\ ValidateShapes(p.shapes, p.query, p.limits)
=============================================================================
