------------------------------ MODULE MCPolicy ------------------------------
EXTENDS Policy

Name(n) == <<n, "lower">>
Db == Name("db")
Orders0 == Name("orders")
Id == Name("id")
At == Name("at")
Sum == Name("total")
Upper(n) == <<n[1], "upper">>

\* Any injective numbering of the predicates of the instance: the field, then
\* the operator, then the value; the spelling, the representation and the types weigh too.
MCDigest(p) ==
  LET place == [id |-> 3, at |-> 1, total |-> 2]
  IN  1000 * place[p.field[1]] + 500 * (IF p.field[2] = "upper" THEN 1 ELSE 0)
        + 200 * (IF p.operator = "eq" THEN 1 ELSE 0)
        + 100 * (IF p.representation = "" THEN 0 ELSE 1) + 50 * (IF p.types = <<"string">> THEN 1 ELSE 0)
        + (IF p.values = <<>> THEN 0 ELSE 1 + p.values[1])

Field(f, alias, representation) ==
  [kind |-> "field", field |-> f, function |-> "", alias |-> alias,
   representation |-> representation, boundaries |-> 0]
Dimension(f, representation) ==
  [kind |-> "dimension", field |-> f, function |-> "", alias |-> NoName,
   representation |-> representation, boundaries |-> 0]
Bucket(f, alias, n) ==
  [kind |-> "numeric_bucket", field |-> f, function |-> "", alias |-> alias,
   representation |-> "", boundaries |-> n]
Measure(function, f, alias) ==
  [kind |-> "measure", field |-> f, function |-> function, alias |-> alias,
   representation |-> "", boundaries |-> 0]
Order(kind, f, alias, representation) ==
  [kind |-> kind, field |-> f, alias |-> alias, representation |-> representation,
   direction |-> "asc"]
Shape(name, mode, projection, filter, orderBy, limit) ==
  [name |-> name, mode |-> mode, schema |-> Db, object |-> Orders0, projection |-> projection,
   filter |-> filter, orderBy |-> orderBy, groupBy |-> <<>>, limit |-> limit]

AtEq == Predicate(At, "", "eq", <<"date">>, <<>>)
IdGt == Predicate(Id, "", "gt", <<"integer">>, <<>>)
Both == Group("and", <<IdGt, AtEq>>)

\* Two keys and a filter of two values: six parameters after the first page.
Pages == Shape("pages", "keyset", <<Field(Id, NoName, ""), Field(At, Name("when"), "source_text")>>,
               Both, <<Order("field", At, NoName, "source_text"), Order("field", Id, NoName, "")>>, 2)
Count == Shape("count", "scalar", <<Measure("count_all", NoName, Name("n"))>>, Single(AtEq), <<>>, 0)
Buckets == Shape("buckets", "grouped",
                 <<Bucket(Id, Name("range"), 1), Dimension(At, "source_text"),
                   Measure("sum", Sum, Name("t"))>>,
                 Both, <<Order("numeric_bucket", NoName, Name("range"), "")>>, 2)

\* The same page with a predicate on the source text of a temporal column.
SourceTextPages ==
  [Pages EXCEPT !.filter = Single(Predicate(At, "source_text", "eq", <<"string">>, <<>>))]

\* Two predicates that only their representation tells apart.
Twins == [Count EXCEPT !.name = "twins",
                       !.filter = Group("or", <<Predicate(At, "", "eq", <<"string">>, <<>>),
                                                Predicate(At, "source_text", "eq", <<"string">>, <<>>)>>)]

Operations == {"select", "explain_select", "aggregate", "select_keyset", "list_query_shapes",
               "list_objects", "describe_object", "describe_object_statistics"}
Rules(allow, deny) == [allow |-> allow, deny |-> deny]
Profile(parameters, shapes, operations, objects, fields) ==
  [datasources |-> {"main"}, operations |-> operations,
   schemas |-> Rules({<<Db>>}, {}), objects |-> objects, fields |-> fields,
   query |-> [sourceText |-> TRUE, filtering |-> TRUE, sorting |-> TRUE, groupBy |-> TRUE,
              operators |-> {"eq", "gt"}, aggregates |-> {"count", "sum"}],
   limits |-> [projection |-> 3, groupBy |-> 2, orderBy |-> 2, predicates |-> 2, depth |-> 2,
               parameters |-> parameters, rows |-> 2],
   shapes |-> shapes]

AllObjects == Rules({<<Db, Wild>>}, {})
NotUpper == Rules({<<Wild, Wild>>}, {<<Db, Upper(Orders0)>>})
NoTotal == Rules({}, {<<Wild, Wild, Upper(Sum)>>})
AllFields == Rules({}, {})

MCProfiles ==
  {Profile(n, {Pages, Count, Buckets}, Operations, o, f) :
     n \in 5..6, o \in {AllObjects, NotUpper}, f \in {AllFields, NoTotal}}
  \cup {Profile(n, {Pages}, Operations \ {"aggregate"}, o, NoTotal) :
     n \in 4..6, o \in {AllObjects, NotUpper}}
  \cup {[Profile(6, {}, Operations \ {"aggregate", "select_keyset", "list_query_shapes"}, NotUpper,
                 NoTotal) EXCEPT !.query.sourceText = FALSE, !.query.sorting = FALSE]}
  \cup {Profile(6, {Twins, SourceTextPages}, {"aggregate", "select_keyset", "list_query_shapes"},
               AllObjects, AllFields)}
SourceTextProfiles ==
  {Profile(6, {s}, {"select_keyset", "list_query_shapes"}, AllObjects, AllFields) :
     s \in {SourceTextPages,
            [Pages EXCEPT !.filter = Single(Predicate(At, "", "eq", <<"string">>, <<>>))]}}

Request(operation, shape, page, query) ==
  [operation |-> operation, datasource |-> "main", shape |-> shape, page |-> page,
   query |-> query, origin |-> None]
Select(object, out, filter) ==
  [Shape("", "select", <<out>>, filter, <<Order("field", Id, NoName, "")>>, 1)
     EXCEPT !.object = object]
Resource(object) == [Shape("", "schema", <<>>, NoFilter, <<>>, 0) EXCEPT !.object = object]
Total == [kind |-> "aggregate", field |-> Sum, function |-> "sum", alias |-> NoName,
          representation |-> "", boundaries |-> 0]
AtIs(representation, type, v) == Single(Predicate(At, representation, "eq", <<type>>, <<v>>))

MCRequests ==
  {Request(op, "", "first", Select(o, out, f)) :
     op \in {"select", "explain_select"}, o \in {Orders0, Upper(Orders0)},
     out \in {Field(Id, NoName, ""), Field(Sum, NoName, ""), Total, Field(At, NoName, "source_text")},
     f \in {NoFilter, AtIs("", "date", 0)}}
  \cup {Request(op, "", "first", Resource(o)) :
     op \in {"list_objects", "describe_object", "describe_object_statistics"},
     o \in {Orders0, Upper(Orders0)}}
  \cup {Request("select_keyset", "pages", "first",
          [Pages EXCEPT !.object = o, !.filter.expressions[1].values = <<0>>,
                        !.filter.expressions[2].values = <<0>>, !.limit = limit]) :
     o \in {Orders0, Upper(Orders0)}, limit \in {1, 3}}
SourceTextRequests ==
  {Request("select_keyset", "pages", "first",
     [Pages EXCEPT !.filter = AtIs(representation, "string", 0), !.limit = 1]) :
     representation \in {"", "source_text"}}

MCObjects == {Orders0, Upper(Orders0), Name("users")}
MCColumns == {Id, Sum, Upper(At)}
=============================================================================
