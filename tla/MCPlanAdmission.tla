--------------------------- MODULE MCPlanAdmission ---------------------------
EXTENDS PlanAdmission

Words == {"a", "A", "b", "x"} \cup Operators
MCFold == [w \in Words \cup Punctuation |-> IF w = "A" THEN "a" ELSE w]

\* Merges as the server writes them, and the indexes they read.
Index(name) == [key |-> name, indexes |-> <<name>>]
Comma(m, n) == [key |-> m.key \o <<",">> \o n.key, indexes |-> m.indexes \o n.indexes]
Merge(op, list) == [key |-> <<op, "(">> \o list.key \o <<")">>, indexes |-> list.indexes]
Lists(ms, ns) == {Comma(m, n) : m \in ms, n \in ns}

\* An index may be called union, and one of these has punctuation in its name.
Plain == {Index(<<w>>) : w \in {"a", "b", "union"}}
Odd == {Index(n) : n \in {<<"union", "(", "a">>, <<"b", ")">>, <<"a", ",", "b">>, <<"union", "(", "a", ",", "b", ")">>}}
Flat == {Merge("union", l) : l \in Lists(Plain, Plain) \cup Lists(Plain, Lists(Plain, Plain))}
Nested == {Merge("sort_union", l) : l \in Lists(Flat, Plain) \cup Lists(Plain, Flat)
                                            \cup Lists({m \in Flat : Len(m.indexes) = 2}, {m \in Flat : Len(m.indexes) = 2})}
OddMerges ==
  Odd \cup Lists(Odd, Odd \cup Plain) \cup Lists(Plain, Odd)
    \cup {Merge("intersect", l) : l \in Lists(Odd, Odd \cup Plain) \cup Lists(Plain, Odd)}
Written == Plain \cup Lists(Plain, Plain) \cup Lists(Plain, Lists(Plain, Plain)) \cup Flat \cup Nested

\* Keys with one token left out, replaced or repeated.
Edits(key) ==
  LET before(i) == SubSeq(key, 1, i - 1)
      after(i) == SubSeq(key, i + 1, Len(key))
  IN  UNION {{before(i) \o after(i), before(i) \o <<key[i], key[i]>> \o after(i)}
               \cup {before(i) \o <<w>> \o after(i) : w \in {"a", "x", "(", ")", ","}} : i \in DOMAIN key}
\* Adjacent words are one word.
IsKey(key) == key # <<>> /\ \A i \in 1..(Len(key) - 1) : {key[i], key[i + 1]} \cap Punctuation # {}
Samples == Plain \cup {m \in Lists(Plain, Plain) \cup Flat \cup Nested : Len(m.key) <= 11 /\ "b" \notin ToSet(m.key)}
Misread(m) ==
  {[key |-> k, indexes |-> <<>>, lengths |-> Len(m.indexes)] :
     k \in {e \in Edits(m.key) : IsKey(e) /\ ~\E w \in Written : e = w.key /\ Len(w.indexes) = Len(m.indexes)}}

Unary == {[key |-> Merge("union", m).key, indexes |-> <<>>, lengths |-> Len(m.indexes)] : m \in Plain \cup Flat}

Table(access, source, rows, key, indexes, lengths, possible) ==
  [wellFormed |-> TRUE, access |-> access, source |-> source, rows |-> rows, key |-> key,
   indexes |-> indexes, lengths |-> lengths, possible |-> possible]

AllPlain == {<<"a">>, <<"b">>, <<"union">>}
Merges ==
  {Table("index_merge", "base", 2, m.key, m.indexes, Len(m.indexes), AllPlain) : m \in Written}
    \cup {Table("index_merge", "base", 2, m.key, m.indexes, Len(m.indexes), AllPlain \cup ToSet(m.indexes)) : m \in OddMerges}
    \cup UNION {{Table("index_merge", "base", 2, e.key, <<>>, e.lengths, AllPlain) : e \in Misread(m)} : m \in Samples}
    \cup {Table("index_merge", "base", 2, e.key, <<>>, e.lengths, AllPlain) : e \in Unary}

Simple ==
  {Table(access, source, rows, key, IF key = None THEN <<>> ELSE <<key>>, 0, {}) :
     access \in {"ref", "ALL"}, source \in {"base", "materialized", "shared"}, rows \in {2, 3},
     key \in {None, <<"A">>, <<"b">>, <<"a", ",", "b">>}}
Pair == Merge("union", Comma(Index(<<"a">>), Index(<<"b">>)))
PairTable(source) == Table("index_merge", source, 1, Pair.key, Pair.indexes, 2, AllPlain)
Broken ==
  {[PairTable("base") EXCEPT !.wellFormed = FALSE], [PairTable("base") EXCEPT !.rows = -1],
   [PairTable("base") EXCEPT !.key = None], [PairTable("base") EXCEPT !.key = <<>>],
   [PairTable("base") EXCEPT !.lengths = 0, !.indexes = <<>>],
   [PairTable("base") EXCEPT !.possible = {}], [PairTable("base") EXCEPT !.possible = @ \cup {<<>>}]}

Plan(tables, marks, empty) == [tables |-> tables, marks |-> marks, empty |-> empty]
MCPlans ==
  {Plan(<<t>>, {}, "other") : t \in Merges \cup Broken}
    \cup {Plan(<<t, u>>, {}, "other") : t \in Simple, u \in Simple \cup {PairTable("base"), PairTable("materialized")}}
    \cup {Plan(<<>>, {}, e) : e \in {"safe", "other"}}
    \cup {Plan(<<PairTable("base")>>, {<<f, v>>}, "other") :
            f \in {"using_temporary_table", "using_filesort"}, v \in {"on", "off", "malformed"}}
    \cup {Plan(<<PairTable("base")>>, {<<f, "malformed">>}, "other") :
            f \in {"materialized_from_subquery", "sharing_temporary_table_with", "table"}}

MCControls ==
  {[required |-> r, maximumRows |-> n, temporary |-> t, filesort |-> ~t] :
     r \in {<<>>, <<"a">>, <<"b">>, <<"a", ",", "b">>}, n \in {0, 2}, t \in BOOLEAN}
=============================================================================
