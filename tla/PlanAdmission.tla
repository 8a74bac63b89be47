---------------------------- MODULE PlanAdmission ----------------------------
(***************************************************************************)
(* The check of a query's plan before the query runs: what                 *)
(* validateAggregatePlan (internal/adapters/mysql8/aggregate.go) makes of  *)
(* the document EXPLAIN FORMAT=JSON returns, and the parser of index-merge *)
(* expressions (plan_indexes.go) it calls, a step for each token.          *)
(*                                                                         *)
(* MySQL writes the names of indexes into the key of a plan without        *)
(* escaping them.  A name is therefore a sequence of tokens, and a key the *)
(* tokens of what the server wrote: words and "(", ")", ",".  A table also *)
(* holds what the gateway cannot see, the indexes its read really uses.    *)
(* Fields that are absent or of another type are one case, "malformed".    *)
(***************************************************************************)
EXTENDS Integers, Sequences, FiniteSets, SequencesExt

CONSTANTS
  Plans,       \* plans: [tables, marks, empty], see Visit and CheckTable
  Controls,    \* what the shape allows: [required, maximumRows, temporary, filesort]
  Fold,        \* word -> the word as strings.EqualFold compares it
  None         \* no key, no table, no tables yet

VARIABLES
  plan, controls,     \* the arguments of validateAggregatePlan: never changed
  unchecked,          \* the tables that the loop has still to check
  usesRequiredIndex,
  table,              \* the table of the call of indexMergeUsesIndex, or None
  parser,             \* its local variables
  verdict             \* "open", "admitted" or "refused"

vars == <<plan, controls, unchecked, usesRequiredIndex, table, parser, verdict>>

Punctuation == {"(", ")", ","}
Operators == {"union", "intersect", "sort_union"}

EqualFold(name, other) ==
  [i \in DOMAIN name |-> Fold[name[i]]] = [i \in DOMAIN other |-> Fold[other[i]]]

\* The shape names an index.
Required == controls.required # <<>>

Conclude(v) ==
  /\ verdict' = v /\ table' = None
  /\ UNCHANGED <<plan, controls, unchecked, usesRequiredIndex, parser>>

-----------------------------------------------------------------------------
(* The document. *)

\* The nodes that tell of temporary tables and sorts, anywhere in the document:
\* a field and whether it is "on", "off" or "malformed".  The marks of a
\* materialized table are fields of the table.
Marks ==
  plan.marks
    \cup {<<"materialized_from_subquery", "on">> : t \in {u \in DOMAIN plan.tables : plan.tables[u].source = "materialized"}}
    \cup {<<"sharing_temporary_table_with", "on">> : t \in {u \in DOMAIN plan.tables : plan.tables[u].source = "shared"}}

Allowed(field) ==
  CASE field \in {"materialized_from_subquery", "sharing_temporary_table_with", "using_temporary_table"} ->
         controls.temporary
    [] field = "using_filesort" -> controls.filesort
    [] field = "table" -> FALSE

InvalidNode(mark) == mark[2] = "malformed" \/ (mark[2] = "on" /\ ~Allowed(mark[1]))

\* visit has no early return; the tables are kept in the order of a Go map.
Visit ==
  /\ verdict = "open" /\ unchecked = None
  /\ IF \/ controls.maximumRows = 0
        \/ \E mark \in Marks : InvalidNode(mark)
        \/ (plan.tables = <<>> /\ plan.empty # "safe")
       THEN Conclude("refused")
       ELSE IF plan.tables = <<>> THEN Conclude("admitted")
       ELSE /\ unchecked' = DOMAIN plan.tables
            /\ UNCHANGED <<plan, controls, usesRequiredIndex, table, parser, verdict>>

-----------------------------------------------------------------------------
(* The tables. *)

Checking == verdict = "open" /\ unchecked # None /\ table = None

\* Only a read of a stored table can use an index of the operator.
Counts(t) == t.source = "base" /\ t.access # "ALL"

Malformed(t) ==
  \/ ~t.wellFormed \/ t.rows = -1 \/ t.rows > controls.maximumRows
  \/ t.key = <<>>
  \/ (t.access = "index_merge" /\ t.key = None)

\* Variant: the last table decides.
UseIndexLast(t, uses) == Counts(t) /\ uses
UseIndex(t, uses) == usesRequiredIndex \/ (Counts(t) /\ uses)

\* Variant: the names are taken as they are.
NativeNamesUnchecked(t) == t.possible # {} /\ t.lengths > 0

\* possible_keys and key_length, before the expression is read.
NativeNames(t) ==
  /\ t.possible # {} /\ t.lengths > 0
  /\ \A name \in t.possible : name # <<>> /\ ToSet(name) \cap Punctuation = {}

Start == [position |-> 1, arguments |-> <<0>>, expectIndex |-> TRUE,
          rootExpression |-> FALSE, usesIndex |-> FALSE, leaves |-> 0]

CheckTable(i) ==
  /\ Checking /\ i \in unchecked
  /\ LET t == plan.tables[i]
     IN  IF Malformed(t) \/ (t.access = "index_merge" /\ ~NativeNames(t))
           THEN Conclude("refused")
           ELSE /\ unchecked' = unchecked \ {i}
                /\ IF t.access = "index_merge"
                     THEN table' = t /\ parser' = Start /\ UNCHANGED usesRequiredIndex
                     ELSE /\ usesRequiredIndex' = UseIndex(t, t.key # None /\ EqualFold(t.key, controls.required))
                          /\ UNCHANGED <<table, parser>>
                /\ UNCHANGED <<plan, controls, verdict>>

Finish ==
  /\ Checking /\ unchecked = {}
  /\ Conclude(IF usesRequiredIndex THEN "admitted" ELSE "refused")

-----------------------------------------------------------------------------
(* indexMergeUsesIndex. *)

Parsing == verdict = "open" /\ table # None
Reading == Parsing /\ parser.position <= Len(table.key)
Token == table.key[parser.position]
Opens == parser.position < Len(table.key) /\ table.key[parser.position + 1] = "("
AtRoot == Len(parser.arguments) = 1

Goto(p) == parser' = p /\ UNCHANGED <<plan, controls, unchecked, usesRequiredIndex, table, verdict>>
CountArgument(arguments) == [arguments EXCEPT ![Len(arguments)] = @ + 1]

\* A word and its "(".
ReadOperator ==
  /\ Reading /\ parser.expectIndex /\ Token \notin Punctuation /\ Opens
  /\ IF Token \notin Operators \/ (AtRoot /\ parser.arguments[1] # 0)
       THEN Conclude("refused")
       ELSE Goto([parser EXCEPT !.rootExpression = @ \/ AtRoot,
                                !.arguments = Append(@, 0), !.position = @ + 2])

\* A word that is a leaf.
ReadIndex ==
  /\ Reading /\ parser.expectIndex /\ Token \notin Punctuation /\ ~Opens
  /\ IF <<Token>> \notin table.possible THEN Conclude("refused")
     ELSE Goto([parser EXCEPT !.usesIndex = @ \/ EqualFold(<<Token>>, controls.required),
                              !.leaves = @ + 1, !.arguments = CountArgument(@),
                              !.expectIndex = FALSE, !.position = @ + 1])

\* Punctuation where a word should be.
ReadEmpty == Reading /\ parser.expectIndex /\ Token \in Punctuation /\ Conclude("refused")

ReadComma ==
  /\ Reading /\ ~parser.expectIndex /\ Token = ","
  /\ IF AtRoot /\ parser.rootExpression THEN Conclude("refused")
     ELSE Goto([parser EXCEPT !.expectIndex = TRUE, !.position = @ + 1])

\* The server merges at least two arguments.
ReadClose ==
  /\ Reading /\ ~parser.expectIndex /\ Token = ")"
  /\ IF AtRoot \/ Last(parser.arguments) < 2 THEN Conclude("refused")
     ELSE Goto([parser EXCEPT !.arguments = CountArgument(Front(@)), !.position = @ + 1])

\* A word or "(" where a separator should be.
ReadUnexpected ==
  /\ Reading /\ ~parser.expectIndex /\ Token \notin {",", ")"}
  /\ Conclude("refused")

ReadEnd ==
  /\ Parsing /\ ~Reading
  /\ IF parser.expectIndex \/ ~AtRoot \/ parser.leaves # table.lengths
       THEN Conclude("refused")
       ELSE /\ usesRequiredIndex' = UseIndex(table, parser.usesIndex)
            /\ table' = None
            /\ UNCHANGED <<plan, controls, unchecked, parser, verdict>>

-----------------------------------------------------------------------------

Init ==
  /\ plan \in Plans /\ controls \in Controls
  /\ unchecked = None /\ usesRequiredIndex = ~Required
  /\ table = None /\ parser = Start /\ verdict = "open"

Decided == verdict # "open" /\ UNCHANGED vars

Next ==
  \/ Visit \/ Finish \/ Decided
  \/ \E i \in DOMAIN plan.tables : CheckTable(i)
  \/ ReadOperator \/ ReadIndex \/ ReadEmpty \/ ReadComma
  \/ ReadClose \/ ReadUnexpected \/ ReadEnd

Spec == Init /\ [][Next]_vars

-----------------------------------------------------------------------------
(* Properties. *)

Tables == {plan.tables[i] : i \in DOMAIN plan.tables}

\* What the shape demands of the work the server would do.  The indexes are
\* the ones it reads, whatever it wrote: a key that the server did not write
\* for a merge of them has none.
Safe ==
  /\ controls.maximumRows > 0
  /\ ~\E mark \in Marks : InvalidNode(mark)
  /\ Tables = {} => plan.empty = "safe"
  /\ \A t \in Tables : ~Malformed(t) /\ (t.access = "index_merge" => t.indexes # <<>>)
  /\ Tables # {} /\ Required =>
       \E t \in Tables : Counts(t) /\ \E i \in DOMAIN t.indexes : EqualFold(t.indexes[i], controls.required)

\* The names of all indexes that a merge could use are free of punctuation.
PlainNames ==
  \A t \in Tables :
    t.access = "index_merge" => t.possible # {} /\ \A name \in t.possible : Len(name) = 1 /\ name[1] \notin Punctuation

\* A plan is admitted only if the server's work is what the shape allows: when
\* an index is required, a stored table is read through it, and not only
\* through an index whose name makes the unescaped key look as if it were.
\* This holds in whatever order the tables are visited.
AdmittedIsSafe == verdict = "admitted" => Safe

\* A plan the shape allows is refused only for names that the parser could take
\* for syntax: nested and flattened merges, in any letter case, are read.
RefusedIsUnsafe == verdict = "refused" => ~Safe \/ ~PlainNames
=============================================================================
