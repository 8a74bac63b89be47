--------------------------- MODULE RowCollection ----------------------------
(***************************************************************************)
(* How a result set becomes a bounded response: collectSelectRows and      *)
(* collectAggregateRowsWithSpec read the rows one by one, keep a prefix    *)
(* that fits max_result_bytes and say whether it was cut.  For select the  *)
(* budget is that of the columns and rows; for aggregate that of the whole *)
(* response, where the digits of row_count and the one byte between "true" *)
(* and "false" count.  A row is the size of its encoding.                  *)
(***************************************************************************)
EXTENDS Integers, Sequences, Functions, SequencesExt, ResponseSize

CONSTANTS
  Streams,   \* bound: the result sets the database can return
  Modes,     \* "select", "grouped" and "scalar"
  Limits,    \* values of the request's limit
  Base,      \* bytes of the empty response, columns included
  Maxima     \* values of max_result_bytes

VARIABLES
  mode, limit, maximum,  \* the request
  stream,                \* history: the result set
  next,                  \* the row rows.Next returns next
  rows,                  \* result.Rows
  bytes,                 \* result.ResultBytes
  truncated,             \* result.Truncated
  provisional,           \* provisionalTruncatedRow
  previous,              \* provisionalPreviousBytes
  pc

request == <<mode, limit, maximum, stream>>
result == <<rows, bytes, truncated>>
vars == <<request, next, result, provisional, previous, pc>>

\* Each statement asks for one row more than the limit.
ASSUME CollectionAssumption ==
  /\ Streams \subseteq Seq(Nat \ {0, 1})
  /\ Modes \subseteq {"select", "grouped", "scalar"}
  /\ Limits \subseteq Nat \ {0}
  /\ Base \in Nat \ {0} /\ Maxima \subseteq Nat

TypeOK ==
  /\ mode \in Modes /\ limit \in Limits /\ maximum \in Maxima /\ stream \in Streams
  /\ next \in 1..(Len(stream) + 1)
  /\ rows \in Seq(Nat) /\ (mode = "scalar" \/ Len(rows) <= limit)
  /\ bytes \in Nat /\ previous \in Nat
  /\ truncated \in BOOLEAN /\ provisional \in BOOLEAN
  /\ pc \in {"start", "collect", "finish", "done", "too_large", "upstream"}

Init ==
  /\ mode \in Modes /\ limit \in Limits /\ maximum \in Maxima
  /\ stream \in {s \in Streams : Len(s) <= limit + 1}
  /\ next = 1
  /\ rows = <<>> /\ bytes = 0 /\ truncated = FALSE
  /\ provisional = FALSE /\ previous = 0
  /\ pc = "start"

\* The envelope and the columns are counted before the first row.
Start ==
  /\ pc = "start"
  /\ IF Base > maximum THEN pc' = "too_large" /\ UNCHANGED bytes
                       ELSE pc' = "collect" /\ bytes' = Base
  /\ UNCHANGED <<request, next, rows, truncated, provisional, previous>>

-----------------------------------------------------------------------------
Separator == IF rows = <<>> THEN 0 ELSE 1
Row == stream[next]

\* A row arrives that is read but not kept.
Skip == UNCHANGED <<rows, provisional, previous, pc>>

AtLimit == Len(rows) = limit

SelectFits == Separator <= maximum - bytes /\ Row <= maximum - bytes - Separator

\* collectSelectRows, one row.
CollectSelectRow ==
  /\ mode = "select"
  /\ IF truncated \/ AtLimit \/ ~SelectFits
     THEN Skip /\ truncated' = TRUE /\ UNCHANGED bytes
     ELSE /\ rows' = Append(rows, Row)
          /\ bytes' = bytes + Separator + Row
          /\ UNCHANGED <<truncated, provisional, previous, pc>>

\* Variant: row_count is taken to have one digit.
RowCountConstant == 0

RowCountGrowth == decimalDigits[Len(rows) + 1] - decimalDigits[Len(rows)]

\* Variant: the byte that truncation saves is counted as spent.
RemainingWithoutCut == maximum - bytes - Separator - RowCountGrowth - 1

Remaining == maximum - bytes - Separator - RowCountGrowth

\* The response is cut: JSON true is one byte shorter than false.
Cut ==
  /\ truncated' = TRUE
  /\ bytes' = IF bytes > 0 THEN bytes - 1 ELSE bytes

Keep(size) ==
  /\ rows' = Append(rows, Row)
  /\ bytes' = size + Separator + RowCountGrowth + Row

\* collectAggregateRowsWithSpec, one row.
CollectAggregateRow ==
  /\ mode # "select"
  /\ \/ /\ provisional           \* this row proves that the last one may stay
        /\ provisional' = FALSE
        /\ UNCHANGED <<result, previous, pc>>
     \/ /\ ~provisional /\ truncated
        /\ Skip /\ UNCHANGED <<bytes, truncated>>
     \/ /\ ~provisional /\ ~truncated /\ mode = "grouped" /\ AtLimit
        /\ Skip /\ Cut
     \/ /\ ~provisional /\ ~truncated /\ ~(mode = "grouped" /\ AtLimit)
        /\ \/ /\ Row <= Remaining
              /\ Keep(bytes)
              /\ UNCHANGED <<truncated, provisional, previous, pc>>
           \/ /\ Row > Remaining /\ mode = "scalar"
              /\ pc' = "too_large"
              /\ UNCHANGED <<result, provisional, previous>>
           \/ /\ Row > Remaining + 1 /\ mode = "grouped"
              /\ Skip /\ Cut
           \/ /\ Row = Remaining + 1 /\ mode = "grouped"
              /\ provisional' = TRUE
              /\ previous' = bytes
              /\ truncated' = TRUE
              /\ Keep(bytes - 1)
              /\ UNCHANGED pc

CollectRow ==
  /\ pc = "collect" /\ next <= Len(stream)
  /\ next' = next + 1
  /\ CollectSelectRow \/ CollectAggregateRow
  /\ UNCHANGED request

\* A scan or a bucket check fails, or rows.Err reports the deadline.
RowFails ==
  /\ pc = "collect"
  /\ pc' = "upstream"
  /\ UNCHANGED <<request, next, result, provisional, previous>>

EndOfRows ==
  /\ pc = "collect" /\ next > Len(stream)
  /\ pc' = "finish"
  /\ UNCHANGED <<request, next, result, provisional, previous>>

\* Variant: the provisional row stays although nothing follows it.
KeepProvisional == UNCHANGED <<rows, bytes>>

\* A provisional row that nothing follows cannot stay: with it the response
\* would be whole, and one byte too long.
DropProvisional ==
  IF provisional THEN rows' = Front(rows) /\ bytes' = previous - 1
                 ELSE UNCHANGED <<rows, bytes>>

Finish ==
  /\ pc = "finish"
  /\ DropProvisional
  /\ IF mode = "scalar"
     THEN /\ pc' = IF Len(rows') = 1 THEN "done" ELSE "upstream"
          /\ truncated' = FALSE
     ELSE pc' = "done" /\ UNCHANGED truncated
  /\ UNCHANGED <<request, next, provisional, previous>>

Next == Start \/ CollectRow \/ RowFails \/ EndOfRows \/ Finish

Spec == Init /\ [][Next]_vars

-----------------------------------------------------------------------------
(* Properties. *)

\* The bytes of a response with the first n rows, cut or whole.
Encoding(n, cut) ==
  Base + SumFunctionOnSet(stream, 1..n) + (IF n = 0 THEN 0 ELSE n - 1)
       + (IF mode = "select" THEN 0
          ELSE decimalDigits[n] - decimalDigits[0] - (IF cut THEN 1 ELSE 0))

\* The audited result_bytes are the bytes of what is returned (for select of
\* the columns and rows, for aggregate of the whole response), and in budget.
BytesAreExact ==
  pc = "done" => bytes = Encoding(Len(rows), truncated) /\ bytes <= maximum

\* The response is a prefix of the result set, and truncated says truly
\* whether a row is missing.
TruncationIsTrue ==
  pc = "done" =>
    rows = SubSeq(stream, 1, Len(rows)) /\ truncated = (Len(rows) < Len(stream))

\* A cut response is the largest one: the limit is reached, or with one more
\* row it would not fit.
PrefixIsLargest ==
  pc = "done" /\ truncated =>
    Len(rows) = limit \/ Encoding(Len(rows) + 1, Len(rows) + 1 < Len(stream)) > maximum
=============================================================================
