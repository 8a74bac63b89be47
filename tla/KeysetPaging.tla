---------------------------- MODULE KeysetPaging ----------------------------
(***************************************************************************)
(* A client reads a table page by page with select_keyset.  The adapter    *)
(* runs one bounded query per page (compileKeyset), collects rows under a  *)
(* limit and an exact byte budget (collectKeysetRows) and hands out the    *)
(* key of the last row as a typed cursor; the service checks the response  *)
(* against the row and byte accounting before it is sent.  Between the     *)
(* pages, and while one is read, other clients of the database insert and  *)
(* delete rows; pages fail or are lost on the way and are asked for again. *)
(* A row is its key: its columns enter through the size of their encoding. *)
(* That no two rows of a table have one key is the duty of the author of   *)
(* the shape; the adapter only checks that the key columns are NOT NULL.   *)
(***************************************************************************)
EXTENDS Integers, Sequences, FiniteSets, Functions, SequencesExt, ResponseSize

CONSTANTS
  Keys,        \* keys a row can have: tuples of the order_by columns
  Directions,  \* Directions[i]: "asc" or "desc"
  Kinds,       \* Kinds[i]: the cursor type of a column
  RowSize,     \* RowSize[k]: bytes of the encoded row
  CursorSize,  \* CursorSize[k]: bytes of the encoded cursor items of the row
  FinalBase,   \* bytes of an empty page without next_cursor, columns included
  MoreBase,    \* bytes of an empty page with an empty next_cursor
  Starts,      \* bound: the scans, each with its table, limit and maximum
               \* (max_result_bytes) and how many changes and failures it meets
  Churn,       \* bound: the rows others insert and delete during a scan
  None

VARIABLES
  maximum, limit,     \* the request
  table,              \* the rows of the table now
  cursor,             \* the cursor of the client's next request, None for the first
  client,             \* "scanning", "finished" or "stopped"
  delivered,          \* the rows the client has
  pc,                 \* where the page in progress is
  snapshot,           \* the rows its query sees
  rows,               \* result.Rows
  finalSize,          \* bytes of the page if no row follows
  safe,               \* lastSafeMoreSize and lastSafeCursor
  provisional,        \* the last row fits only if no row follows
  provisionalPreviousSize,
  moreObserved,
  result,             \* the adapter's result, then the response
  stable,             \* history: rows that were in the table from the start
  changes, failures   \* how many are still to come

request == <<maximum, limit>>
environment == <<table, stable, changes>>
scan == <<cursor, client, delivered, failures>>
collection == <<snapshot, rows, finalSize, safe, provisional,
                provisionalPreviousSize, moreObserved>>
vars == <<request, environment, scan, pc, collection, result>>

Width == Len(Directions)

ASSUME PagingAssumption ==
  /\ Directions \in Seq({"asc", "desc"}) /\ Width > 0
  /\ Kinds \in Seq({"integer", "string", "bytes", "date", "datetime", "timestamp"})
  /\ Len(Kinds) = Width
  /\ Keys \subseteq [1..Width -> Int]
  /\ IsFiniteSet(Keys)
  /\ RowSize \in [Keys -> Nat \ {0}] /\ CursorSize \in [Keys -> Nat \ {0}]
  /\ FinalBase \in Nat /\ MoreBase \in Nat
  /\ FinalBase < MoreBase        \* next_cursor is omitted from a final page
  /\ \A s \in Starts : /\ s.table \subseteq Keys
                       /\ s.limit \in Nat \ {0} /\ s.maximum \in Nat
                       /\ s.changes \in Nat /\ s.failures \in Nat
  /\ Churn \subseteq Keys
  /\ None \notin Keys

-----------------------------------------------------------------------------
(* Cursors.  A cell and a bound value carry the form of their text: a      *)
(* timestamp is "YYYY-MM-DD hh:mm:ss" in a row and "...T...Z" in a cursor. *)

Cell(i, v) == <<IF Kinds[i] = "timestamp" THEN "space" ELSE "plain", v>>

MysqlKeysetCursorText(i, cell) ==
  [type |-> Kinds[i],
   value |-> IF Kinds[i] = "timestamp" THEN <<"TZ", cell[2]>> ELSE cell]

MaterializeKeysetCursor(k) ==
  [i \in 1..Width |-> MysqlKeysetCursorText(i, Cell(i, k[i]))]

\* The first request has no cursor.
ASSUME NoneIsNoCursor == \A k \in Keys : MaterializeKeysetCursor(k) # None

\* Variant: a timestamp is bound in the form the cursor has.
BindKeysetCursorVerbatim(item) == item.value

BindKeysetCursor(item) ==
  IF item.type = "timestamp" THEN <<"space", item.value[2]>> ELSE item.value

KeysetCursorMatchesCell(item, cell) ==
  IF item.type = "timestamp" THEN <<"space", item.value[2]>> = cell ELSE item.value = cell

\* Variant: the last column of the cursor is compared inclusively.
CompileInclusiveCursor(c, k) ==
  \E i \in 1..Width :
    /\ \A j \in 1..(i - 1) : Cell(j, k[j]) = BindKeysetCursor(c[j])
    /\ LET cell == Cell(i, k[i])
           bound == BindKeysetCursor(c[i])
       IN  /\ cell[1] = bound[1]
           /\ IF Directions[i] = "desc" THEN cell[2] <= bound[2] ELSE cell[2] >= bound[2]

\* Variant: every column is compared on its own, without the equal prefix.
CompileColumnwiseCursor(c, k) ==
  \E i \in 1..Width :
    LET cell == Cell(i, k[i])
        bound == BindKeysetCursor(c[i])
    IN  /\ cell[1] = bound[1]
        /\ IF Directions[i] = "desc" THEN cell[2] < bound[2] ELSE cell[2] > bound[2]

\* The WHERE clause of a page after cursor c, for a row with key k: a
\* disjunction over the columns, each behind equality of its predecessors.
CompileKeysetCursor(c, k) ==
  \E i \in 1..Width :
    /\ \A j \in 1..(i - 1) : Cell(j, k[j]) = BindKeysetCursor(c[j])
    /\ LET cell == Cell(i, k[i])
           bound == BindKeysetCursor(c[i])
       IN  /\ cell[1] = bound[1]
           /\ IF Directions[i] = "desc" THEN cell[2] < bound[2] ELSE cell[2] > bound[2]

\* ORDER BY: the first column in which two keys differ decides.
Precedes(a, b) ==
  \E i \in 1..Width :
    /\ a[i] # b[i] /\ \A j \in 1..(i - 1) : a[j] = b[j]
    /\ IF Directions[i] = "desc" THEN a[i] > b[i] ELSE a[i] < b[i]

First(S) == CHOOSE k \in S : \A m \in S \ {k} : Precedes(k, m)

-----------------------------------------------------------------------------
(* Sizes. *)

\* What n rows add to an empty page beside their own bytes: the separators
\* and the digits of row_count.
Overhead(n) == (IF n = 0 THEN 0 ELSE n - 1) + decimalDigits[n] - decimalDigits[0]

\* json.Marshal of a final page with the rows s, and of a page with a cursor.
FinalEncoding(s) ==
  FinalBase + Overhead(Len(s)) + SumFunction([i \in DOMAIN s |-> RowSize[s[i]]])
MoreEncoding(s, k) == FinalEncoding(s) - FinalBase + MoreBase + CursorSize[k]

-----------------------------------------------------------------------------
NoCursor == [size |-> 0, key |-> None]
NoResult == [kind |-> "none", rows |-> <<>>, hasMore |-> FALSE, key |-> None, bytes |-> 0]
Failed(kind) == [NoResult EXCEPT !.kind = kind]

TypeOK ==
  /\ maximum \in Nat /\ limit \in Nat \ {0}
  /\ table \subseteq Keys /\ stable \subseteq Keys
  /\ cursor \in {None} \cup {MaterializeKeysetCursor(k) : k \in Keys}
  /\ client \in {"scanning", "finished", "stopped"}
  /\ delivered \subseteq Keys
  /\ pc \in {"idle", "collect", "finish", "respond", "answered"}
  /\ snapshot \subseteq Keys
  /\ rows \in Seq(Keys) /\ Len(rows) <= limit
  /\ finalSize \in Nat /\ provisionalPreviousSize \in Nat
  /\ safe \in [size : Nat, key : Keys \cup {None}]
  /\ provisional \in BOOLEAN /\ moreObserved \in BOOLEAN
  /\ result \in [kind : {"none", "page", "too_large", "envelope", "error", "internal"},
                 rows : Seq(Keys), hasMore : BOOLEAN, key : Keys \cup {None}, bytes : Nat]
  /\ changes \in Nat /\ failures \in Nat

Init ==
  /\ \E s \in Starts : /\ maximum = s.maximum /\ limit = s.limit /\ table = s.table
                       /\ changes = s.changes /\ failures = s.failures
  /\ stable = table
  /\ cursor = None /\ client = "scanning" /\ delivered = {}
  /\ pc = "idle"
  /\ snapshot = {} /\ rows = <<>> /\ finalSize = 0 /\ safe = NoCursor
  /\ provisional = FALSE /\ provisionalPreviousSize = 0 /\ moreObserved = FALSE
  /\ result = NoResult

-----------------------------------------------------------------------------
(* One page. *)

Answer(r) == pc' = "answered" /\ result' = r

\* The request passes the envelope checks, its query is compiled and run in a
\* read-only snapshot.
Query ==
  /\ pc = "idle" /\ client = "scanning"
  /\ \/ /\ FinalBase > maximum \/ MoreBase > maximum
        /\ Answer(Failed("envelope"))
        /\ UNCHANGED collection
     \/ /\ FinalBase <= maximum /\ MoreBase <= maximum
        /\ pc' = "collect"
        /\ snapshot' = {k \in table : cursor = None \/ CompileKeysetCursor(cursor, k)}
        /\ rows' = <<>> /\ finalSize' = FinalBase /\ safe' = NoCursor
        /\ provisional' = FALSE /\ provisionalPreviousSize' = 0 /\ moreObserved' = FALSE
        /\ UNCHANGED result
  /\ UNCHANGED <<request, environment, scan>>

\* LIMIT limit + 1: one row more than a page, to see whether there is one.
QueryLimit == limit + 1

Unread == snapshot \ ToSet(rows)
HasNext == Unread # {} /\ Len(rows) < QueryLimit

\* Nothing may follow the rows of this page: it has all it asked for, or its
\* last row may only be the last one.
PageIsFull == provisional \/ Len(rows) = limit

\* rows.Next finds a row behind a full page.
SeeMore ==
  /\ pc = "collect" /\ HasNext /\ PageIsFull
  /\ moreObserved' = TRUE
  /\ pc' = "finish"
  /\ UNCHANGED <<request, environment, scan, snapshot, rows, finalSize, safe, provisional,
                 provisionalPreviousSize, result>>

Separator == IF rows = <<>> THEN 0 ELSE 1

\* Variant: row_count is taken to have one digit.
RowCountConstant == 0

RowCountGrowth == decimalDigits[Len(rows) + 1] - decimalDigits[Len(rows)]

\* Variant: a page that would fill the budget exactly is taken not to fit.
CursorFitsStrictly(k, rowsSize) == MoreBase + rowsSize + CursorSize[k] < maximum

\* encodedKeysetCursorSize within what the envelope and the rows leave.
CursorFits(k, rowsSize) ==
  /\ CursorSize[k] <= maximum - MoreBase - rowsSize
  /\ MoreBase + rowsSize + CursorSize[k] <= maximum

\* The next row of the result: it does not fit, or it is appended, with its
\* cursor when the page would fit with it, else provisionally.
TakeRow ==
  /\ pc = "collect" /\ HasNext /\ ~PageIsFull
  /\ LET k == First(Unread)
         nextFinalSize == finalSize + Separator + RowCountGrowth + RowSize[k]
         rowsSize == nextFinalSize - FinalBase
     IN  IF RowSize[k] > maximum - finalSize - Separator - RowCountGrowth
         THEN /\ moreObserved' = TRUE
              /\ pc' = "finish"
              /\ UNCHANGED <<rows, finalSize, safe, provisional, provisionalPreviousSize>>
         ELSE /\ rows' = Append(rows, k)
              /\ provisionalPreviousSize' = finalSize
              /\ finalSize' = nextFinalSize
              /\ provisional' = ~CursorFits(k, rowsSize)
              /\ safe' = IF CursorFits(k, rowsSize)
                         THEN [size |-> MoreBase + rowsSize + CursorSize[k], key |-> k]
                         ELSE safe
              /\ UNCHANGED <<pc, moreObserved>>
  /\ UNCHANGED <<request, environment, scan, snapshot, result>>

EndOfRows ==
  /\ pc = "collect" /\ ~HasNext
  /\ pc' = "finish"
  /\ UNCHANGED <<request, environment, scan, collection, result>>

\* The plan is rejected, a scan or a guard fails, the deadline passes.
PageFails ==
  /\ pc = "collect" /\ failures > 0
  /\ failures' = failures - 1
  /\ Answer(Failed("error"))
  /\ UNCHANGED <<request, environment, cursor, client, delivered, collection>>

\* The rows of the page: a provisional row goes when another one follows.
Kept == IF moreObserved /\ provisional THEN Front(rows) ELSE rows

\* After the loop.
Finish ==
  /\ pc = "finish"
  /\ IF moreObserved
     THEN IF Kept = <<>> \/ safe = NoCursor
          THEN Answer(Failed("too_large"))
          ELSE /\ result' = [kind |-> "page", rows |-> Kept, hasMore |-> TRUE,
                             key |-> safe.key, bytes |-> safe.size]
               /\ pc' = "respond"
     ELSE /\ result' = [kind |-> "page", rows |-> Kept, hasMore |-> FALSE,
                        key |-> None, bytes |-> finalSize]
          /\ pc' = "respond"
  /\ UNCHANGED <<request, environment, scan, collection>>

\* validateKeysetResponse, and the length of the encoded response.
ValidateKeysetResponse ==
  /\ Len(result.rows) <= limit
  /\ result.hasMore =>
       /\ result.rows # <<>>
       /\ \A i \in 1..Width :
            KeysetCursorMatchesCell(MaterializeKeysetCursor(result.key)[i],
                                    Cell(i, Last(result.rows)[i]))
EncodedBytes ==
  IF result.hasMore THEN MoreEncoding(result.rows, result.key) ELSE FinalEncoding(result.rows)

Respond ==
  /\ pc = "respond"
  /\ Answer(IF ValidateKeysetResponse /\ EncodedBytes = result.bytes /\ EncodedBytes <= maximum
            THEN result ELSE Failed("internal"))
  /\ UNCHANGED <<request, environment, scan, collection>>

-----------------------------------------------------------------------------
(* The client and the other users of the database. *)

\* The response arrives: the client keeps the rows and asks for what follows
\* the cursor; it repeats a page that failed and gives up on the other errors.
Receive ==
  /\ pc = "answered"
  /\ pc' = "idle"
  /\ result' = NoResult
  /\ \/ /\ result.kind = "page"
        /\ delivered' = delivered \cup ToSet(result.rows)
        /\ IF result.hasMore
           THEN cursor' = MaterializeKeysetCursor(result.key) /\ UNCHANGED client
           ELSE client' = "finished" /\ UNCHANGED cursor
     \/ /\ result.kind \in {"envelope", "too_large", "internal"}
        /\ client' = "stopped"
        /\ UNCHANGED <<cursor, delivered>>
     \/ /\ result.kind = "error"
        /\ UNCHANGED <<cursor, client, delivered>>
  /\ UNCHANGED <<request, environment, failures, collection>>

LoseResponse ==
  /\ pc = "answered" /\ failures > 0
  /\ failures' = failures - 1
  /\ pc' = "idle"
  /\ result' = NoResult
  /\ UNCHANGED <<request, environment, cursor, client, delivered, collection>>

Change ==
  /\ client = "scanning" /\ changes > 0
  /\ changes' = changes - 1
  /\ \E k \in Churn :
       \/ k \notin table /\ table' = table \cup {k} /\ UNCHANGED stable
       \/ k \in table /\ table' = table \ {k} /\ stable' = stable \ {k}
  /\ UNCHANGED <<request, scan, pc, collection, result>>

-----------------------------------------------------------------------------
Page == Query \/ SeeMore \/ TakeRow \/ EndOfRows \/ Finish \/ Respond

Next == Page \/ PageFails \/ Receive \/ LoseResponse \/ Change

Spec == Init /\ [][Next]_vars

\* The handler runs to its end, and a client that scans reads its answers.
FairSpec == Spec /\ WF_vars(Page) /\ WF_vars(Receive)

-----------------------------------------------------------------------------
(* Properties. *)

\* Across pages, retries and concurrent changes the client gets the rows in
\* the requested order and none of them twice: the rows of a page are sorted
\* and come behind every row the client already has.
ScanIsOrdered ==
  result.kind = "page" =>
    /\ \A i, j \in DOMAIN result.rows : i < j => Precedes(result.rows[i], result.rows[j])
    /\ \A k \in delivered, i \in DOMAIN result.rows : Precedes(k, result.rows[i])

\* When the last page says has_more = false, the client has every row that
\* was in the table throughout the scan.
ScanIsComplete == client = "finished" => stable \subseteq delivered

\* The byte accounting of the loop is exact: the response that is encoded has
\* the computed length, fits max_result_bytes and passes validation, so the
\* service never answers with an internal error.
AccountingIsExact == result.kind # "internal"

\* The page of n + 1 rows, in the form it would have.
NextPage(n) ==
  [i \in 1..(n + 1) |->
     CHOOSE k \in snapshot : Cardinality({m \in snapshot : Precedes(m, k)}) = i - 1]
NextPageFits(n) ==
  LET s == NextPage(n)
  IN  IF Len(s) = Cardinality(snapshot) THEN FinalEncoding(s) <= maximum
                                        ELSE MoreEncoding(s, Last(s)) <= maximum

\* A page is cut only by the limit or because the next row does not fit, and
\* result_too_large means that not even one row does.
PageIsCutLate ==
  pc = "answered" /\ (result.hasMore \/ result.kind = "too_large") =>
    Len(result.rows) = limit \/ ~NextPageFits(Len(result.rows))

\* A scan ends, whatever the sizes, the limit and the changes.
ScanEnds == <>(client # "scanning")
=============================================================================
