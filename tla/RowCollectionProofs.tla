------------------------ MODULE RowCollectionProofs -------------------------
(***************************************************************************)
(* For every result set, limit and budget: the bytes that the collectors   *)
(* count are the bytes of the encoding, a cut response says that it is cut *)
(* and is the largest one that fits.                                       *)
(***************************************************************************)
EXTENDS RowCollection, ResponseSizeProofs, SequenceTheorems

\* The rows that are kept are the first ones.
KeepsPrefix ==
  /\ Len(rows) <= Len(stream)
  /\ \A i \in 1..Len(rows) : rows[i] = stream[i]

\* The bytes of the response with the first n rows if it is not cut, and what
\* it saves to be cut.
WholeSize(n) == Encoding(n, FALSE)
CutSaves == IF mode = "select" THEN 0 ELSE 1

\* With one row more it would be too long, cut or not as it would then be.
TooLong ==
  maximum < IF Len(rows) + 1 < Len(stream) THEN WholeSize(Len(rows) + 1) - CutSaves
                                           ELSE WholeSize(Len(rows) + 1)

\* While rows are read: a response that is not cut has all of them, one that
\* is cut misses one, and a provisional row is the last one read, fills the
\* budget to the byte if another one follows, and is one byte too long if not.
Accounted ==
  /\ bytes = IF truncated THEN WholeSize(Len(rows)) - CutSaves ELSE WholeSize(Len(rows))
  /\ bytes <= maximum
  /\ ~truncated => ~provisional /\ next = Len(rows) + 1 /\ bytes >= Base
  /\ truncated => mode # "scalar"
  /\ truncated /\ ~provisional => next > Len(rows) + 1 /\ (Len(rows) = limit \/ TooLong)
  /\ provisional =>
       /\ truncated /\ mode = "grouped" /\ rows # <<>> /\ next = Len(rows) + 1
       /\ bytes = maximum
       /\ previous = WholeSize(Len(rows) - 1) /\ Base <= previous /\ previous <= maximum

Inv ==
  /\ TypeOK /\ KeepsPrefix
  /\ pc = "start" => rows = <<>> /\ next = 1 /\ ~truncated /\ ~provisional
  /\ pc \in {"collect", "finish"} => Accounted
  /\ pc = "finish" => next = Len(stream) + 1
  /\ pc = "done" =>
       /\ truncated = (Len(rows) < Len(stream))
       /\ bytes = IF truncated THEN WholeSize(Len(rows)) - CutSaves ELSE WholeSize(Len(rows))
       /\ bytes <= maximum
       /\ truncated => Len(rows) = limit \/ TooLong

-----------------------------------------------------------------------------
(* Sizes of responses. *)

(* The sizes of the rows are positive integers. *)
LEMMA StreamFacts ==
  ASSUME TypeOK
  PROVE  /\ stream \in Seq(Nat \ {0, 1}) /\ Len(stream) \in Nat
         /\ \A i \in 1..Len(stream) : stream[i] \in Nat \ {0, 1}
         /\ Base \in Nat \ {0} /\ maximum \in Nat /\ limit \in Nat \ {0}
<1>1. /\ stream \in Seq(Nat \ {0, 1})
      /\ Base \in Nat \ {0} /\ maximum \in Nat /\ limit \in Nat \ {0}
  BY CollectionAssumption DEF TypeOK
<1> QED
  BY <1>1, LenProperties, ElementOfSeq

(* The encoding of a response that is cut, and of one with one row more. *)
LEMMA EncodingSteps ==
  ASSUME TypeOK, NEW n \in Nat, n <= Len(stream)
  PROVE  /\ WholeSize(n) \in Int
         /\ WholeSize(0) = Base
         /\ Encoding(n, FALSE) = WholeSize(n)
         /\ Encoding(n, TRUE) = WholeSize(n) - CutSaves
         /\ n < Len(stream) =>
              WholeSize(n + 1) =
                WholeSize(n) + (IF n = 0 THEN 0 ELSE 1) + stream[n + 1]
                  + (IF mode = "select" THEN 0 ELSE decimalDigits[n + 1] - decimalDigits[n])
<1> DEFINE sum(k) == SumFunctionOnSet(stream, 1..k)
<1>1. sum(n) \in Int
  <2>1. IsFiniteSet(1..n)
    BY FS_Interval
  <2>2. \A i \in 1..n : stream[i] \in Int
    BY StreamFacts
  <2> QED
    BY <2>1, <2>2, SumInt
<1>2. sum(0) = 0
  BY SumEmpty
<1>3. ASSUME n < Len(stream)
      PROVE  sum(n + 1) = stream[n + 1] + sum(n) /\ stream[n + 1] \in Int
  <2>1. 1..(n + 1) = (1..n) \cup {n + 1} /\ n + 1 \notin 1..n
    OBVIOUS
  <2>2. IsFiniteSet(1..n)
    BY FS_Interval
  <2>3. \A i \in (1..n) \cup {n + 1} : stream[i] \in Int
    BY <1>3, StreamFacts
  <2> QED
    BY <2>1, <2>2, <2>3, SumAdd
<1>4. decimalDigits[n] \in Int /\ decimalDigits[n + 1] \in Int /\ decimalDigits[0] \in Int
  BY DigitsGrow
<1>5. Base \in Int
  BY StreamFacts
<1> HIDE DEF sum
<1>6. WholeSize(0) = Base
  BY <1>2, <1>4, <1>5 DEF WholeSize, Encoding, sum
<1>7. WholeSize(n) \in Int
  BY <1>1, <1>4, <1>5 DEF WholeSize, Encoding, sum
<1>8. Encoding(n, FALSE) = WholeSize(n) /\ Encoding(n, TRUE) = WholeSize(n) - CutSaves
  BY <1>1, <1>4, <1>5 DEF WholeSize, CutSaves, Encoding, sum
<1>9. ASSUME n < Len(stream)
      PROVE  WholeSize(n + 1) =
               WholeSize(n) + (IF n = 0 THEN 0 ELSE 1) + stream[n + 1]
                 + (IF mode = "select" THEN 0 ELSE decimalDigits[n + 1] - decimalDigits[n])
  <2>1. WholeSize(n + 1) =
          Base + (stream[n + 1] + sum(n)) + n
            + (IF mode = "select" THEN 0 ELSE decimalDigits[n + 1] - decimalDigits[0])
    BY <1>1, <1>3, <1>4, <1>5, <1>9 DEF WholeSize, Encoding, sum
  <2>2. WholeSize(n) =
          Base + sum(n) + (IF n = 0 THEN 0 ELSE n - 1)
            + (IF mode = "select" THEN 0 ELSE decimalDigits[n] - decimalDigits[0])
    BY <1>1, <1>4, <1>5 DEF WholeSize, Encoding, sum
  <2>3. stream[n + 1] \in Int
    BY <1>3, <1>9
  <2>4. CASE mode = "select"
    BY SMTT(30), <1>1, <1>5, <2>1, <2>2, <2>3, <2>4
  <2>5. CASE mode # "select" /\ n = 0
    BY SMTT(30), <1>1, <1>4, <1>5, <2>1, <2>2, <2>3, <2>5
  <2>6. CASE mode # "select" /\ n # 0
    BY <1>1, <1>4, <1>5, <2>1, <2>2, <2>3, <2>6, SMTT(60)
  <2> QED
    BY <2>4, <2>5, <2>6
<1> QED
  BY <1>6, <1>7, <1>8, <1>9

(* The size of a response depends on the request only. *)
LEMMA EncodingFixed ==
  ASSUME UNCHANGED request
  PROVE  CutSaves' = CutSaves /\ \A n : WholeSize(n)' = WholeSize(n)
BY DEF WholeSize, CutSaves, Encoding, request

(* The row that is next, and the size with it. *)
LEMMA NextSize ==
  ASSUME Inv, pc = "collect", next <= Len(stream)
  PROVE  /\ Len(rows) \in Nat /\ Len(rows) < Len(stream)
         /\ Separator \in {0, 1} /\ RowCountGrowth \in Nat
         /\ Row \in Nat \ {0, 1}
         /\ ~truncated =>
              /\ Row = stream[Len(rows) + 1] /\ bytes = WholeSize(Len(rows)) /\ bytes >= Base
              /\ WholeSize(Len(rows) + 1) =
                   bytes + Separator + Row + (IF mode = "select" THEN 0 ELSE RowCountGrowth)
<1>1. /\ Len(rows) \in Nat /\ Len(stream) \in Nat /\ next \in Nat
      /\ rows = <<>> <=> Len(rows) = 0
  BY StreamFacts, EmptySeq, LenProperties DEF Inv, TypeOK
<1>2. Len(rows) < Len(stream)
  BY <1>1 DEF Inv, Accounted
<1>3. Separator \in {0, 1} /\ Separator = IF Len(rows) = 0 THEN 0 ELSE 1
  BY <1>1 DEF Separator
<1>4. RowCountGrowth \in Nat
  BY <1>1, DigitsGrow DEF RowCountGrowth
<1>5. Row \in Nat \ {0, 1}
  BY <1>1, StreamFacts DEF Inv, TypeOK, Row
<1>6. ASSUME ~truncated
      PROVE  /\ Row = stream[Len(rows) + 1] /\ bytes = WholeSize(Len(rows)) /\ bytes >= Base
             /\ WholeSize(Len(rows) + 1) =
                  bytes + Separator + Row + (IF mode = "select" THEN 0 ELSE RowCountGrowth)
  <2>1. Row = stream[Len(rows) + 1] /\ bytes = WholeSize(Len(rows)) /\ bytes >= Base
    BY <1>6 DEF Inv, Accounted, Row
  <2>2. WholeSize(Len(rows) + 1) =
          bytes + Separator + Row + (IF mode = "select" THEN 0 ELSE RowCountGrowth)
    <3>1. TypeOK /\ bytes \in Int
      BY DEF Inv, TypeOK
    <3>2. PICK n \in Nat : n = Len(rows)
      BY <1>1
    <3>3. n < Len(stream) /\ n <= Len(stream)
      BY <1>1, <1>2, <3>2
    <3>4. WholeSize(n + 1) =
            WholeSize(n) + (IF n = 0 THEN 0 ELSE 1) + stream[n + 1]
              + (IF mode = "select" THEN 0 ELSE decimalDigits[n + 1] - decimalDigits[n])
      BY <3>1, <3>3, EncodingSteps, Zenon
    <3>5. /\ RowCountGrowth = decimalDigits[n + 1] - decimalDigits[n]
          /\ Separator = IF n = 0 THEN 0 ELSE 1
          /\ Row = stream[n + 1] /\ bytes = WholeSize(n)
      BY <1>3, <2>1, <3>2 DEF RowCountGrowth
    <3>6. WholeSize(n + 1) =
            bytes + Separator + Row + (IF mode = "select" THEN 0 ELSE RowCountGrowth)
      BY <3>4, <3>5
    <3> QED
      BY <3>2, <3>6
  <2> QED
    BY <2>1, <2>2
<1> QED
  BY <1>1, <1>2, <1>3, <1>4, <1>5, <1>6

(* A response with a row more is longer by more than the row's brackets. *)
LEMMA Longer ==
  ASSUME TypeOK, NEW n \in Nat, n < Len(stream)
  PROVE  WholeSize(n) \in Int /\ WholeSize(n + 1) \in Int /\ WholeSize(n + 1) >= WholeSize(n) + 2
<1>1. /\ n <= Len(stream) /\ n + 1 \in Nat /\ n + 1 <= Len(stream)
      /\ stream[n + 1] \in Nat /\ stream[n + 1] >= 2
  BY StreamFacts
<1>2. WholeSize(n) \in Int /\ WholeSize(n + 1) \in Int
  BY <1>1, EncodingSteps, Zenon
<1>3. WholeSize(n + 1) =
        WholeSize(n) + (IF n = 0 THEN 0 ELSE 1) + stream[n + 1]
          + (IF mode = "select" THEN 0 ELSE decimalDigits[n + 1] - decimalDigits[n])
  BY <1>1, EncodingSteps, Zenon
<1>4. /\ decimalDigits[n + 1] \in Int /\ decimalDigits[n] \in Int
      /\ decimalDigits[n + 1] >= decimalDigits[n]
  BY DigitsGrow
<1> QED
  BY SMTT(30), <1>1, <1>2, <1>3, <1>4

(* A row that is kept continues the prefix. *)
LEMMA KeptRow ==
  ASSUME Inv, Len(rows) < Len(stream), Row = stream[Len(rows) + 1], Row \in Nat,
         rows' = Append(rows, Row), UNCHANGED request
  PROVE  rows' \in Seq(Nat) /\ rows' # <<>> /\ Len(rows') = Len(rows) + 1 /\ KeepsPrefix'
<1>1. rows \in Seq(Nat) /\ Len(rows) \in Nat
  BY LenProperties DEF Inv, TypeOK
<1>2. /\ rows' \in Seq(Nat) /\ rows' # <<>> /\ Len(rows') = Len(rows) + 1
      /\ \A i \in 1..Len(rows) : rows'[i] = rows[i]
      /\ rows'[Len(rows) + 1] = Row
  BY <1>1, AppendProperties
<1>3. Len(stream) \in Nat
  BY StreamFacts DEF Inv
<1>4. KeepsPrefix'
  BY <1>1, <1>2, <1>3 DEF Inv, KeepsPrefix, request
<1> QED
  BY <1>2, <1>4

(* A response that keeps its rows keeps the prefix. *)
LEMMA SameRows ==
  ASSUME Inv, UNCHANGED <<request, rows>>
  PROVE  KeepsPrefix'
BY DEF Inv, KeepsPrefix, request

-----------------------------------------------------------------------------
(* The steps. *)

LEMMA InitInv == Init => Inv
<1> SUFFICES ASSUME Init PROVE Inv
  OBVIOUS
<1>1. stream \in Seq(Nat \ {0, 1})
  BY CollectionAssumption DEF Init
<1>2. Len(stream) \in Nat /\ rows \in Seq(Nat) /\ Len(rows) = 0
  BY <1>1, LenProperties, EmptySeq DEF Init
<1>3. limit \in Nat
  BY CollectionAssumption DEF Init
<1>4. KeepsPrefix
  BY <1>2 DEF KeepsPrefix
<1>5. TypeOK
  <2>1. next \in 1..(Len(stream) + 1) /\ Len(rows) <= limit
    BY <1>2, <1>3 DEF Init
  <2> QED
    BY <1>2, <2>1 DEF Init, TypeOK
<1> QED
  BY <1>4, <1>5 DEF Init, Inv

LEMMA StartInv == Inv /\ Start => Inv'
<1> SUFFICES ASSUME Inv, Start PROVE Inv'
  OBVIOUS
<1>1. UNCHANGED <<request, next, rows, truncated, provisional, previous>>
  BY DEF Start
<1>2. KeepsPrefix'
  BY <1>1, SameRows
<1>3. TypeOK /\ pc = "start" /\ Len(stream) \in Nat /\ Base \in Nat /\ maximum \in Nat
  BY StreamFacts DEF Inv, Start
<1>4. rows = <<>> /\ Len(rows) = 0 /\ next = 1 /\ ~truncated /\ ~provisional
  BY <1>3, EmptySeq DEF Inv
<1>5. CASE Base > maximum
  <2>1. pc' = "too_large" /\ bytes' = bytes
    BY <1>5 DEF Start
  <2> QED
    BY <1>1, <1>2, <1>3, <2>1 DEF Inv, TypeOK, request
<1>6. CASE ~(Base > maximum)
  <2>1. pc' = "collect" /\ bytes' = Base
    BY <1>6 DEF Start
  <2>2. TypeOK'
    BY <1>1, <1>3, <2>1 DEF TypeOK, request
  <2>3. WholeSize(0)' = Base
    <3>1. 0 \in Nat /\ 0 <= Len(stream)
      BY <1>3
    <3>2. WholeSize(0) = Base
      BY <1>3, <3>1, EncodingSteps, Zenon
    <3> QED
      BY <1>1, <3>2, EncodingFixed
  <2>4. Accounted'
    BY <1>1, <1>3, <1>4, <1>6, <2>1, <2>3 DEF Accounted, request
  <2> QED
    BY <1>2, <2>1, <2>2, <2>4 DEF Inv
<1> QED
  BY <1>5, <1>6

(* A row is kept and the response is not cut. *)
LEMMA KeepInv ==
  ASSUME Inv, pc = "collect", next <= Len(stream), UNCHANGED <<request, pc>>,
         next' = next + 1, ~truncated, mode = "scalar" \/ ~AtLimit,
         rows' = Append(rows, Row), bytes' = WholeSize(Len(rows) + 1), bytes' <= maximum,
         UNCHANGED <<truncated, provisional, previous>>
  PROVE  Inv'
<1>1. TypeOK /\ Len(rows) \in Nat /\ Len(stream) \in Nat /\ next = Len(rows) + 1
  BY StreamFacts, NextSize DEF Inv, Accounted
<1>2. /\ Len(rows) < Len(stream) /\ Row \in Nat /\ Row = stream[Len(rows) + 1]
      /\ bytes >= Base
  BY NextSize
<1>3. rows' \in Seq(Nat) /\ Len(rows') = Len(rows) + 1 /\ KeepsPrefix'
  BY <1>2, KeptRow
<1>4. bytes' \in Nat /\ bytes' >= Base
  <2>1. WholeSize(Len(rows)) \in Int /\ WholeSize(Len(rows) + 1) \in Int
        /\ WholeSize(Len(rows) + 1) >= WholeSize(Len(rows)) + 2
    BY <1>1, <1>2, Longer
  <2>2. bytes = WholeSize(Len(rows)) /\ bytes \in Nat /\ Base \in Nat
    BY <1>1, StreamFacts, NextSize DEF TypeOK
  <2> QED
    BY <1>2, <2>1, <2>2
<1>5. TypeOK'
  <2>1. limit \in Nat
    BY <1>1, StreamFacts
  <2> QED
    BY <1>1, <1>2, <1>3, <1>4, <2>1 DEF TypeOK, AtLimit, request
<1>6. bytes' = WholeSize(Len(rows))'
  BY <1>3, EncodingFixed
<1>7. Accounted'
  BY <1>1, <1>3, <1>4, <1>6 DEF Inv, Accounted, request
<1> QED
  BY <1>3, <1>5, <1>7 DEF Inv

(* A row is read and not kept: the response is cut, now or before. *)
LEMMA SkipInv ==
  ASSUME Inv, pc = "collect", next <= Len(stream), UNCHANGED <<request, pc, rows, previous>>,
         next' = next + 1, next > Len(rows), mode # "scalar", truncated' = TRUE, provisional' = FALSE,
         bytes' = WholeSize(Len(rows)) - CutSaves, bytes' \in Nat, bytes' <= maximum,
         Len(rows) = limit \/ TooLong
  PROVE  Inv'
<1>1. TypeOK /\ Len(rows) \in Nat /\ Len(stream) \in Nat /\ next \in Nat
  BY StreamFacts, NextSize DEF Inv, TypeOK
<1>2. KeepsPrefix'
  BY SameRows
<1>3. TypeOK'
  <2>1. next' \in 1..(Len(stream) + 1)
    BY <1>1
  <2> QED
    BY <1>1, <2>1 DEF TypeOK, request
<1>4. (Len(rows) = limit \/ TooLong)'
  BY EncodingFixed DEF TooLong, request
<1>5. Accounted'
  BY <1>1, <1>4, EncodingFixed DEF Accounted, request
<1> QED
  BY <1>2, <1>3, <1>5 DEF Inv

(* A row that does not fit leaves the response largest, even if it is cut. *)
LEMMA DoesNotFit ==
  ASSUME Inv, pc = "collect", next <= Len(stream),
         maximum < WholeSize(Len(rows) + 1) - CutSaves
  PROVE  TooLong
<1>1. Len(rows) \in Nat /\ Len(rows) < Len(stream) /\ TypeOK /\ maximum \in Nat
  BY StreamFacts, NextSize DEF Inv
<1>2. WholeSize(Len(rows) + 1) \in Int
  BY <1>1, Longer
<1> QED
  BY <1>1, <1>2 DEF TooLong, CutSaves

LEMMA CollectSelectInv ==
  ASSUME Inv, pc = "collect", next <= Len(stream), UNCHANGED request, next' = next + 1,
         CollectSelectRow
  PROVE  Inv'
<1>1. /\ mode = "select" /\ CutSaves = 0 /\ ~provisional /\ TypeOK /\ Accounted
      /\ bytes \in Nat /\ maximum \in Nat /\ Len(rows) \in Nat /\ next \in Nat
  BY StreamFacts, NextSize DEF CollectSelectRow, CutSaves, Inv, Accounted, TypeOK
<1>2. Separator \in {0, 1} /\ Row \in Nat
  BY NextSize
<1>3. ~truncated =>
        /\ WholeSize(Len(rows) + 1) = bytes + Separator + Row
        /\ next = Len(rows) + 1 /\ bytes = WholeSize(Len(rows))
  BY <1>1, <1>2, NextSize DEF Accounted
<1>4. CASE ~(truncated \/ AtLimit \/ ~SelectFits)
  <2>1. /\ rows' = Append(rows, Row)
        /\ bytes' = bytes + Separator + Row
        /\ UNCHANGED <<truncated, provisional, previous, pc>>
    BY <1>4 DEF CollectSelectRow
  <2>2. bytes' <= maximum /\ bytes' = WholeSize(Len(rows) + 1)
    BY <1>1, <1>2, <1>3, <1>4, <2>1 DEF SelectFits
  <2> QED
    BY <1>4, <2>1, <2>2, KeepInv
<1>5. CASE truncated \/ AtLimit \/ ~SelectFits
  <2>1. UNCHANGED <<rows, provisional, previous, pc, bytes>> /\ truncated' = TRUE
    BY <1>5 DEF CollectSelectRow, Skip
  <2>2. WholeSize(Len(rows)) \in Int
    BY <1>1, NextSize, Longer
  <2>3. bytes = WholeSize(Len(rows)) - CutSaves /\ bytes <= maximum
    BY <1>1, <2>2 DEF Accounted
  <2>4. next > Len(rows)
    BY <1>1 DEF Accounted
  <2>5. Len(rows) = limit \/ TooLong
    <3>1. CASE truncated
      BY <1>1, <3>1 DEF Accounted
    <3>2. CASE AtLimit
      BY <3>2 DEF AtLimit
    <3>3. CASE ~truncated /\ ~SelectFits
      <4>1. maximum < WholeSize(Len(rows) + 1) - CutSaves
        BY <1>1, <1>2, <1>3, <3>3 DEF SelectFits
      <4> QED
        BY <4>1, DoesNotFit
    <3> QED
      BY <1>5, <3>1, <3>2, <3>3
  <2>6. provisional' = FALSE
    BY <1>1, <2>1 DEF TypeOK
  <2> QED
    BY <1>1, <2>1, <2>3, <2>4, <2>5, <2>6, SkipInv
<1> QED
  BY <1>4, <1>5

LEMMA CollectAggregateInv ==
  ASSUME Inv, pc = "collect", next <= Len(stream), UNCHANGED request, next' = next + 1,
         CollectAggregateRow
  PROVE  Inv'
<1>1. /\ mode # "select" /\ CutSaves = 1 /\ TypeOK /\ Accounted
      /\ bytes \in Nat /\ maximum \in Nat /\ Len(rows) \in Nat /\ Base \in Nat \ {0}
      /\ next \in Nat /\ Len(stream) \in Nat
  BY StreamFacts, NextSize DEF CollectAggregateRow, CutSaves, Inv, Accounted, TypeOK
<1>2. Separator \in {0, 1} /\ Row \in Nat \ {0, 1} /\ RowCountGrowth \in Nat
  BY NextSize
<1>3. ~truncated =>
        /\ WholeSize(Len(rows) + 1) = bytes + Separator + Row + RowCountGrowth
        /\ next = Len(rows) + 1 /\ bytes = WholeSize(Len(rows)) /\ bytes >= Base
        /\ bytes <= maximum
        /\ Row = stream[Len(rows) + 1] /\ ~provisional
  BY <1>1, <1>2, NextSize DEF Accounted
<1>4. /\ WholeSize(Len(rows)) \in Int /\ WholeSize(Len(rows) + 1) \in Int
      /\ WholeSize(Len(rows) + 1) >= WholeSize(Len(rows)) + 2
      /\ Len(rows) < Len(stream)
  BY <1>1, NextSize, Longer
<1>5. ASSUME ~truncated, mode = "grouped", Skip, Cut, AtLimit \/ Row > Remaining + 1
      PROVE  Inv'
  <2>1. /\ UNCHANGED <<rows, provisional, previous, pc>>
        /\ truncated' = TRUE /\ bytes' = bytes - 1 /\ provisional' = FALSE
    BY <1>1, <1>3, <1>5 DEF Skip, Cut, TypeOK
  <2>2. next > Len(rows) /\ bytes' \in Nat /\ bytes' <= maximum
        /\ bytes' = WholeSize(Len(rows)) - CutSaves
    BY <1>1, <1>3, <1>5, <2>1
  <2>3. Len(rows) = limit \/ TooLong
    <3>1. CASE AtLimit
      BY <3>1 DEF AtLimit
    <3>2. CASE Row > Remaining + 1
      <4>1. maximum < WholeSize(Len(rows) + 1) - CutSaves
        BY SMTT(30), <1>1, <1>2, <1>3, <1>5, <3>2 DEF Remaining
      <4> QED
        BY <4>1, DoesNotFit
    <3> QED
      BY <1>5, <3>1, <3>2
  <2>4. mode # "scalar"
    BY <1>5
  <2> QED
    BY <2>1, <2>2, <2>3, <2>4, SkipInv
<1>6. CASE provisional /\ provisional' = FALSE /\ UNCHANGED <<result, previous, pc>>
  <2>1. /\ truncated = TRUE /\ next = Len(rows) + 1 /\ bytes = maximum
        /\ bytes = WholeSize(Len(rows)) - CutSaves /\ mode # "scalar"
    BY <1>1, <1>6 DEF Accounted, TypeOK
  <2>2. maximum < WholeSize(Len(rows) + 1) - CutSaves
    BY <1>1, <1>4, <2>1
  <2>3. TooLong
    BY <2>2, DoesNotFit
  <2>4. UNCHANGED <<rows, previous, pc, bytes>> /\ truncated' = TRUE
    BY <1>6, <2>1 DEF result
  <2>5. next > Len(rows) /\ bytes <= maximum
    BY <1>1, <2>1
  <2> QED
    BY <1>1, <1>6, <2>1, <2>3, <2>4, <2>5, SkipInv
<1>7. CASE ~provisional /\ truncated /\ Skip /\ UNCHANGED <<bytes, truncated>>
  <2>1. /\ UNCHANGED <<rows, previous, pc, bytes>>
        /\ truncated' = TRUE /\ provisional' = FALSE
    BY <1>1, <1>7 DEF Skip, TypeOK
  <2>2. /\ next > Len(rows) /\ bytes <= maximum /\ mode # "scalar"
        /\ bytes = WholeSize(Len(rows)) - CutSaves /\ (Len(rows) = limit \/ TooLong)
    BY <1>1, <1>7 DEF Accounted
  <2> QED
    BY <1>1, <2>1, <2>2, SkipInv
<1>8. CASE /\ ~provisional /\ ~truncated /\ mode = "grouped" /\ AtLimit
           /\ Skip /\ Cut
  BY <1>5, <1>8
<1>9. ASSUME ~provisional, ~truncated, ~(mode = "grouped" /\ AtLimit),
             Row <= Remaining, Keep(bytes), UNCHANGED <<truncated, provisional, previous, pc>>
      PROVE  Inv'
  <2>1. rows' = Append(rows, Row) /\ bytes' = bytes + Separator + RowCountGrowth + Row
    BY <1>9 DEF Keep
  <2>2. bytes' = WholeSize(Len(rows) + 1) /\ bytes' <= maximum
    BY SMTT(30), <1>1, <1>2, <1>3, <1>9, <2>1 DEF Remaining
  <2>3. mode = "scalar" \/ ~AtLimit
    BY <1>1, <1>9, CollectionAssumption DEF TypeOK
  <2> QED
    BY <1>9, <2>1, <2>2, <2>3, KeepInv
<1>10. ASSUME pc' = "too_large", UNCHANGED <<result, provisional, previous>>
       PROVE  Inv'
  <2>1. KeepsPrefix'
    BY <1>10, SameRows DEF result
  <2>2. next' \in 1..(Len(stream) + 1)
    BY <1>1
  <2>3. TypeOK'
    BY <1>1, <1>10, <2>2 DEF TypeOK, request, result
  <2> QED
    BY <1>10, <2>1, <2>3 DEF Inv
<1>11. ASSUME ~truncated, Row = Remaining + 1, mode = "grouped", ~AtLimit,
              provisional' = TRUE, previous' = bytes, truncated' = TRUE, Keep(bytes - 1),
              UNCHANGED pc
       PROVE  Inv'
  <2>1. rows' = Append(rows, Row) /\ bytes' = bytes - 1 + Separator + RowCountGrowth + Row
    BY <1>11 DEF Keep
  <2>2. bytes' = WholeSize(Len(rows) + 1) - 1 /\ bytes' = maximum /\ bytes' \in Nat
    <3>1. bytes' = WholeSize(Len(rows) + 1) - 1
      <4>1. WholeSize(Len(rows) + 1) = bytes + Separator + Row + RowCountGrowth
        BY <1>3, <1>11
      <4> QED
        BY <1>1, <1>2, <2>1, <4>1
    <3>2. Row = maximum - bytes - Separator - RowCountGrowth + 1
      BY <1>11 DEF Remaining
    <3>3. bytes' = maximum
      BY <1>1, <1>2, <2>1, <3>2
    <3> QED
      BY <1>1, <3>1, <3>3
  <2>3. /\ rows' \in Seq(Nat) /\ rows' # <<>> /\ Len(rows') = Len(rows) + 1
        /\ KeepsPrefix'
    BY <1>2, <1>3, <1>4, <1>11, <2>1, KeptRow
  <2>4. TypeOK'
    <3>1. limit \in Nat
      BY <1>1, StreamFacts
    <3>2. next' \in 1..(Len(stream) + 1) /\ Len(rows') <= limit
      BY <1>1, <1>11, <2>3, <3>1 DEF TypeOK, AtLimit
    <3> QED
      BY <1>1, <1>11, <2>2, <2>3, <3>2 DEF TypeOK, request
  <2>5. WholeSize(Len(rows))' = WholeSize(Len(rows) + 1) /\ CutSaves' = 1
    BY <1>1, <2>3, EncodingFixed
  <2>6. WholeSize(Len(rows) - 1)' = WholeSize(Len(rows))
    BY <1>1, <2>3, EncodingFixed
  <2>7. Accounted'
    BY <1>1, <1>3, <1>11, <2>2, <2>3, <2>5, <2>6 DEF Accounted, request
  <2> QED
    BY <1>11, <2>3, <2>4, <2>7 DEF Inv
<1>12. CASE /\ ~provisional /\ ~truncated /\ ~(mode = "grouped" /\ AtLimit)
            /\ \/ /\ Row <= Remaining
                  /\ Keep(bytes)
                  /\ UNCHANGED <<truncated, provisional, previous, pc>>
               \/ /\ Row > Remaining /\ mode = "scalar"
                  /\ pc' = "too_large"
                  /\ UNCHANGED <<result, provisional, previous>>
               \/ /\ Row > Remaining + 1 /\ mode = "grouped"
                  /\ Skip /\ Cut
               \/ /\ Row = Remaining + 1 /\ mode = "grouped"
                  /\ provisional' = TRUE
                  /\ previous' = bytes
                  /\ truncated' = TRUE
                  /\ Keep(bytes - 1)
                  /\ UNCHANGED pc
  BY <1>5, <1>9, <1>10, <1>11, <1>12, Zenon
<1> QED
  BY <1>6, <1>7, <1>8, <1>12, Zenon DEF CollectAggregateRow

LEMMA CollectRowInv == Inv /\ CollectRow => Inv'
BY CollectSelectInv, CollectAggregateInv DEF CollectRow

(* Only pc changes, and not to "done". *)
LEMMA OnlyPcInv ==
  ASSUME Inv, pc = "collect", UNCHANGED <<request, next, result, provisional, previous>>,
         pc' = "upstream" \/ (pc' = "finish" /\ next > Len(stream))
  PROVE  Inv'
<1>1. UNCHANGED <<rows, bytes, truncated>>
  BY DEF result
<1>2. KeepsPrefix' /\ TypeOK'
  BY <1>1, SameRows DEF Inv, TypeOK, request
<1>3. Accounted'
  BY <1>1, EncodingFixed DEF Inv, Accounted, TooLong, request
<1>4. pc' = "finish" => next' = Len(stream') + 1
  <2>1. Len(stream) \in Nat /\ next \in 1..(Len(stream) + 1)
    BY StreamFacts DEF Inv, TypeOK
  <2> QED
    BY <2>1 DEF request
<1> QED
  BY <1>2, <1>3, <1>4 DEF Inv

LEMMA FinishInv == Inv /\ Finish => Inv'
<1> SUFFICES ASSUME Inv, Finish PROVE Inv'
  OBVIOUS
<1>1. /\ pc = "finish" /\ Accounted /\ TypeOK /\ KeepsPrefix /\ next = Len(stream) + 1
      /\ UNCHANGED <<request, next, provisional, previous>>
      /\ Len(stream) \in Nat /\ Len(rows) \in Nat /\ rows \in Seq(Nat)
      /\ bytes \in Nat /\ maximum \in Nat /\ Base \in Nat \ {0} /\ limit \in Nat
      /\ Len(rows) <= Len(stream)
  BY StreamFacts, LenProperties DEF Inv, Finish, TypeOK, KeepsPrefix
<1>2. /\ pc' \in {"done", "upstream"}
      /\ mode = "scalar" => truncated' = FALSE
      /\ mode # "scalar" => truncated' = truncated
  BY DEF Finish
<1>3. CASE ~provisional
  <2>1. UNCHANGED <<rows, bytes>>
    BY <1>3 DEF Finish, DropProvisional
  <2>2. truncated' = truncated
    BY <1>1, <1>2 DEF Accounted, TypeOK
  <2>3. KeepsPrefix'
    BY <1>1, <2>1, SameRows
  <2>4. TypeOK'
    BY <1>1, <1>2, <2>1, <2>2 DEF TypeOK, request
  <2>5. truncated = (Len(rows) < Len(stream))
    BY <1>1, <1>3 DEF Accounted, TypeOK
  <2>6. /\ bytes = IF truncated THEN WholeSize(Len(rows)) - CutSaves
                               ELSE WholeSize(Len(rows))
        /\ bytes <= maximum
        /\ truncated => Len(rows) = limit \/ TooLong
    BY <1>1, <1>3 DEF Accounted
  <2>7. /\ truncated' = (Len(rows') < Len(stream'))
        /\ (bytes = IF truncated THEN WholeSize(Len(rows)) - CutSaves
                               ELSE WholeSize(Len(rows)))'
        /\ bytes' <= maximum'
        /\ truncated' => (Len(rows) = limit \/ TooLong)'
    BY <1>1, <2>1, <2>2, <2>5, <2>6, EncodingFixed DEF TooLong, request
  <2> QED
    BY <1>2, <2>3, <2>4, <2>7 DEF Inv
<1>4. CASE provisional
  <2>1. /\ truncated = TRUE /\ mode = "grouped" /\ rows # <<>> /\ next = Len(rows) + 1
        /\ bytes = maximum /\ bytes = WholeSize(Len(rows)) - 1 /\ CutSaves = 1
        /\ previous = WholeSize(Len(rows) - 1) /\ Base <= previous /\ previous <= maximum
        /\ Len(rows) = Len(stream)
    BY <1>1, <1>4 DEF Accounted, TypeOK, CutSaves
  <2>2. Len(rows) > 0
    BY <1>1, <2>1, EmptySeq
  <2>3. rows' = SubSeq(rows, 1, Len(rows) - 1) /\ bytes' = previous - 1
    BY <1>4 DEF Finish, DropProvisional, Front
  <2>4. /\ rows' \in Seq(Nat) /\ Len(rows') = Len(rows) - 1
        /\ \A i \in 1..(Len(rows) - 1) : rows'[i] = rows[i]
    <3>1. PICK m \in Nat : m = Len(rows) - 1
      BY <1>1, <2>2
    <3>2. \A i \in 1..m : rows[i] \in Nat
      BY <1>1, <3>1, ElementOfSeq
    <3>3. /\ SubSeq(rows, 1, m) \in Seq(Nat)
          /\ Len(SubSeq(rows, 1, m)) = IF 1 <= m THEN m - 1 + 1 ELSE 0
          /\ \A i \in 1..(m - 1 + 1) : SubSeq(rows, 1, m)[i] = rows[1 + i - 1]
      BY <3>2, SubSeqProperties
    <3>4. /\ SubSeq(rows, 1, m) \in Seq(Nat) /\ Len(SubSeq(rows, 1, m)) = m
          /\ \A i \in 1..m : SubSeq(rows, 1, m)[i] = rows[i]
      BY <3>3
    <3> QED
      BY <2>3, <3>1, <3>4
  <2>5. KeepsPrefix'
    BY <1>1, <2>2, <2>4 DEF KeepsPrefix, request
  <2>6. truncated' = TRUE /\ previous \in Nat /\ bytes' \in Nat /\ bytes' <= maximum
    <3>1. truncated' = TRUE /\ previous \in Nat
      BY <1>1, <1>2, <2>1 DEF TypeOK
    <3>2. /\ Base \in Nat \ {0} /\ maximum \in Nat /\ bytes' = previous - 1
          /\ Base <= previous /\ previous <= maximum
      BY <1>1, <2>1, <2>3
    <3>3. previous - 1 \in Nat /\ previous - 1 <= maximum
      BY <3>1, <3>2
    <3> QED
      BY <3>1, <3>2, <3>3, Zenon
  <2>7. TypeOK'
    <3>1. Len(rows') <= limit
      BY <1>1, <2>1, <2>4 DEF TypeOK
    <3> QED
      BY <1>1, <1>2, <2>4, <2>6, <3>1 DEF TypeOK, request
  <2>8. (bytes = WholeSize(Len(rows)) - CutSaves)'
    BY <1>1, <2>1, <2>3, <2>4, EncodingFixed
  <2>9. TooLong'
    <3>1. WholeSize(Len(rows) + 1)' = WholeSize(Len(rows))
      BY <1>1, <2>4, EncodingFixed
    <3>2. WholeSize(Len(rows)) \in Int
      <4>1. PICK n \in Nat : n = Len(rows) - 1
        BY <1>1, <2>2
      <4>2. n < Len(stream) /\ n + 1 = Len(rows)
        BY <1>1, <4>1
      <4> QED
        BY <1>1, <4>2, Longer
    <3> QED
      BY <1>1, <2>1, <2>4, <3>1, <3>2 DEF TooLong, request
  <2>10. Len(rows') < Len(stream') /\ maximum' = maximum
    BY <1>1, <2>1, <2>4 DEF request
  <2> QED
    BY <1>2, <2>5, <2>6, <2>7, <2>8, <2>9, <2>10 DEF Inv
<1> QED
  BY <1>3, <1>4

(* The inductive invariant: what is counted is what is kept, step by step. *)
THEOREM Invariance == Spec => []Inv
<1>1. Inv /\ [Next]_vars => Inv'
  <2> SUFFICES ASSUME Inv, [Next]_vars PROVE Inv'
    OBVIOUS
  <2>1. CASE Start
    BY <2>1, StartInv
  <2>2. CASE CollectRow
    BY <2>2, CollectRowInv
  <2>3. CASE RowFails
    BY <2>3, OnlyPcInv DEF RowFails
  <2>4. CASE EndOfRows
    BY <2>4, OnlyPcInv DEF EndOfRows
  <2>5. CASE Finish
    BY <2>5, FinishInv
  <2>6. CASE UNCHANGED vars
    <3>1. UNCHANGED <<request, rows, next, bytes, truncated, provisional, previous, pc>>
      BY <2>6 DEF vars, result
    <3>2. TypeOK'
      BY <3>1 DEF Inv, TypeOK, request
    <3>3. KeepsPrefix'
      BY <3>1, SameRows
    <3>4. Accounted' = Accounted /\ TooLong' = TooLong
      BY <3>1, EncodingFixed DEF Accounted, TooLong, request
    <3> QED
      BY <3>1, <3>2, <3>3, <3>4, EncodingFixed DEF Inv, request
  <2> QED
    BY <2>1, <2>2, <2>3, <2>4, <2>5, <2>6 DEF Next
<1> QED
  BY <1>1, InitInv, PTL DEF Spec

(* The types of the variables. *)
THEOREM TypeCorrect == Spec => []TypeOK
<1>1. Inv => TypeOK
  BY DEF Inv
<1> QED
  BY <1>1, Invariance, PTL

(* result_bytes are the bytes of the response, within the budget. *)
THEOREM BytesStayExact == Spec => []BytesAreExact
<1>1. Inv => BytesAreExact
  <2> SUFFICES ASSUME Inv, pc = "done"
               PROVE  bytes = Encoding(Len(rows), truncated) /\ bytes <= maximum
    BY DEF BytesAreExact
  <2>1. /\ TypeOK /\ Len(rows) \in Nat /\ Len(rows) <= Len(stream) /\ bytes <= maximum
        /\ bytes = IF truncated THEN WholeSize(Len(rows)) - CutSaves
                                ELSE WholeSize(Len(rows))
        /\ truncated \in BOOLEAN
    BY LenProperties DEF Inv, TypeOK, KeepsPrefix
  <2>2. /\ Encoding(Len(rows), FALSE) = WholeSize(Len(rows))
        /\ Encoding(Len(rows), TRUE) = WholeSize(Len(rows)) - CutSaves
    BY <2>1, EncodingSteps, Zenon
  <2> QED
    BY <2>1, <2>2, Zenon
<1> QED
  BY <1>1, Invariance, PTL

(* The rows returned are the first ones, and truncated says whether all are. *)
THEOREM TruncationStaysTrue == Spec => []TruncationIsTrue
<1>1. Inv => TruncationIsTrue
  <2> SUFFICES ASSUME Inv, pc = "done"
               PROVE  /\ rows = SubSeq(stream, 1, Len(rows))
                      /\ truncated = (Len(rows) < Len(stream))
    BY DEF TruncationIsTrue
  <2>1. /\ TypeOK /\ rows \in Seq(Nat) /\ Len(rows) \in Nat /\ stream \in Seq(Nat)
        /\ Len(stream) \in Nat /\ Len(rows) <= Len(stream)
        /\ \A i \in 1..Len(rows) : rows[i] = stream[i]
    <3>1. stream \in Seq(Nat \ {0, 1})
      BY StreamFacts DEF Inv
    <3>2. stream \in Seq(Nat)
      BY <3>1
    <3> QED
      BY <3>2, LenProperties DEF Inv, TypeOK, KeepsPrefix
  <2>2. /\ SubSeq(stream, 1, Len(rows)) \in Seq(Nat)
        /\ Len(SubSeq(stream, 1, Len(rows))) = Len(rows)
        /\ \A i \in 1..Len(rows) : SubSeq(stream, 1, Len(rows))[i] = stream[i]
    BY <2>1, SubSeqProperties
  <2>3. rows = SubSeq(stream, 1, Len(rows))
    BY <2>1, <2>2, SeqEqual
  <2> QED
    BY <2>3 DEF Inv
<1> QED
  BY <1>1, Invariance, PTL

(* A cut response is at the limit or would not fit with one row more. *)
THEOREM PrefixStaysLargest == Spec => []PrefixIsLargest
<1>1. Inv => PrefixIsLargest
  <2> SUFFICES ASSUME Inv, pc = "done", truncated, Len(rows) # limit
               PROVE  Encoding(Len(rows) + 1, Len(rows) + 1 < Len(stream)) > maximum
    BY DEF PrefixIsLargest
  <2>1. /\ TypeOK /\ Len(rows) \in Nat /\ Len(rows) < Len(stream) /\ TooLong
        /\ Len(stream) \in Nat /\ maximum \in Nat
    BY StreamFacts, LenProperties DEF Inv, TypeOK
  <2>2. PICK n \in Nat : n = Len(rows) + 1
    BY <2>1
  <2>3. n <= Len(stream)
    BY <2>1, <2>2
  <2>4. /\ Encoding(n, FALSE) = WholeSize(n) /\ Encoding(n, TRUE) = WholeSize(n) - CutSaves
        /\ WholeSize(n) \in Int
    BY <2>1, <2>3, EncodingSteps, Zenon
  <2>5. CASE n < Len(stream)
    <3>1. maximum < WholeSize(n) - CutSaves
      BY <2>1, <2>2, <2>5 DEF TooLong
    <3>2. (n < Len(stream)) = TRUE
      BY <2>5
    <3>3. Encoding(n, n < Len(stream)) = WholeSize(n) - CutSaves
      BY <2>4, <3>2, Zenon
    <3> QED
      BY <2>1, <2>2, <2>4, <3>1, <3>3 DEF CutSaves
  <2>6. CASE ~(n < Len(stream))
    <3>1. maximum < WholeSize(n)
      BY <2>1, <2>2, <2>6 DEF TooLong
    <3>2. (n < Len(stream)) = FALSE
      BY <2>6
    <3>3. Encoding(n, n < Len(stream)) = WholeSize(n)
      BY <2>4, <3>2, Zenon
    <3> QED
      BY <2>1, <2>2, <2>4, <3>1, <3>3
  <2> QED
    BY <2>5, <2>6
<1> QED
  BY <1>1, Invariance, PTL
=============================================================================
