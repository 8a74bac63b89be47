------------------------- MODULE KeysetPagingProofs -------------------------
(***************************************************************************)
(* For every table, key, byte budget, limit, change and failure: a scan    *)
(* with select_keyset gives the rows in order and none twice, misses none  *)
(* that was there throughout, and counts the bytes of each page exactly.   *)
(***************************************************************************)
EXTENDS KeysetPaging, ResponseSizeProofs, SequenceTheorems

(* The order of keys. *)

(* Two keys differ in a first column. *)
LEMMA FirstDifference ==
  ASSUME NEW a \in Keys, NEW b \in Keys, a # b
  PROVE  \E i \in 1..Width : a[i] # b[i] /\ \A j \in 1..(i - 1) : a[j] = b[j]
<1> DEFINE Q == {i \in Nat : i \in 1..Width /\ a[i] # b[i]}
<1>1. a \in [1..Width -> Int] /\ b \in [1..Width -> Int] /\ Width \in Nat
  BY PagingAssumption DEF Width
<1>2. Q # {} /\ Q \in SUBSET Nat
  <2>1. PICK i \in 1..Width : a[i] # b[i]
    BY <1>1
  <2>2. i \in Nat
    BY <1>1
  <2>3. i \in Q
    BY <2>1, <2>2, Zenon
  <2>4. Q \in SUBSET Nat
    BY Zenon
  <2> QED
    BY <2>3, <2>4, Zenon
<1> HIDE DEF Q
<1>3. PICK i \in Q : \A m \in Q : i <= m
  BY <1>2, LeastNatural
<1>4. i \in 1..Width /\ a[i] # b[i]
  BY DEF Q
<1>5. \A j \in 1..(i - 1) : a[j] = b[j]
  BY <1>1, <1>3, <1>4 DEF Q
<1> QED
  BY <1>4, <1>5

(* ORDER BY is a strict total order of the keys. *)
LEMMA OrderIsStrict ==
  ASSUME NEW a \in Keys, NEW b \in Keys, NEW c \in Keys
  PROVE  /\ ~Precedes(a, a)
         /\ Precedes(a, b) => ~Precedes(b, a)
         /\ Precedes(a, b) /\ Precedes(b, c) => Precedes(a, c)
<1>1. /\ a \in [1..Width -> Int] /\ b \in [1..Width -> Int] /\ c \in [1..Width -> Int]
      /\ Width \in Nat
  BY PagingAssumption DEF Width
<1>2. \A i \in 1..Width : a[i] \in Int /\ b[i] \in Int /\ c[i] \in Int
  BY <1>1
<1>3. ~Precedes(a, a)
  BY DEF Precedes
<1>4. ASSUME Precedes(a, b), Precedes(b, c)
      PROVE  Precedes(a, c)
  <2>1. PICK i \in 1..Width :
          /\ a[i] # b[i] /\ \A j \in 1..(i - 1) : a[j] = b[j]
          /\ IF Directions[i] = "desc" THEN a[i] > b[i] ELSE a[i] < b[i]
    BY <1>4 DEF Precedes
  <2>2. PICK l \in 1..Width :
          /\ b[l] # c[l] /\ \A j \in 1..(l - 1) : b[j] = c[j]
          /\ IF Directions[l] = "desc" THEN b[l] > c[l] ELSE b[l] < c[l]
    BY <1>4 DEF Precedes
  <2>3. CASE i < l
    <3>1. b[i] = c[i] /\ \A j \in 1..(i - 1) : b[j] = c[j]
      BY <1>1, <2>2, <2>3
    <3> QED
      BY <2>1, <3>1 DEF Precedes
  <2>4. CASE l < i
    <3>1. a[l] = b[l] /\ \A j \in 1..(l - 1) : a[j] = b[j]
      BY <1>1, <2>1, <2>4
    <3> QED
      BY <2>2, <3>1 DEF Precedes
  <2>5. CASE i = l
    <3>1. \A j \in 1..(i - 1) : a[j] = c[j]
      BY <1>1, <2>1, <2>2, <2>5
    <3>2. a[i] # c[i] /\ IF Directions[i] = "desc" THEN a[i] > c[i] ELSE a[i] < c[i]
      BY <1>2, <2>1, <2>2, <2>5
    <3> QED
      BY <3>1, <3>2 DEF Precedes
  <2> QED
    BY <1>1, <2>3, <2>4, <2>5
<1>5. ASSUME Precedes(a, b), Precedes(b, a)
      PROVE  FALSE
  <2>1. PICK i \in 1..Width :
          /\ a[i] # b[i] /\ \A j \in 1..(i - 1) : a[j] = b[j]
          /\ IF Directions[i] = "desc" THEN a[i] > b[i] ELSE a[i] < b[i]
    BY <1>5 DEF Precedes
  <2>2. PICK l \in 1..Width :
          /\ b[l] # a[l] /\ \A j \in 1..(l - 1) : b[j] = a[j]
          /\ IF Directions[l] = "desc" THEN b[l] > a[l] ELSE b[l] < a[l]
    BY <1>5 DEF Precedes
  <2>3. i = l
    <3>1. ~(i < l) /\ ~(l < i)
      BY <1>1, <2>1, <2>2
    <3> QED
      BY <1>1, <3>1
  <2> QED
    BY <1>2, <2>1, <2>2, <2>3
<1> QED
  BY <1>3, <1>4, <1>5

LEMMA OrderIsTotal ==
  ASSUME NEW a \in Keys, NEW b \in Keys, a # b
  PROVE  Precedes(a, b) \/ Precedes(b, a)
<1>1. PICK i \in 1..Width : a[i] # b[i] /\ \A j \in 1..(i - 1) : a[j] = b[j]
  BY FirstDifference
<1>2. a[i] \in Int /\ b[i] \in Int
  BY PagingAssumption DEF Width
<1>3. IF Directions[i] = "desc" THEN a[i] > b[i] \/ b[i] > a[i] ELSE a[i] < b[i] \/ b[i] < a[i]
  BY <1>1, <1>2
<1> QED
  BY <1>1, <1>3 DEF Precedes

(* Every nonempty set of keys has a first one, and First is it. *)
LEMMA FirstIsFirst ==
  ASSUME NEW S \in SUBSET Keys, S # {}
  PROVE  First(S) \in S /\ \A m \in S \ {First(S)} : Precedes(First(S), m)
<1> DEFINE Least(T, k) == k \in T /\ \A m \in T \ {k} : Precedes(k, m)
           P == {T \in SUBSET Keys : T = {} \/ \E k \in T : Least(T, k)}
<1>1. ASSUME NEW T \in SUBSET Keys, \A U \in SUBSET T : U # T => U \in P
      PROVE  T \in P
  <2>1. CASE T = {}
    BY <2>1
  <2>2. CASE T # {}
    <3>1. PICK x \in T : TRUE
      BY <2>2
    <3>2. T \ {x} \in P
      BY <1>1, <3>1
    <3>3. CASE T \ {x} = {}
      BY <3>1, <3>3
    <3>4. CASE T \ {x} # {}
      <4>1. PICK k \in T \ {x} : \A m \in (T \ {x}) \ {k} : Precedes(k, m)
        BY <3>2, <3>4
      <4>2. CASE Precedes(k, x)
        <5>1. Least(T, k)
          BY <3>1, <4>1, <4>2
        <5> QED
          BY <4>1, <5>1
      <4>3. CASE ~Precedes(k, x)
        <5>1. Precedes(x, k)
          BY <3>1, <4>1, <4>3, OrderIsTotal
        <5>2. \A m \in T \ {x} : Precedes(x, m)
          BY <3>1, <4>1, <5>1, OrderIsStrict
        <5>3. Least(T, x)
          BY <3>1, <5>2
        <5> QED
          BY <3>1, <5>3
      <4> QED
        BY <4>2, <4>3
    <3> QED
      BY <3>3, <3>4
  <2> QED
    BY <2>1, <2>2
<1>2. IsFiniteSet(Keys)
  BY PagingAssumption
<1>3. S \in P
  <2> HIDE DEF P
  <2>1. SUBSET Keys \subseteq P
    BY <1>1, <1>2, SubsetInductionBySet
  <2> QED
    BY <2>1
<1>4. \E k \in S : \A m \in S \ {k} : Precedes(k, m)
  BY <1>3
<1> QED
  BY <1>4 DEF First

-----------------------------------------------------------------------------
(* Cursors. *)

(* What a cursor binds is the cell of the row that it was made of. *)
LEMMA CursorBindsCell ==
  ASSUME NEW c, NEW i \in 1..Width
  PROVE  /\ BindKeysetCursor(MaterializeKeysetCursor(c)[i]) = Cell(i, c[i])
         /\ KeysetCursorMatchesCell(MaterializeKeysetCursor(c)[i], Cell(i, c[i]))
<1>1. MaterializeKeysetCursor(c)[i] = MysqlKeysetCursorText(i, Cell(i, c[i]))
  BY DEF MaterializeKeysetCursor
<1> QED
  BY <1>1 DEF MysqlKeysetCursorText, Cell, BindKeysetCursor, KeysetCursorMatchesCell

(* The WHERE clause of a page selects the rows behind the cursor in the      *)
(* order of the ORDER BY clause.                                            *)
LEMMA CursorSelectsWhatFollows ==
  ASSUME NEW c \in Keys, NEW k \in Keys
  PROVE  CompileKeysetCursor(MaterializeKeysetCursor(c), k) <=> Precedes(c, k)
<1>1. \A i \in 1..Width : BindKeysetCursor(MaterializeKeysetCursor(c)[i]) = Cell(i, c[i])
  BY CursorBindsCell
<1>2. \A i \in 1..Width : Cell(i, k[i]) = Cell(i, c[i]) <=> c[i] = k[i]
  BY DEF Cell
<1>3. \A i \in 1..Width : /\ Cell(i, k[i])[1] = Cell(i, c[i])[1]
                          /\ Cell(i, k[i])[2] = k[i] /\ Cell(i, c[i])[2] = c[i]
  BY DEF Cell
<1>4. \A i \in 1..Width : c[i] \in Int /\ k[i] \in Int
  BY PagingAssumption DEF Width
<1>5. \A i \in 1..Width : \A j \in 1..(i - 1) : j \in 1..Width
  BY PagingAssumption DEF Width
<1>6. ASSUME NEW i \in 1..Width
      PROVE  /\ (\A j \in 1..(i - 1) :
                    Cell(j, k[j]) = BindKeysetCursor(MaterializeKeysetCursor(c)[j]))
                   <=> \A j \in 1..(i - 1) : c[j] = k[j]
             /\ (LET cell == Cell(i, k[i])
                     bound == BindKeysetCursor(MaterializeKeysetCursor(c)[i])
                 IN  /\ cell[1] = bound[1]
                     /\ IF Directions[i] = "desc" THEN cell[2] < bound[2]
                                                  ELSE cell[2] > bound[2])
                   <=> /\ c[i] # k[i]
                       /\ IF Directions[i] = "desc" THEN c[i] > k[i] ELSE c[i] < k[i]
  <2>1. (\A j \in 1..(i - 1) :
           Cell(j, k[j]) = BindKeysetCursor(MaterializeKeysetCursor(c)[j]))
          <=> \A j \in 1..(i - 1) : c[j] = k[j]
    BY <1>1, <1>2, <1>5, Zenon
  <2>2. BindKeysetCursor(MaterializeKeysetCursor(c)[i]) = Cell(i, c[i])
    BY <1>1
  <2> QED
    BY <1>3, <1>4, <2>1, <2>2
<1> QED
  BY <1>6 DEF CompileKeysetCursor, Precedes

-----------------------------------------------------------------------------
(* Pages. *)

(* A page without its last row, and with one row more. *)
LEMMA FrontAndLast ==
  ASSUME NEW S, NEW s \in Seq(S), s # <<>>
  PROVE  /\ Len(s) \in Nat \ {0}
         /\ Front(s) \in Seq(S) /\ Len(Front(s)) = Len(s) - 1
         /\ \A i \in 1..(Len(s) - 1) : Front(s)[i] = s[i]
         /\ Last(s) = s[Len(s)] /\ Last(s) \in S
<1>1. Len(s) \in Nat \ {0} /\ s \in [1..Len(s) -> S]
  BY EmptySeq, LenProperties
<1>2. PICK m \in Nat : m = Len(s) - 1
  <2>1. Len(s) - 1 \in Nat
    BY <1>1
  <2> QED
    BY <2>1
<1>3. \A i \in 1..m : s[i] \in S
  BY <1>1, <1>2
<1>4. /\ SubSeq(s, 1, m) \in Seq(S)
      /\ Len(SubSeq(s, 1, m)) = IF 1 <= m THEN m - 1 + 1 ELSE 0
      /\ \A i \in 1..(m - 1 + 1) : SubSeq(s, 1, m)[i] = s[1 + i - 1]
  BY <1>3, SubSeqProperties
<1>5. /\ SubSeq(s, 1, m) \in Seq(S) /\ Len(SubSeq(s, 1, m)) = m
      /\ \A i \in 1..m : SubSeq(s, 1, m)[i] = s[i]
  BY <1>4
<1> QED
  BY <1>1, <1>2, <1>5 DEF Front, Last

LEMMA AppendOne ==
  ASSUME NEW S, NEW s \in Seq(S), NEW k \in S
  PROVE  /\ Len(s) \in Nat /\ Append(s, k) \in Seq(S) /\ Append(s, k) # <<>>
         /\ Len(Append(s, k)) = Len(s) + 1
         /\ \A i \in 1..Len(s) : Append(s, k)[i] = s[i]
         /\ Append(s, k)[Len(s) + 1] = k
         /\ Front(Append(s, k)) = s /\ Last(Append(s, k)) = k
<1>1. /\ Len(s) \in Nat /\ Append(s, k) \in Seq(S) /\ Append(s, k) # <<>>
      /\ Len(Append(s, k)) = Len(s) + 1
      /\ \A i \in 1..Len(s) : Append(s, k)[i] = s[i]
      /\ Append(s, k)[Len(s) + 1] = k
  BY LenProperties, AppendProperties
<1>2. /\ Front(Append(s, k)) \in Seq(S) /\ Len(Front(Append(s, k))) = Len(s)
      /\ \A i \in 1..Len(s) : Front(Append(s, k))[i] = s[i]
      /\ Last(Append(s, k)) = k
  <2>1. /\ Front(Append(s, k)) \in Seq(S)
        /\ Len(Front(Append(s, k))) = Len(Append(s, k)) - 1
        /\ \A i \in 1..(Len(Append(s, k)) - 1) : Front(Append(s, k))[i] = Append(s, k)[i]
        /\ Last(Append(s, k)) = Append(s, k)[Len(Append(s, k))]
    BY <1>1, FrontAndLast
  <2> QED
    BY <1>1, <2>1
<1>3. Front(Append(s, k)) = s
  BY <1>2, SeqEqual
<1> QED
  BY <1>1, <1>2, <1>3

LEMMA PageAgain ==
  ASSUME NEW S, NEW s \in Seq(S), s # <<>>
  PROVE  Append(Front(s), Last(s)) = s
<1>1. /\ Len(s) \in Nat \ {0} /\ Front(s) \in Seq(S) /\ Len(Front(s)) = Len(s) - 1
      /\ \A i \in 1..(Len(s) - 1) : Front(s)[i] = s[i]
      /\ Last(s) = s[Len(s)] /\ Last(s) \in S
  BY FrontAndLast
<1> DEFINE t == Append(Front(s), Last(s))
<1>2. /\ t \in Seq(S) /\ Len(t) = Len(Front(s)) + 1
      /\ \A i \in 1..Len(Front(s)) : t[i] = Front(s)[i]
      /\ t[Len(Front(s)) + 1] = Last(s)
  BY <1>1, AppendProperties
<1> HIDE DEF t
<1>3. Len(t) = Len(s) /\ \A i \in 1..Len(t) : t[i] = s[i]
  BY <1>1, <1>2
<1>4. t = s
  BY <1>2, <1>3, SeqEqual
<1> QED
  BY <1>4 DEF t

\* s lists the first rows of S in their order.
Lists(s, S) ==
  /\ s \in Seq(Keys)
  /\ \A i \in 1..Len(s) : s[i] \in S
  /\ \A i, j \in 1..Len(s) : i < j => Precedes(s[i], s[j])
  /\ \A k \in S : k \notin ToSet(s) => \A i \in 1..Len(s) : Precedes(s[i], k)

LEMMA MembersOfPage ==
  ASSUME NEW s \in Seq(Keys)
  PROVE  Len(s) \in Nat /\ DOMAIN s = 1..Len(s) /\ ToSet(s) = {s[i] : i \in 1..Len(s)}
BY LenProperties DEF ToSet

(* A page that takes the first of the rows that are left lists one more. *)
LEMMA ListsNext ==
  ASSUME NEW S \in SUBSET Keys, NEW s, Lists(s, S), NEW k, k = First(S \ ToSet(s)),
         S \ ToSet(s) # {}
  PROVE  k \in S \ ToSet(s) /\ k \in Keys /\ Lists(Append(s, k), S)
<1>1. k \in S \ ToSet(s) /\ \A m \in (S \ ToSet(s)) \ {k} : Precedes(k, m)
  <2>1. S \ ToSet(s) \in SUBSET Keys
    OBVIOUS
  <2> QED
    BY <2>1, FirstIsFirst
<1>2. s \in Seq(Keys) /\ k \in Keys
  BY <1>1 DEF Lists
<1> DEFINE t == Append(s, k)
<1>3. /\ t \in Seq(Keys) /\ Len(s) \in Nat /\ Len(t) = Len(s) + 1
      /\ \A i \in 1..Len(s) : t[i] = s[i]
      /\ t[Len(s) + 1] = k
  BY <1>2, AppendOne
<1> HIDE DEF t
<1>4. /\ ToSet(s) = {s[i] : i \in 1..Len(s)} /\ ToSet(t) = {t[i] : i \in 1..Len(t)}
  BY <1>2, <1>3, MembersOfPage
<1>5. ToSet(t) = ToSet(s) \cup {k}
  <2>1. 1..Len(t) = (1..Len(s)) \cup {Len(s) + 1}
    BY <1>3
  <2>2. ToSet(s) = {t[i] : i \in 1..Len(s)}
    BY <1>3, <1>4, Zenon
  <2>3. ToSet(t) = {t[i] : i \in (1..Len(s)) \cup {Len(s) + 1}}
    BY <1>4, <2>1, Zenon
  <2> QED
    BY <1>3, <2>2, <2>3, Zenon
<1>6. \A i \in 1..Len(t) : t[i] \in S
  BY <1>1, <1>3 DEF Lists
<1>7. \A i \in 1..Len(s) : Precedes(s[i], k)
  BY <1>1 DEF Lists
<1>8. ASSUME NEW i \in 1..Len(t), NEW j \in 1..Len(t), i < j
      PROVE  Precedes(t[i], t[j])
  <2>1. CASE j = Len(s) + 1
    <3>1. i \in 1..Len(s)
      BY <1>3, <1>8, <2>1
    <3> QED
      BY <1>3, <1>7, <2>1, <3>1
  <2>2. CASE j # Len(s) + 1
    <3>1. i \in 1..Len(s) /\ j \in 1..Len(s)
      BY <1>3, <1>8, <2>2
    <3> QED
      BY <1>3, <1>8, <3>1 DEF Lists
  <2> QED
    BY <2>1, <2>2
<1>9. ASSUME NEW m \in S, m \notin ToSet(t), NEW i \in 1..Len(t)
      PROVE  Precedes(t[i], m)
  <2>1. m \notin ToSet(s) /\ m # k
    BY <1>5, <1>9
  <2>2. CASE i = Len(s) + 1
    BY <1>1, <1>3, <2>1, <2>2
  <2>3. CASE i # Len(s) + 1
    <3>1. i \in 1..Len(s)
      BY <1>3, <2>3
    <3> QED
      BY <1>3, <2>1, <3>1 DEF Lists
  <2> QED
    BY <2>2, <2>3
<1>10. Lists(t, S)
  BY <1>3, <1>6, <1>8, <1>9 DEF Lists
<1> QED
  BY <1>1, <1>2, <1>10 DEF t

(* So does one without its last row, which comes before all the others. *)
LEMMA ListsFront ==
  ASSUME NEW S \in SUBSET Keys, NEW s, Lists(s, S), s # <<>>
  PROVE  Lists(Front(s), S)
<1>1. s \in Seq(Keys)
  BY DEF Lists
<1> DEFINE t == Front(s)
<1>2. /\ Len(s) \in Nat \ {0} /\ t \in Seq(Keys) /\ Len(t) = Len(s) - 1
      /\ \A i \in 1..(Len(s) - 1) : t[i] = s[i]
  BY <1>1, FrontAndLast
<1> HIDE DEF t
<1>3. ToSet(s) = {s[i] : i \in 1..Len(s)} /\ ToSet(t) = {t[i] : i \in 1..Len(t)}
  BY <1>1, <1>2, MembersOfPage
<1>4. ToSet(s) \subseteq ToSet(t) \cup {s[Len(s)]}
  BY <1>2, <1>3
<1>5. \A i \in 1..Len(t) : i \in 1..Len(s) /\ t[i] = s[i] /\ i < Len(s) /\ Len(s) \in 1..Len(s)
  BY <1>2
<1>6. ASSUME NEW k \in S, k \notin ToSet(t), NEW i \in 1..Len(t)
      PROVE  Precedes(t[i], k)
  <2>1. CASE k \in ToSet(s)
    <3>1. k = s[Len(s)]
      BY <1>4, <1>6, <2>1
    <3> QED
      BY <1>5, <3>1 DEF Lists
  <2>2. CASE k \notin ToSet(s)
    BY <1>5, <2>2 DEF Lists
  <2> QED
    BY <2>1, <2>2
<1>7. \A i, j \in 1..Len(t) : i < j => Precedes(t[i], t[j])
  BY <1>5 DEF Lists
<1>8. \A i \in 1..Len(t) : t[i] \in S
  BY <1>5 DEF Lists
<1>9. Lists(t, S)
  BY <1>2, <1>6, <1>7, <1>8 DEF Lists
<1> QED
  BY <1>9 DEF t

\* The rows of S before k.
Before(S, k) == {m \in S : Precedes(m, k)}

(* A page has as many rows as it lists. *)
LEMMA PageCardinality ==
  ASSUME NEW S \in SUBSET Keys, NEW s, Lists(s, S), NEW n \in Nat, n <= Len(s)
  PROVE  Cardinality({s[j] : j \in 1..n}) = n
<1> DEFINE T == {s[j] : j \in 1..n}
           f == [j \in 1..n |-> s[j]]
<1>1. s \in Seq(Keys) /\ Len(s) \in Nat
  BY LenProperties DEF Lists
<1>2. \A j \in 1..n : j \in 1..Len(s) /\ s[j] \in Keys
  BY <1>1, LenProperties
<1>3. ASSUME NEW i \in 1..n, NEW j \in 1..n, s[i] = s[j]
      PROVE  i = j
  <2>1. ~(i < j) /\ ~(j < i)
    BY <1>2, <1>3, OrderIsStrict DEF Lists
  <2> QED
    BY <2>1
<1>4. f \in Bijection(1..n, T)
  <2>1. f \in [1..n -> T] /\ \A j \in 1..n : f[j] = s[j]
    OBVIOUS
  <2>2. \A a, b \in 1..n : f[a] = f[b] => a = b
    BY <1>3, <2>1
  <2>3. \A t \in T : \E a \in 1..n : f[a] = t
    BY <2>1
  <2> QED
    BY <2>1, <2>2, <2>3 DEF Bijection, Injection, Surjection, IsInjective
<1>5. ExistsBijection(1..n, T)
  BY <1>4 DEF ExistsBijection
<1>6. IsFiniteSet(1..n) /\ Cardinality(1..n) = n
  BY FS_Interval
<1> HIDE DEF T
<1>7. Cardinality(T) = n
  BY <1>5, <1>6, FS_Bijection
<1> QED
  BY <1>7 DEF T

(* The i-th row of a page has i - 1 rows before it ... *)
LEMMA Rank ==
  ASSUME NEW S \in SUBSET Keys, NEW s, Lists(s, S), NEW i \in 1..Len(s)
  PROVE  Cardinality(Before(S, s[i])) = i - 1
<1>1. s \in Seq(Keys) /\ Len(s) \in Nat /\ s[i] \in Keys
      /\ ToSet(s) = {s[j] : j \in 1..Len(s)}
  BY LenProperties, MembersOfPage DEF Lists
<1>2. Before(S, s[i]) = {s[j] : j \in 1..(i - 1)}
  <2>1. ASSUME NEW j \in 1..(i - 1)
        PROVE  s[j] \in Before(S, s[i])
    BY <1>1 DEF Lists, Before
  <2>2. ASSUME NEW m \in Before(S, s[i])
        PROVE  m \in {s[j] : j \in 1..(i - 1)}
    <3>1. m \in S /\ Precedes(m, s[i]) /\ m \in Keys
      BY DEF Before
    <3>2. ~Precedes(s[i], m)
      BY <1>1, <3>1, OrderIsStrict
    <3>3. m \in ToSet(s)
      BY <3>1, <3>2 DEF Lists
    <3>4. PICK j \in 1..Len(s) : m = s[j]
      BY <1>1, <3>3
    <3>5. j # i
      BY <3>1, <3>4, OrderIsStrict
    <3>6. ~(i < j)
      BY <3>2, <3>4 DEF Lists
    <3>7. j \in 1..(i - 1)
      BY <1>1, <3>5, <3>6
    <3> QED
      BY <3>4, <3>7
  <2> QED
    BY <2>1, <2>2
<1>3. PICK n \in Nat : n = i - 1 /\ n <= Len(s)
  BY <1>1
<1>4. Cardinality({s[j] : j \in 1..n}) = n
  BY <1>3, PageCardinality
<1> QED
  BY <1>2, <1>3, <1>4

(* ... and is the only one. *)
LEMMA RankIsUnique ==
  ASSUME NEW S \in SUBSET Keys, NEW a \in S, NEW b \in S,
         Cardinality(Before(S, a)) = Cardinality(Before(S, b))
  PROVE  a = b
<1>1. ASSUME NEW x \in S, NEW y \in S, Precedes(x, y),
             Cardinality(Before(S, x)) = Cardinality(Before(S, y))
      PROVE  FALSE
  <2>1. Before(S, x) \in SUBSET Before(S, y)
    BY <1>1, OrderIsStrict DEF Before
  <2>2. x \in Before(S, y) /\ x \notin Before(S, x)
    BY <1>1, OrderIsStrict DEF Before
  <2>3. IsFiniteSet(Before(S, y))
    <3>1. Before(S, y) \in SUBSET Keys
      BY DEF Before
    <3> QED
      BY <3>1, PagingAssumption, FS_Subset
  <2>4. Before(S, x) = Before(S, y)
    BY <1>1, <2>1, <2>3, FS_Subset
  <2> QED
    BY <2>2, <2>4
<1>2. ~Precedes(a, b) /\ ~Precedes(b, a)
  BY <1>1
<1> QED
  BY <1>2, OrderIsTotal

(* The first n + 1 rows of the snapshot are the page that lists them. *)
LEMMA NextPageIs ==
  ASSUME snapshot \in SUBSET Keys, NEW s, Lists(s, snapshot), NEW n \in Nat, Len(s) = n + 1
  PROVE  NextPage(n) = s
<1>1. s \in Seq(Keys) /\ DOMAIN s = 1..(n + 1) /\ s \in [1..(n + 1) -> Keys]
  BY LenProperties DEF Lists
<1>2. ASSUME NEW i \in 1..(n + 1)
      PROVE  (CHOOSE k \in snapshot : Cardinality(Before(snapshot, k)) = i - 1) = s[i]
  <2>1. s[i] \in snapshot /\ Cardinality(Before(snapshot, s[i])) = i - 1
    BY Rank DEF Lists
  <2>2. \A k \in snapshot : Cardinality(Before(snapshot, k)) = i - 1 => k = s[i]
    BY <2>1, RankIsUnique
  <2> QED
    BY <2>1, <2>2
<1>3. NextPage(n) = [i \in 1..(n + 1) |-> s[i]]
  BY <1>2, Zenon DEF NextPage, Before
<1> QED
  BY <1>1, <1>3

-----------------------------------------------------------------------------
(* Sizes. *)

(* An empty page. *)
LEMMA EmptyEncoding == FinalEncoding(<<>>) = FinalBase
<1> DEFINE size(t) == [i \in DOMAIN t |-> RowSize[t[i]]]
<1>1. SumFunction(size(<<>>)) = 0
  <2>1. DOMAIN size(<<>>) = {}
    OBVIOUS
  <2> HIDE DEF size
  <2> QED
    BY <2>1, SumEmpty DEF SumFunction
<1>2. FinalBase \in Int /\ decimalDigits[0] \in Int
  BY PagingAssumption, DigitsGrow
<1>3. FinalEncoding(<<>>) = FinalBase + Overhead(Len(<<>>)) + SumFunction(size(<<>>))
  BY DEF FinalEncoding
<1> HIDE DEF size
<1> QED
  BY <1>1, <1>2, <1>3 DEF Overhead

(* A page, with one row more and with a cursor. *)
LEMMA FinalEncodingSteps ==
  ASSUME NEW s \in Seq(Keys), NEW k \in Keys
  PROVE  /\ FinalEncoding(s) \in Int
         /\ FinalEncoding(Append(s, k)) =
              FinalEncoding(s) + (IF s = <<>> THEN 0 ELSE 1)
                + (decimalDigits[Len(s) + 1] - decimalDigits[Len(s)]) + RowSize[k]
         /\ MoreEncoding(s, k) \in Int /\ MoreEncoding(s, k) > FinalEncoding(s)
<1> DEFINE size(t) == [i \in DOMAIN t |-> RowSize[t[i]]]
           sum(t) == SumFunction(size(t))
           u == Append(s, k)
<1>1. /\ \A m \in Keys : RowSize[m] \in Int
      /\ FinalBase \in Int /\ MoreBase \in Int /\ FinalBase < MoreBase
      /\ CursorSize[k] \in Int /\ CursorSize[k] > 0
  BY PagingAssumption
<1>2. /\ Len(s) \in Nat /\ DOMAIN s = 1..Len(s) /\ \A i \in 1..Len(s) : s[i] \in Keys
      /\ s = <<>> <=> Len(s) = 0
  BY LenProperties, EmptySeq
<1>3. /\ u \in Seq(Keys) /\ Len(u) = Len(s) + 1 /\ DOMAIN u = 1..(Len(s) + 1)
      /\ \A i \in 1..Len(s) : u[i] = s[i]
      /\ u[Len(s) + 1] = k
  <2>1. u \in Seq(Keys)
    BY AppendOne
  <2> QED
    BY <2>1, AppendOne, LenProperties
<1> HIDE DEF u
<1>4. sum(s) = SumFunctionOnSet(size(s), 1..Len(s)) /\ DOMAIN size(s) = 1..Len(s)
  BY <1>2 DEF SumFunction
<1>5. sum(u) = SumFunctionOnSet(size(u), 1..(Len(s) + 1))
  BY <1>3 DEF SumFunction
<1>6. IsFiniteSet(1..Len(s))
  BY <1>2, FS_Interval
<1>7. \A i \in 1..Len(s) : size(s)[i] \in Int /\ size(u)[i] = size(s)[i]
  BY <1>1, <1>2, <1>3
<1>8. size(u)[Len(s) + 1] = RowSize[k]
  BY <1>2, <1>3
<1>9. sum(s) \in Int
  <2>1. \A i \in 1..Len(s) : size(s)[i] \in Int
    BY <1>7
  <2> HIDE DEF size
  <2>2. SumFunctionOnSet(size(s), 1..Len(s)) \in Int
    BY <1>6, <2>1, SumInt
  <2> QED
    BY <1>4, <2>2
<1>10. sum(u) = RowSize[k] + sum(s)
  <2> HIDE DEF size
  <2>1. 1..(Len(s) + 1) = (1..Len(s)) \cup {Len(s) + 1} /\ Len(s) + 1 \notin 1..Len(s)
    BY <1>2
  <2>2. \A y \in (1..Len(s)) \cup {Len(s) + 1} : size(u)[y] \in Int
    BY <1>1, <1>7, <1>8
  <2>3. SumFunctionOnSet(size(u), (1..Len(s)) \cup {Len(s) + 1})
          = size(u)[Len(s) + 1] + SumFunctionOnSet(size(u), 1..Len(s))
    BY <1>6, <2>1, <2>2, SumAdd
  <2>4. SumFunctionOnSet(size(u), 1..Len(s)) = SumFunctionOnSet(size(s), 1..Len(s))
    BY <1>6, <1>7, SumCongruent
  <2> QED
    BY <1>4, <1>5, <1>8, <2>1, <2>3, <2>4
<1>11. /\ decimalDigits[0] \in Int /\ decimalDigits[Len(s)] \in Int
       /\ decimalDigits[Len(s) + 1] \in Int
  BY <1>2, DigitsGrow
<1>12. /\ FinalEncoding(s) = FinalBase + Overhead(Len(s)) + sum(s)
       /\ FinalEncoding(u) = FinalBase + Overhead(Len(u)) + sum(u)
  BY DEF FinalEncoding
<1> HIDE DEF sum
<1>13. Overhead(Len(s)) \in Int
  BY <1>2, <1>11 DEF Overhead
<1>14. Overhead(Len(u)) = Overhead(Len(s)) + (IF s = <<>> THEN 0 ELSE 1)
                           + (decimalDigits[Len(s) + 1] - decimalDigits[Len(s)])
  <2>1. CASE Len(s) = 0
    BY <1>2, <1>3, <1>11, <2>1 DEF Overhead
  <2>2. CASE Len(s) # 0
    BY <1>2, <1>3, <1>11, <2>2 DEF Overhead
  <2> QED
    BY <2>1, <2>2
<1>15. FinalEncoding(s) \in Int
  BY <1>1, <1>9, <1>12, <1>13
<1>16. FinalEncoding(u) =
         FinalEncoding(s) + (IF s = <<>> THEN 0 ELSE 1)
           + (decimalDigits[Len(s) + 1] - decimalDigits[Len(s)]) + RowSize[k]
  <2>1. RowSize[k] \in Int
    BY <1>1
  <2>2. PICK growth \in Int : growth = decimalDigits[Len(s) + 1] - decimalDigits[Len(s)]
    BY <1>11
  <2>3. PICK separator \in {0, 1} : separator = IF s = <<>> THEN 0 ELSE 1
    OBVIOUS
  <2>4. FinalEncoding(u) = FinalBase + (Overhead(Len(s)) + separator + growth) + (RowSize[k] + sum(s))
    BY <1>10, <1>12, <1>14, <2>2, <2>3
  <2>5. FinalEncoding(u) = FinalEncoding(s) + separator + growth + RowSize[k]
    BY <1>1, <1>9, <1>12, <1>13, <2>1, <2>4
  <2> QED
    BY <2>2, <2>3, <2>5
<1>17. MoreEncoding(s, k) \in Int /\ MoreEncoding(s, k) > FinalEncoding(s)
  BY <1>1, <1>15 DEF MoreEncoding
<1> QED
  BY <1>15, <1>16, <1>17 DEF u

-----------------------------------------------------------------------------
(* The inductive invariant. *)

\* The WHERE clause of the page that the client asks for.
After(k) == cursor = None \/ CompileKeysetCursor(cursor, k)

\* The scan so far: what the client has comes before what it asks for, and
\* together they hold every row that stayed in the table.
ScanOK ==
  /\ stable \subseteq table
  /\ pc # "idle" => client = "scanning"
  /\ client = "scanning" =>
       /\ \A d \in delivered, k \in Keys : After(k) => Precedes(d, k)
       /\ \A k \in stable : k \in delivered \/ After(k)
  /\ client = "finished" => stable \subseteq delivered

\* The query of a page sees what it asks for, of the rows that stay all.
SnapshotOK ==
  /\ \A k \in snapshot : After(k)
  /\ \A k \in stable : After(k) => k \in snapshot

\* The rows that may stay if another one follows.
Confirmed == IF provisional THEN Front(rows) ELSE rows

SafeCursor(s) ==
  IF s = <<>> THEN NoCursor ELSE [size |-> MoreEncoding(s, Last(s)), key |-> Last(s)]

\* The accounting of collectKeysetRows.
CollectionOK ==
  /\ Lists(rows, snapshot)
  /\ finalSize = FinalEncoding(rows) /\ finalSize <= maximum
  /\ provisional => rows # <<>> /\ MoreEncoding(rows, Last(rows)) > maximum
  /\ safe = SafeCursor(Confirmed) /\ safe.size <= maximum

\* Why a page of the rows s may be cut here.
CutLate(s) == Len(s) = limit \/ ~NextPageFits(Len(s))

\* What a page says of itself is so.
PageOK ==
  /\ Lists(result.rows, snapshot) /\ Len(result.rows) <= limit
  /\ IF result.hasMore
     THEN /\ result.rows # <<>> /\ result.key = Last(result.rows)
          /\ result.bytes = MoreEncoding(result.rows, result.key)
     ELSE /\ snapshot \subseteq ToSet(result.rows)
          /\ result.bytes = FinalEncoding(result.rows)
  /\ result.bytes <= maximum

Inv ==
  /\ TypeOK /\ ScanOK
  /\ pc \in {"collect", "finish"} \/ result.kind = "page" => SnapshotOK
  /\ pc \in {"collect", "finish"} => CollectionOK
  /\ pc = "collect" => ~moreObserved
  /\ pc = "finish" => IF moreObserved THEN CutLate(Confirmed) ELSE Unread = {}
  /\ pc \in {"idle", "collect", "finish"} => result = NoResult
  /\ pc = "respond" => result.kind = "page"
  /\ result.kind = "page" => PageOK
  /\ result.kind # "page" => result.rows = <<>> /\ ~result.hasMore
  /\ result.kind # "internal"
  /\ pc \in {"respond", "answered"} /\ (result.hasMore \/ result.kind = "too_large") =>
       CutLate(result.rows)

-----------------------------------------------------------------------------
(* What the steps share. *)

LEMMA SameCursor == UNCHANGED cursor => \A k : After(k)' = After(k)
BY DEF After

LEMMA SameLimits ==
  UNCHANGED <<request, snapshot>> => \A s : CutLate(s)' = CutLate(s)
BY DEF CutLate, NextPageFits, NextPage, request

LEMMA SameCollection ==
  UNCHANGED <<request, collection>> => (CollectionOK' = CollectionOK /\ Confirmed' = Confirmed)
BY DEF CollectionOK, Confirmed, request, collection

LEMMA SamePage == UNCHANGED <<request, snapshot, result>> => PageOK' = PageOK
BY DEF PageOK, request

LEMMA ScanStays ==
  ASSUME ScanOK, UNCHANGED <<environment, cursor, client, delivered>>, client = "scanning"
  PROVE  ScanOK'
BY SameCursor DEF ScanOK, environment

LEMMA SnapshotStays ==
  ASSUME SnapshotOK, UNCHANGED <<environment, cursor, snapshot>>
  PROVE  SnapshotOK'
BY SameCursor DEF SnapshotOK, environment

\* The values of result.
ResultType ==
  [kind : {"none", "page", "too_large", "envelope", "error", "internal"},
   rows : Seq(Keys), hasMore : BOOLEAN, key : Keys \cup {None}, bytes : Nat]

(* A failure carries no rows. *)
LEMMA FailedIs ==
  ASSUME NEW kind \in {"none", "too_large", "envelope", "error", "internal"}
  PROVE  /\ Failed(kind) \in ResultType /\ NoResult \in ResultType
         /\ Failed(kind).kind = kind /\ Failed(kind).rows = <<>> /\ ~Failed(kind).hasMore
         /\ NoResult.kind = "none" /\ NoResult.rows = <<>> /\ ~NoResult.hasMore
<1>1. <<>> \in Seq(Keys)
  BY EmptySeq
<1>2. NoResult \in ResultType
  BY <1>1 DEF NoResult, ResultType
<1>3. NoResult.kind = "none" /\ NoResult.rows = <<>> /\ ~NoResult.hasMore
  BY DEF NoResult
<1>4. Failed(kind) \in ResultType
  BY <1>2 DEF Failed, ResultType
<1>5. Failed(kind).kind = kind /\ Failed(kind).rows = <<>> /\ ~Failed(kind).hasMore
  BY <1>2, <1>3 DEF Failed, ResultType
<1> QED
  BY <1>2, <1>3, <1>4, <1>5

(* The page in hand with one row more, which does not fit. *)
LEMMA PageDoesNotFit ==
  ASSUME snapshot \in SUBSET Keys, maximum \in Nat,
         NEW s, Lists(s, snapshot), NEW n \in Nat, Len(s) = n + 1,
         \/ FinalEncoding(s) > maximum
         \/ MoreEncoding(s, Last(s)) > maximum /\ snapshot \ ToSet(s) # {}
  PROVE  ~NextPageFits(n)
<1>1. NextPage(n) = s
  BY NextPageIs
<1>2. s \in Seq(Keys) /\ s # <<>> /\ Last(s) \in Keys
  <2>1. s \in Seq(Keys) /\ s # <<>>
    BY EmptySeq DEF Lists
  <2> QED
    BY <2>1, FrontAndLast
<1>3. /\ FinalEncoding(s) \in Int /\ MoreEncoding(s, Last(s)) \in Int
      /\ MoreEncoding(s, Last(s)) > FinalEncoding(s)
  BY <1>2, FinalEncodingSteps
<1>4. CASE FinalEncoding(s) > maximum
  BY <1>1, <1>3, <1>4 DEF NextPageFits
<1>5. CASE MoreEncoding(s, Last(s)) > maximum /\ snapshot \ ToSet(s) # {}
  <2>1. Cardinality(ToSet(s)) = Len(s) /\ ToSet(s) \in SUBSET snapshot
    <3>1. ToSet(s) = {s[j] : j \in 1..Len(s)} /\ Len(s) \in Nat
      BY <1>2, MembersOfPage
    <3>2. Cardinality({s[j] : j \in 1..Len(s)}) = Len(s)
      <4>1. Len(s) <= Len(s)
        BY <3>1
      <4> QED
        BY <3>1, <4>1, PageCardinality, Zenon
    <3> QED
      BY <3>1, <3>2 DEF Lists
  <2>2. IsFiniteSet(snapshot)
    BY PagingAssumption, FS_Subset
  <2>3. Cardinality(snapshot) # Len(s)
    BY <1>5, <2>1, <2>2, FS_Subset
  <2> QED
    BY <1>1, <1>3, <1>5, <2>3 DEF NextPageFits
<1> QED
  BY <1>4, <1>5

-----------------------------------------------------------------------------
(* The steps. *)

LEMMA InitInv == Init => Inv
<1> SUFFICES ASSUME Init PROVE Inv
  OBVIOUS
<1>1. PICK st \in Starts : /\ maximum = st.maximum /\ limit = st.limit /\ table = st.table
                           /\ changes = st.changes /\ failures = st.failures
  BY DEF Init
<1>2. /\ st.table \subseteq Keys /\ st.limit \in Nat \ {0} /\ st.maximum \in Nat
      /\ st.changes \in Nat /\ st.failures \in Nat
  BY PagingAssumption
<1>3. rows \in Seq(Keys) /\ Len(rows) = 0
  BY EmptySeq DEF Init
<1>4. /\ result \in ResultType
      /\ result.kind = "none" /\ result.rows = <<>> /\ ~result.hasMore
  BY FailedIs DEF Init
<1>5. TypeOK
  <2>1. Len(rows) <= limit
    BY <1>1, <1>2, <1>3
  <2> QED
    BY <1>1, <1>2, <1>3, <1>4, <2>1 DEF Init, TypeOK, NoCursor, ResultType
<1>6. ScanOK
  BY DEF Init, ScanOK, After
<1> QED
  BY <1>4, <1>5, <1>6 DEF Init, Inv

LEMMA QueryInv == Inv /\ Query => Inv'
<1> SUFFICES ASSUME Inv, Query PROVE Inv'
  OBVIOUS
<1>1. /\ pc = "idle" /\ client = "scanning" /\ UNCHANGED <<request, environment, scan>>
      /\ TypeOK /\ ScanOK /\ result = NoResult
  BY DEF Query, Inv
<1>2. ScanOK'
  BY <1>1, ScanStays DEF scan
<1>3. CASE Answer(Failed("envelope")) /\ UNCHANGED collection
  <2>1. /\ result' \in ResultType
        /\ result'.kind = "envelope" /\ result'.rows = <<>> /\ ~result'.hasMore
        /\ pc' = "answered"
    BY <1>3, FailedIs DEF Answer
  <2>2. TypeOK'
    BY <1>1, <1>3, <2>1 DEF TypeOK, ResultType, request, environment, scan, collection
  <2> QED
    BY <1>2, <2>1, <2>2 DEF Inv
<1>4. CASE /\ FinalBase <= maximum /\ MoreBase <= maximum
           /\ pc' = "collect"
           /\ snapshot' = {k \in table : cursor = None \/ CompileKeysetCursor(cursor, k)}
           /\ rows' = <<>> /\ finalSize' = FinalBase /\ safe' = NoCursor
           /\ provisional' = FALSE /\ provisionalPreviousSize' = 0 /\ moreObserved' = FALSE
           /\ UNCHANGED result
  <2>1. /\ rows' \in Seq(Keys) /\ Len(rows') = 0 /\ limit \in Nat /\ maximum \in Nat
        /\ FinalBase \in Nat
    BY <1>1, <1>4, EmptySeq, PagingAssumption DEF TypeOK
  <2>2. TypeOK'
    <3>1. Len(rows') <= limit
      BY <2>1
    <3> QED
      BY <1>1, <1>4, <2>1, <3>1 DEF TypeOK, NoCursor, request, environment, scan
  <2>3. SnapshotOK'
    <3>1. snapshot' = {k \in table : After(k)} /\ stable \subseteq table
      BY <1>1, <1>4 DEF After, ScanOK
    <3> QED
      BY <1>1, <3>1, SameCursor DEF SnapshotOK, environment, scan
  <2>4. CollectionOK'
    <3>1. Lists(rows, snapshot)'
      BY <2>1 DEF Lists
    <3>2. FinalEncoding(rows)' = FinalBase
      BY <1>4, EmptyEncoding
    <3>3. (SafeCursor(Confirmed))' = NoCursor
      BY <1>4 DEF SafeCursor, Confirmed
    <3>4. safe'.size <= maximum'
      BY <1>1, <1>4, <2>1 DEF NoCursor, request
    <3> QED
      BY <1>1, <1>4, <3>1, <3>2, <3>3, <3>4 DEF CollectionOK, request
  <2> QED
    BY <1>1, <1>2, <1>4, <2>2, <2>3, <2>4, FailedIs DEF Inv
<1> QED
  BY <1>3, <1>4 DEF Query

(* A page that another row follows is cut here for a reason. *)
LEMMA SeeMoreInv == Inv /\ SeeMore => Inv'
<1> SUFFICES ASSUME Inv, SeeMore PROVE Inv'
  OBVIOUS
<1>1. /\ pc = "collect" /\ pc' = "finish" /\ Unread # {} /\ PageIsFull
      /\ UNCHANGED <<request, environment, scan, snapshot, result>>
      /\ UNCHANGED <<rows, finalSize, safe, provisional, provisionalPreviousSize>>
      /\ moreObserved' = TRUE
      /\ TypeOK /\ ScanOK /\ SnapshotOK /\ CollectionOK /\ result = NoResult
      /\ client = "scanning"
  BY DEF SeeMore, HasNext, Inv, ScanOK
<1>2. ScanOK' /\ SnapshotOK' /\ TypeOK'
  BY <1>1, ScanStays, SnapshotStays DEF TypeOK, request, environment, scan
<1>3. CollectionOK' /\ Confirmed' = Confirmed
  BY <1>1 DEF CollectionOK, Confirmed, request
<1>4. CutLate(Confirmed)
  <2>1. CASE provisional
    <3>1. /\ Lists(rows, snapshot) /\ rows # <<>> /\ MoreEncoding(rows, Last(rows)) > maximum
          /\ Confirmed = Front(rows) /\ snapshot \ ToSet(rows) # {}
      BY <1>1, <2>1 DEF CollectionOK, Confirmed, Unread
    <3>2. rows \in Seq(Keys) /\ snapshot \in SUBSET Keys /\ maximum \in Nat
      BY <1>1 DEF TypeOK
    <3>3. PICK n \in Nat : Len(Front(rows)) = n /\ Len(rows) = n + 1
      BY <3>1, <3>2, FrontAndLast
    <3>4. ~NextPageFits(n)
      BY <3>1, <3>2, <3>3, PageDoesNotFit
    <3> QED
      BY <3>1, <3>3, <3>4 DEF CutLate
  <2>2. CASE ~provisional
    BY <1>1, <2>2 DEF PageIsFull, CutLate, Confirmed
  <2> QED
    BY <2>1, <2>2
<1>5. CutLate(Confirmed)'
  BY <1>1, <1>3, <1>4, SameLimits
<1> QED
  BY <1>1, <1>2, <1>3, <1>5, FailedIs DEF Inv

(* The size with the next row. *)
LEMMA NextFinalSize ==
  ASSUME Inv, pc = "collect", NEW k \in Keys
  PROVE  /\ FinalEncoding(Append(rows, k)) = finalSize + Separator + RowCountGrowth + RowSize[k]
         /\ Separator \in Nat /\ RowCountGrowth \in Nat /\ RowSize[k] \in Nat
         /\ finalSize \in Nat /\ maximum \in Nat
<1>1. rows \in Seq(Keys) /\ finalSize = FinalEncoding(rows) /\ finalSize \in Nat /\ maximum \in Nat
  BY DEF Inv, TypeOK, CollectionOK
<1>2. Separator \in Nat /\ RowSize[k] \in Nat
  BY PagingAssumption DEF Separator
<1>3. RowCountGrowth \in Nat
  <2>1. Len(rows) \in Nat
    BY <1>1, LenProperties
  <2> QED
    BY <2>1, DigitsGrow DEF RowCountGrowth
<1>4. FinalEncoding(Append(rows, k)) =
        FinalEncoding(rows) + (IF rows = <<>> THEN 0 ELSE 1)
          + (decimalDigits[Len(rows) + 1] - decimalDigits[Len(rows)]) + RowSize[k]
  BY <1>1, FinalEncodingSteps, Zenon
<1> QED
  BY <1>1, <1>2, <1>3, <1>4 DEF Separator, RowCountGrowth

LEMMA TakeRowInv == Inv /\ TakeRow => Inv'
<1> SUFFICES ASSUME Inv, TakeRow PROVE Inv'
  OBVIOUS
<1> DEFINE k == First(Unread)
           nextFinalSize == finalSize + Separator + RowCountGrowth + RowSize[k]
           rowsSize == nextFinalSize - FinalBase
           page == Append(rows, k)
<1>1. /\ pc = "collect" /\ Unread # {} /\ ~provisional /\ Len(rows) # limit
      /\ UNCHANGED <<request, environment, scan, snapshot, result>>
      /\ TypeOK /\ ScanOK /\ SnapshotOK /\ CollectionOK /\ ~moreObserved
      /\ result = NoResult /\ client = "scanning"
  BY DEF TakeRow, HasNext, PageIsFull, Inv, ScanOK
<1>2. k \in snapshot \ ToSet(rows) /\ k \in Keys /\ Lists(page, snapshot)
  <2>1. Lists(rows, snapshot) /\ snapshot \in SUBSET Keys
    BY <1>1 DEF TypeOK, CollectionOK
  <2>2. k = First(snapshot \ ToSet(rows)) /\ snapshot \ ToSet(rows) # {}
    BY <1>1 DEF Unread
  <2> HIDE DEF k
  <2> QED
    BY <2>1, <2>2, ListsNext
<1>3. IF RowSize[k] > maximum - finalSize - Separator - RowCountGrowth
      THEN /\ moreObserved' = TRUE
           /\ pc' = "finish"
           /\ UNCHANGED <<rows, finalSize, safe, provisional, provisionalPreviousSize>>
      ELSE /\ rows' = page
           /\ provisionalPreviousSize' = finalSize
           /\ finalSize' = nextFinalSize
           /\ provisional' = ~CursorFits(k, rowsSize)
           /\ safe' = IF CursorFits(k, rowsSize)
                      THEN [size |-> MoreBase + rowsSize + CursorSize[k], key |-> k]
                      ELSE safe
           /\ UNCHANGED <<pc, moreObserved>>
  BY DEF TakeRow
<1> HIDE DEF k
<1>4. /\ FinalEncoding(page) = nextFinalSize /\ nextFinalSize \in Nat
      /\ Separator \in Nat /\ RowCountGrowth \in Nat /\ RowSize[k] \in Nat
      /\ finalSize \in Nat /\ maximum \in Nat
  BY <1>1, <1>2, NextFinalSize
<1>5. /\ rows \in Seq(Keys) /\ Len(rows) \in Nat /\ page \in Seq(Keys) /\ page # <<>>
      /\ Len(page) = Len(rows) + 1 /\ Front(page) = rows /\ Last(page) = k
      /\ snapshot \in SUBSET Keys /\ limit \in Nat
  <2>1. rows \in Seq(Keys) /\ snapshot \in SUBSET Keys /\ limit \in Nat
    BY <1>1 DEF TypeOK
  <2> QED
    BY <1>2, <2>1, AppendOne
<1>6. ScanOK'
  BY <1>1, ScanStays DEF scan
<1>7. SnapshotOK'
  BY <1>1, SnapshotStays DEF scan
<1> HIDE DEF page
<1>8. CASE RowSize[k] > maximum - finalSize - Separator - RowCountGrowth
  <2>1. /\ moreObserved' = TRUE /\ pc' = "finish"
        /\ UNCHANGED <<rows, finalSize, safe, provisional, provisionalPreviousSize>>
    BY <1>3, <1>8
  <2>2. TypeOK'
    BY <1>1, <2>1 DEF TypeOK, request, environment, scan
  <2>3. CollectionOK' /\ Confirmed' = rows
    BY <1>1, <2>1 DEF CollectionOK, Confirmed, request
  <2>4. FinalEncoding(page) > maximum
    BY <1>4, <1>8
  <2>5. ~NextPageFits(Len(rows))
    BY <1>2, <1>4, <1>5, <2>4, PageDoesNotFit
  <2>6. CutLate(rows)
    BY <2>5 DEF CutLate
  <2>7. CutLate(Confirmed)'
    BY <1>1, <2>3, <2>6, SameLimits
  <2> QED
    BY <1>1, <1>6, <1>7, <2>1, <2>2, <2>3, <2>7, FailedIs DEF Inv
<1>9. CASE ~(RowSize[k] > maximum - finalSize - Separator - RowCountGrowth)
  <2>1. /\ rows' = page
        /\ provisionalPreviousSize' = finalSize
        /\ finalSize' = nextFinalSize
        /\ provisional' = ~CursorFits(k, rowsSize)
        /\ safe' = IF CursorFits(k, rowsSize)
                   THEN [size |-> MoreBase + rowsSize + CursorSize[k], key |-> k]
                   ELSE safe
        /\ UNCHANGED <<pc, moreObserved>>
    BY <1>3, <1>9
  <2>2. nextFinalSize <= maximum
    BY <1>4, <1>9
  <2>3. MoreEncoding(page, k) = MoreBase + rowsSize + CursorSize[k]
        /\ MoreEncoding(page, k) \in Nat
    <3>1. /\ FinalBase \in Nat /\ MoreBase \in Nat /\ CursorSize[k] \in Nat
          /\ FinalBase < MoreBase
      BY <1>2, PagingAssumption
    <3> QED
      BY <1>4, <3>1 DEF MoreEncoding
  <2>4. CursorFits(k, rowsSize) <=> MoreEncoding(page, k) <= maximum
    <3>1. MoreBase \in Nat /\ CursorSize[k] \in Nat /\ FinalBase \in Nat
      BY <1>2, PagingAssumption
    <3> QED
      BY <1>4, <2>3, <3>1 DEF CursorFits
  <2> HIDE DEF nextFinalSize, rowsSize
  <2>5. Len(page) <= limit
    BY <1>1, <1>5 DEF TypeOK
  <2>6. safe' \in [size : Nat, key : Keys \cup {None}]
    BY <1>1, <1>2, <2>1, <2>3 DEF TypeOK
  <2>7. TypeOK'
    BY <1>1, <1>4, <1>5, <2>1, <2>5, <2>6 DEF TypeOK, request, environment, scan
  <2>8. CollectionOK'
    <3>1. maximum' = maximum /\ snapshot' = snapshot
      BY <1>1 DEF request
    <3>2. CASE CursorFits(k, rowsSize)
      <4>1. Confirmed' = page /\ provisional' = FALSE
        BY <2>1, <3>2 DEF Confirmed
      <4>2. safe' = SafeCursor(page) /\ safe'.size <= maximum
        BY <1>5, <2>1, <2>3, <2>4, <3>2 DEF SafeCursor
      <4> QED
        BY <1>2, <1>4, <2>1, <2>2, <3>1, <4>1, <4>2 DEF CollectionOK
    <3>3. CASE ~CursorFits(k, rowsSize)
      <4>1. Confirmed' = rows /\ provisional' = TRUE
        BY <1>5, <2>1, <3>3 DEF Confirmed
      <4>2. safe' = SafeCursor(rows) /\ safe'.size <= maximum
        BY <1>1, <2>1, <3>3 DEF CollectionOK, Confirmed
      <4>3. MoreEncoding(page, Last(page)) > maximum
        BY <1>4, <1>5, <2>3, <2>4, <3>3
      <4> QED
        BY <1>2, <1>4, <1>5, <2>1, <2>2, <3>1, <4>1, <4>2, <4>3 DEF CollectionOK
    <3> QED
      BY <3>2, <3>3
  <2> QED
    BY <1>1, <1>6, <1>7, <2>1, <2>7, <2>8, FailedIs DEF Inv
<1> QED
  BY <1>8, <1>9

LEMMA EndOfRowsInv == Inv /\ EndOfRows => Inv'
<1> SUFFICES ASSUME Inv, EndOfRows PROVE Inv'
  OBVIOUS
<1>1. /\ pc = "collect" /\ pc' = "finish" /\ ~HasNext
      /\ UNCHANGED <<request, environment, scan, collection, result>>
      /\ TypeOK /\ ScanOK /\ SnapshotOK /\ CollectionOK /\ ~moreObserved
      /\ result = NoResult /\ client = "scanning"
  BY DEF EndOfRows, Inv, ScanOK
<1>2. ScanOK' /\ SnapshotOK'
  BY <1>1, ScanStays, SnapshotStays DEF scan, collection
<1>3. TypeOK'
  BY <1>1 DEF TypeOK, request, environment, scan, collection
<1>4. CollectionOK'
  BY <1>1, SameCollection
<1>5. Unread = {}
  <2>1. Len(rows) \in Nat /\ limit \in Nat /\ Len(rows) <= limit
    BY <1>1, LenProperties DEF TypeOK
  <2> QED
    BY <1>1, <2>1 DEF HasNext, QueryLimit
<1>6. Unread' = {} /\ moreObserved' = moreObserved
  BY <1>1, <1>5 DEF Unread, collection
<1> QED
  BY <1>1, <1>2, <1>3, <1>4, <1>6, FailedIs DEF Inv

(* An answer that is no page. *)
LEMMA FailureInv ==
  ASSUME Inv, pc # "idle", UNCHANGED <<request, environment, cursor, client, delivered, collection>>,
         failures' \in Nat, NEW kind \in {"too_large", "envelope", "error"}, Answer(Failed(kind)),
         kind = "too_large" => CutLate(<<>>)
  PROVE  Inv'
<1>1. TypeOK /\ ScanOK /\ client = "scanning"
  BY DEF Inv, ScanOK
<1>2. /\ result' \in ResultType /\ result'.kind = kind
      /\ result'.rows = <<>> /\ ~result'.hasMore /\ pc' = "answered"
  BY FailedIs DEF Answer
<1>3. TypeOK'
  BY <1>1, <1>2 DEF TypeOK, ResultType, request, environment, collection
<1>4. ScanOK'
  BY <1>1, ScanStays
<1>5. kind = "too_large" => CutLate(result.rows)'
  BY <1>2, SameLimits DEF collection
<1> QED
  BY <1>2, <1>3, <1>4, <1>5 DEF Inv

LEMMA FinishInv == Inv /\ Finish => Inv'
<1> SUFFICES ASSUME Inv, Finish PROVE Inv'
  OBVIOUS
<1>1. /\ pc = "finish" /\ UNCHANGED <<request, environment, scan, collection>>
      /\ TypeOK /\ ScanOK /\ SnapshotOK /\ CollectionOK
      /\ IF moreObserved THEN CutLate(Confirmed) ELSE Unread = {}
      /\ client = "scanning" /\ snapshot \in SUBSET Keys
  BY DEF Finish, Inv, ScanOK, TypeOK
<1>2. /\ Lists(rows, snapshot) /\ rows \in Seq(Keys) /\ Len(rows) \in Nat /\ Len(rows) <= limit
      /\ limit \in Nat /\ maximum \in Nat /\ finalSize \in Nat
  BY <1>1, LenProperties DEF CollectionOK, TypeOK
<1>3. ScanOK' /\ SnapshotOK'
  BY <1>1, ScanStays, SnapshotStays DEF scan, collection
<1>4. CASE moreObserved
  <2>1. Kept = Confirmed /\ CutLate(Kept)
    BY <1>1, <1>4 DEF Kept, Confirmed
  <2>2. /\ Lists(Kept, snapshot) /\ Kept \in Seq(Keys) /\ Len(Kept) <= limit
    <3>1. CASE provisional
      <4>1. rows # <<>> /\ Kept = Front(rows)
        BY <1>1, <1>4, <3>1 DEF CollectionOK, Kept
      <4>2. Lists(Kept, snapshot) /\ Kept \in Seq(Keys) /\ Len(Kept) = Len(rows) - 1
        BY <1>1, <1>2, <4>1, ListsFront, FrontAndLast
      <4> QED
        BY <1>2, <4>2
    <3>2. CASE ~provisional
      BY <1>2, <3>2 DEF Kept
    <3> QED
      BY <3>1, <3>2
  <2>3. safe = SafeCursor(Kept) /\ safe.size <= maximum
    BY <1>1, <2>1 DEF CollectionOK
  <2>4. CASE Kept = <<>> \/ safe = NoCursor
    <3>1. Answer(Failed("too_large"))
      BY <1>4, <2>4 DEF Finish
    <3>2. Kept = <<>>
      <4>1. ASSUME Kept # <<>>
            PROVE  FALSE
        <5>1. Last(Kept) \in Keys /\ safe.key = Last(Kept)
          BY <2>2, <2>3, <4>1, FrontAndLast DEF SafeCursor
        <5>2. safe.key = None
          BY <2>4, <4>1 DEF NoCursor
        <5> QED
          BY <5>1, <5>2, PagingAssumption
      <4> QED
        BY <4>1
    <3>3. CutLate(<<>>)
      BY <2>1, <3>2
    <3>4. failures' \in Nat
      BY <1>1 DEF scan, TypeOK
    <3> QED
      BY <1>1, <3>1, <3>3, <3>4, FailureInv DEF scan
  <2>5. CASE ~(Kept = <<>> \/ safe = NoCursor)
    <3>1. /\ pc' = "respond"
          /\ result' = [kind |-> "page", rows |-> Kept, hasMore |-> TRUE,
                        key |-> safe.key, bytes |-> safe.size]
      BY <1>4, <2>5 DEF Finish
    <3>2. /\ safe.key = Last(Kept) /\ safe.size = MoreEncoding(Kept, Last(Kept))
          /\ safe.size \in Nat /\ Last(Kept) \in Keys
      <4>1. safe \in [size : Nat, key : Keys \cup {None}]
        BY <1>1 DEF TypeOK
      <4>2. safe = [size |-> MoreEncoding(Kept, Last(Kept)), key |-> Last(Kept)]
        BY <2>3, <2>5 DEF SafeCursor
      <4> QED
        BY <2>2, <2>5, <4>1, <4>2, FrontAndLast
    <3>3. result' \in ResultType /\ result'.kind = "page" /\ result'.rows = Kept /\ result'.hasMore
          /\ result'.key = Last(Kept) /\ result'.bytes = safe.size
      BY <2>2, <3>1, <3>2 DEF ResultType
    <3>4. TypeOK'
      BY <1>1, <3>1, <3>3 DEF TypeOK, ResultType, request, environment, scan, collection
    <3>5. snapshot' = snapshot /\ limit' = limit /\ maximum' = maximum
      BY <1>1 DEF request, collection
    <3>6. PageOK'
      BY <2>2, <2>3, <2>5, <3>2, <3>3, <3>5 DEF PageOK
    <3>7. CutLate(result.rows)'
      BY <1>1, <2>1, <3>3, <3>5, SameLimits
    <3> QED
      BY <1>3, <3>1, <3>3, <3>4, <3>6, <3>7 DEF Inv
  <2> QED
    BY <2>4, <2>5
<1>5. CASE ~moreObserved
  <2>1. /\ pc' = "respond"
        /\ result' = [kind |-> "page", rows |-> rows, hasMore |-> FALSE,
                      key |-> None, bytes |-> finalSize]
    BY <1>5 DEF Finish, Kept
  <2>2. /\ result' \in ResultType /\ result'.kind = "page" /\ result'.rows = rows /\ ~result'.hasMore
        /\ result'.bytes = finalSize
    BY <1>2, <2>1 DEF ResultType
  <2>3. TypeOK'
    BY <1>1, <2>1, <2>2 DEF TypeOK, ResultType, request, environment, scan, collection
  <2>4. snapshot' = snapshot /\ limit' = limit /\ maximum' = maximum
    BY <1>1 DEF request, collection
  <2>5. snapshot \subseteq ToSet(rows)
    BY <1>1, <1>5 DEF Unread
  <2>6. finalSize = FinalEncoding(rows) /\ finalSize <= maximum
    BY <1>1 DEF CollectionOK
  <2>7. PageOK'
    BY <1>2, <2>2, <2>4, <2>5, <2>6 DEF PageOK
  <2> QED
    BY <1>3, <2>1, <2>2, <2>3, <2>7 DEF Inv
<1> QED
  BY <1>4, <1>5

(* The service finds what the adapter computed. *)
LEMMA RespondInv == Inv /\ Respond => Inv'
<1> SUFFICES ASSUME Inv, Respond PROVE Inv'
  OBVIOUS
<1>1. /\ pc = "respond" /\ pc' = "answered" /\ UNCHANGED <<request, environment, scan, collection>>
      /\ TypeOK /\ ScanOK /\ SnapshotOK /\ PageOK /\ result.kind = "page"
      /\ client = "scanning"
  BY DEF Respond, Answer, Inv, ScanOK
<1>2. ValidateKeysetResponse
  <2>1. ASSUME result.hasMore, NEW i \in 1..Width
        PROVE  KeysetCursorMatchesCell(MaterializeKeysetCursor(result.key)[i],
                                       Cell(i, Last(result.rows)[i]))
    <3>1. result.key = Last(result.rows)
      BY <1>1, <2>1 DEF PageOK
    <3> QED
      BY <3>1, CursorBindsCell
  <2> QED
    BY <1>1, <2>1 DEF ValidateKeysetResponse, PageOK
<1>3. EncodedBytes = result.bytes /\ EncodedBytes <= maximum
  BY <1>1 DEF EncodedBytes, PageOK
<1>4. result' = result
  BY <1>2, <1>3 DEF Respond, Answer
<1>5. ScanOK' /\ SnapshotOK'
  BY <1>1, ScanStays, SnapshotStays DEF scan, collection
<1>6. TypeOK'
  BY <1>1, <1>4 DEF TypeOK, request, environment, scan, collection
<1>7. PageOK'
  BY <1>1, <1>4, SamePage DEF collection
<1>8. result.hasMore => CutLate(result.rows)
  BY <1>1 DEF Inv
<1>9. result'.hasMore => CutLate(result.rows)'
  BY <1>1, <1>4, <1>8, SameLimits DEF collection
<1> QED
  BY <1>1, <1>4, <1>5, <1>6, <1>7, <1>9 DEF Inv

LEMMA PageFailsInv == Inv /\ PageFails => Inv'
<1> SUFFICES ASSUME Inv, PageFails PROVE Inv'
  OBVIOUS
<1>1. failures' \in Nat
  BY DEF PageFails, Inv, TypeOK
<1> QED
  BY <1>1, FailureInv DEF PageFails

(* The client takes a page: the next one comes after all that it has. *)
LEMMA ReceivePage ==
  ASSUME Inv, pc = "answered", result.kind = "page", UNCHANGED <<environment>>, pc' = "idle",
         delivered' = delivered \cup ToSet(result.rows),
         \/ /\ result.hasMore
            /\ cursor' = MaterializeKeysetCursor(result.key) /\ UNCHANGED client
         \/ ~result.hasMore /\ client' = "finished" /\ UNCHANGED cursor
  PROVE  ScanOK' /\ delivered' \subseteq Keys /\ (result.hasMore => result.key \in Keys)
<1>1. /\ TypeOK /\ ScanOK /\ SnapshotOK /\ PageOK /\ client = "scanning"
      /\ stable \subseteq Keys /\ delivered \subseteq Keys /\ snapshot \subseteq Keys
      /\ Lists(result.rows, snapshot) /\ result.rows \in Seq(Keys)
  BY DEF Inv, ScanOK, TypeOK, PageOK, Lists
<1>2. /\ Len(result.rows) \in Nat
      /\ ToSet(result.rows) = {result.rows[i] : i \in 1..Len(result.rows)}
      /\ ToSet(result.rows) \subseteq snapshot
  BY <1>1, MembersOfPage DEF Lists
<1>3. \A k \in stable : k \in delivered \/ k \in snapshot
  BY <1>1 DEF ScanOK, SnapshotOK
<1>4. stable' = stable /\ table' = table
  BY DEF environment
<1>5. CASE ~result.hasMore
  <2>1. client' = "finished" /\ snapshot \subseteq ToSet(result.rows)
    BY <1>1, <1>5 DEF PageOK
  <2>2. stable' \subseteq delivered'
    BY <1>3, <1>4, <2>1
  <2> QED
    BY <1>1, <1>2, <1>4, <1>5, <2>1, <2>2 DEF ScanOK
<1>6. CASE result.hasMore
  <2> DEFINE last == result.key
  <2>1. /\ last = result.rows[Len(result.rows)] /\ last \in Keys
        /\ Len(result.rows) \in 1..Len(result.rows)
    <3>1. result.rows # <<>> /\ last = Last(result.rows)
      BY <1>1, <1>6 DEF PageOK
    <3>2. Len(result.rows) \in Nat \ {0} /\ Last(result.rows) = result.rows[Len(result.rows)]
          /\ Last(result.rows) \in Keys
      BY <1>1, <3>1, FrontAndLast
    <3> QED
      BY <3>1, <3>2
  <2>2. cursor' = MaterializeKeysetCursor(last) /\ client' = "scanning"
    BY <1>1, <1>6
  <2> HIDE DEF last
  <2>3. ASSUME NEW k \in Keys
        PROVE  After(k)' <=> Precedes(last, k)
    <3>1. cursor' # None
      BY <2>1, <2>2, NoneIsNoCursor
    <3>2. CompileKeysetCursor(cursor', k) <=> Precedes(last, k)
      BY <2>1, <2>2, CursorSelectsWhatFollows
    <3> QED
      BY <3>1, <3>2 DEF After
  <2>4. \A r \in ToSet(result.rows) : r \in Keys /\ (r = last \/ Precedes(r, last))
    <3>1. ASSUME NEW i \in 1..Len(result.rows)
          PROVE  result.rows[i] \in Keys
                 /\ (result.rows[i] = last \/ Precedes(result.rows[i], last))
      <4>1. CASE i = Len(result.rows)
        BY <2>1, <4>1
      <4>2. CASE i # Len(result.rows)
        <5>1. i < Len(result.rows)
          BY <1>2, <4>2
        <5> QED
          BY <1>1, <1>2, <2>1, <5>1 DEF Lists
      <4> QED
        BY <4>1, <4>2
    <3> QED
      BY <1>2, <3>1
  <2>5. last \in snapshot
    BY <1>2, <2>1
  <2>6. \A d \in delivered : Precedes(d, last)
    BY <1>1, <2>1, <2>5 DEF ScanOK, SnapshotOK
  <2>7. \A d \in delivered' : d \in Keys /\ (d = last \/ Precedes(d, last))
    BY <1>1, <2>4, <2>6
  <2>8. \A d \in delivered', k \in Keys : After(k)' => Precedes(d, k)
    BY <2>1, <2>3, <2>7, OrderIsStrict
  <2>9. \A k \in stable : k \in delivered' \/ After(k)'
    <3>1. ASSUME NEW k \in stable, k \notin delivered'
          PROVE  After(k)'
      <4>1. k \in snapshot /\ k \notin ToSet(result.rows) /\ k \in Keys
        BY <1>1, <1>3, <3>1
      <4>2. Precedes(last, k)
        BY <1>1, <2>1, <4>1 DEF Lists
      <4> QED
        BY <2>3, <4>1, <4>2
    <3> QED
      BY <3>1
  <2>10. ScanOK'
    BY <1>1, <1>4, <2>2, <2>8, <2>9 DEF ScanOK
  <2> QED
    BY <2>1, <2>7, <2>10 DEF last
<1> QED
  BY <1>5, <1>6

(* The client is idle again, with its scan as it should be. *)
LEMMA IdleInv ==
  ASSUME Inv, UNCHANGED <<request, environment, collection>>, pc' = "idle", result' = NoResult,
         ScanOK', failures' \in Nat, client' \in {"scanning", "finished", "stopped"},
         cursor' \in {None} \cup {MaterializeKeysetCursor(k) : k \in Keys}, delivered' \subseteq Keys
  PROVE  Inv'
<1>1. result' \in ResultType /\ result'.kind = "none" /\ result'.rows = <<>> /\ ~result'.hasMore
  BY FailedIs
<1>2. TypeOK'
  BY <1>1 DEF Inv, TypeOK, ResultType, request, environment, collection
<1> QED
  BY <1>1, <1>2 DEF Inv

LEMMA ReceiveInv == Inv /\ Receive => Inv'
<1> SUFFICES ASSUME Inv, Receive PROVE Inv'
  OBVIOUS
<1>1. /\ pc = "answered" /\ pc' = "idle" /\ result' = NoResult
      /\ UNCHANGED <<request, environment, failures, collection>>
      /\ TypeOK /\ ScanOK /\ client = "scanning" /\ failures' \in Nat
      /\ cursor \in {None} \cup {MaterializeKeysetCursor(k) : k \in Keys} /\ delivered \subseteq Keys
  BY DEF Receive, Inv, ScanOK, TypeOK
<1>2. CASE /\ result.kind = "page"
           /\ delivered' = delivered \cup ToSet(result.rows)
           /\ IF result.hasMore
              THEN cursor' = MaterializeKeysetCursor(result.key) /\ UNCHANGED client
              ELSE client' = "finished" /\ UNCHANGED cursor
  <2>1. \/ /\ result.hasMore
           /\ cursor' = MaterializeKeysetCursor(result.key) /\ UNCHANGED client
        \/ ~result.hasMore /\ client' = "finished" /\ UNCHANGED cursor
    BY <1>2
  <2>2. ScanOK' /\ delivered' \subseteq Keys /\ (result.hasMore => result.key \in Keys)
    BY <1>1, <1>2, <2>1, ReceivePage
  <2>3. /\ client' \in {"scanning", "finished", "stopped"}
        /\ cursor' \in {None} \cup {MaterializeKeysetCursor(k) : k \in Keys}
    BY <1>1, <2>1, <2>2
  <2> QED
    BY <1>1, <2>2, <2>3, IdleInv
<1>3. CASE client' = "stopped" /\ UNCHANGED <<cursor, delivered>>
  <2>1. ScanOK'
    BY <1>1, <1>3, SameCursor DEF ScanOK, environment
  <2> QED
    BY <1>1, <1>3, <2>1, IdleInv
<1>4. CASE UNCHANGED <<cursor, client, delivered>>
  <2>1. ScanOK'
    BY <1>1, <1>4, ScanStays
  <2> QED
    BY <1>1, <1>4, <2>1, IdleInv
<1> QED
  BY <1>2, <1>3, <1>4 DEF Receive

LEMMA LoseResponseInv == Inv /\ LoseResponse => Inv'
<1> SUFFICES ASSUME Inv, LoseResponse PROVE Inv'
  OBVIOUS
<1>1. /\ pc' = "idle" /\ result' = NoResult /\ failures' \in Nat
      /\ UNCHANGED <<request, environment, cursor, client, delivered, collection>>
      /\ ScanOK /\ client = "scanning"
      /\ cursor \in {None} \cup {MaterializeKeysetCursor(k) : k \in Keys} /\ delivered \subseteq Keys
  BY DEF LoseResponse, Inv, ScanOK, TypeOK
<1>2. ScanOK'
  BY <1>1, ScanStays
<1> QED
  BY <1>1, <1>2, IdleInv

(* A row comes or goes: what stayed so far is fewer, and the page in progress *)
(* does not see it.                                                          *)
LEMMA ChangeInv == Inv /\ Change => Inv'
<1> SUFFICES ASSUME Inv, Change PROVE Inv'
  OBVIOUS
<1>1. /\ UNCHANGED <<request, scan, pc, collection, result>> /\ changes' \in Nat
      /\ client = "scanning" /\ TypeOK /\ ScanOK
  BY DEF Change, Inv, TypeOK
<1>2. stable' \subseteq stable /\ stable' \subseteq table' /\ table' \subseteq Keys
  BY <1>1, PagingAssumption DEF Change, TypeOK, ScanOK
<1>3. TypeOK'
  BY <1>1, <1>2 DEF TypeOK, request, scan, collection
<1>4. \A k : After(k)' = After(k)
  BY <1>1, SameCursor DEF scan
<1>5. ScanOK'
  BY <1>1, <1>2, <1>4 DEF ScanOK, scan
<1>6. SnapshotOK => SnapshotOK'
  BY <1>1, <1>2, <1>4 DEF SnapshotOK, collection
<1>7. /\ CollectionOK' = CollectionOK /\ Confirmed' = Confirmed /\ PageOK' = PageOK
      /\ Unread' = Unread /\ \A s : CutLate(s)' = CutLate(s)
  BY <1>1, SameCollection, SamePage, SameLimits DEF Unread, collection
<1>8. UNCHANGED <<pc, result, moreObserved>>
  BY <1>1 DEF collection
<1>9. CutLate(Confirmed)' = CutLate(Confirmed) /\ CutLate(result.rows)' = CutLate(result.rows)
  BY <1>7, <1>8
<1> QED
  BY <1>3, <1>5, <1>6, <1>7, <1>8, <1>9 DEF Inv

(* The inductive invariant of a scan. *)
THEOREM Invariance == Spec => []Inv
<1>1. Inv /\ [Next]_vars => Inv'
  <2> SUFFICES ASSUME Inv, [Next]_vars PROVE Inv'
    OBVIOUS
  <2>1. CASE Page
    BY <2>1, QueryInv, SeeMoreInv, TakeRowInv, EndOfRowsInv, FinishInv, RespondInv DEF Page
  <2>2. CASE PageFails \/ Receive \/ LoseResponse \/ Change
    BY <2>2, PageFailsInv, ReceiveInv, LoseResponseInv, ChangeInv
  <2>3. CASE UNCHANGED vars
    <3>1. UNCHANGED <<request, environment, scan, pc, collection, result, cursor, snapshot, moreObserved>>
      BY <2>3 DEF vars, scan, collection
    <3>2. TypeOK'
      BY <3>1 DEF Inv, TypeOK, request, environment, scan, collection
    <3>3. ScanOK' = ScanOK /\ SnapshotOK' = SnapshotOK
      BY <3>1, SameCursor DEF ScanOK, SnapshotOK, environment, scan
    <3>4. /\ CollectionOK' = CollectionOK /\ Confirmed' = Confirmed /\ PageOK' = PageOK
          /\ Unread' = Unread /\ \A s : CutLate(s)' = CutLate(s)
      BY <3>1, SameCollection, SamePage, SameLimits DEF Unread, collection
    <3>5. CutLate(Confirmed)' = CutLate(Confirmed) /\ CutLate(result.rows)' = CutLate(result.rows)
      BY <3>1, <3>4
    <3> QED
      BY <3>1, <3>2, <3>3, <3>4, <3>5 DEF Inv
  <2> QED
    BY <2>1, <2>2, <2>3 DEF Next
<1> QED
  BY <1>1, InitInv, PTL DEF Spec

(* The types of the variables. *)
THEOREM TypeCorrect == Spec => []TypeOK
<1>1. Inv => TypeOK
  BY DEF Inv
<1> QED
  BY <1>1, Invariance, PTL

(* The client gets the rows in the requested order, and none of them twice. *)
THEOREM ScanStaysOrdered == Spec => []ScanIsOrdered
<1>1. Inv => ScanIsOrdered
  <2> SUFFICES ASSUME Inv, result.kind = "page"
               PROVE  /\ \A i, j \in DOMAIN result.rows :
                            i < j => Precedes(result.rows[i], result.rows[j])
                      /\ \A k \in delivered, i \in DOMAIN result.rows :
                            Precedes(k, result.rows[i])
    BY DEF ScanIsOrdered
  <2>1. Lists(result.rows, snapshot) /\ SnapshotOK /\ snapshot \subseteq Keys
    BY DEF Inv, PageOK, TypeOK
  <2>2. DOMAIN result.rows = 1..Len(result.rows)
    BY <2>1, MembersOfPage DEF Lists
  <2>3. pc # "idle"
    BY FailedIs DEF Inv
  <2>4. \A d \in delivered, k \in Keys : After(k) => Precedes(d, k)
    BY <2>3 DEF Inv, ScanOK
  <2>5. \A i \in DOMAIN result.rows : result.rows[i] \in Keys /\ After(result.rows[i])
    BY <2>1, <2>2 DEF Lists, SnapshotOK
  <2> QED
    BY <2>1, <2>2, <2>4, <2>5 DEF Lists
<1> QED
  BY <1>1, Invariance, PTL

(* A scan that is finished has every row that stayed in the table. *)
THEOREM ScanStaysComplete == Spec => []ScanIsComplete
<1>1. Inv => ScanIsComplete
  BY DEF Inv, ScanOK, ScanIsComplete
<1> QED
  BY <1>1, Invariance, PTL

(* The service finds no page whose bytes or cursor are not those computed. *)
THEOREM AccountingStaysExact == Spec => []AccountingIsExact
<1>1. Inv => AccountingIsExact
  BY DEF Inv, AccountingIsExact
<1> QED
  BY <1>1, Invariance, PTL

(* A page is cut by the limit or because the next row does not fit. *)
THEOREM PagesAreCutLate == Spec => []PageIsCutLate
<1>1. Inv => PageIsCutLate
  BY DEF Inv, PageIsCutLate, CutLate
<1> QED
  BY <1>1, Invariance, PTL
=============================================================================
