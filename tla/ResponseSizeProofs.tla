------------------------- MODULE ResponseSizeProofs -------------------------
(***************************************************************************)
(* Sums over finite sets and the digits of a number, for every input.      *)
(* The induction principles are stated for a set of good values: a library *)
(* theorem with a predicate as its parameter cannot be instantiated, one   *)
(* about least elements of well-founded sets can.                          *)
(***************************************************************************)
EXTENDS ResponseSize, Functions, FiniteSets, FiniteSetTheorems, WellFoundedInduction, TLAPS

(* Every nonempty set of naturals has a least element. *)
LEMMA LeastNatural ==
  ASSUME NEW Q \in SUBSET Nat, Q # {}
  PROVE  \E n \in Q : \A m \in Q : n <= m
<1>1. IsWellFoundedOn(OpToRel(<, Nat), Nat)
  BY NatLessThanWellFounded
<1>2. PICK n \in Q : \A m \in Q : <<m, n>> \notin OpToRel(<, Nat)
  BY <1>1, WFMin
<1>3. \A m \in Q : ~(m < n)
  BY <1>2 DEF OpToRel
<1> QED
  BY <1>3

(* Induction over the naturals: all are good if each one is when the smaller *)
(* ones are.                                                                 *)
LEMMA NatInductionBySet ==
  ASSUME NEW P, \A n \in Nat : (\A m \in 0..(n - 1) : m \in P) => n \in P
  PROVE  Nat \subseteq P
<1> SUFFICES ASSUME Nat \ P # {} PROVE FALSE
  OBVIOUS
<1> DEFINE Q == Nat \ P
<1>1. PICK n \in Q : \A m \in Q : n <= m
  <2>1. Q \in SUBSET Nat /\ Q # {}
    OBVIOUS
  <2> HIDE DEF Q
  <2> QED
    BY <2>1, LeastNatural
<1>2. \A m \in 0..(n - 1) : m \in P
  BY <1>1
<1> QED
  BY <1>1, <1>2

(* A nonempty family of subsets of a finite set has a minimal member. *)
LEMMA SmallestSubset ==
  ASSUME NEW S, IsFiniteSet(S), NEW Q \in SUBSET (SUBSET S), Q # {}
  PROVE  \E T \in Q : \A U \in Q : U \subseteq T => U = T
<1>1. IsWellFoundedOn(StrictSubsetOrdering(S), SUBSET S)
  BY FS_StrictSubsetOrderingWellFounded, FS_FiniteSubsetsOfFinite
<1>2. PICK T \in Q : \A U \in Q : <<U, T>> \notin StrictSubsetOrdering(S)
  BY <1>1, WFMin
<1> QED
  BY <1>2 DEF StrictSubsetOrdering

(* Induction over the subsets of a finite set. *)
LEMMA SubsetInductionBySet ==
  ASSUME NEW S, IsFiniteSet(S), NEW P,
         \A T \in SUBSET S : (\A U \in SUBSET T : U # T => U \in P) => T \in P
  PROVE  (SUBSET S) \subseteq P
<1> SUFFICES ASSUME (SUBSET S) \ P # {} PROVE FALSE
  OBVIOUS
<1> DEFINE Q == (SUBSET S) \ P
<1>1. PICK T \in Q : \A U \in Q : U \subseteq T => U = T
  <2>1. Q \in SUBSET (SUBSET S) /\ Q # {}
    OBVIOUS
  <2> HIDE DEF Q
  <2> QED
    BY <2>1, SmallestSubset
<1>2. \A U \in SUBSET T : U # T => U \in P
  BY <1>1
<1> QED
  BY <1>1, <1>2

-----------------------------------------------------------------------------
(* Sums. *)

Chosen(s) == CHOOSE x \in s : TRUE

\* g sums f over every subset of S, one chosen element after the other.
SumsUp(f, S, g) ==
  g = [s \in SUBSET S |-> IF s = {} THEN 0 ELSE f[Chosen(s)] + g[s \ {Chosen(s)}]]

(* Every nonempty set has a chosen element. *)
LEMMA ChosenIn == \A s : s # {} => Chosen(s) \in s
BY DEF Chosen

(* The library's fold is the function that sums up, if there is one ... *)
LEMMA SumIsFold ==
  ASSUME NEW f, NEW S, \E g : SumsUp(f, S, g)
  PROVE  \E g : SumsUp(f, S, g) /\ SumFunctionOnSet(f, S) = g[S]
<1> DEFINE iter == CHOOSE g : SumsUp(f, S, g)
<1>1. SumsUp(f, S, iter)
  OBVIOUS
<1>2. SumFunctionOnSet(f, S) = iter[S]
  BY DEF SumFunctionOnSet, FoldFunctionOnSet, MapThenFoldSet, SumsUp, Chosen
<1> QED
  BY <1>1, <1>2

(* ... and there is one: it is extended by one cardinality at a time. *)
LEMMA SumExists ==
  ASSUME NEW S, IsFiniteSet(S), NEW f
  PROVE  \E g : SumsUp(f, S, g)
<1> DEFINE Level(k) == {s \in SUBSET S : Cardinality(s) <= k}
           Part(k, g) == g = [s \in Level(k) |->
                                IF s = {} THEN 0 ELSE f[Chosen(s)] + g[s \ {Chosen(s)}]]
           Good == {k \in Nat : \E g : Part(k, g)}
<1>1. \A s \in SUBSET S : /\ IsFiniteSet(s) /\ Cardinality(s) \in Nat
                          /\ Cardinality(s) = 0 <=> s = {}
                          /\ Cardinality(s) <= Cardinality(S)
                          /\ s # {} => Cardinality(s \ {Chosen(s)}) = Cardinality(s) - 1
  BY FS_Subset, FS_CardinalityType, FS_EmptySet, FS_RemoveElement, ChosenIn
<1>2. 0 \in Good
  <2> DEFINE g == [s \in Level(0) |-> 0]
  <2>1. ASSUME NEW s \in Level(0) PROVE s = {}
    <3>1. s \in SUBSET S /\ Cardinality(s) <= 0
      OBVIOUS
    <3>2. Cardinality(s) \in Nat /\ (Cardinality(s) = 0 => s = {})
      BY <1>1, <3>1
    <3> QED
      BY <3>1, <3>2
  <2>2. Part(0, g)
    BY <2>1
  <2> QED
    BY <2>2
<1>3. ASSUME NEW k \in Nat, k \in Good
      PROVE  k + 1 \in Good
  <2>1. PICK g : Part(k, g)
    BY <1>3
  <2> DEFINE h == [s \in Level(k + 1) |->
                     IF s = {} THEN 0 ELSE f[Chosen(s)] + g[s \ {Chosen(s)}]]
  <2>2. ASSUME NEW s \in Level(k + 1), s # {}
        PROVE  h[s \ {Chosen(s)}] = g[s \ {Chosen(s)}]
    <3>1. s \ {Chosen(s)} \in Level(k) /\ s \ {Chosen(s)} \in Level(k + 1)
      BY <1>1, <2>2
    <3> QED
      BY <3>1, <2>1
  <2>3. Part(k + 1, h)
    BY <2>2
  <2>4. \E x : Part(k + 1, x)
    <3> HIDE DEF Part, h
    <3> QED
      BY <2>3
  <2> HIDE DEF Part
  <2> QED
    BY <2>4
<1>4. Cardinality(S) \in Good
  <2> HIDE DEF Good
  <2>1. ASSUME NEW n \in Nat, \A m \in 0..(n - 1) : m \in Good
        PROVE  n \in Good
    BY <1>2, <1>3, <2>1
  <2>2. Nat \subseteq Good
    BY <2>1, NatInductionBySet
  <2> QED
    BY <1>1, <2>2
<1>5. Level(Cardinality(S)) = SUBSET S
  BY <1>1
<1> QED
  BY <1>4, <1>5 DEF SumsUp

(* Summing up over a set and over a subset of it is the same on the subset. *)
LEMMA SumsUpAgree ==
  ASSUME NEW S, IsFiniteSet(S), NEW T \in SUBSET S,
         NEW f, NEW g, NEW h, SumsUp(f, S, g), SumsUp(f, T, h)
  PROVE  \A s \in SUBSET T : g[s] = h[s]
<1> DEFINE Agree == {s \in SUBSET T : g[s] = h[s]}
<1>1. IsFiniteSet(T)
  BY FS_Subset
<1>2. ASSUME NEW s \in SUBSET T, \A u \in SUBSET s : u # s => u \in Agree
      PROVE  s \in Agree
  <2>1. CASE s = {}
    BY <2>1 DEF SumsUp
  <2>2. CASE s # {}
    <3> DEFINE u == s \ {Chosen(s)}
    <3>1. u \in SUBSET s /\ u # s
      BY <2>2, ChosenIn
    <3>2. g[u] = h[u]
      BY <1>2, <3>1
    <3>3. g[s] = f[Chosen(s)] + g[u] /\ h[s] = f[Chosen(s)] + h[u]
      BY <2>2 DEF SumsUp
    <3> QED
      BY <3>2, <3>3
  <2> QED
    BY <2>1, <2>2
<1>3. SUBSET T \subseteq Agree
  <2> HIDE DEF Agree
  <2> QED
    BY <1>1, <1>2, SubsetInductionBySet
<1> QED
  BY <1>3

(* The sum over no index. *)
THEOREM SumEmpty ==
  ASSUME NEW f
  PROVE  SumFunctionOnSet(f, {}) = 0
<1>1. \E g : SumsUp(f, {}, g)
  BY SumExists, FS_EmptySet
<1>2. PICK g : SumsUp(f, {}, g) /\ SumFunctionOnSet(f, {}) = g[{}]
  BY <1>1, SumIsFold
<1> QED
  BY <1>2 DEF SumsUp

(* The fold takes the chosen element first. *)
LEMMA SumChosen ==
  ASSUME NEW S, IsFiniteSet(S), S # {}, NEW f
  PROVE  SumFunctionOnSet(f, S) = f[Chosen(S)] + SumFunctionOnSet(f, S \ {Chosen(S)})
<1> DEFINE T == S \ {Chosen(S)}
<1>1. IsFiniteSet(T) /\ T \in SUBSET S
  BY FS_RemoveElement
<1>2. PICK g : SumsUp(f, S, g) /\ SumFunctionOnSet(f, S) = g[S]
  BY SumExists, SumIsFold
<1>3. PICK h : SumsUp(f, T, h) /\ SumFunctionOnSet(f, T) = h[T]
  BY <1>1, SumExists, SumIsFold
<1>4. g[T] = h[T]
  BY <1>1, <1>2, <1>3, SumsUpAgree
<1>5. g[S] = f[Chosen(S)] + g[T]
  BY <1>2 DEF SumsUp
<1> QED
  BY <1>2, <1>3, <1>4, <1>5

(* A sum of integers is an integer. *)
THEOREM SumInt ==
  ASSUME NEW S, IsFiniteSet(S), NEW f, \A x \in S : f[x] \in Int
  PROVE  SumFunctionOnSet(f, S) \in Int
<1> DEFINE Good == {s \in SUBSET S : SumFunctionOnSet(f, s) \in Int}
<1>1. ASSUME NEW s \in SUBSET S, \A u \in SUBSET s : u # s => u \in Good
      PROVE  s \in Good
  <2>1. CASE s = {}
    BY <2>1, SumEmpty
  <2>2. CASE s # {}
    <3>1. Chosen(s) \in s /\ IsFiniteSet(s) /\ s \ {Chosen(s)} # s
      BY <2>2, ChosenIn, FS_Subset
    <3>2. SumFunctionOnSet(f, s \ {Chosen(s)}) \in Int /\ f[Chosen(s)] \in Int
      BY <1>1, <3>1
    <3>3. SumFunctionOnSet(f, s) = f[Chosen(s)] + SumFunctionOnSet(f, s \ {Chosen(s)})
      BY <2>2, <3>1, SumChosen
    <3> QED
      BY <3>2, <3>3
  <2> QED
    BY <2>1, <2>2
<1>2. SUBSET S \subseteq Good
  <2> HIDE DEF Good
  <2> QED
    BY <1>1, SubsetInductionBySet
<1> QED
  BY <1>2

(* The order of the elements does not matter: any of them can be the last. *)
THEOREM SumRemove ==
  ASSUME NEW S, IsFiniteSet(S), NEW f, \A x \in S : f[x] \in Int, NEW x \in S
  PROVE  SumFunctionOnSet(f, S) = f[x] + SumFunctionOnSet(f, S \ {x})
<1> DEFINE Sum(s) == SumFunctionOnSet(f, s)
           Good == {s \in SUBSET S : \A y \in s : Sum(s) = f[y] + Sum(s \ {y})}
<1>1. ASSUME NEW s \in SUBSET S, \A u \in SUBSET s : u # s => u \in Good
      PROVE  s \in Good
  <2> SUFFICES ASSUME NEW y \in s PROVE Sum(s) = f[y] + Sum(s \ {y})
    OBVIOUS
  <2> DEFINE c == Chosen(s)
  <2>1. c \in s /\ IsFiniteSet(s) /\ Sum(s) = f[c] + Sum(s \ {c})
    BY ChosenIn, FS_Subset, SumChosen
  <2>2. CASE y = c
    BY <2>1, <2>2
  <2>3. CASE y # c
    <3>1. Sum(s \ {c}) = f[y] + Sum((s \ {c}) \ {y})
      <4>1. s \ {c} \in SUBSET s /\ s \ {c} # s /\ y \in s \ {c}
        BY <2>1, <2>3
      <4> QED
        BY <1>1, <4>1
    <3>2. Sum(s \ {y}) = f[c] + Sum((s \ {y}) \ {c})
      <4>1. s \ {y} \in SUBSET s /\ s \ {y} # s /\ c \in s \ {y}
        BY <2>1, <2>3
      <4> QED
        BY <1>1, <4>1
    <3>3. (s \ {c}) \ {y} = (s \ {y}) \ {c} /\ IsFiniteSet((s \ {c}) \ {y})
      BY <2>1, FS_RemoveElement
    <3>4. f[c] \in Int /\ f[y] \in Int /\ Sum((s \ {c}) \ {y}) \in Int
      BY <2>1, <3>3, SumInt
    <3>5. Sum(s) = f[c] + (f[y] + Sum((s \ {c}) \ {y}))
      BY <2>1, <3>1
    <3>6. Sum(s \ {y}) = f[c] + Sum((s \ {c}) \ {y})
      BY <3>2, <3>3
    <3>7. \A i, j, k \in Int : i + (j + k) = j + (i + k)
      OBVIOUS
    <3> QED
      BY <3>4, <3>5, <3>6, <3>7
  <2> QED
    BY <2>2, <2>3
<1>2. SUBSET S \subseteq Good
  <2> HIDE DEF Good
  <2> QED
    BY <1>1, SubsetInductionBySet
<1> QED
  BY <1>2

(* A further index adds its value. *)
THEOREM SumAdd ==
  ASSUME NEW S, IsFiniteSet(S), NEW x, x \notin S, NEW f, \A y \in S \cup {x} : f[y] \in Int
  PROVE  SumFunctionOnSet(f, S \cup {x}) = f[x] + SumFunctionOnSet(f, S)
<1>1. IsFiniteSet(S \cup {x}) /\ (S \cup {x}) \ {x} = S
  BY FS_AddElement
<1> QED
  BY <1>1, SumRemove

(* The sum depends on the values of the indices only. *)
THEOREM SumCongruent ==
  ASSUME NEW S, IsFiniteSet(S), NEW f, NEW g, \A x \in S : f[x] = g[x]
  PROVE  SumFunctionOnSet(f, S) = SumFunctionOnSet(g, S)
<1> DEFINE Good == {s \in SUBSET S : SumFunctionOnSet(f, s) = SumFunctionOnSet(g, s)}
<1>1. ASSUME NEW s \in SUBSET S, \A u \in SUBSET s : u # s => u \in Good
      PROVE  s \in Good
  <2>1. CASE s = {}
    BY <2>1, SumEmpty
  <2>2. CASE s # {}
    <3>1. Chosen(s) \in s /\ IsFiniteSet(s) /\ s \ {Chosen(s)} # s
      BY <2>2, ChosenIn, FS_Subset
    <3>2. SumFunctionOnSet(f, s \ {Chosen(s)}) = SumFunctionOnSet(g, s \ {Chosen(s)})
      BY <1>1, <3>1
    <3> QED
      BY <2>2, <3>1, <3>2, SumChosen
  <2> QED
    BY <2>1, <2>2
<1>2. SUBSET S \subseteq Good
  <2> HIDE DEF Good
  <2> QED
    BY <1>1, SubsetInductionBySet
<1> QED
  BY <1>2

(* A sum of naturals is a natural. *)
LEMMA SumNat ==
  ASSUME NEW S, IsFiniteSet(S), NEW f, \A x \in S : f[x] \in Nat
  PROVE  SumFunctionOnSet(f, S) \in Nat
<1> DEFINE Good == {T \in SUBSET S : SumFunctionOnSet(f, T) \in Nat}
<1>1. ASSUME NEW T \in SUBSET S, \A U \in SUBSET T : U # T => U \in Good
      PROVE  T \in Good
  <2>1. CASE T = {}
    BY <2>1, SumEmpty
  <2>2. CASE T # {}
    <3>1. PICK x \in T : TRUE
      BY <2>2
    <3>2. IsFiniteSet(T) /\ \A y \in T : f[y] \in Int
      BY FS_Subset
    <3>3. SumFunctionOnSet(f, T) = f[x] + SumFunctionOnSet(f, T \ {x})
      BY <3>1, <3>2, SumRemove
    <3>4. SumFunctionOnSet(f, T \ {x}) \in Nat
      BY <1>1, <3>1
    <3> QED
      BY <3>1, <3>3, <3>4
  <2> QED
    BY <2>1, <2>2
<1>2. (SUBSET S) \subseteq Good
  <2> HIDE DEF Good
  <2> QED
    BY <1>1, SubsetInductionBySet
<1> QED
  BY <1>2

(* A sum is at most another, if its terms are at most different terms of it. *)
LEMMA SumInjection ==
  ASSUME NEW S, IsFiniteSet(S), NEW T, IsFiniteSet(T), NEW f, NEW g,
         \A x \in S : f[x] \in Nat, \A y \in T : g[y] \in Nat,
         NEW h \in [S -> T], \A x, y \in S : h[x] = h[y] => x = y,
         \A x \in S : f[x] <= g[h[x]]
  PROVE  SumFunctionOnSet(f, S) <= SumFunctionOnSet(g, T)
<1> DEFINE Sum(U) == SumFunctionOnSet(g, U)
           Good == {U \in SUBSET S : \A V \in SUBSET T :
                      (\A x \in U : h[x] \in V) => SumFunctionOnSet(f, U) <= SumFunctionOnSet(g, V)}
<1>1. ASSUME NEW U \in SUBSET S, \A W \in SUBSET U : W # U => W \in Good
      PROVE  U \in Good
  <2> SUFFICES ASSUME NEW V \in SUBSET T, \A x \in U : h[x] \in V
               PROVE  SumFunctionOnSet(f, U) <= SumFunctionOnSet(g, V)
    OBVIOUS
  <2>1. IsFiniteSet(U) /\ IsFiniteSet(V)
    BY FS_Subset
  <2>2. CASE U = {}
    <3>1. SumFunctionOnSet(f, U) = 0
      BY <2>2, SumEmpty
    <3>2. SumFunctionOnSet(g, V) \in Nat
      BY <2>1, SumNat
    <3> QED
      BY <3>1, <3>2
  <2>3. CASE U # {}
    <3>1. PICK x \in U : TRUE
      BY <2>3
    <3> DEFINE W == U \ {x}
               X == V \ {h[x]}
    <3>2. W \in Good /\ X \in SUBSET T /\ \A y \in W : h[y] \in X
      BY <1>1, <3>1
    <3>3. IsFiniteSet(W) /\ IsFiniteSet(X) /\ h[x] \in V
      BY <2>1, <3>1, FS_Subset
    <3>4. SumFunctionOnSet(f, W) <= SumFunctionOnSet(g, X)
      BY <3>2
    <3>5. SumFunctionOnSet(f, U) = f[x] + SumFunctionOnSet(f, W)
      <4>1. \A y \in U : f[y] \in Int
        OBVIOUS
      <4> QED
        BY <2>1, <3>1, <4>1, SumRemove
    <3>6. SumFunctionOnSet(g, V) = g[h[x]] + SumFunctionOnSet(g, X)
      <4>1. \A y \in V : g[y] \in Int
        OBVIOUS
      <4> QED
        BY <2>1, <3>3, <4>1, SumRemove
    <3>7. SumFunctionOnSet(f, W) \in Nat /\ SumFunctionOnSet(g, X) \in Nat
      BY <3>3, SumNat
    <3>8. f[x] \in Nat /\ g[h[x]] \in Nat /\ f[x] <= g[h[x]]
      BY <3>1
    <3> HIDE DEF W, X
    <3> QED
      BY <3>4, <3>5, <3>6, <3>7, <3>8
  <2> QED
    BY <2>2, <2>3
<1>2. (SUBSET S) \subseteq Good
  <2> HIDE DEF Good
  <2> QED
    BY <1>1, SubsetInductionBySet
<1> QED
  BY <1>2

(* The sum over two disjoint sets. *)
LEMMA SumUnion ==
  ASSUME NEW S, IsFiniteSet(S), NEW T, IsFiniteSet(T), S \cap T = {},
         NEW f, \A x \in S \cup T : f[x] \in Nat
  PROVE  SumFunctionOnSet(f, S \cup T) = SumFunctionOnSet(f, S) + SumFunctionOnSet(f, T)
<1> DEFINE Good == {U \in SUBSET T :
                      SumFunctionOnSet(f, S \cup U) = SumFunctionOnSet(f, S) + SumFunctionOnSet(f, U)}
<1>1. ASSUME NEW U \in SUBSET T, \A W \in SUBSET U : W # U => W \in Good
      PROVE  U \in Good
  <2>1. IsFiniteSet(U) /\ SumFunctionOnSet(f, S) \in Nat
    BY FS_Subset, SumNat
  <2>2. CASE U = {}
    <3>1. SumFunctionOnSet(f, U) = 0 /\ S \cup U = S
      BY <2>2, SumEmpty
    <3> QED
      BY <2>1, <3>1
  <2>3. CASE U # {}
    <3>1. PICK x \in U : TRUE
      BY <2>3
    <3> DEFINE W == U \ {x}
    <3>2. W \in Good /\ IsFiniteSet(W) /\ IsFiniteSet(S \cup W) /\ x \notin S \cup W /\ x \notin W
      BY <1>1, <2>1, <3>1, FS_Subset, FS_Union
    <3>3. S \cup U = (S \cup W) \cup {x} /\ U = W \cup {x}
      BY <3>1
    <3>4. /\ \A y \in (S \cup W) \cup {x} : f[y] \in Int
          /\ \A y \in W \cup {x} : f[y] \in Int
      BY <3>1
    <3> HIDE DEF W
    <3>5. SumFunctionOnSet(f, (S \cup W) \cup {x}) = f[x] + SumFunctionOnSet(f, S \cup W)
      BY <3>2, <3>4, SumAdd
    <3>6. SumFunctionOnSet(f, W \cup {x}) = f[x] + SumFunctionOnSet(f, W)
      BY <3>2, <3>4, SumAdd
    <3>7. SumFunctionOnSet(f, W) \in Int /\ f[x] \in Int
      BY <3>2, <3>4, SumInt
    <3>8. SumFunctionOnSet(f, S \cup W) = SumFunctionOnSet(f, S) + SumFunctionOnSet(f, W)
      BY <3>2
    <3>9. SumFunctionOnSet(f, (S \cup W) \cup {x})
            = SumFunctionOnSet(f, S) + SumFunctionOnSet(f, W \cup {x})
      BY <2>1, <3>5, <3>6, <3>7, <3>8
    <3> QED
      BY <3>3, <3>9
  <2> QED
    BY <2>2, <2>3
<1>2. (SUBSET T) \subseteq Good
  <2> HIDE DEF Good
  <2> QED
    BY <1>1, SubsetInductionBySet
<1> QED
  BY <1>2

(* A sum over an interval, one term longer, *)
LEMMA SumNext ==
  ASSUME NEW q \in Nat, NEW f, \A x \in 1..(q + 1) : f[x] \in Nat
  PROVE  SumFunctionOnSet(f, 1..(q + 1)) = SumFunctionOnSet(f, 1..q) + f[q + 1]
<1> DEFINE S == 1..q
<1>1. IsFiniteSet(S) /\ q + 1 \notin S /\ 1..(q + 1) = S \cup {q + 1}
  BY FS_Interval
<1>2. /\ \A y \in S \cup {q + 1} : f[y] \in Int
      /\ \A y \in S : f[y] \in Int
  BY <1>1
<1> HIDE DEF S
<1>3. SumFunctionOnSet(f, S \cup {q + 1}) = f[q + 1] + SumFunctionOnSet(f, S)
  BY <1>1, <1>2, SumAdd
<1>4. SumFunctionOnSet(f, S) \in Int /\ f[q + 1] \in Int
  BY <1>1, <1>2, SumInt
<1>5. SumFunctionOnSet(f, S \cup {q + 1}) = SumFunctionOnSet(f, S) + f[q + 1]
  BY <1>3, <1>4
<1> QED
  BY <1>1, <1>5 DEF S

(* ... or several, *)
LEMMA SumPrefix ==
  ASSUME NEW K \in Nat, NEW q \in 0..K, NEW f, \A x \in 1..K : f[x] \in Nat
  PROVE  /\ SumFunctionOnSet(f, 1..q) \in Nat /\ SumFunctionOnSet(f, 1..K) \in Nat
         /\ SumFunctionOnSet(f, 1..q) <= SumFunctionOnSet(f, 1..K)
<1> DEFINE S == 1..q
           T == 1..K
           h == [x \in S |-> x]
<1>1. /\ IsFiniteSet(S) /\ IsFiniteSet(T)
      /\ \A x \in S : f[x] \in Nat
      /\ \A x \in T : f[x] \in Nat
      /\ h \in [S -> T]
      /\ \A x, y \in S : h[x] = h[y] => x = y
      /\ \A x \in S : f[x] <= f[h[x]]
  <2>1. IsFiniteSet(S) /\ IsFiniteSet(T)
    BY FS_Interval
  <2>2. S \subseteq T /\ \A x \in S : h[x] = x
    OBVIOUS
  <2>3. h \in [S -> T]
    BY <2>2
  <2>4. \A x \in T : f[x] \in Nat
    OBVIOUS
  <2> HIDE DEF S, T, h
  <2> QED
    BY <2>1, <2>2, <2>3, <2>4
<1> HIDE DEF S, T, h
<1>2. SumFunctionOnSet(f, S) <= SumFunctionOnSet(f, T)
  BY <1>1, SumInjection
<1>3. SumFunctionOnSet(f, S) \in Nat /\ SumFunctionOnSet(f, T) \in Nat
  BY <1>1, SumNat
<1> QED
  BY <1>2, <1>3 DEF S, T

(* ... and one of positive terms. *)
LEMMA SumPositive ==
  ASSUME NEW K \in Nat, NEW f, \A x \in 1..K : f[x] \in Nat \ {0}
  PROVE  K <= SumFunctionOnSet(f, 1..K)
<1> DEFINE Good == {k \in Nat : k <= K => k <= SumFunctionOnSet(f, 1..k)}
<1>1. ASSUME NEW k \in Nat, \A m \in 0..(k - 1) : m \in Good
      PROVE  k \in Good
  <2>1. CASE k = 0
    <3>1. 1..k = {}
      BY <2>1
    <3>2. SumFunctionOnSet(f, 1..k) = 0
      BY <3>1, SumEmpty
    <3> QED
      BY <2>1, <3>2
  <2>2. CASE k # 0 /\ k <= K
    <3> DEFINE q == k - 1
    <3>1. q \in Nat /\ q \in 0..(k - 1) /\ q <= K /\ q + 1 = k
      BY <2>2
    <3> HIDE DEF q
    <3>2. q <= SumFunctionOnSet(f, 1..q)
      BY <1>1, <3>1
    <3>3. \A x \in 1..(q + 1) : f[x] \in Nat \ {0}
      BY <2>2, <3>1
    <3>4. SumFunctionOnSet(f, 1..(q + 1)) = SumFunctionOnSet(f, 1..q) + f[q + 1]
      BY <3>1, <3>3, SumNext
    <3>5. f[q + 1] \in Nat \ {0}
      BY <3>1, <3>3
    <3>6. SumFunctionOnSet(f, 1..q) \in Nat
      <4>1. q + 1 \in Nat /\ q \in 0..(q + 1)
        BY <3>1
      <4> QED
        BY <3>3, <4>1, SumPrefix
    <3>7. q + 1 <= SumFunctionOnSet(f, 1..(q + 1))
      BY <3>1, <3>2, <3>4, <3>5, <3>6
    <3> QED
      BY <3>1, <3>7
  <2> QED
    BY <2>1, <2>2
<1>2. Nat \subseteq Good
  <2> HIDE DEF Good
  <2> QED
    BY <1>1, NatInductionBySet
<1> QED
  BY <1>2

-----------------------------------------------------------------------------
(* Digits. *)

\* g counts the digits of the numbers up to k.
Counts(k, g) == g = [n \in 0..k |-> IF n < 10 THEN 1 ELSE 1 + g[n \div 10]]

(* A number of two digits or more loses one by division. *)
LEMMA Shorter ==
  \A n \in Nat : n \div 10 \in Nat /\ (n >= 10 => n \div 10 <= n - 1)
OBVIOUS

(* There is such a function up to every k ... *)
LEMMA CountsExists == \A k \in Nat : \E g : Counts(k, g)
<1> DEFINE Good == {k \in Nat : \E g : Counts(k, g)}
<1>1. ASSUME NEW k \in Nat, \A m \in 0..(k - 1) : m \in Good
      PROVE  k \in Good
  <2>1. CASE k = 0
    <3> DEFINE g == [n \in 0..0 |-> 1]
    <3>1. Counts(0, g)
      BY DEF Counts
    <3> HIDE DEF g
    <3> QED
      BY <2>1, <3>1
  <2>2. CASE k > 0
    <3>1. PICK g : Counts(k - 1, g)
      BY <1>1, <2>2
    <3> DEFINE h == [n \in 0..k |-> IF n < 10 THEN 1 ELSE 1 + g[n \div 10]]
    <3>2. \A n \in 0..k : n >= 10 => n \div 10 \in 0..(k - 1) /\ n \div 10 \in 0..k
      BY Shorter
    <3>3. \A n \in 0..(k - 1) : h[n] = g[n]
      BY <3>1 DEF Counts
    <3>4. \A n \in 0..k : n >= 10 => h[n \div 10] = g[n \div 10]
      BY <3>2, <3>3
    <3>5. Counts(k, h)
      <4> DEFINE e == [n \in 0..k |-> IF n < 10 THEN 1 ELSE 1 + h[n \div 10]]
      <4>1. \A n \in 0..k : h[n] = IF n < 10 THEN 1 ELSE 1 + g[n \div 10]
        OBVIOUS
      <4>2. DOMAIN h = 0..k
        OBVIOUS
      <4> HIDE DEF h
      <4>3. \A n \in 0..k : h[n] = e[n]
        BY <3>4, <4>1
      <4>4. h = [n \in 0..k |-> h[n]]
        BY <4>2 DEF h
      <4>5. h = e
        BY <4>3, <4>4
      <4> QED
        BY <4>5 DEF Counts
    <3> HIDE DEF h
    <3> QED
      BY <3>5
  <2> QED
    BY <2>1, <2>2
<1>2. Nat \subseteq Good
  <2> HIDE DEF Good
  <2> QED
    BY <1>1, NatInductionBySet
<1> QED
  BY <1>2

(* ... and any two of them agree where both count. *)
LEMMA CountsAgree ==
  ASSUME NEW k \in Nat, NEW l \in Nat, NEW g, NEW h, Counts(k, g), Counts(l, h)
  PROVE  \A n \in Nat : n <= k /\ n <= l => g[n] = h[n]
<1> DEFINE Good == {n \in Nat : n <= k /\ n <= l => g[n] = h[n]}
<1>1. ASSUME NEW n \in Nat, \A m \in 0..(n - 1) : m \in Good
      PROVE  n \in Good
  <2> SUFFICES ASSUME n <= k, n <= l PROVE g[n] = h[n]
    OBVIOUS
  <2>1. /\ g[n] = IF n < 10 THEN 1 ELSE 1 + g[n \div 10]
        /\ h[n] = IF n < 10 THEN 1 ELSE 1 + h[n \div 10]
    BY DEF Counts
  <2>2. CASE n >= 10
    <3>1. n \div 10 \in 0..(n - 1)
      BY <2>2, Shorter
    <3>2. g[n \div 10] = h[n \div 10]
      BY <1>1, <3>1
    <3> QED
      BY <2>1, <3>2
  <2> QED
    BY <2>1, <2>2
<1>2. Nat \subseteq Good
  <2> HIDE DEF Good
  <2> QED
    BY <1>1, NatInductionBySet
<1> QED
  BY <1>2

(* decimalDigits is what its recursive definition says. *)
THEOREM DigitsDef ==
  \A n \in Nat : decimalDigits[n] = IF n < 10 THEN 1 ELSE 1 + decimalDigits[n \div 10]
<1> DEFINE upTo(k) == CHOOSE g : Counts(k, g)
           d == [n \in Nat |-> upTo(n)[n]]
<1>1. \A k \in Nat : Counts(k, upTo(k))
  BY CountsExists
<1>2. ASSUME NEW n \in Nat
      PROVE  d[n] = IF n < 10 THEN 1 ELSE 1 + d[n \div 10]
  <2> HIDE DEF upTo
  <2>1. upTo(n)[n] = IF n < 10 THEN 1 ELSE 1 + upTo(n)[n \div 10]
    BY <1>1 DEF Counts
  <2>2. CASE n >= 10
    <3>1. n \div 10 \in Nat /\ n \div 10 <= n
      BY <2>2, Shorter
    <3>2. upTo(n)[n \div 10] = upTo(n \div 10)[n \div 10]
      BY <1>1, <3>1, CountsAgree
    <3> QED
      BY <2>1, <3>1, <3>2
  <2> QED
    BY <2>1, <2>2
<1>3. d = [n \in Nat |-> IF n < 10 THEN 1 ELSE 1 + d[n \div 10]]
  <2> DEFINE e == [n \in Nat |-> IF n < 10 THEN 1 ELSE 1 + d[n \div 10]]
  <2>1. DOMAIN d = Nat /\ DOMAIN e = Nat /\ \A n \in Nat : d[n] = e[n]
    BY <1>2
  <2> QED
    BY <2>1
<1>4. decimalDigits = [n \in Nat |-> IF n < 10 THEN 1 ELSE 1 + decimalDigits[n \div 10]]
  <2> HIDE DEF d
  <2> QED
    BY <1>3 DEF decimalDigits
<1> QED
  BY <1>4

(* A number has at least one digit, and a larger number at least as many. *)
THEOREM DigitsGrow ==
  /\ \A n \in Nat : decimalDigits[n] \in Nat \ {0}
  /\ \A m, n \in Nat : m <= n => decimalDigits[m] <= decimalDigits[n]
<1> DEFINE Good == {n \in Nat : /\ decimalDigits[n] \in Nat \ {0}
                                /\ \A m \in 0..n : decimalDigits[m] <= decimalDigits[n]}
<1>1. ASSUME NEW n \in Nat, \A m \in 0..(n - 1) : m \in Good
      PROVE  n \in Good
  <2>1. CASE n < 10
    <3>1. \A m \in 0..n : decimalDigits[m] = 1
      BY <2>1, DigitsDef
    <3> QED
      BY <3>1
  <2>2. CASE n >= 10
    <3>1. n \div 10 \in 0..(n - 1)
      BY <2>2, Shorter
    <3>2. decimalDigits[n] = 1 + decimalDigits[n \div 10] /\ decimalDigits[n \div 10] \in Nat \ {0}
      BY <1>1, <2>2, <3>1, DigitsDef
    <3>3. ASSUME NEW m \in 0..n PROVE decimalDigits[m] <= decimalDigits[n]
      <4>1. CASE m < 10
        BY <3>2, <4>1, DigitsDef
      <4>2. CASE m >= 10
        <5>1. m \div 10 \in 0..(n \div 10)
          BY <4>2, Shorter
        <5>2. decimalDigits[m \div 10] <= decimalDigits[n \div 10]
          BY <1>1, <3>1, <5>1
        <5>3. decimalDigits[m] = 1 + decimalDigits[m \div 10] /\ decimalDigits[m \div 10] \in Nat
          <6>1. m \div 10 \in 0..(n - 1)
            BY <3>1, <5>1
          <6> QED
            BY <1>1, <4>2, <6>1, DigitsDef
        <5> QED
          BY <3>2, <5>2, <5>3
      <4> QED
        BY <4>1, <4>2
    <3> QED
      BY <3>2, <3>3
  <2> QED
    BY <2>1, <2>2
<1>2. Nat \subseteq Good
  <2> HIDE DEF Good
  <2> QED
    BY <1>1, NatInductionBySet
<1> QED
  BY <1>2
=============================================================================
