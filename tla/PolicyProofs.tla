---------------------------- MODULE PolicyProofs ----------------------------
(***************************************************************************)
(* For every profile, request and replacement of the server: what is sent  *)
(* to the database names nothing that the policy denies, as the server     *)
(* that executes it compares names, and the check before the probe refuses *)
(* no request that the policy grants under the case rules of some server.  *)
(***************************************************************************)
EXTENDS Policy, ResponseSizeProofs, SequenceTheorems

(* Patterns. *)

\* How many parts of a name are compared without case.
Insensitive(sem) == <<sem.schemas, sem.objects, TRUE>>
Same(i, x, y, sem) == x = y \/ (Insensitive(sem)[i] /\ x[1] = y[1])

\* A pattern names what it should, part by part.
Names(pattern, name, sem) ==
  \A i \in DOMAIN name : pattern[i] = Wild \/ Same(i, pattern[i], name[i], sem)

(* Match compares the canonical names, and so as the server does. *)
LEMMA MatchIsNaming ==
  ASSUME NEW sem \in MySQLSemantics, NEW d \in 1..3, NEW name, DOMAIN name = 1..d, Len(name) = d,
         NEW pattern \in Seq(STRING \X STRING), Len(pattern) = d
  PROVE  Match(pattern, name, sem) <=> Names(pattern, name, sem)
<1>1. DOMAIN pattern = 1..d
  BY LenProperties
<1>2. sem.schemas \in BOOLEAN /\ sem.objects \in BOOLEAN /\ sem.fields = TRUE
  <2>1. CASE sem = CaseSensitive
    BY <2>1 DEF CaseSensitive
  <2>2. CASE sem = CaseInsensitive
    BY <2>2 DEF CaseInsensitive
  <2> QED
    BY <2>1, <2>2 DEF MySQLSemantics
<1> DEFINE ins == <<sem.schemas, sem.objects, sem.fields>>
<1>3. ins = Insensitive(sem)
  BY <1>2 DEF Insensitive
<1>4. ASSUME NEW i \in 1..d
      PROVE  (CanonicalIdentifier(pattern[i], ins[i]) = CanonicalIdentifier(name[i], ins[i]))
               <=> Same(i, pattern[i], name[i], sem)
  <2>1. CASE ins[i] = TRUE
    BY <1>3, <2>1 DEF CanonicalIdentifier, Same
  <2>2. CASE ins[i] = FALSE
    BY <1>3, <2>2 DEF CanonicalIdentifier, Same
  <2>3. ins[i] \in BOOLEAN
    <3>1. i = 1 \/ i = 2 \/ i = 3
      OBVIOUS
    <3>2. ins[1] \in BOOLEAN /\ ins[2] \in BOOLEAN /\ ins[3] \in BOOLEAN
      BY <1>2
    <3> HIDE DEF ins
    <3> QED
      BY <3>1, <3>2
  <2> QED
    BY <2>1, <2>2, <2>3
<1>5. Match(pattern, name, sem) <=>
        \A i \in 1..d : \/ pattern[i] = Wild
                        \/ CanonicalIdentifier(pattern[i], ins[i]) = CanonicalIdentifier(name[i], ins[i])
  BY <1>1, Zenon DEF Match
<1> HIDE DEF ins
<1> QED
  BY <1>4, <1>5 DEF Names

\* What the rules permit of a name.
Permits(rules, name, sem) ==
  /\ ~\E pattern \in rules.deny : Names(pattern, name, sem)
  /\ rules.allow = {} \/ \E pattern \in rules.allow : Names(pattern, name, sem)

(* What is allowed is permitted, for rules of patterns of the length of the name. *)
LEMMA AllowedIsPermitted ==
  ASSUME NEW sem \in MySQLSemantics, NEW d \in 1..3, NEW name, DOMAIN name = 1..d, Len(name) = d,
         NEW rules, rules.allow \cup rules.deny \subseteq Seq(STRING \X STRING),
         ValidatePatterns(rules, d), Allowed(rules, name, sem)
  PROVE  Permits(rules, name, sem)
<1>1. \A pattern \in rules.allow \cup rules.deny :
        Match(pattern, name, sem) <=> Names(pattern, name, sem)
  BY MatchIsNaming DEF ValidatePatterns
<1> QED
  BY <1>1 DEF Allowed, Permits

-----------------------------------------------------------------------------
(* Refusals. *)

(* A request is refused for the reason of a check that refuses it. *)
LEMMA RefusedByACheck ==
  ASSUME NEW n \in Nat, NEW checks, DOMAIN checks = 1..n, FirstReason(checks) # "granted"
  PROVE  \E i \in 1..n : checks[i][1] /\ FirstReason(checks) = checks[i][2]
<1> DEFINE refusing == {i \in DOMAIN checks : checks[i][1]}
<1>1. refusing # {} /\ FirstReason(checks) = checks[Min(refusing)][2]
  BY DEF FirstReason
<1>2. refusing \in SUBSET Nat
  OBVIOUS
<1>3. PICK m \in refusing : \A i \in refusing : m <= i
  <2> HIDE DEF refusing
  <2> QED
    BY <1>1, <1>2, LeastNatural
<1>4. Min(refusing) \in refusing
  BY <1>3 DEF Min
<1> QED
  BY <1>1, <1>4

(* A request is granted only if no check refuses it. *)
LEMMA GrantedPassesAll ==
  ASSUME NEW n \in Nat, NEW checks, DOMAIN checks = 1..n,
         \A i \in 1..n : checks[i][2] # "granted",
         FirstReason(checks) = "granted"
  PROVE  \A i \in 1..n : ~checks[i][1]
<1> DEFINE refusing == {i \in DOMAIN checks : checks[i][1]}
<1>1. SUFFICES ASSUME refusing # {} PROVE FALSE
  OBVIOUS
<1>2. refusing \in SUBSET Nat
  OBVIOUS
<1>3. PICK m \in refusing : \A i \in refusing : m <= i
  <2> HIDE DEF refusing
  <2> QED
    BY <1>1, <1>2, LeastNatural
<1>4. Min(refusing) \in refusing
  BY <1>3 DEF Min
<1>5. FirstReason(checks) = checks[Min(refusing)][2]
  BY <1>1 DEF FirstReason
<1> QED
  BY <1>4, <1>5

(* What each authorization has checked when it grants a request. *)
LEMMA KeysetGranted ==
  ASSUME NEW p, NEW r, NEW sem, AuthorizeKeysetSelect(p, r, sem) = "granted"
  PROVE  /\ KeysetNormalizes(r.query, sem)
         /\ \E s \in MatchKeysetShape(p, r.shape, r.query, sem) :
              NormalizeIdentifiers(r.query, sem).limit <= s.limit
         /\ ResourceAllowed(p, NormalizeIdentifiers(r.query, sem), sem)
         /\ FieldsAllowed(p, NormalizeIdentifiers(r.query, sem), sem)
         /\ AuthorizeKeysetFeatures(p.query, NormalizeIdentifiers(r.query, sem))
<1> DEFINE q == NormalizeIdentifiers(r.query, sem)
           checks ==
             <<<<~KeysetNormalizes(r.query, sem), "invalid">>,
               <<~\E s \in MatchKeysetShape(p, r.shape, r.query, sem) : q.limit <= s.limit, "feature">>,
               <<~ResourceAllowed(p, q, sem), "resource">>,
               <<~FieldsAllowed(p, q, sem), "field">>,
               <<~AuthorizeKeysetFeatures(p.query, q), "feature">>>>
<1>1. FirstReason(checks) = "granted"
  BY DEF AuthorizeKeysetSelect
<1>2. /\ DOMAIN checks = 1..5 /\ \A i \in 1..5 : checks[i][2] # "granted"
      /\ checks[1][1] = ~KeysetNormalizes(r.query, sem)
      /\ checks[2][1] = ~\E s \in MatchKeysetShape(p, r.shape, r.query, sem) : q.limit <= s.limit
      /\ checks[3][1] = ~ResourceAllowed(p, q, sem) /\ checks[4][1] = ~FieldsAllowed(p, q, sem)
      /\ checks[5][1] = ~AuthorizeKeysetFeatures(p.query, q)
  OBVIOUS
<1> HIDE DEF checks
<1>3. ~checks[1][1] /\ ~checks[2][1] /\ ~checks[3][1] /\ ~checks[4][1] /\ ~checks[5][1]
  <2>1. \A i \in 1..5 : ~checks[i][1]
    BY <1>1, <1>2, GrantedPassesAll
  <2> QED
    BY <2>1
<1> QED
  BY <1>2, <1>3, Zenon

LEMMA AggregateGranted ==
  ASSUME NEW p, NEW r, NEW sem, AuthorizeAggregate(p, r, sem) = "granted"
  PROVE  /\ ResourceAllowed(p, NormalizeIdentifiers(r.query, sem), sem)
         /\ FieldsAllowed(p, NormalizeIdentifiers(r.query, sem), sem)
<1> DEFINE q == NormalizeIdentifiers(r.query, sem)
           shape == MatchAggregateShape(p, r.query, sem)
           checks ==
             <<<<~AggregateNormalizes(r.query, sem), "invalid">>,
               <<~ResourceAllowed(p, q, sem), "resource">>,
               <<~FieldsAllowed(p, q, sem), "field">>,
               <<~AuthorizeAggregateFeatures(p.query, q) \/ shape = {}, "feature">>,
               <<\E s \in shape : Parameters(q, r.page) + NumericBucketParameters(q, s)
                                   > p.limits.parameters, "invalid">>>>
<1>1. FirstReason(checks) = "granted"
  BY DEF AuthorizeAggregate
<1>2. /\ DOMAIN checks = 1..5 /\ \A i \in 1..5 : checks[i][2] # "granted"
      /\ checks[2][1] = ~ResourceAllowed(p, q, sem) /\ checks[3][1] = ~FieldsAllowed(p, q, sem)
  OBVIOUS
<1> HIDE DEF checks
<1>3. ~checks[2][1] /\ ~checks[3][1]
  <2>1. \A i \in 1..5 : ~checks[i][1]
    BY <1>1, <1>2, GrantedPassesAll
  <2> QED
    BY <2>1
<1> QED
  BY <1>2, <1>3

LEMMA QueryGranted ==
  ASSUME NEW p, NEW r, NEW sem, AuthorizeQuery(p, r, sem) = "granted"
  PROVE  ResourceAllowed(p, r.query, sem) /\ FieldsAllowed(p, r.query, sem)
<1> DEFINE checks ==
             <<<<r.operation = "select" /\ ~ValidateSimpleSelect(r.query), "invalid">>,
               <<~ResourceAllowed(p, r.query, sem), "resource">>,
               <<~FieldsAllowed(p, r.query, sem), "field">>,
               <<~AuthorizeFeatures(p.query, r.query), "feature">>>>
<1>1. FirstReason(checks) = "granted"
  BY DEF AuthorizeQuery
<1>2. /\ DOMAIN checks = 1..4 /\ \A i \in 1..4 : checks[i][2] # "granted"
      /\ checks[2][1] = ~ResourceAllowed(p, r.query, sem)
      /\ checks[3][1] = ~FieldsAllowed(p, r.query, sem)
  OBVIOUS
<1> HIDE DEF checks
<1>3. ~checks[2][1] /\ ~checks[3][1]
  <2>1. \A i \in 1..4 : ~checks[i][1]
    BY <1>1, <1>2, GrantedPassesAll
  <2> QED
    BY <2>1
<1> QED
  BY <1>2, <1>3

LEMMA SchemaGranted ==
  ASSUME NEW p, NEW r, NEW sem, AuthorizeSchema(p, r, sem) = "granted"
  PROVE  /\ Allowed(p.schemas, <<r.query.schema>>, sem)
         /\ r.operation # "list_objects" => ResourceAllowed(p, r.query, sem)
<1> DEFINE checks ==
             <<<<~Allowed(p.schemas, <<r.query.schema>>, sem), "resource">>,
               <<r.operation # "list_objects" /\ ~ResourceAllowed(p, r.query, sem), "resource">>>>
<1>1. FirstReason(checks) = "granted"
  BY DEF AuthorizeSchema
<1>2. /\ DOMAIN checks = 1..2 /\ \A i \in 1..2 : checks[i][2] # "granted"
      /\ checks[1][1] = ~Allowed(p.schemas, <<r.query.schema>>, sem)
      /\ checks[2][1] = (r.operation # "list_objects" /\ ~ResourceAllowed(p, r.query, sem))
  OBVIOUS
<1> HIDE DEF checks
<1>3. ~checks[1][1] /\ ~checks[2][1]
  <2>1. \A i \in 1..2 : ~checks[i][1]
    BY <1>1, <1>2, GrantedPassesAll
  <2> QED
    BY <2>1
<1> QED
  BY <1>2, <1>3

-----------------------------------------------------------------------------
(* Sorting. *)

\* An order of the first m numbers in which each is followed by what may follow.
OrdersBy(m, R) ==
  {p \in Bijection(1..m, 1..m) : \A i, j \in 1..m : i < j => <<p[i], p[j]>> \in R}

(* One more number is inserted before the first that may follow it. *)
LEMMA InsertInOrder ==
  ASSUME NEW m \in Nat, NEW R,
         \A a, b \in 1..(m + 1) : <<a, b>> \in R \/ <<b, a>> \in R,
         \A a, b, c \in 1..(m + 1) : <<a, b>> \in R /\ <<b, c>> \in R => <<a, c>> \in R,
         NEW p \in OrdersBy(m, R)
  PROVE  OrdersBy(m + 1, R) # {}
<1> DEFINE Q == {i \in 1..m : <<m + 1, p[i]>> \in R} \cup {m + 1}
<1>1. PICK k \in Q : \A i \in Q : k <= i
  <2>1. Q \in SUBSET Nat /\ Q # {}
    OBVIOUS
  <2> HIDE DEF Q
  <2> QED
    BY <2>1, LeastNatural
<1>2. /\ k \in 1..(m + 1)
      /\ k <= m => <<m + 1, p[k]>> \in R
      /\ \A i \in 1..m : i < k => <<m + 1, p[i]>> \notin R
  BY <1>1
<1>3. /\ p \in [1..m -> 1..m] /\ \A a, b \in 1..m : p[a] = p[b] => a = b
      /\ \A t \in 1..m : \E i \in 1..m : p[i] = t
      /\ \A i, j \in 1..m : i < j => <<p[i], p[j]>> \in R
  <2>1. p \in Bijection(1..m, 1..m) /\ \A i, j \in 1..m : i < j => <<p[i], p[j]>> \in R
    BY DEF OrdersBy
  <2>2. p \in [1..m -> 1..m] /\ IsInjective(p) /\ \A t \in 1..m : \E i \in 1..m : p[i] = t
    BY <2>1, Zenon DEF Bijection, Injection, Surjection
  <2> QED
    BY <2>1, <2>2, Zenon DEF IsInjective
<1> HIDE DEF Q
<1> DEFINE q == [i \in 1..(m + 1) |-> IF i < k THEN p[i] ELSE IF i = k THEN m + 1 ELSE p[i - 1]]
<1>4. \A i \in 1..(m + 1) : /\ i < k => q[i] = p[i] /\ i \in 1..m
                            /\ i = k => q[i] = m + 1
                            /\ i > k => q[i] = p[i - 1] /\ i - 1 \in 1..m
  BY <1>2
<1>5. q \in [1..(m + 1) -> 1..(m + 1)]
  <2>1. ASSUME NEW i \in 1..(m + 1) PROVE q[i] \in 1..(m + 1)
    <3>1. \A x \in 1..m : p[x] \in 1..(m + 1)
      BY <1>3
    <3>2. i < k \/ i = k \/ i > k
      BY <1>2
    <3> HIDE DEF q
    <3> QED
      BY <1>4, <3>1, <3>2
  <2> QED
    BY <2>1
<1> HIDE DEF q
<1>6. \A a, b \in 1..(m + 1) : q[a] = q[b] => a = b
  <2>1. \A i \in 1..m : p[i] \in 1..m
    BY <1>3
  <2>2. ASSUME NEW a \in 1..(m + 1), NEW b \in 1..(m + 1), q[a] = q[b]
        PROVE  a = b
    <3>1. CASE a = k
      BY <1>2, <1>4, <2>1, <2>2, <3>1
    <3>2. CASE b = k
      BY <1>2, <1>4, <2>1, <2>2, <3>2
    <3>3. CASE a < k /\ b < k
      BY <1>2, <1>3, <1>4, <2>2, <3>3
    <3>4. CASE a > k /\ b > k
      <4>1. a - 1 = b - 1
        BY <1>2, <1>3, <1>4, <2>2, <3>4
      <4> QED
        BY <4>1
    <3>5. CASE (a < k /\ b > k) \/ (a > k /\ b < k)
      <4>1. a < k /\ b > k => a = b - 1
        BY <1>2, <1>3, <1>4, <2>2
      <4>2. a > k /\ b < k => a - 1 = b
        BY <1>2, <1>3, <1>4, <2>2
      <4> QED
        BY <1>2, <3>5, <4>1, <4>2
    <3> QED
      BY <1>2, <3>1, <3>2, <3>3, <3>4, <3>5
  <2> QED
    BY <2>2
<1>7. \A t \in 1..(m + 1) : \E i \in 1..(m + 1) : q[i] = t
  <2>1. ASSUME NEW t \in 1..(m + 1) PROVE \E i \in 1..(m + 1) : q[i] = t
    <3>1. CASE t = m + 1
      BY <1>2, <1>4, <3>1
    <3>2. CASE t # m + 1
      <4>1. PICK i \in 1..m : p[i] = t
        BY <1>3, <3>2
      <4>2. CASE i < k
        BY <1>4, <4>1, <4>2
      <4>3. CASE ~(i < k)
        <5>1. i + 1 \in 1..(m + 1) /\ i + 1 > k /\ (i + 1) - 1 = i
          BY <1>2, <4>3
        <5> QED
          BY <1>4, <4>1, <5>1
      <4> QED
        BY <4>2, <4>3
    <3> QED
      BY <3>1, <3>2
  <2> QED
    BY <2>1
<1>8. ASSUME NEW i \in 1..(m + 1), NEW j \in 1..(m + 1), i < j
      PROVE  <<q[i], q[j]>> \in R
  <2>1. \A x \in 1..m : p[x] \in 1..(m + 1)
    BY <1>3
  <2>2. CASE j < k
    <3>1. i \in 1..m /\ j \in 1..m /\ q[i] = p[i] /\ q[j] = p[j]
      BY <1>2, <1>4, <1>8, <2>2
    <3> QED
      BY <1>3, <1>8, <3>1
  <2>3. CASE j = k
    <3>1. i \in 1..m /\ q[i] = p[i] /\ q[j] = m + 1 /\ <<m + 1, p[i]>> \notin R
      BY <1>2, <1>4, <1>8, <2>3
    <3> QED
      BY <2>1, <3>1
  <2>4. CASE j > k
    <3>1. q[j] = p[j - 1] /\ j - 1 \in 1..m /\ k \in 1..m
      BY <1>2, <1>4, <2>4
    <3>2. CASE i < k
      <4>1. i \in 1..m /\ q[i] = p[i] /\ i < j - 1
        BY <1>2, <1>4, <1>8, <2>4, <3>2
      <4> QED
        BY <1>3, <3>1, <4>1
    <3>3. CASE i = k
      <4>1. q[i] = m + 1 /\ <<m + 1, p[k]>> \in R
        BY <1>2, <1>4, <3>1, <3>3
      <4>2. k = j - 1 \/ <<p[k], p[j - 1]>> \in R
        BY <1>2, <1>3, <2>4, <3>1
      <4>3. p[k] \in 1..(m + 1) /\ p[j - 1] \in 1..(m + 1) /\ m + 1 \in 1..(m + 1)
        BY <2>1, <3>1
      <4> QED
        BY <3>1, <4>1, <4>2, <4>3
    <3>4. CASE i > k
      <4>1. q[i] = p[i - 1] /\ i - 1 \in 1..m /\ i - 1 < j - 1
        BY <1>4, <1>8, <3>1, <3>4
      <4> QED
        BY <1>3, <3>1, <4>1
    <3> QED
      BY <1>2, <3>2, <3>3, <3>4
  <2> QED
    BY <1>2, <2>2, <2>3, <2>4
<1>9. DOMAIN q = 1..(m + 1)
  BY <1>5
<1>10. q \in Bijection(1..(m + 1), 1..(m + 1))
  BY <1>5, <1>6, <1>7, <1>9, Zenon DEF Bijection, Injection, Surjection, IsInjective
<1>11. q \in OrdersBy(m + 1, R)
  BY <1>8, <1>10 DEF OrdersBy
<1> QED
  BY <1>11

LEMMA OrderExists ==
  ASSUME NEW n \in Nat, NEW R,
         \A a, b \in 1..n : <<a, b>> \in R \/ <<b, a>> \in R,
         \A a, b, c \in 1..n : <<a, b>> \in R /\ <<b, c>> \in R => <<a, c>> \in R
  PROVE  OrdersBy(n, R) # {}
<1> DEFINE P == {m \in Nat : m <= n => OrdersBy(m, R) # {}}
<1>1. ASSUME NEW m \in Nat, \A l \in 0..(m - 1) : l \in P
      PROVE  m \in P
  <2>1. CASE m = 0
    <3> DEFINE e == [i \in 1..0 |-> i]
    <3>1. e \in OrdersBy(0, R)
      BY DEF OrdersBy, Bijection, Injection, Surjection, IsInjective
    <3> QED
      BY <2>1, <3>1
  <2>2. CASE m # 0 /\ m <= n
    <3> DEFINE l == m - 1
    <3>1. l \in Nat /\ l + 1 = m /\ l <= n /\ l \in 0..(m - 1)
      BY <2>2
    <3>2. PICK p : p \in OrdersBy(l, R)
      BY <1>1, <3>1
    <3>3. /\ \A a, b \in 1..(l + 1) : <<a, b>> \in R \/ <<b, a>> \in R
          /\ \A a, b, c \in 1..(l + 1) : <<a, b>> \in R /\ <<b, c>> \in R => <<a, c>> \in R
      BY <2>2, <3>1
    <3> HIDE DEF l
    <3>4. OrdersBy(l + 1, R) # {}
      BY <3>1, <3>2, <3>3, InsertInOrder
    <3> QED
      BY <3>1, <3>4
  <2>3. CASE ~(m <= n)
    BY <2>3
  <2> QED
    BY <2>1, <2>2, <2>3
<1> HIDE DEF P
<1>2. n \in P
  BY <1>1, NatInductionBySet
<1> QED
  BY <1>2 DEF P

-----------------------------------------------------------------------------
(* An arrangement of a sequence has the same items. *)
LEMMA ArrangedSeq ==
  ASSUME NEW S, NEW s \in Seq(S), NEW t \in Arrangements(s)
  PROVE  /\ t \in Seq(S) /\ DOMAIN t = DOMAIN s /\ Len(t) = Len(s) /\ ToSet(t) = ToSet(s)
         /\ \E p \in Bijection(DOMAIN s, DOMAIN s) : \A i \in DOMAIN s : t[i] = s[p[i]]
<1>1. PICK p \in Bijection(DOMAIN s, DOMAIN s) : t = [i \in DOMAIN s |-> s[p[i]]]
  BY DEF Arrangements
<1>2. p \in [DOMAIN s -> DOMAIN s] /\ \A j \in DOMAIN s : \E i \in DOMAIN s : p[i] = j
  BY <1>1, Zenon DEF Bijection, Injection, Surjection
<1>3. DOMAIN s = 1..Len(s) /\ Len(s) \in Nat /\ \A i \in 1..Len(s) : s[i] \in S
  BY LenProperties, ElementOfSeq
<1>4. t \in [1..Len(s) -> S]
  BY <1>1, <1>2, <1>3
<1>5. t \in Seq(S) /\ Len(t) = Len(s) /\ DOMAIN t = DOMAIN s
  BY <1>3, <1>4, SeqDef, LenProperties
<1>6. ToSet(t) = ToSet(s)
  BY <1>1, <1>2, <1>5, Zenon DEF ToSet
<1> QED
  BY <1>1, <1>5, <1>6

(* Digests that are numbers order the predicates. *)
LEMMA SortedIsArranged ==
  ASSUME NEW S, NEW s \in Seq(S),
         \A e \in ToSet(s) : Digest(e) \in Int /\ AggregateFilterShapeDigest(e) \in Int
  PROVE  /\ SortedPredicates(s) \in Arrangements(s)
         /\ \A i, j \in DOMAIN s : i < j => ~Precedes(SortedPredicates(s)[j], SortedPredicates(s)[i])
<1> DEFINE n == Len(s)
           R == {r \in (1..n) \X (1..n) : ~Precedes(s[r[2]], s[r[1]])}
<1>1. n \in Nat /\ DOMAIN s = 1..n
  BY LenProperties
<1>2. \A a \in 1..n : Digest(s[a]) \in Int /\ AggregateFilterShapeDigest(s[a]) \in Int
  BY <1>1 DEF ToSet
<1>3. \A a, b \in 1..n : <<a, b>> \in R <=> ~Precedes(s[b], s[a])
  OBVIOUS
<1> HIDE DEF R, n
<1>4. ASSUME NEW a \in 1..n, NEW b \in 1..n
      PROVE  <<a, b>> \in R \/ <<b, a>> \in R
  <2>1. ~Precedes(s[b], s[a]) \/ ~Precedes(s[a], s[b])
    BY <1>2 DEF Precedes
  <2> QED
    BY <1>3, <2>1
<1>5. ASSUME NEW a \in 1..n, NEW b \in 1..n, NEW c \in 1..n, <<a, b>> \in R, <<b, c>> \in R
      PROVE  <<a, c>> \in R
  <2>1. ~Precedes(s[b], s[a]) /\ ~Precedes(s[c], s[b])
    BY <1>3, <1>5
  <2>2. ~Precedes(s[c], s[a])
    BY <1>2, <2>1 DEF Precedes
  <2> QED
    BY <1>3, <2>2
<1>6. PICK p : p \in OrdersBy(n, R)
  BY <1>1, <1>4, <1>5, OrderExists
<1> DEFINE t == [i \in DOMAIN s |-> s[p[i]]]
<1>7. t \in Arrangements(s)
  BY <1>1, <1>6 DEF OrdersBy, Arrangements
<1>8. \A i, j \in DOMAIN t : i < j => ~Precedes(t[j], t[i])
  <2>1. p \in [1..n -> 1..n] /\ \A i, j \in 1..n : i < j => <<p[i], p[j]>> \in R
    BY <1>6 DEF OrdersBy, Bijection, Injection
  <2>2. ASSUME NEW i \in 1..n, NEW j \in 1..n, i < j
        PROVE  ~Precedes(t[j], t[i])
    <3>1. p[i] \in 1..n /\ p[j] \in 1..n /\ <<p[i], p[j]>> \in R
      BY <2>1, <2>2
    <3>2. ~Precedes(s[p[j]], s[p[i]])
      BY <1>3, <3>1
    <3> QED
      BY <1>1, <2>2, <3>2
  <2>3. DOMAIN t = 1..n
    BY <1>1
  <2> QED
    BY <2>2, <2>3, Zenon
<1> HIDE DEF t
<1>9. /\ SortedPredicates(s) \in Arrangements(s)
      /\ \A i, j \in DOMAIN SortedPredicates(s) :
           i < j => ~Precedes(SortedPredicates(s)[j], SortedPredicates(s)[i])
  BY <1>7, <1>8, Zenon DEF SortedPredicates
<1>10. DOMAIN SortedPredicates(s) = DOMAIN s
  BY <1>9, ArrangedSeq
<1> QED
  BY <1>9, <1>10

-----------------------------------------------------------------------------
(* Normalization. *)

(* What MySQL servers have in common, and where they differ. *)
LEMMA ServerRules ==
  ASSUME NEW sem \in MySQLSemantics
  PROVE  sem.schemas \in BOOLEAN /\ sem.objects \in BOOLEAN /\ sem.fields = TRUE
<1>1. CASE sem = CaseSensitive
  BY <1>1 DEF CaseSensitive
<1>2. CASE sem = CaseInsensitive
  BY <1>2 DEF CaseInsensitive
<1> QED
  BY <1>1, <1>2 DEF MySQLSemantics

(* The canonical form of a name is a name, and its own canonical form. *)
LEMMA CanonicalName ==
  ASSUME NEW id \in Identifiers, NEW insensitive \in BOOLEAN
  PROVE  /\ CanonicalIdentifier(id, insensitive) \in Identifiers
         /\ CanonicalIdentifier(CanonicalIdentifier(id, insensitive), insensitive)
              = CanonicalIdentifier(id, insensitive)
         /\ CanonicalIdentifier(CanonicalIdentifier(id, insensitive), TRUE)
              = CanonicalIdentifier(id, TRUE)
<1>2. <<id[1], "lower">> \in Identifiers
  BY DEF Identifiers
<1>3. CASE insensitive = TRUE
  BY <1>2, <1>3 DEF CanonicalIdentifier
<1>4. CASE insensitive = FALSE
  BY <1>2, <1>4 DEF CanonicalIdentifier
<1> QED
  BY <1>3, <1>4

(* Normalization, part by part. *)
LEMMA NormalizedParts ==
  ASSUME NEW q \in AllQueries, NEW sem \in MySQLSemantics
  PROVE  LET n == NormalizeIdentifiers(q, sem)
         IN  /\ n.mode = q.mode /\ n.limit = q.limit /\ n.groupBy = q.groupBy /\ n.name = q.name
             /\ n.schema = CanonicalIdentifier(q.schema, sem.schemas)
             /\ n.object = CanonicalIdentifier(q.object, sem.objects)
             /\ n.projection = CanonicalOutputs(q, CaseInsensitive)
             /\ n.filter = NormalizeAggregateFilter(q.filter, TRUE)
             /\ n.orderBy = CanonicalOrders(q, CaseInsensitive)
             /\ DOMAIN n = DOMAIN q
<1> DEFINE c == CanonicalSource(q, sem)
<1>1. sem.fields = TRUE /\ CaseInsensitive.fields = TRUE
  BY ServerRules DEF CaseInsensitive
<1>2. DOMAIN q = {"name", "mode", "schema", "object", "projection", "filter", "orderBy", "groupBy", "limit"}
  BY DEF AllQueries
<1>3. /\ DOMAIN c = DOMAIN q /\ c.mode = q.mode /\ c.limit = q.limit /\ c.groupBy = q.groupBy
      /\ c.name = q.name /\ c.filter = q.filter
      /\ c.schema = CanonicalIdentifier(q.schema, sem.schemas)
      /\ c.object = CanonicalIdentifier(q.object, sem.objects)
  BY <1>2 DEF CanonicalSource
<1>4. /\ CanonicalOutputs(q, sem) = CanonicalOutputs(q, CaseInsensitive)
      /\ CanonicalOrders(q, sem) = CanonicalOrders(q, CaseInsensitive)
  BY <1>1 DEF CanonicalOutputs, CanonicalOrders
<1> HIDE DEF c
<1>5. NormalizeIdentifiers(q, sem) =
        [c EXCEPT !.projection = CanonicalOutputs(q, CaseInsensitive),
                  !.filter = NormalizeAggregateFilter(c.filter, TRUE),
                  !.orderBy = CanonicalOrders(q, CaseInsensitive)]
  BY <1>1, <1>4 DEF NormalizeIdentifiers, c
<1> QED
  BY <1>2, <1>3, <1>5

\* The predicates of a filter, in the server's form, can be sorted.
Digestible(f) ==
  \A e \in Predicates(f) :
    LET c == [e EXCEPT !.field = CanonicalIdentifier(@, TRUE)]
    IN  Digest(c) \in Int /\ Digest(ShapeOf(c)) \in Int

(* The predicates of a normalized filter are those of the filter. *)
LEMMA NormalizedFilter ==
  ASSUME NEW f \in AllFilters, Digestible(f)
  PROVE  LET n == NormalizeAggregateFilter(f, TRUE)
             c == CanonicalPredicates(f, TRUE)
         IN  /\ n.kind = f.kind /\ n.operator = f.operator
             /\ DOMAIN n = DOMAIN f
             /\ n.expressions = SortedPredicates(c)
             /\ c \in Seq(AllPredicates) /\ Len(c) = Len(f.expressions)
             /\ n.expressions \in Arrangements(c)
             /\ ToSet(n.expressions) = {[e EXCEPT !.field = CanonicalIdentifier(@, TRUE)] : e \in Predicates(f)}
<1> DEFINE c == CanonicalPredicates(f, TRUE)
           canon(e) == [e EXCEPT !.field = CanonicalIdentifier(@, TRUE)]
           s == f.expressions
<1>1. /\ s \in Seq(AllPredicates) /\ Len(s) \in Nat /\ DOMAIN s = 1..Len(s)
      /\ \A i \in 1..Len(s) : s[i] \in AllPredicates
  BY LenProperties, ElementOfSeq DEF AllFilters
<1>2. c = [i \in 1..Len(s) |-> canon(s[i])]
  BY <1>1 DEF CanonicalPredicates
<1>3. ASSUME NEW e \in AllPredicates PROVE canon(e) \in AllPredicates
  <2>1. e.field \in Identifiers
    BY <1>3 DEF AllPredicates
  <2>2. CanonicalIdentifier(e.field, TRUE) \in Identifiers
    BY <2>1, CanonicalName
  <2> QED
    BY <1>3, <2>2 DEF AllPredicates
<1>4. c \in Seq(AllPredicates) /\ Len(c) = Len(s) /\ DOMAIN c = DOMAIN s
  <2>1. c \in [1..Len(s) -> AllPredicates]
    BY <1>1, <1>2, <1>3
  <2> HIDE DEF c
  <2> QED
    BY <1>1, <2>1, SeqDef, LenProperties
<1>5. ToSet(c) = {canon(e) : e \in Predicates(f)}
  <2>1. ToSet(c) = {canon(s[i]) : i \in 1..Len(s)}
    <3>1. DOMAIN c = 1..Len(s) /\ \A i \in 1..Len(s) : c[i] = canon(s[i])
      BY <1>1, <1>2, <1>4
    <3> HIDE DEF c
    <3> QED
      BY <3>1, Zenon DEF ToSet
  <2>2. Predicates(f) = {s[i] : i \in 1..Len(s)}
    BY <1>1 DEF ToSet, Predicates
  <2> QED
    BY <2>1, <2>2, Zenon
<1>6. \A e \in ToSet(c) : Digest(e) \in Int /\ AggregateFilterShapeDigest(e) \in Int
  BY <1>5 DEF Digestible, AggregateFilterShapeDigest
<1> HIDE DEF c
<1>7. SortedPredicates(c) \in Arrangements(c) /\ ToSet(SortedPredicates(c)) = ToSet(c)
  BY <1>4, <1>6, SortedIsArranged, ArrangedSeq
<1>8. NormalizeAggregateFilter(f, TRUE) = [f EXCEPT !.expressions = SortedPredicates(c)]
  BY DEF NormalizeAggregateFilter, c
<1>9. DOMAIN f = {"kind", "operator", "expressions"}
  BY DEF AllFilters
<1> QED
  BY <1>4, <1>5, <1>7, <1>8, <1>9 DEF c

-----------------------------------------------------------------------------
(* Publication, and what a client makes of it. *)

(* Publication sorts the predicates of a shape. *)
LEMMA PublishedShape ==
  ASSUME NEW s \in AllQueries, Digestible(s.filter), NEW sem \in MySQLSemantics
  PROVE  \E t \in Arrangements(s.filter.expressions) :
           PublicShape(s, sem) = [s EXCEPT !.filter = [s.filter EXCEPT !.expressions = t]]
<1> DEFINE e == s.filter.expressions
           n == Len(e)
           digest(p) == AggregateFilterShapeDigest([p EXCEPT !.field = CanonicalIdentifier(@, sem.fields)])
           R == {r \in (1..n) \X (1..n) : ~(digest(e[r[2]]) < digest(e[r[1]]))}
           Sorts(t) == \A i, j \in DOMAIN t : i < j => ~(digest(t[j]) < digest(t[i]))
<1>1. sem.fields = TRUE
  BY ServerRules
<1>2. e \in Seq(AllPredicates) /\ n \in Nat /\ DOMAIN e = 1..n
  BY LenProperties DEF AllQueries, AllFilters
<1>3. \A a \in 1..n : digest(e[a]) \in Int
  BY <1>1, <1>2 DEF Digestible, Predicates, ToSet, AggregateFilterShapeDigest
<1>4. \A a, b \in 1..n : <<a, b>> \in R <=> ~(digest(e[b]) < digest(e[a]))
  OBVIOUS
<1>5. /\ \A a, b \in 1..n : <<a, b>> \in R \/ <<b, a>> \in R
      /\ \A a, b, c \in 1..n : <<a, b>> \in R /\ <<b, c>> \in R => <<a, c>> \in R
  <2> HIDE DEF R, digest, n, e
  <2> QED
    BY <1>3, <1>4
<1>6. PICK p : p \in OrdersBy(n, R)
  <2> HIDE DEF R, n
  <2> QED
    BY <1>2, <1>5, OrderExists
<1> DEFINE t0 == [i \in DOMAIN e |-> e[p[i]]]
<1>7. t0 \in Arrangements(e)
  <2> HIDE DEF R, e
  <2> QED
    BY <1>2, <1>6 DEF OrdersBy, Arrangements
<1>8. Sorts(t0)
  <2> HIDE DEF R, e, digest, n
  <2>1. p \in [1..n -> 1..n] /\ \A i, j \in 1..n : i < j => <<p[i], p[j]>> \in R
    BY <1>6 DEF OrdersBy, Bijection, Injection
  <2>2. \A i, j \in 1..n : i < j => ~(digest(e[p[j]]) < digest(e[p[i]]))
    BY <1>4, <2>1
  <2> QED
    BY <1>2, <2>2
<1> DEFINE t == CHOOSE u \in Arrangements(e) : Sorts(u)
<1>9. t \in Arrangements(e)
  <2> HIDE DEF Sorts, t0, e
  <2> QED
    BY <1>7, <1>8
<1>10. PublicShape(s, sem) = [s EXCEPT !.filter = [s.filter EXCEPT !.expressions = t]]
  BY DEF PublicShape
<1> QED
  BY <1>9, <1>10

\* A query built from a shape, part by part.
IsInstance(q, s, sem, c, v, reversed, limit) ==
  LET e == s.filter.expressions
      at(i) == IF reversed THEN Len(e) + 1 - i ELSE i
  IN  /\ q.name = s.name /\ q.mode = s.mode /\ q.groupBy = s.groupBy /\ q.limit = limit
      /\ q.schema = Respelled(s.schema, c, sem.schemas)
      /\ q.object = Respelled(s.object, c, sem.objects)
      /\ q.projection = [i \in DOMAIN s.projection |-> OutputOf(s.projection[i], c, sem)]
      /\ q.orderBy = [i \in DOMAIN s.orderBy |-> OrderOf(s.orderBy[i], c, sem)]
      /\ q.filter = [s.filter EXCEPT !.expressions =
                       [i \in DOMAIN e |-> PredicateOf(e[at(i)], c, v[at(i)], sem)]]
      /\ DOMAIN q = DOMAIN s /\ q = [x \in DOMAIN q |-> q[x]]

(* A query that a client builds has the parts of the shape, respelled. *)
LEMMA InstanceParts ==
  ASSUME NEW s \in AllQueries, NEW sem, NEW c, NEW v, NEW reversed, NEW limit
  PROVE  IsInstance(InstanceQuery(s, sem, c, v, reversed, limit), s, sem, c, v, reversed, limit)
<1>1. DOMAIN s = {"name", "mode", "schema", "object", "projection", "filter", "orderBy", "groupBy", "limit"}
  BY DEF AllQueries
<1> DEFINE e == s.filter.expressions
           at(i) == IF reversed THEN Len(e) + 1 - i ELSE i
           P == [i \in DOMAIN s.projection |-> OutputOf(s.projection[i], c, sem)]
           O == [i \in DOMAIN s.orderBy |-> OrderOf(s.orderBy[i], c, sem)]
           F == [s.filter EXCEPT !.expressions = [i \in DOMAIN e |-> PredicateOf(e[at(i)], c, v[at(i)], sem)]]
           A == Respelled(s.schema, c, sem.schemas)
           B == Respelled(s.object, c, sem.objects)
<1>2. InstanceQuery(s, sem, c, v, reversed, limit) =
        [s EXCEPT !.schema = A, !.object = B, !.projection = P, !.filter = F, !.orderBy = O,
                  !.limit = limit]
  BY Zenon DEF InstanceQuery
<1> HIDE DEF A, B, P, O, F
<1>3. LET q == InstanceQuery(s, sem, c, v, reversed, limit)
      IN  /\ q.name = s.name /\ q.mode = s.mode /\ q.groupBy = s.groupBy /\ q.limit = limit
          /\ q.schema = A /\ q.object = B /\ q.projection = P /\ q.orderBy = O /\ q.filter = F
          /\ DOMAIN q = DOMAIN s /\ q = [x \in DOMAIN q |-> q[x]]
  BY <1>1, <1>2
<1> QED
  BY <1>3, Zenon DEF IsInstance, A, B, P, O, F

(* The predicates that are written can be sorted, with any values. *)
LEMMA WrittenIsDigestible ==
  ASSUME NEW e \in Written, e \in AllPredicates,
         NEW d \in {e.values} \cup {[j \in DOMAIN e.types |-> y] : y \in Values}, NEW x \in AllPredicates,
         CanonicalIdentifier(x.field, TRUE) = CanonicalIdentifier(e.field, TRUE),
         x = [e EXCEPT !.field = x.field, !.values = d]
  PROVE  LET c == [x EXCEPT !.field = CanonicalIdentifier(@, TRUE)]
         IN  Digest(c) \in Int /\ Digest(ShapeOf(c)) \in Int
<1> DEFINE c == [x EXCEPT !.field = CanonicalIdentifier(@, TRUE)]
           h(w) == [e EXCEPT !.field = CanonicalIdentifier(@, TRUE), !.values = w]
<1>1. DOMAIN e = {"field", "representation", "operator", "types", "values"} /\ DOMAIN x = DOMAIN e
  BY DEF AllPredicates
<1>2. c = h(d) /\ ShapeOf(c) = h(<<>>)
  BY <1>1 DEF ShapeOf
<1>3. h(d) \in Hashed /\ h(<<>>) \in Hashed
  <2>1. d \in {<<>>, e.values} \cup {[j \in DOMAIN e.types |-> y] : y \in Values}
    OBVIOUS
  <2> DEFINE forms(a) ==
               {[a EXCEPT !.field = CanonicalIdentifier(@, TRUE), !.values = w] :
                  w \in {<<>>, a.values} \cup {[j \in DOMAIN a.types |-> y] : y \in Values}}
  <2>2. h(d) \in forms(e) /\ h(<<>>) \in forms(e)
    BY <2>1, Zenon
  <2>3. Hashed = UNION {forms(a) : a \in Written}
    BY Zenon DEF Hashed
  <2> HIDE DEF forms
  <2> QED
    BY <2>2, <2>3
<1> QED
  BY <1>2, <1>3, DigestsAssumption

(* The filter of a shape, and of a request that is written, can be sorted. *)
LEMMA FilterIsDigestible ==
  ASSUME NEW f \in AllFilters, Predicates(f) \subseteq Written
  PROVE  Digestible(f)
<1> SUFFICES ASSUME NEW e \in Predicates(f)
             PROVE  LET c == [e EXCEPT !.field = CanonicalIdentifier(@, TRUE)]
                    IN  Digest(c) \in Int /\ Digest(ShapeOf(c)) \in Int
  BY DEF Digestible
<1>1. e \in AllPredicates /\ e \in Written
  BY ElementOfSeq DEF AllFilters, Predicates, ToSet
<1>2. e = [e EXCEPT !.field = e.field, !.values = e.values]
  BY <1>1 DEF AllPredicates
<1> QED
  BY <1>1, <1>2, WrittenIsDigestible, Zenon

(* A name that is respelled is the same name. *)
LEMMA RespelledName ==
  ASSUME NEW id \in Identifiers, NEW c \in Spellings, NEW insensitive \in BOOLEAN
  PROVE  /\ Respelled(id, c, insensitive) \in Identifiers
         /\ CanonicalIdentifier(Respelled(id, c, insensitive), insensitive)
              = CanonicalIdentifier(id, insensitive)
         /\ CanonicalIdentifier(Respelled(id, c, insensitive), TRUE) = CanonicalIdentifier(id, TRUE)
BY DEF Respelled, CanonicalIdentifier, Identifiers

\* What a client makes of a predicate of a shape.
IsInstancePredicate(x, e, v) ==
  LET d == [j \in DOMAIN e.types |-> v]
  IN  /\ x \in AllPredicates
      /\ x = [e EXCEPT !.field = x.field, !.values = d]
      /\ x.representation = e.representation /\ x.operator = e.operator /\ x.types = e.types
      /\ x.values = d
      /\ CanonicalIdentifier(x.field, TRUE) = CanonicalIdentifier(e.field, TRUE)

(* It is the predicate with its column respelled and with values. *)
LEMMA InstancePredicate ==
  ASSUME NEW e \in AllPredicates, NEW c \in Spellings, NEW v \in Values, NEW sem \in MySQLSemantics
  PROVE  IsInstancePredicate(PredicateOf(e, c, v, sem), e, v)
<1> DEFINE d == [j \in DOMAIN e.types |-> v]
           g == Respelled(e.field, c, sem.fields)
<1>1. /\ DOMAIN e = {"field", "representation", "operator", "types", "values"}
      /\ e.field \in Identifiers /\ e.types \in Seq(STRING)
  BY DEF AllPredicates
<1>2. d \in Seq(Values)
  <2>1. Len(e.types) \in Nat /\ d \in [1..Len(e.types) -> Values]
    BY <1>1, LenProperties
  <2> QED
    BY <2>1, SeqDef
<1>3. g \in Identifiers /\ CanonicalIdentifier(g, TRUE) = CanonicalIdentifier(e.field, TRUE)
  BY <1>1, RespelledName, ServerRules
<1>4. PredicateOf(e, c, v, sem) = [e EXCEPT !.field = g, !.values = d]
  BY Zenon DEF PredicateOf
<1> HIDE DEF g, d
<1> QED
  BY <1>1, <1>2, <1>3, <1>4 DEF IsInstancePredicate, AllPredicates, d

(* A shape that is published is a shape of the profile whose predicates have *)
(* been put in order.                                                        *)
LEMMA PublishedParts ==
  ASSUME NEW s \in AllQueries, Digestible(s.filter), NEW sem \in MySQLSemantics
  PROVE  LET p == PublicShape(s, sem)
         IN  /\ p \in AllQueries
             /\ p.name = s.name /\ p.mode = s.mode /\ p.schema = s.schema /\ p.object = s.object
             /\ p.projection = s.projection /\ p.orderBy = s.orderBy /\ p.groupBy = s.groupBy
             /\ p.limit = s.limit
             /\ p.filter.kind = s.filter.kind /\ p.filter.operator = s.filter.operator
             /\ p.filter.expressions \in Arrangements(s.filter.expressions)
             /\ p.filter.expressions \in Seq(AllPredicates)
             /\ Predicates(p.filter) = Predicates(s.filter)
<1>1. PICK t \in Arrangements(s.filter.expressions) :
        PublicShape(s, sem) = [s EXCEPT !.filter = [s.filter EXCEPT !.expressions = t]]
  BY PublishedShape
<1> DEFINE p == PublicShape(s, sem)
           f == [s.filter EXCEPT !.expressions = t]
<1>2. s.filter \in AllFilters /\ s.filter.expressions \in Seq(AllPredicates)
  BY DEF AllQueries, AllFilters
<1>3. t \in Seq(AllPredicates) /\ ToSet(t) = ToSet(s.filter.expressions)
  BY <1>2, ArrangedSeq
<1>4. f \in AllFilters /\ f.expressions = t /\ f.kind = s.filter.kind /\ f.operator = s.filter.operator
  BY <1>2, <1>3 DEF AllFilters
<1>5. p = [s EXCEPT !.filter = f]
  BY <1>1
<1> HIDE DEF p, f
<1>6. /\ p \in AllQueries /\ p.filter = f
      /\ p.name = s.name /\ p.mode = s.mode /\ p.schema = s.schema /\ p.object = s.object
      /\ p.projection = s.projection /\ p.orderBy = s.orderBy /\ p.groupBy = s.groupBy
      /\ p.limit = s.limit
  BY <1>4, <1>5 DEF AllQueries
<1> QED
  BY <1>3, <1>4, <1>6 DEF p, Predicates

(* A query that a client builds from a published shape is one the API takes, *)
(* and its filter can be sorted.                                             *)
LEMMA InstanceIsAQuery ==
  ASSUME NEW s \in AllQueries, Predicates(s.filter) \subseteq Written,
         NEW sem \in MySQLSemantics, NEW c \in Spellings,
         NEW v \in [DOMAIN s.filter.expressions -> Values], NEW reversed \in BOOLEAN,
         NEW limit \in Nat
  PROVE  LET q == InstanceQuery(s, sem, c, v, reversed, limit)
         IN  q \in AllQueries /\ Digestible(q.filter)
<1> DEFINE q == InstanceQuery(s, sem, c, v, reversed, limit)
           e == s.filter.expressions
           at(i) == IF reversed THEN Len(e) + 1 - i ELSE i
           x == [i \in DOMAIN e |-> PredicateOf(e[at(i)], c, v[at(i)], sem)]
           P == [i \in DOMAIN s.projection |-> OutputOf(s.projection[i], c, sem)]
           O == [i \in DOMAIN s.orderBy |-> OrderOf(s.orderBy[i], c, sem)]
           f == [s.filter EXCEPT !.expressions = x]
<1>1. /\ q.name = s.name /\ q.mode = s.mode /\ q.groupBy = s.groupBy /\ q.limit = limit
      /\ q.schema = Respelled(s.schema, c, sem.schemas)
      /\ q.object = Respelled(s.object, c, sem.objects)
      /\ q.projection = P /\ q.orderBy = O /\ q.filter = f
      /\ DOMAIN q = DOMAIN s /\ q = [y \in DOMAIN q |-> q[y]]
  <2>1. IsInstance(q, s, sem, c, v, reversed, limit)
    BY InstanceParts
  <2> HIDE DEF q
  <2> QED
    BY <2>1, Zenon DEF IsInstance
<1>2. /\ s.filter \in AllFilters /\ e \in Seq(AllPredicates) /\ Len(e) \in Nat /\ DOMAIN e = 1..Len(e)
      /\ s.projection \in Seq(AllOutputs) /\ s.orderBy \in Seq(AllOrders)
      /\ s.schema \in Identifiers /\ s.object \in Identifiers
      /\ s.name \in STRING /\ s.mode \in STRING /\ s.groupBy \in Seq(Identifiers)
  BY LenProperties DEF AllQueries, AllFilters
<1>3. \A i \in DOMAIN e : at(i) \in DOMAIN e /\ e[at(i)] \in AllPredicates /\ e[at(i)] \in Predicates(s.filter)
        /\ v[at(i)] \in Values
  <2>1. \A i \in 1..Len(e) : at(i) \in 1..Len(e)
    BY <1>2
  <2> QED
    BY <1>2, <2>1, ElementOfSeq DEF Predicates, ToSet
<1>4. x \in Seq(AllPredicates)
  <2>1. x \in [1..Len(e) -> AllPredicates]
    <3> HIDE DEF at, e
    <3> QED
      BY ZenonT(40), <1>2, <1>3, InstancePredicate DEF IsInstancePredicate
  <2> HIDE DEF x, e
  <2> QED
    BY <1>2, <2>1, SeqDef
<1>5. P \in Seq(AllOutputs)
  <2>1. ASSUME NEW o \in AllOutputs PROVE OutputOf(o, c, sem) \in AllOutputs
    <3>1. Respelled(o.field, c, sem.fields) \in Identifiers /\ Respelled(o.alias, c, TRUE) \in Identifiers
      BY <2>1, RespelledName, ServerRules DEF AllOutputs
    <3> QED
      BY <2>1, <3>1 DEF OutputOf, AllOutputs
  <2>2. P \in [1..Len(s.projection) -> AllOutputs] /\ Len(s.projection) \in Nat
    BY <1>2, <2>1, LenProperties, ElementOfSeq
  <2> QED
    BY <2>2, SeqDef
<1>6. O \in Seq(AllOrders)
  <2>1. ASSUME NEW o \in AllOrders PROVE OrderOf(o, c, sem) \in AllOrders
    <3>1. Respelled(o.field, c, sem.fields) \in Identifiers /\ Respelled(o.alias, c, TRUE) \in Identifiers
      BY <2>1, RespelledName, ServerRules DEF AllOrders
    <3> QED
      BY <2>1, <3>1 DEF OrderOf, AllOrders
  <2>2. O \in [1..Len(s.orderBy) -> AllOrders] /\ Len(s.orderBy) \in Nat
    BY <1>2, <2>1, LenProperties, ElementOfSeq
  <2> QED
    BY <2>2, SeqDef
<1> HIDE DEF P, O, x
<1>7. f \in AllFilters /\ f.expressions = x
  BY <1>2, <1>4 DEF AllFilters
<1>8. Respelled(s.schema, c, sem.schemas) \in Identifiers /\ Respelled(s.object, c, sem.objects) \in Identifiers
  BY <1>2, RespelledName, ServerRules
<1> HIDE DEF q, f
<1>9. q \in AllQueries
  <2>1. DOMAIN q = {"name", "mode", "schema", "object", "projection", "filter", "orderBy", "groupBy", "limit"}
    BY <1>1 DEF AllQueries
  <2> QED
    BY <1>1, <1>2, <1>5, <1>6, <1>7, <1>8, <2>1 DEF AllQueries
<1>10. Digestible(f)
  <2>1. ASSUME NEW i \in DOMAIN e
        PROVE  LET y == [x[i] EXCEPT !.field = CanonicalIdentifier(@, TRUE)]
               IN  Digest(y) \in Int /\ Digest(ShapeOf(y)) \in Int
    <3>1. e[at(i)] \in AllPredicates /\ e[at(i)] \in Written /\ v[at(i)] \in Values
      BY <1>3, <2>1
    <3>2. x[i] = PredicateOf(e[at(i)], c, v[at(i)], sem)
      BY <2>1 DEF x
    <3> DEFINE a == e[at(i)]
               w == v[at(i)]
               d == [j \in DOMAIN a.types |-> w]
    <3> HIDE DEF a, w
    <3>3. /\ x[i] \in AllPredicates /\ x[i] = [a EXCEPT !.field = x[i].field, !.values = d]
          /\ CanonicalIdentifier(x[i].field, TRUE) = CanonicalIdentifier(a.field, TRUE)
      <4>1. a \in AllPredicates /\ x[i] = PredicateOf(a, c, w, sem) /\ w \in Values
        BY <3>1, <3>2 DEF a, w
      <4>2. IsInstancePredicate(x[i], a, w)
        BY <4>1, InstancePredicate
      <4> QED
        BY <4>2, Zenon DEF IsInstancePredicate
    <3>4. d \in {a.values} \cup {[j \in DOMAIN a.types |-> y] : y \in Values}
      <4>1. w \in Values
        BY <3>1 DEF w
      <4> QED
        BY <4>1, Zenon
    <3> HIDE DEF d
    <3> QED
      <4>1. a \in Written /\ a \in AllPredicates
        BY <3>1 DEF a
      <4> QED
        BY <4>1, <3>3, <3>4, WrittenIsDigestible, Zenon
  <2>2. DOMAIN x = DOMAIN e
    BY DEF x
  <2>3. Predicates(f) = {x[i] : i \in DOMAIN e}
    BY <1>7, <2>2 DEF Predicates, ToSet
  <2> QED
    BY <2>1, <2>3, Zenon DEF Digestible
<1> QED
  BY <1>1, <1>9, <1>10 DEF q

-----------------------------------------------------------------------------
(* The check before the probe. *)

(* A filter that is normalized to none is none. *)
LEMMA NormalizedToNone ==
  ASSUME NEW f \in AllFilters, Digestible(f), NormalizeAggregateFilter(f, TRUE) = NoFilter
  PROVE  f = NoFilter
<1>0. NoFilter.kind = "none" /\ NoFilter.operator = "" /\ NoFilter.expressions = <<>>
  BY DEF NoFilter
<1>1. f.kind = "none" /\ f.operator = ""
  BY <1>0, NormalizedFilter
<1>2. f.expressions = <<>>
  <2> DEFINE c == CanonicalPredicates(f, TRUE)
  <2>1. /\ c \in Seq(AllPredicates) /\ Len(c) = Len(f.expressions)
        /\ NormalizeAggregateFilter(f, TRUE).expressions \in Arrangements(c)
    BY NormalizedFilter
  <2>2. NormalizeAggregateFilter(f, TRUE).expressions = <<>>
    BY <1>0
  <2>3. Len(<<>>) = Len(c)
    BY <2>1, <2>2, ArrangedSeq, ZenonT(30)
  <2>4. f.expressions \in Seq(AllPredicates) /\ Len(f.expressions) = 0
    BY <2>1, <2>3 DEF AllFilters
  <2> QED
    BY <2>4, EmptySeq
<1> QED
  BY <1>1, <1>2 DEF AllFilters, NoFilter

(* What a normalized query uses, the query uses as it was written. *)
LEMMA NormalizedFeatures ==
  ASSUME NEW q \in AllQueries, Digestible(q.filter), NEW sem \in MySQLSemantics, NEW policy,
         AuthorizeKeysetFeatures(policy, NormalizeIdentifiers(q, sem))
  PROVE  AuthorizeKeysetFeatures(policy, q)
<1> DEFINE n == NormalizeIdentifiers(q, sem)
           canon(e) == [e EXCEPT !.field = CanonicalIdentifier(@, TRUE)]
<1>1. q.filter \in AllFilters /\ q.projection \in Seq(AllOutputs) /\ q.orderBy \in Seq(AllOrders)
  BY DEF AllQueries
<1>2. Predicates(n.filter) = {canon(e) : e \in Predicates(q.filter)}
  BY <1>1, NormalizedParts, NormalizedFilter DEF Predicates
<1>3. \A e \in Predicates(q.filter) : canon(e).operator = e.operator /\ canon(e).representation = e.representation
  <2>1. \A e \in Predicates(q.filter) : e \in AllPredicates
    BY <1>1, ElementOfSeq DEF AllFilters, Predicates, ToSet
  <2> QED
    BY <2>1 DEF AllPredicates
<1>4. \A x \in Outputs(q) : \E y \in Outputs(n) : y.representation = x.representation
  <2>1. n.projection = CanonicalOutputs(q, CaseInsensitive)
    BY NormalizedParts
  <2>2. DOMAIN CanonicalOutputs(q, CaseInsensitive) = DOMAIN q.projection
    BY DEF CanonicalOutputs
  <2>3. ASSUME NEW i \in DOMAIN q.projection
        PROVE  CanonicalOutputs(q, CaseInsensitive)[i].representation = q.projection[i].representation
    <3>1. q.projection[i] \in AllOutputs
      BY <1>1, ElementOfSeq
    <3> QED
      BY <3>1 DEF CanonicalOutputs, AllOutputs
  <2> QED
    BY <2>1, <2>2, <2>3, Zenon DEF Outputs, ToSet
<1>5. \A x \in Orders(q) : \E y \in Orders(n) : y.representation = x.representation
  <2>1. n.orderBy = CanonicalOrders(q, CaseInsensitive)
    BY NormalizedParts
  <2>2. DOMAIN CanonicalOrders(q, CaseInsensitive) = DOMAIN q.orderBy
    BY DEF CanonicalOrders
  <2>3. ASSUME NEW i \in DOMAIN q.orderBy
        PROVE  CanonicalOrders(q, CaseInsensitive)[i].representation = q.orderBy[i].representation
    <3>1. q.orderBy[i] \in AllOrders
      BY <1>1, ElementOfSeq
    <3> QED
      BY <3>1 DEF CanonicalOrders, AllOrders
  <2> QED
    BY <2>1, <2>2, <2>3, Zenon DEF Orders, ToSet
<1>6. n.filter = NormalizeAggregateFilter(q.filter, TRUE)
  BY NormalizedParts
<1> HIDE DEF n
<1>7. UsesSourceText(q) => UsesSourceText(n)
  <2>1. ASSUME NEW x \in Predicates(q.filter)
        PROVE  \E y \in Predicates(n.filter) : y.representation = x.representation
    BY <1>2, <1>3
  <2> HIDE DEF canon
  <2> QED
    BY <1>4, <1>5, <2>1, Zenon DEF UsesSourceText
<1>8. {e.operator : e \in Predicates(n.filter)} = {e.operator : e \in Predicates(q.filter)}
  <2> HIDE DEF canon
  <2> QED
    BY <1>2, <1>3
<1>9. n.filter = NoFilter => q.filter = NoFilter
  BY <1>1, <1>6, NormalizedToNone
<1>10. /\ UsesSourceText(n) => policy.sourceText
       /\ policy.sorting /\ FilterAllowed(policy, n)
  BY DEF AuthorizeKeysetFeatures, n
<1> QED
  BY <1>7, <1>8, <1>9, <1>10, Zenon DEF AuthorizeKeysetFeatures, FilterAllowed

(* A request that has the signature of a shape under the rules of some server *)
(* has it under those of a server that tells no spellings apart.              *)
LEMMA SignatureIsLifted ==
  ASSUME NEW s \in AllQueries, NEW q \in AllQueries, NEW sem \in MySQLSemantics,
         ConfiguredKeysetSignatureEqual(s, q, sem)
  PROVE  ConfiguredKeysetSignatureEqual(s, q, CaseInsensitive)
<1> DEFINE n == NormalizeIdentifiers(q, sem)
           m == NormalizeIdentifiers(q, CaseInsensitive)
<1>1. /\ sem.schemas \in BOOLEAN /\ sem.objects \in BOOLEAN /\ sem.fields = TRUE
      /\ CaseInsensitive \in MySQLSemantics /\ CaseInsensitive.fields = TRUE
      /\ CaseInsensitive.schemas = TRUE /\ CaseInsensitive.objects = TRUE
  BY ServerRules DEF CaseInsensitive, MySQLSemantics
<1>2. /\ m.mode = n.mode /\ m.projection = n.projection /\ m.filter = n.filter /\ m.orderBy = n.orderBy
      /\ n.schema = CanonicalIdentifier(q.schema, sem.schemas)
      /\ n.object = CanonicalIdentifier(q.object, sem.objects)
      /\ m.schema = CanonicalIdentifier(q.schema, TRUE)
      /\ m.object = CanonicalIdentifier(q.object, TRUE)
      /\ DOMAIN n = DOMAIN q /\ DOMAIN m = DOMAIN q
  BY <1>1, NormalizedParts, ZenonT(30)
<1>3. {"mode", "schema", "object"} \subseteq DOMAIN q /\ {"mode", "schema", "object"} \subseteq DOMAIN s
      /\ q.schema \in Identifiers /\ q.object \in Identifiers
      /\ s.schema \in Identifiers /\ s.object \in Identifiers
  BY DEF AllQueries
<1> HIDE DEF n, m
<1>4. ASSUME NEW x, {"mode", "schema", "object"} \subseteq DOMAIN x, NEW rules
      PROVE  /\ CanonicalSource(x, rules).mode = x.mode
             /\ CanonicalSource(x, rules).schema = CanonicalIdentifier(x.schema, rules.schemas)
             /\ CanonicalSource(x, rules).object = CanonicalIdentifier(x.object, rules.objects)
  BY <1>4 DEF CanonicalSource
<1>5. /\ CanonicalOutputs(m, CaseInsensitive) = CanonicalOutputs(n, sem)
      /\ CanonicalOrders(m, CaseInsensitive) = CanonicalOrders(n, sem)
      /\ CanonicalOutputs(s, CaseInsensitive) = CanonicalOutputs(s, sem)
      /\ CanonicalOrders(s, CaseInsensitive) = CanonicalOrders(s, sem)
  BY <1>1, <1>2 DEF CanonicalOutputs, CanonicalOrders
<1> DEFINE A == OutputSignature(CanonicalOutputs(s, sem))
           B == ConfiguredAggregateShapeFilter(s.filter, TRUE)
           C == CanonicalOrders(s, sem)
           A2 == OutputSignature(CanonicalOutputs(n, sem))
           B2 == QueryKeysetShapeFilter(n.filter, TRUE)
           C2 == CanonicalOrders(n, sem)
<1>6. ConfiguredShapeSignature(s, sem) =
        [mode |-> s.mode, schema |-> CanonicalIdentifier(s.schema, sem.schemas),
         object |-> CanonicalIdentifier(s.object, sem.objects),
         projection |-> A, filter |-> B, orderBy |-> C]
  BY <1>1, <1>3, <1>4, Zenon DEF ConfiguredShapeSignature, SignatureOf
<1>7. ConfiguredShapeSignature(s, CaseInsensitive) =
        [mode |-> s.mode, schema |-> CanonicalIdentifier(s.schema, TRUE),
         object |-> CanonicalIdentifier(s.object, TRUE),
         projection |-> A, filter |-> B, orderBy |-> C]
  BY <1>1, <1>3, <1>4, <1>5, Zenon DEF ConfiguredShapeSignature, SignatureOf
<1>8. RequestKeysetSignature(n, sem) =
        [mode |-> n.mode, schema |-> CanonicalIdentifier(n.schema, sem.schemas),
         object |-> CanonicalIdentifier(n.object, sem.objects),
         projection |-> A2, filter |-> B2, orderBy |-> C2]
  BY <1>1, <1>2, <1>3, <1>4, Zenon DEF RequestKeysetSignature, SignatureOf
<1>9. RequestKeysetSignature(m, CaseInsensitive) =
        [mode |-> m.mode, schema |-> CanonicalIdentifier(m.schema, TRUE),
         object |-> CanonicalIdentifier(m.object, TRUE),
         projection |-> A2, filter |-> B2, orderBy |-> C2]
  BY <1>1, <1>2, <1>3, <1>4, <1>5, ZenonT(30) DEF RequestKeysetSignature, SignatureOf
<1>10. ConfiguredShapeSignature(s, sem) = RequestKeysetSignature(n, sem)
  BY DEF ConfiguredKeysetSignatureEqual, n
<1> HIDE DEF A, B, C, A2, B2, C2
<1>11. /\ s.mode = n.mode /\ A = A2 /\ B = B2 /\ C = C2
       /\ CanonicalIdentifier(s.schema, sem.schemas) = CanonicalIdentifier(n.schema, sem.schemas)
       /\ CanonicalIdentifier(s.object, sem.objects) = CanonicalIdentifier(n.object, sem.objects)
  BY <1>6, <1>8, <1>10
<1>12. ASSUME NEW a \in Identifiers, NEW b \in Identifiers, NEW insensitive \in BOOLEAN,
              CanonicalIdentifier(a, insensitive)
                = CanonicalIdentifier(CanonicalIdentifier(b, insensitive), insensitive)
       PROVE  CanonicalIdentifier(a, TRUE) = CanonicalIdentifier(CanonicalIdentifier(b, TRUE), TRUE)
  BY <1>12 DEF CanonicalIdentifier
<1>13. /\ CanonicalIdentifier(s.schema, TRUE) = CanonicalIdentifier(m.schema, TRUE)
       /\ CanonicalIdentifier(s.object, TRUE) = CanonicalIdentifier(m.object, TRUE)
  <2>1. CanonicalIdentifier(s.schema, TRUE) = CanonicalIdentifier(CanonicalIdentifier(q.schema, TRUE), TRUE)
    <3>1. CanonicalIdentifier(s.schema, sem.schemas)
            = CanonicalIdentifier(CanonicalIdentifier(q.schema, sem.schemas), sem.schemas)
      BY <1>2, <1>11
    <3> QED
      BY <1>1, <1>3, <1>12, <3>1
  <2>2. CanonicalIdentifier(s.object, TRUE) = CanonicalIdentifier(CanonicalIdentifier(q.object, TRUE), TRUE)
    <3>1. CanonicalIdentifier(s.object, sem.objects)
            = CanonicalIdentifier(CanonicalIdentifier(q.object, sem.objects), sem.objects)
      BY <1>2, <1>11
    <3> QED
      BY <1>1, <1>3, <1>12, <3>1
  <2> QED
    BY <1>2, <2>1, <2>2
<1>14. ConfiguredShapeSignature(s, CaseInsensitive) = RequestKeysetSignature(m, CaseInsensitive)
  BY <1>2, <1>7, <1>9, <1>11, <1>13
<1>15. ShapeFilterIsDistinct(s.filter, CaseInsensitive.fields)
  BY <1>1 DEF ConfiguredKeysetSignatureEqual
<1> QED
  BY <1>14, <1>15 DEF ConfiguredKeysetSignatureEqual, m

(* What the authorization grants under the rules of some server passes the *)
(* check that is made before any server is asked.                          *)
LEMMA GrantedPassesPrecheck ==
  ASSUME NEW p, p.shapes \subseteq AllQueries, NEW r, r.query \in AllQueries,
         Digestible(r.query.filter), NEW sem \in MySQLSemantics,
         AuthorizeKeysetSelect(p, r, sem) = "granted"
  PROVE  PrecheckKeysetSelect(p, r)
<1> DEFINE q == r.query
           n == NormalizeIdentifiers(q, sem)
<1>1. PICK s \in MatchKeysetShape(p, r.shape, q, sem) : n.limit <= s.limit
  BY KeysetGranted
<1>2. s \in FindKeysetShape(p, r.shape) /\ s \in AllQueries /\ ConfiguredKeysetSignatureEqual(s, q, sem)
  BY <1>1 DEF MatchKeysetShape, FindKeysetShape
<1>3. ConfiguredKeysetSignatureEqual(s, q, CaseInsensitive)
  BY <1>2, SignatureIsLifted
<1>4. KeysetNormalizes(q, CaseInsensitive)
  <2>1. KeysetNormalizes(q, sem)
    BY KeysetGranted
  <2>2. sem.fields = CaseInsensitive.fields
    BY ServerRules DEF CaseInsensitive
  <2>3. /\ CanonicalOutputs(q, sem) = CanonicalOutputs(q, CaseInsensitive)
        /\ CanonicalOrders(q, sem) = CanonicalOrders(q, CaseInsensitive)
    BY <2>2 DEF CanonicalOutputs, CanonicalOrders
  <2> QED
    BY <2>1, <2>2, <2>3 DEF KeysetNormalizes
<1>5. q.limit <= s.limit
  BY <1>1, NormalizedParts
<1>6. AuthorizeKeysetFeatures(p.query, q)
  BY KeysetGranted, NormalizedFeatures
<1> QED
  BY <1>2, <1>3, <1>4, <1>5, <1>6 DEF PrecheckKeysetSelect, PotentialKeysetShapeMatch

-----------------------------------------------------------------------------
(* What is read. *)

Operations ==
  {"select", "explain_select", "aggregate", "select_keyset",
   "list_objects", "describe_object", "describe_object_statistics"}

\* Every part of what is read is permitted by the rules for it.
ReadIsPermitted(p, read, sem) ==
  LET rules == <<p.schemas, p.objects, p.fields>>
  IN  \A depth \in 1..Len(read) : Permits(rules[depth], SubSeq(read, 1, depth), sem)

\* The rules of the profile have patterns of the lengths that they need.
WellFormed(p) ==
  /\ \A rules \in {p.schemas, p.objects, p.fields} :
       rules.allow \cup rules.deny \subseteq Seq(STRING \X STRING)
  /\ ValidatePatterns(p.schemas, 1) /\ ValidatePatterns(p.objects, 2)
  /\ ValidatePatterns(p.fields, 3)

(* The beginnings of a name. *)
LEMMA Beginnings ==
  ASSUME NEW x, NEW y, NEW z
  PROVE  /\ SubSeq(<<x, y>>, 1, 1) = <<x>> /\ SubSeq(<<x, y>>, 1, 2) = <<x, y>>
         /\ SubSeq(<<x, y, z>>, 1, 1) = <<x>> /\ SubSeq(<<x, y, z>>, 1, 2) = <<x, y>>
         /\ SubSeq(<<x, y, z>>, 1, 3) = <<x, y, z>>
         /\ Len(<<x>>) = 1 /\ Len(<<x, y>>) = 2 /\ Len(<<x, y, z>>) = 3
         /\ DOMAIN <<x>> = 1..1 /\ DOMAIN <<x, y>> = 1..2 /\ DOMAIN <<x, y, z>> = 1..3
<1> DEFINE S == {x, y, z}
<1>1. /\ <<x>> \in Seq(S) /\ <<x, y>> \in Seq(S) /\ <<x, y, z>> \in Seq(S)
      /\ Len(<<x>>) = 1 /\ Len(<<x, y>>) = 2 /\ Len(<<x, y, z>>) = 3
      /\ DOMAIN <<x>> = 1..1 /\ DOMAIN <<x, y>> = 1..2 /\ DOMAIN <<x, y, z>> = 1..3
  OBVIOUS
<1> HIDE DEF S
<1>2. ASSUME NEW s \in Seq(S), NEW t \in Seq(S), NEW d \in Nat, d <= Len(s), Len(t) = d, d > 0,
             \A i \in 1..d : t[i] = s[i]
      PROVE  SubSeq(s, 1, d) = t
  <2>1. Len(s) \in Nat /\ \A i \in 1..d : s[i] \in S
    BY <1>2, LenProperties, ElementOfSeq
  <2>2. /\ SubSeq(s, 1, d) \in Seq(S)
        /\ Len(SubSeq(s, 1, d)) = IF 1 <= d THEN d - 1 + 1 ELSE 0
        /\ \A i \in 1..(d - 1 + 1) : SubSeq(s, 1, d)[i] = s[1 + i - 1]
    BY <2>1, SubSeqProperties
  <2>3. Len(SubSeq(s, 1, d)) = d /\ \A i \in 1..d : SubSeq(s, 1, d)[i] = s[i]
    BY <1>2, <2>2
  <2> QED
    BY <1>2, <2>2, <2>3, SeqEqual
<1>3. SubSeq(<<x, y>>, 1, 1) = <<x>> /\ SubSeq(<<x, y>>, 1, 2) = <<x, y>>
  <2>1. \A i \in 1..1 : <<x>>[i] = <<x, y>>[i]
    OBVIOUS
  <2>2. 1 \in Nat /\ 2 \in Nat /\ 1 <= 2 /\ 2 <= 2 /\ 1 > 0 /\ 2 > 0
    OBVIOUS
  <2>3. SubSeq(<<x, y>>, 1, 1) = <<x>>
    BY <1>1, <1>2, <2>1, <2>2
  <2>4. SubSeq(<<x, y>>, 1, 2) = <<x, y>>
    BY <1>1, <1>2, <2>2
  <2> QED
    BY <2>3, <2>4
<1>4. /\ SubSeq(<<x, y, z>>, 1, 1) = <<x>> /\ SubSeq(<<x, y, z>>, 1, 2) = <<x, y>>
      /\ SubSeq(<<x, y, z>>, 1, 3) = <<x, y, z>>
  <2>1. \A i \in 1..1 : <<x>>[i] = <<x, y, z>>[i]
    OBVIOUS
  <2>2. \A i \in 1..2 : <<x, y>>[i] = <<x, y, z>>[i]
    <3>1. \A i \in 1..2 : i = 1 \/ i = 2
      OBVIOUS
    <3> QED
      BY <3>1
  <2>3. /\ 1 \in Nat /\ 2 \in Nat /\ 3 \in Nat /\ 1 <= 3 /\ 2 <= 3 /\ 3 <= 3
        /\ 1 > 0 /\ 2 > 0 /\ 3 > 0
    OBVIOUS
  <2>4. SubSeq(<<x, y, z>>, 1, 1) = <<x>>
    BY <1>1, <1>2, <2>1, <2>3, Zenon
  <2>5. SubSeq(<<x, y, z>>, 1, 2) = <<x, y>>
    BY <1>1, <1>2, <2>2, <2>3, Zenon
  <2>6. SubSeq(<<x, y, z>>, 1, 3) = <<x, y, z>>
    BY <1>1, <1>2, <2>3, Zenon
  <2> QED
    BY <2>4, <2>5, <2>6
<1> QED
  BY <1>1, <1>3, <1>4

(* A table, and a column of it, that the policy allows. *)
LEMMA AllowedRead ==
  ASSUME NEW p, WellFormed(p), NEW sem \in MySQLSemantics, NEW schema, NEW object,
         Allowed(p.schemas, <<schema>>, sem), Allowed(p.objects, <<schema, object>>, sem)
  PROVE  /\ ReadIsPermitted(p, <<schema, object>>, sem)
         /\ \A field : Allowed(p.fields, <<schema, object, field>>, sem) =>
                         ReadIsPermitted(p, <<schema, object, field>>, sem)
<1>1. Permits(p.schemas, <<schema>>, sem)
  BY Beginnings, AllowedIsPermitted DEF WellFormed
<1>2. Permits(p.objects, <<schema, object>>, sem)
  BY Beginnings, AllowedIsPermitted DEF WellFormed
<1>3. ReadIsPermitted(p, <<schema, object>>, sem)
  <2>1. Len(<<schema, object>>) = 2 /\ \A d \in 1..2 : d = 1 \/ d = 2
    OBVIOUS
  <2>2. /\ Permits(p.schemas, SubSeq(<<schema, object>>, 1, 1), sem)
        /\ Permits(p.objects, SubSeq(<<schema, object>>, 1, 2), sem)
    BY <1>1, <1>2, Beginnings
  <2>3. ASSUME NEW d \in 1..2
        PROVE  Permits(<<p.schemas, p.objects, p.fields>>[d], SubSeq(<<schema, object>>, 1, d), sem)
    BY <2>1, <2>2
  <2> QED
    BY <2>1, <2>3 DEF ReadIsPermitted
<1>4. ASSUME NEW field, Allowed(p.fields, <<schema, object, field>>, sem)
      PROVE  ReadIsPermitted(p, <<schema, object, field>>, sem)
  <2> DEFINE read == <<schema, object, field>>
  <2>1. Permits(p.fields, read, sem)
    BY <1>4, Beginnings, AllowedIsPermitted DEF WellFormed
  <2>2. Len(read) = 3 /\ \A d \in 1..3 : d = 1 \/ d = 2 \/ d = 3
    OBVIOUS
  <2>3. /\ Permits(p.schemas, SubSeq(read, 1, 1), sem)
        /\ Permits(p.objects, SubSeq(read, 1, 2), sem)
        /\ Permits(p.fields, SubSeq(read, 1, 3), sem)
    BY <1>1, <1>2, <2>1, Beginnings
  <2>4. ASSUME NEW d \in 1..3
        PROVE  Permits(<<p.schemas, p.objects, p.fields>>[d], SubSeq(read, 1, d), sem)
    BY <2>2, <2>3
  <2> QED
    BY <2>2, <2>4 DEF ReadIsPermitted
<1> QED
  BY <1>3, <1>4

(* Names of the same canonical form match the same patterns. *)
LEMMA SameCanonicalName ==
  ASSUME NEW sem, NEW rules, rules.allow \cup rules.deny \subseteq Seq(STRING \X STRING),
         NEW d \in Nat, NEW x, NEW y, Len(x) = d, Len(y) = d,
         \A i \in 1..d :
           LET insensitive == <<sem.schemas, sem.objects, sem.fields>>[i]
           IN  CanonicalIdentifier(x[i], insensitive) = CanonicalIdentifier(y[i], insensitive),
         Allowed(rules, x, sem)
  PROVE  Allowed(rules, y, sem)
<1>1. ASSUME NEW pattern \in Seq(STRING \X STRING)
      PROVE  Match(pattern, x, sem) <=> Match(pattern, y, sem)
  <2>1. DOMAIN pattern = 1..Len(pattern)
    BY LenProperties
  <2> QED
    BY <2>1, Zenon DEF Match
<1>2. \A pattern \in rules.allow \cup rules.deny : Match(pattern, x, sem) <=> Match(pattern, y, sem)
  BY <1>1
<1> QED
  BY <1>2 DEF Allowed

(* The resource of a query is allowed in the form in which it is sent. *)
LEMMA CanonicalAllowed ==
  ASSUME NEW p, WellFormed(p), NEW q, NEW sem \in MySQLSemantics, ResourceAllowed(p, q, sem)
  PROVE  /\ Allowed(p.schemas, <<CanonicalIdentifier(q.schema, sem.schemas)>>, sem)
         /\ Allowed(p.objects, <<CanonicalIdentifier(q.schema, sem.schemas),
                                  CanonicalIdentifier(q.object, sem.objects)>>, sem)
<1>1. sem.schemas \in BOOLEAN /\ sem.objects \in BOOLEAN
  <2>1. CASE sem = CaseSensitive
    BY <2>1 DEF CaseSensitive
  <2>2. CASE sem = CaseInsensitive
    BY <2>2 DEF CaseInsensitive
  <2> QED
    BY <2>1, <2>2 DEF MySQLSemantics
<1> DEFINE a == CanonicalIdentifier(q.schema, sem.schemas)
           b == CanonicalIdentifier(q.object, sem.objects)
<1>2. /\ CanonicalIdentifier(a, sem.schemas) = CanonicalIdentifier(q.schema, sem.schemas)
      /\ CanonicalIdentifier(b, sem.objects) = CanonicalIdentifier(q.object, sem.objects)
  BY <1>1 DEF CanonicalIdentifier
<1> HIDE DEF a, b
<1>3. /\ p.schemas.allow \cup p.schemas.deny \subseteq Seq(STRING \X STRING)
      /\ p.objects.allow \cup p.objects.deny \subseteq Seq(STRING \X STRING)
  BY DEF WellFormed
<1>4. Allowed(p.schemas, <<a>>, sem)
  <2>1. Allowed(p.schemas, <<q.schema>>, sem)
    BY DEF ResourceAllowed
  <2>2. \A i \in 1..1 :
          LET insensitive == <<sem.schemas, sem.objects, sem.fields>>[i]
          IN  CanonicalIdentifier(<<q.schema>>[i], insensitive)
                = CanonicalIdentifier(<<a>>[i], insensitive)
    BY <1>2
  <2>3. 1 \in Nat /\ Len(<<q.schema>>) = 1 /\ Len(<<a>>) = 1
    OBVIOUS
  <2> QED
    BY <1>3, <2>1, <2>2, <2>3, SameCanonicalName, Zenon
<1>5. Allowed(p.objects, <<a, b>>, sem)
  <2>1. Allowed(p.objects, <<q.schema, q.object>>, sem)
    BY DEF ResourceAllowed
  <2>2. \A i \in 1..2 :
          LET insensitive == <<sem.schemas, sem.objects, sem.fields>>[i]
          IN  CanonicalIdentifier(<<q.schema, q.object>>[i], insensitive)
                = CanonicalIdentifier(<<a, b>>[i], insensitive)
    <3>1. \A i \in 1..2 : i = 1 \/ i = 2
      OBVIOUS
    <3> QED
      BY <1>2, <3>1
  <2>3. 2 \in Nat /\ Len(<<q.schema, q.object>>) = 2 /\ Len(<<a, b>>) = 2
    OBVIOUS
  <2> QED
    BY <1>3, <2>1, <2>2, <2>3, SameCanonicalName, Zenon
<1> QED
  BY <1>4, <1>5 DEF a, b

(* Whatever an operation reads once it is granted is permitted, as the server *)
(* that was probed compares names.                                            *)
LEMMA GrantedReadsArePermitted ==
  ASSUME NEW p, WellFormed(p), seen \in MySQLSemantics, NEW r, r.operation \in Operations,
         r.query \in AllQueries,
         AuthorizeRequest(p, r, seen) = "granted"
  PROVE  \A read \in Reads(p, r) : ReadIsPermitted(p, read, seen)
<1>1. ASSUME NEW q, ResourceAllowed(p, q, seen), FieldsAllowed(p, q, seen)
      PROVE  \A read \in {<<q.schema, q.object>>}
                           \cup {<<q.schema, q.object, f>> : f \in ReferencedFields(q)} :
               ReadIsPermitted(p, read, seen)
  <2>1. /\ Allowed(p.schemas, <<q.schema>>, seen)
        /\ Allowed(p.objects, <<q.schema, q.object>>, seen)
    BY <1>1 DEF ResourceAllowed
  <2>2. \A f \in ReferencedFields(q) : Allowed(p.fields, <<q.schema, q.object, f>>, seen)
    BY <1>1 DEF FieldsAllowed, FieldAllowed
  <2> QED
    BY <2>1, <2>2, AllowedRead, Zenon
<1>2. CASE r.operation = "select_keyset"
  <2>1. AuthorizeKeysetSelect(p, r, seen) = "granted"
    BY <1>2 DEF AuthorizeRequest
  <2> DEFINE q == NormalizeIdentifiers(r.query, seen)
  <2>2. Reads(p, r) = {<<q.schema, q.object>>}
                        \cup {<<q.schema, q.object, f>> : f \in ReferencedFields(q)}
    BY <1>2 DEF Reads
  <2>3. ResourceAllowed(p, q, seen) /\ FieldsAllowed(p, q, seen)
    BY <2>1, KeysetGranted
  <2> QED
    BY <1>1, <2>2, <2>3, Zenon
<1>3. CASE r.operation = "aggregate"
  <2>1. AuthorizeAggregate(p, r, seen) = "granted"
    BY <1>3 DEF AuthorizeRequest
  <2> DEFINE q == NormalizeIdentifiers(r.query, seen)
  <2>2. Reads(p, r) = {<<q.schema, q.object>>}
                        \cup {<<q.schema, q.object, f>> : f \in ReferencedFields(q)}
    BY <1>3 DEF Reads
  <2>3. ResourceAllowed(p, q, seen) /\ FieldsAllowed(p, q, seen)
    BY <2>1, AggregateGranted
  <2> QED
    BY <1>1, <2>2, <2>3, Zenon
<1>4. CASE r.operation \in {"select", "explain_select"}
  <2>1. AuthorizeQuery(p, r, seen) = "granted"
    BY <1>4 DEF AuthorizeRequest
  <2> DEFINE q == r.query
  <2>2. Reads(p, r) = {<<q.schema, q.object>>}
                        \cup {<<q.schema, q.object, f>> : f \in ReferencedFields(q)}
    BY <1>4 DEF Reads
  <2>3. ResourceAllowed(p, q, seen) /\ FieldsAllowed(p, q, seen)
    BY <2>1, QueryGranted
  <2> QED
    BY <1>1, <2>2, <2>3, Zenon
<1>5. ASSUME r.operation \in {"list_objects", "describe_object", "describe_object_statistics"}
      PROVE  /\ Allowed(p.schemas, <<r.query.schema>>, seen)
             /\ r.operation # "list_objects" => ResourceAllowed(p, r.query, seen)
  BY <1>5, SchemaGranted DEF AuthorizeRequest
<1>6. CASE r.operation = "list_objects"
  <2> DEFINE q == r.query
             listed == {o \in Objects : Allowed(p.objects, <<q.schema, o>>, seen)}
  <2>1. Reads(p, r) = {<<q.schema, o>> : o \in listed}
    BY <1>6 DEF Reads
  <2>2. ASSUME NEW o \in listed
        PROVE  ReadIsPermitted(p, <<q.schema, o>>, seen)
    BY <1>5, <1>6, <2>2, AllowedRead
  <2> QED
    BY <2>1, <2>2, Zenon
<1>7. CASE r.operation = "describe_object"
  <2> DEFINE q == r.query
             described == {c \in Columns : FieldAllowed(p, q, c, seen)}
  <2>1. Reads(p, r) = {<<q.schema, q.object, c>> : c \in described}
    BY <1>7 DEF Reads
  <2>2. /\ Allowed(p.schemas, <<q.schema>>, seen)
        /\ Allowed(p.objects, <<q.schema, q.object>>, seen)
    BY <1>5, <1>7 DEF ResourceAllowed
  <2>3. ASSUME NEW c \in described
        PROVE  ReadIsPermitted(p, <<q.schema, q.object, c>>, seen)
    <3>1. Allowed(p.fields, <<q.schema, q.object, c>>, seen)
      BY <2>3 DEF FieldAllowed
    <3> QED
      BY <2>2, <3>1, AllowedRead, Zenon
  <2> QED
    BY <2>1, <2>3, Zenon
<1>8. CASE r.operation = "describe_object_statistics"
  <2> DEFINE q == NormalizeIdentifiers(r.query, seen)
  <2>1. Reads(p, r) = {<<q.schema, q.object>>}
    BY <1>8 DEF Reads
  <2>2. ResourceAllowed(p, r.query, seen)
    BY <1>5, <1>8
  <2>3. /\ q.schema = CanonicalIdentifier(r.query.schema, seen.schemas)
        /\ q.object = CanonicalIdentifier(r.query.object, seen.objects)
    BY NormalizedParts
  <2>4. /\ Allowed(p.schemas, <<q.schema>>, seen)
        /\ Allowed(p.objects, <<q.schema, q.object>>, seen)
    BY <2>2, <2>3, CanonicalAllowed
  <2> HIDE DEF q
  <2>5. ReadIsPermitted(p, <<q.schema, q.object>>, seen)
    BY <2>4, AllowedRead
  <2> QED
    BY <2>1, <2>5
<1> QED
  BY <1>2, <1>3, <1>4, <1>6, <1>7, <1>8 DEF Operations

-----------------------------------------------------------------------------
(* The specification. *)

\* The request that is being handled has an operation that can be authorized,
\* and a query whose filter can be sorted.
RequestKnown ==
  phase \in {"received", "checked", "probed", "authorized", "answered"} =>
    /\ request.operation \in Operations
    /\ request.query \in AllQueries /\ Digestible(request.query.filter)

\* What is published are the shapes of the profile.
ShapesPublished ==
  document # None =>
    /\ document.semantics \in MySQLSemantics
    /\ document.shapes = {PublicShape(s, document.semantics) : s \in profile.shapes}

\* A request that was refused for a feature before any server was asked was
\* refused by the checks made then.
RefusedEarly ==
  phase = "answered" /\ seen = None /\ verdict = "feature" =>
    CheckBeforeProbe(profile, request) = "feature"

\* What was executed is permitted under the semantics of the authorization,
\* which for two operations are those of the executing server.
ExecutionPermitted ==
  execution # None =>
    /\ seen \in MySQLSemantics
    /\ request.operation \in {"select_keyset", "describe_object_statistics"} =>
         execution.server = seen
    /\ \A read \in execution.reads : ReadIsPermitted(profile, read, seen)

Inv ==
  /\ profile \in Profiles /\ ValidateProfile(profile)
  /\ server \in MySQLSemantics
  /\ RequestKnown /\ ShapesPublished /\ RefusedEarly
  /\ phase \in {"probed", "authorized"} => seen \in MySQLSemantics
  /\ phase = "authorized" => AuthorizeRequest(profile, request, seen) = "granted"
  /\ phase # "answered" => execution = None
  /\ ExecutionPermitted

(* A validated profile has patterns of the lengths that its rules need. *)
LEMMA ValidatedIsWellFormed ==
  ASSUME NEW p \in Profiles, ValidateProfile(p)
  PROVE  WellFormed(p)
BY PatternsAssumption DEF ValidateProfile, WellFormed

(* The filters of a profile's shapes can be sorted. *)
LEMMA ProfileShape ==
  ASSUME NEW p \in Profiles, NEW s \in p.shapes
  PROVE  s \in AllQueries /\ Predicates(s.filter) \subseteq Written /\ Digestible(s.filter)
<1>1. s \in AllQueries
  BY QueriesAssumption
<1>2. Predicates(s.filter) \subseteq Written
  BY DEF Written
<1>3. s.filter \in AllFilters
  BY <1>1 DEF AllQueries
<1> QED
  BY <1>1, <1>2, <1>3, FilterIsDigestible

(* A request that a client writes. *)
LEMMA FreshRequest ==
  ASSUME NEW r \in Requests
  PROVE  r.operation \in Operations /\ r.query \in AllQueries /\ Digestible(r.query.filter)
<1>1. r.operation \in Operations /\ r.query \in AllQueries
  BY QueriesAssumption DEF Operations
<1>2. Predicates(r.query.filter) \subseteq Written
  <2> DEFINE fresh == UNION {Predicates(x.query.filter) : x \in Requests}
             shaped == UNION {Predicates(s.filter) : s \in UNION {p.shapes : p \in Profiles}}
  <2>1. Predicates(r.query.filter) \subseteq fresh
    OBVIOUS
  <2>2. Written = shaped \cup fresh
    BY Zenon DEF Written
  <2> HIDE DEF fresh, shaped
  <2> QED
    BY <2>1, <2>2
<1>3. r.query.filter \in AllFilters
  BY <1>1 DEF AllQueries
<1> QED
  BY <1>1, <1>2, <1>3, FilterIsDigestible

(* A request built from a published shape is for the shape's operation. *)
LEMMA PublishedRequest ==
  ASSUME NEW p \in Profiles, NEW s \in p.shapes, NEW sem \in MySQLSemantics,
         NEW r \in Instances(PublicShape(s, sem), sem)
  PROVE  /\ r.operation \in {"select_keyset", "aggregate"}
         /\ r.query \in AllQueries /\ Digestible(r.query.filter)
<1> DEFINE u == PublicShape(s, sem)
<1>1. \E d \in profile.datasources \cap Assigned, c \in Spellings,
         v \in [DOMAIN u.filter.expressions -> Values], reversed \in BOOLEAN,
         page \in (IF u.mode = "keyset" THEN {"first", "after"} ELSE {"first"}),
         limit \in (IF u.mode = "scalar" THEN {0} ELSE {1, u.limit}) :
        r = [operation |-> IF u.mode = "keyset" THEN "select_keyset" ELSE "aggregate",
             datasource |-> d, shape |-> u.name, page |-> page, origin |-> sem,
             query |-> InstanceQuery(u, sem, c, v, reversed, limit)]
  BY SMT DEF Instances, u
<1>2. u \in AllQueries /\ Predicates(u.filter) \subseteq Written
  BY ProfileShape, PublishedParts
<1> HIDE DEF u
<1>3. PICK c \in Spellings, v \in [DOMAIN u.filter.expressions -> Values], reversed \in BOOLEAN, limit \in Nat :
        r.query = InstanceQuery(u, sem, c, v, reversed, limit)
  <2>1. u.limit \in Nat
    BY <1>2 DEF AllQueries
  <2> DEFINE limits == IF u.mode = "scalar" THEN {0} ELSE {1, u.limit}
  <2>2. \A limit \in limits : limit \in Nat
    BY <2>1
  <2> HIDE DEF limits
  <2>3. PICK d \in profile.datasources \cap Assigned, c \in Spellings,
             v \in [DOMAIN u.filter.expressions -> Values],
             reversed \in BOOLEAN,
             page \in (IF u.mode = "keyset" THEN {"first", "after"} ELSE {"first"}), limit \in limits :
          r = [operation |-> IF u.mode = "keyset" THEN "select_keyset" ELSE "aggregate",
               datasource |-> d, shape |-> u.name, page |-> page, origin |-> sem,
               query |-> InstanceQuery(u, sem, c, v, reversed, limit)]
    BY <1>1, Zenon DEF limits
  <2>4. r.query = InstanceQuery(u, sem, c, v, reversed, limit)
    BY <2>3
  <2> QED
    BY <2>2, <2>4
<1>4. r.operation \in {"select_keyset", "aggregate"}
  BY <1>1
<1> QED
  BY <1>2, <1>3, <1>4, InstanceIsAQuery

(* The properties of Inv hold of every state that is reached. *)
THEOREM Invariance == Spec => []Inv
<1>1. Init => Inv
  BY DEF Init, Inv, RequestKnown, ExecutionPermitted, ShapesPublished, RefusedEarly
<1>2. ASSUME Inv, [Next]_vars
      PROVE  Inv'
  <2> USE <1>2 DEF Inv
  <2>1. CASE Publish
    BY <2>1 DEF Publish, RequestKnown, ExecutionPermitted, ShapesPublished, RefusedEarly
  <2>2. CASE PublishUnready
    BY <2>2 DEF PublishUnready, RequestKnown, ExecutionPermitted, ShapesPublished, RefusedEarly
  <2>3. ASSUME NEW r, Receive(r), r.operation \in Operations,
               r.query \in AllQueries, Digestible(r.query.filter)
        PROVE  Inv'
    BY <2>3 DEF Receive, RequestKnown, ExecutionPermitted, ShapesPublished, RefusedEarly
  <2>4. CASE ReceiveFresh
    <3>1. PICK r \in Requests : Receive(r)
      BY <2>4 DEF ReceiveFresh
    <3> QED
      BY <2>3, <3>1, FreshRequest
  <2>5. CASE ReceivePublished
    <3>1. PICK u \in document.shapes : \E r \in Instances(u, document.semantics) : Receive(r)
      BY <2>5 DEF ReceivePublished
    <3>2. document.semantics \in MySQLSemantics
          /\ \E s \in profile.shapes : u = PublicShape(s, document.semantics)
      BY <2>5, <3>1 DEF ReceivePublished, ShapesPublished
    <3>3. PICK r \in Instances(u, document.semantics) : Receive(r)
      BY <3>1
    <3>4. /\ r.operation \in {"select_keyset", "aggregate"}
          /\ r.query \in AllQueries /\ Digestible(r.query.filter)
      BY <3>2, <3>3, PublishedRequest
    <3> QED
      BY <2>3, <3>3, <3>4 DEF Operations
  <2>6. CASE Check
    BY <2>6 DEF Check, Answer, RequestKnown, ExecutionPermitted, ShapesPublished, RefusedEarly
  <2>7. CASE Probe
    BY <2>7 DEF Probe, RequestKnown, ExecutionPermitted, ShapesPublished, RefusedEarly
  <2>8. CASE Authorize
    <3>1. CaseSensitive # None /\ CaseInsensitive # None
      <4>1. "fields" \in DOMAIN CaseSensitive /\ "fields" \in DOMAIN CaseInsensitive
        BY DEF CaseSensitive, CaseInsensitive
      <4>2. "fields" \notin DOMAIN None
        BY DEF None
      <4> QED
        BY <4>1, <4>2
    <3>2. seen # None
      BY <2>8, <3>1 DEF Authorize, MySQLSemantics
    <3> QED
      BY <2>8, <3>2 DEF Authorize, Answer, RequestKnown, ExecutionPermitted, ShapesPublished, RefusedEarly
  <2>9. CASE Execute
    <3>1. /\ WellFormed(profile) /\ seen \in MySQLSemantics /\ request.operation \in Operations
          /\ request.query \in AllQueries
          /\ AuthorizeRequest(profile, request, seen) = "granted"
      BY <2>9, ValidatedIsWellFormed DEF Execute, RequestKnown
    <3>2. \A read \in Reads(profile, request) : ReadIsPermitted(profile, read, seen)
      BY <3>1, GrantedReadsArePermitted
    <3>3. /\ phase = "authorized" /\ phase' = "answered"
          /\ UNCHANGED <<profile, server, request, seen>>
      BY <2>9 DEF Execute, Answer
    <3>4. CASE Recheck(request, server)
      <4>1. execution' = [reads |-> Reads(profile, request), server |-> server]
        BY <2>9, <3>4 DEF Execute
      <4>2. execution'.reads = Reads(profile, request) /\ execution'.server = server
        BY <4>1
      <4>3. ExecutionPermitted'
        BY <3>1, <3>2, <3>3, <3>4, <4>2 DEF ExecutionPermitted, Recheck
      <4> QED
        BY <2>9, <3>3, <3>4, <4>3 DEF Execute, Answer, RequestKnown, ShapesPublished, RefusedEarly
    <3>5. CASE ~Recheck(request, server)
      <4>1. execution' = execution
        BY <2>9, <3>5 DEF Execute
      <4> QED
        BY <2>9, <3>3, <3>5, <4>1 DEF Execute, Answer, RequestKnown, ExecutionPermitted, ShapesPublished, RefusedEarly
    <3> QED
      BY <3>4, <3>5
  <2>10. CASE Finish
    BY <2>10 DEF Finish, RequestKnown, ExecutionPermitted, ShapesPublished, RefusedEarly
  <2>11. CASE ReplaceServer
    BY <2>11 DEF ReplaceServer, RequestKnown, ExecutionPermitted, ShapesPublished, RefusedEarly
  <2>12. CASE UNCHANGED vars
    BY <2>12 DEF vars, RequestKnown, ExecutionPermitted, ShapesPublished, RefusedEarly
  <2> QED
    BY <2>1, <2>2, <2>4, <2>5, <2>6, <2>7, <2>8, <2>9, <2>10, <2>11, <2>12 DEF Next, Stopped
<1> QED
  BY <1>1, <1>2, PTL DEF Spec

(* What the handlers execute, on a server that may have been replaced since    *)
(* it was probed, reads nothing that the profile denies and only what it       *)
(* allows, for every profile, request and number of replacements.              *)
THEOREM ExecutedStaysAllowed == Spec => []ExecutedIsAllowed
<1>1. Inv => ExecutedIsAllowed
  <2> SUFFICES ASSUME Inv, execution # None,
                      request.operation \in {"select_keyset", "describe_object_statistics"}
                        \/ execution.server = seen
               PROVE  ExecutedIsAllowed
    BY DEF ExecutedIsAllowed
  <2>1. execution.server = seen
    BY DEF Inv, ExecutionPermitted
  <2>2. \A read \in execution.reads : ReadIsPermitted(profile, read, execution.server)
    BY <2>1 DEF Inv, ExecutionPermitted
  <2> QED
    BY <2>2, Zenon DEF ExecutedIsAllowed, ReadIsPermitted, Permits, Names, Same, Insensitive
<1> QED
  BY <1>1, Invariance, PTL

(* PrecheckKeysetSelect refuses, before any server is asked, no request that   *)
(* the authorization would grant under the rules of some server: whatever the  *)
(* profiles, their shapes and the requests.                                    *)
THEOREM PrecheckStaysNecessary == Spec => []PrecheckIsNecessary
<1>1. Inv => PrecheckIsNecessary
  <2> SUFFICES ASSUME Inv, phase = "answered", seen = None, request.operation = "select_keyset",
                      verdict = "feature", NEW sem \in MySQLSemantics,
                      AuthorizeKeysetSelect(profile, request, sem) = "granted"
               PROVE  FALSE
    BY Zenon DEF PrecheckIsNecessary
  <2>1. /\ CheckBeforeProbe(profile, request) = "feature" /\ profile \in Profiles
        /\ request.query \in AllQueries /\ Digestible(request.query.filter)
    BY DEF Inv, RequestKnown, RefusedEarly
  <2>2. PrecheckKeysetSelect(profile, request)
    BY <2>1, GrantedPassesPrecheck, QueriesAssumption
  <2>3. UsesSourceText(request.query) => profile.query.sourceText
    BY <2>2 DEF PrecheckKeysetSelect, AuthorizeKeysetFeatures
  <2> DEFINE p == profile
             r == request
             checks ==
               <<<<~Validate(r), "invalid">>,
                 <<~AuthorizeBinding(p, r), "operation">>,
                 <<r.query.mode # "schema" /\ ~WithinLimits(r.query, r.page, p.limits), "invalid">>,
                 <<UsesSourceText(r.query) /\ ~p.query.sourceText, "feature">>,
                 <<r.operation = "select_keyset" /\ ~PrecheckKeysetSelect(p, r), "feature">>>>
  <2>4. FirstReason(checks) = "feature"
    BY <2>1 DEF CheckBeforeProbe
  <2>5. /\ DOMAIN checks = 1..5
        /\ checks[1][2] # "feature" /\ checks[2][2] # "feature" /\ checks[3][2] # "feature"
        /\ checks[4][1] = (UsesSourceText(r.query) /\ ~p.query.sourceText)
        /\ checks[5][1] = (r.operation = "select_keyset" /\ ~PrecheckKeysetSelect(p, r))
    OBVIOUS
  <2> HIDE DEF checks
  <2>6. PICK i \in 1..5 : checks[i][1] /\ checks[i][2] = "feature"
    BY <2>4, <2>5, RefusedByACheck
  <2>7. i = 4 \/ i = 5
    BY <2>5, <2>6
  <2> QED
    BY <2>2, <2>3, <2>5, <2>6, <2>7
<1> QED
  BY <1>1, Invariance, PTL
=============================================================================
