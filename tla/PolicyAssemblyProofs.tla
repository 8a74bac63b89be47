------------------------ MODULE PolicyAssemblyProofs ------------------------
(***************************************************************************)
(* For every set of documents, every source graph, every budget and however *)
(* the files grow while they are read: the documents a policy is assembled *)
(* from were read whole and within the byte budgets; a policy is refused for *)
(* a cycle, its depth or its expansion only if a resolution without cache  *)
(* would have been; and what loads has no cycle and no dangling target.    *)
(* The invariants are built on one another: Inv (what was read), WalkInv (the *)
(* calls are a path of new nodes), DepthInv (a height is one that calls    *)
(* reach) and ExpansionInv (what was charged, call by call).               *)
(***************************************************************************)
EXTENDS PolicyAssembly, ResponseSizeProofs, SequenceTheorems

Documents == DOMAIN Root

(* The smaller of two numbers. *)
LEMMA MinOfTwo ==
  ASSUME NEW a \in Int, NEW b \in Int
  PROVE  /\ Min({a, b}) \in {a, b}
         /\ Min({a, b}) <= a /\ Min({a, b}) <= b
<1>1. \E x \in {a, b} : \A y \in {a, b} : x <= y
  <2>1. CASE a <= b
    BY <2>1
  <2>2. CASE b <= a
    BY <2>2
  <2> QED
    BY <2>1, <2>2
<1>2. /\ Min({a, b}) \in {a, b}
      /\ \A y \in {a, b} : Min({a, b}) <= y
  BY <1>1 DEF Min
<1> QED
  BY <1>2

(* No check applies: each condition is false. *)
LEMMA NoErrors ==
  ASSUME NEW checks, Errors(checks) = {}, NEW i \in DOMAIN checks
  PROVE  ~checks[i][1]
BY DEF Errors

-----------------------------------------------------------------------------
(* The invariant. *)

\* A document was taken as it was when it was read, and the budgets hold.
DocsOK ==
  /\ IsFiniteSet(DOMAIN docs)
  /\ \A d \in DOMAIN docs :
       docs[d].bytes \in Nat /\ docs[d].bytes = docs[d].whole /\ docs[d].bytes <= budgets.fileBytes
  /\ ReadBytes <= budgets.readBytes

\* The document that is being read is not yet among them; what was read of it
\* is a beginning of the file, up to a limit that the budgets allow, and all of
\* it before it is parsed.
FetchOK ==
  fetch # None =>
    /\ fetch.doc \in Documents \ DOMAIN docs
    /\ fetch = [doc |-> fetch.doc, step |-> fetch.step, limit |-> fetch.limit,
                data |-> fetch.data, whole |-> fetch.whole]
    /\ fetch.step \in {"read", "stat"} =>
         fetch.limit \in Nat /\ fetch.limit <= budgets.fileBytes /\ fetch.limit <= Remaining
    /\ fetch.step \in {"stat", "parse"} => fetch.data \in Nat /\ fetch.whole \in Nat
    /\ fetch.step = "stat" =>
         /\ fetch.data = fetch.limit
         /\ fetch.data <= fetch.whole /\ fetch.whole <= size[fetch.doc]
    /\ fetch.step = "parse" => fetch.data = fetch.whole

\* The calls in progress are of nodes of the graph.
Frames(R) == [node : DOMAIN graph, depth : Nat, results : Seq(R)]
StackOK == \E R : stack \in Seq(Frames(R))

Inv ==
  /\ graph \in Graphs /\ budgets \in AllBudgets
  /\ size \in [Documents -> Nat]
  /\ DocsOK
  /\ FetchOK
  /\ StackOK

-----------------------------------------------------------------------------
(* The calls of resolve. *)

(* The nodes below a node of the graph are nodes of it. *)
LEMMA ChildrenInGraph ==
  ASSUME graph \in Graphs, NEW n \in DOMAIN graph
  PROVE  Children(n) \in Seq(DOMAIN graph) /\ Len(Children(n)) = Len(graph[n].content)
<1> DEFINE c == graph[n].content
           S == DOMAIN graph
<1>1. /\ c \in Seq(S) /\ (Refers(n) => Len(c) = 1 \/ Len(c) % 2 = 1)
  BY GraphsAssumption DEF Refers, Overrides, Kind
<1>2. Len(c) \in Nat /\ DOMAIN c = 1..Len(c) /\ \A i \in 1..Len(c) : c[i] \in S
  BY <1>1, LenProperties, ElementOfSeq
<1>3. CASE ~Refers(n)
  BY <1>1, <1>3 DEF Children
<1>4. CASE Refers(n)
  <2> DEFINE d == [i \in DOMAIN c |-> IF i = 1 THEN c[1] ELSE IF i % 2 = 0 THEN c[i + 1] ELSE c[i - 1]]
  <2>1. Children(n) = d
    BY <1>4 DEF Children
  <2>2. ASSUME NEW i \in 1..Len(c) PROVE d[i] \in S
    <3>1. CASE i = 1
      BY <1>2, <2>2, <3>1
    <3>2. CASE i # 1 /\ i % 2 = 0
      <4>1. i # Len(c)
        <5>1. Len(c) = 1 \/ Len(c) % 2 = 1
          BY <1>1, <1>4
        <5> QED
          BY <3>2, <5>1, 0 # 1, Zenon
      <4> QED
        BY <1>2, <2>2, <3>2, <4>1
    <3>3. CASE i # 1 /\ i % 2 # 0
      BY <1>2, <2>2, <3>3
    <3> QED
      BY <3>1, <3>2, <3>3
  <2>3. d \in [1..Len(c) -> S]
    BY <1>2, <2>2
  <2> HIDE DEF d
  <2>4. d \in Seq(S) /\ Len(d) = Len(c)
    BY <1>2, <2>3, SeqDef, LenProperties
  <2> QED
    BY <2>1, <2>4
<1> QED
  BY <1>3, <1>4

(* The callee of a call is a node of the graph. *)
LEMMA CalleeInGraph ==
  ASSUME Inv, Calls
  PROVE  Callee.node \in DOMAIN graph /\ Callee.depth \in Nat
<1>1. CASE stack = <<>>
  BY <1>1, GraphsAssumption DEF Callee, Inv
<1>2. CASE stack # <<>>
  <2>1. PICK R : stack \in Seq(Frames(R))
    BY DEF Inv, StackOK
  <2>2. Top \in Frames(R)
    BY <1>2, <2>1, EmptySeq, ElementOfSeq DEF Top, Last
  <2>3. Top.node \in DOMAIN graph /\ Top.depth \in Nat /\ Len(Top.results) \in Nat
    BY <2>2, LenProperties DEF Frames
  <2>4. /\ Children(Top.node) \in Seq(DOMAIN graph)
        /\ Len(Top.results) + 1 \in 1..Len(Children(Top.node))
    <3>1. Children(Top.node) \in Seq(DOMAIN graph)
      BY <2>3, ChildrenInGraph DEF Inv
    <3>2. Len(Children(Top.node)) \in Nat /\ Len(Top.results) < Len(Children(Top.node))
      BY <1>2, <3>1, LenProperties DEF Calls
    <3> QED
      BY <2>3, <3>1, <3>2
  <2>5. Callee = [node |-> Children(Top.node)[Len(Top.results) + 1], depth |-> Top.depth + 1]
    BY <1>2 DEF Callee
  <2> QED
    BY <2>3, <2>4, <2>5, ElementOfSeq
<1> QED
  BY <1>1, <1>2

(* A result that goes to the caller leaves the calls well-formed. *)
LEMMA ReturnKeepsStack ==
  ASSUME NEW R, NEW frames \in Seq(Frames(R)), NEW result, Return(frames, result), graph' = graph
  PROVE  StackOK'
<1>1. CASE frames = <<>>
  <2>1. stack' = <<>> /\ <<>> \in Seq(Frames(R)')
    BY <1>1, EmptySeq DEF Return
  <2> QED
    BY <2>1 DEF StackOK
<1>2. CASE frames # <<>>
  <2> DEFINE T == R \cup {result}
             n == Len(frames)
             top == [frames[n] EXCEPT !.results = Append(@, result)]
  <2>1. n \in 1..Len(frames) /\ frames[n] \in Frames(R)
    BY <1>2, EmptySeq, ElementOfSeq
  <2>2. \A f \in Frames(R) : f \in Frames(T)
    <3>1. \A q \in Seq(R) : q \in Seq(T)
      BY SeqMonotonic
    <3> HIDE DEF T
    <3> QED
      BY <3>1 DEF Frames
  <2>3. Append(frames[n].results, result) \in Seq(T)
    <3>1. frames[n].results \in Seq(T)
      BY <2>1, <2>2 DEF Frames
    <3>2. result \in T
      OBVIOUS
    <3> HIDE DEF T
    <3> QED
      BY <3>1, <3>2, AppendProperties
  <2>4. top \in Frames(T)
    <3> HIDE DEF T, n
    <3> QED
      BY <2>1, <2>3 DEF Frames
  <2>5. frames \in Seq(Frames(T))
    BY <2>2, SeqMonotonic
  <2>6. stack' = [frames EXCEPT ![n] = top]
    BY <1>2 DEF Return
  <2> HIDE DEF T, n, top
  <2>7. stack' \in Seq(Frames(T))
    BY <2>1, <2>4, <2>5, <2>6, ExceptSeq
  <2>8. Frames(T)' = Frames(T)
    BY DEF Frames
  <2> QED
    BY <2>7, <2>8 DEF StackOK
<1> QED
  BY <1>1, <1>2

-----------------------------------------------------------------------------
(* Steps that leave the documents alone. *)

(* The resolution does not change what was read. *)
LEMMA ResolutionStep ==
  ASSUME Inv, UNCHANGED <<input, files, docs, fetch>>, StackOK'
  PROVE  Inv'
<1>1. UNCHANGED <<graph, budgets, size, docs, fetch>>
  BY DEF input, files
<1>2. DocsOK' /\ FetchOK'
  BY <1>1 DEF Inv, DocsOK, FetchOK, Remaining, ReadBytes
<1> QED
  BY <1>1, <1>2 DEF Inv

(* The calls stay well-formed when neither they nor the graph change. *)
LEMMA SameStack ==
  ASSUME StackOK, UNCHANGED <<graph, stack>>
  PROVE  StackOK'
BY DEF StackOK, Frames

(* An error ends the loading and changes nothing else. *)
LEMMA FailStep ==
  ASSUME Inv, NEW code, Fail(code)
  PROVE  Inv'
<1>1. UNCHANGED <<input, files, docs, fetch>> /\ UNCHANGED <<graph, stack>>
  BY DEF Fail, input, resolution
<1> QED
  BY <1>1, SameStack, ResolutionStep DEF Inv

(* The end of a call of resolve. *)
LEMMA KeepStep ==
  ASSUME Inv, stack # <<>>, NEW result, NEW children, NEW charge, Keep(result, children, charge)
  PROVE  Inv'
<1>1. CASE Exceeds(result.height, Top.depth)
  BY <1>1, FailStep DEF Keep
<1>2. CASE ~Exceeds(result.height, Top.depth)
  <2>1. Return(Front(stack), result) /\ UNCHANGED <<input, files, docs, fetch>>
    BY <1>2 DEF Keep
  <2>2. PICK R : stack \in Seq(Frames(R))
    BY DEF Inv, StackOK
  <2>3. Front(stack) \in Seq(Frames(R))
    <3>1. Len(stack) \in Nat /\ \A i \in 1..(Len(stack) - 1) : stack[i] \in Frames(R)
      BY <2>2, LenProperties, ElementOfSeq
    <3> QED
      BY <3>1, SubSeqProperties DEF Front
  <2>4. graph' = graph
    BY <2>1 DEF input
  <2> QED
    BY <2>1, <2>3, <2>4, ReturnKeepsStack, ResolutionStep
<1> QED
  BY <1>1, <1>2

(* The step of a mapping, with or without override. *)
LEMMA ContainerStep ==
  ASSUME Inv, stack # <<>>, NEW n, NEW children, NEW hops, NEW before,
         Container(n, children, hops, before)
  PROVE  Inv'
<1>1. \/ \E code : Fail(code)
      \/ \E result, below : Keep(result, below, 1)
  BY DEF Container, FailFirst
<1> QED
  BY <1>1, FailStep, KeepStep

-----------------------------------------------------------------------------
(* Steps of the call of document. *)

(* What was read, and what may still be read, are numbers. *)
LEMMA RemainingIsNumber ==
  ASSUME Inv
  PROVE  /\ ReadBytes \in Int /\ Remaining \in Int
         /\ budgets.fileBytes \in Nat /\ budgets.readBytes \in Nat
         /\ Remaining = budgets.readBytes - ReadBytes
<1> DEFINE f == [d \in DOMAIN docs |-> docs[d].bytes]
<1>1. IsFiniteSet(DOMAIN docs) /\ \A d \in DOMAIN docs : f[d] \in Int
  BY DEF Inv, DocsOK
<1>2. ReadBytes = SumFunctionOnSet(f, DOMAIN docs)
  BY DEF ReadBytes
<1> HIDE DEF f
<1>3. ReadBytes \in Int
  BY <1>1, <1>2, SumInt
<1>4. budgets.fileBytes \in Nat /\ budgets.readBytes \in Nat
  BY BudgetsAssumption DEF Inv
<1> QED
  BY <1>3, <1>4 DEF Remaining

(* A step of the call of document keeps the rest. *)
LEMMA FetchStep ==
  ASSUME Inv, UNCHANGED <<input, files, docs, resolution>>, FetchOK'
  PROVE  Inv'
<1>1. UNCHANGED <<graph, budgets, size, docs, stack>>
  BY DEF input, files, resolution
<1>2. DocsOK' /\ StackOK'
  BY <1>1, SameStack DEF Inv, DocsOK, ReadBytes
<1> QED
  BY <1>1, <1>2 DEF Inv

(* The limit of a read is within the budgets that are left. *)
LEMMA OpenDocumentStep ==
  ASSUME Inv, OpenDocument
  PROVE  Inv'
<1> DEFINE checks ==
             <<<<Cardinality(DOMAIN docs) >= budgets.documents, "document limit">>,
               <<Remaining <= 0, "read limit">>,
               <<size[fetch.doc] > budgets.fileBytes, "file limit">>,
               <<size[fetch.doc] > Remaining, "read limit">>>>
           limit == Min({budgets.fileBytes, Remaining})
<1>1. CASE Errors(checks) # {}
  <2>1. FailFirst(checks)
    BY <1>1 DEF OpenDocument
  <2> QED
    BY <2>1, FailStep DEF FailFirst
<1>2. CASE Errors(checks) = {}
  <2>1. /\ fetch # None
        /\ fetch' = [fetch EXCEPT !.step = "read", !.limit = limit]
        /\ UNCHANGED <<input, files, docs, resolution>>
    BY <1>2 DEF OpenDocument, Fetching
  <2>2. ~(Remaining <= 0)
    <3>1. 2 \in DOMAIN checks /\ checks[2][1] = (Remaining <= 0)
      OBVIOUS
    <3> HIDE DEF checks
    <3>2. ~checks[2][1]
      BY <1>2, <3>1, NoErrors
    <3> QED
      BY <3>1, <3>2
  <2>3. limit \in Nat /\ limit <= budgets.fileBytes /\ limit <= Remaining
    <3>1. budgets.fileBytes \in Int /\ Remaining \in Int
      BY RemainingIsNumber
    <3>2. limit \in {budgets.fileBytes, Remaining} /\ limit <= budgets.fileBytes /\ limit <= Remaining
      BY <3>1, MinOfTwo, Zenon
    <3> HIDE DEF limit
    <3> QED
      BY <2>2, <3>2, RemainingIsNumber
  <2> HIDE DEF limit
  <2>4. /\ fetch.doc \in Documents \ DOMAIN docs
        /\ fetch' = [doc |-> fetch.doc, step |-> "read", limit |-> limit,
                     data |-> fetch.data, whole |-> fetch.whole]
    BY <2>1 DEF Inv, FetchOK
  <2>5. UNCHANGED <<budgets, docs>> /\ Remaining' = Remaining
    BY <2>1 DEF input, Remaining, ReadBytes
  <2>6. FetchOK'
    BY <2>3, <2>4, <2>5 DEF FetchOK
  <2> QED
    BY <2>1, <2>6, FetchStep
<1> QED
  BY <1>1, <1>2

(* A read that reaches its limit is checked again, any other took the file. *)
LEMMA ReadDocumentStep ==
  ASSUME Inv, ReadDocument
  PROVE  Inv'
<1> DEFINE now == size[fetch.doc]
           data == Min({now, fetch.limit})
<1>1. /\ fetch # None /\ fetch.step = "read"
      /\ fetch' = [fetch EXCEPT !.data = data, !.whole = now,
                                !.step = IF data = fetch.limit THEN "stat" ELSE "parse"]
      /\ UNCHANGED <<input, files, docs, resolution>>
  BY DEF ReadDocument, Fetching
<1>2. /\ fetch.doc \in Documents \ DOMAIN docs /\ now \in Nat /\ fetch.limit \in Nat
      /\ fetch.limit <= budgets.fileBytes /\ fetch.limit <= Remaining
  BY <1>1 DEF Inv, FetchOK
<1>3. data \in {now, fetch.limit} /\ data <= now /\ data <= fetch.limit
  <2>1. now \in Int /\ fetch.limit \in Int
    BY <1>2
  <2> HIDE DEF now
  <2> QED
    BY <2>1, MinOfTwo, Zenon
<1>4. fetch' = [doc |-> fetch.doc, step |-> IF data = fetch.limit THEN "stat" ELSE "parse",
                limit |-> fetch.limit, data |-> data, whole |-> now]
  <2> HIDE DEF data, now
  <2> QED
    BY <1>1 DEF Inv, FetchOK
<1>5. UNCHANGED <<budgets, docs, size>> /\ Remaining' = Remaining
  BY <1>1 DEF input, files, Remaining, ReadBytes
<1>6. now' = size[fetch'.doc]
  BY <1>4, <1>5
<1>7. FetchOK'
  <2>1. now = size'[fetch'.doc]
    BY <1>4, <1>5
  <2> HIDE DEF data, now
  <2>2. CASE data = fetch.limit
    BY <1>2, <1>3, <1>4, <1>5, <2>1, <2>2 DEF FetchOK
  <2>3. CASE data # fetch.limit
    BY <1>2, <1>3, <1>4, <1>5, <2>1, <2>3 DEF FetchOK
  <2> QED
    BY <2>2, <2>3
<1> QED
  BY <1>1, <1>7, FetchStep

(* The file has not grown since the read: the bytes at hand are all of it. *)
LEMMA StatAgainStep ==
  ASSUME Inv, StatAgain
  PROVE  Inv'
<1>1. CASE size[fetch.doc] > fetch.limit
  <2>1. \E code : Fail(code)
    BY <1>1 DEF StatAgain
  <2> QED
    BY <2>1, FailStep
<1>2. CASE ~(size[fetch.doc] > fetch.limit)
  <2>1. /\ fetch # None /\ fetch.step = "stat"
        /\ fetch' = [fetch EXCEPT !.step = "parse"]
        /\ UNCHANGED <<input, files, docs, resolution>>
    BY <1>2 DEF StatAgain, Fetching
  <2>2. /\ fetch.doc \in Documents \ DOMAIN docs /\ size[fetch.doc] \in Nat
        /\ fetch.limit \in Nat /\ fetch.data \in Nat /\ fetch.whole \in Nat
        /\ fetch.data = fetch.limit /\ fetch.data <= fetch.whole /\ fetch.whole <= size[fetch.doc]
    BY <2>1 DEF Inv, FetchOK
  <2>3. fetch.data = fetch.whole
    BY <1>2, <2>2
  <2>4. fetch' = [doc |-> fetch.doc, step |-> "parse", limit |-> fetch.limit,
                  data |-> fetch.data, whole |-> fetch.whole]
    BY <2>1 DEF Inv, FetchOK
  <2>5. UNCHANGED <<docs, size>>
    BY <2>1 DEF files
  <2>6. FetchOK'
    BY <2>2, <2>3, <2>4, <2>5 DEF FetchOK
  <2> QED
    BY <2>1, <2>6, FetchStep
<1> QED
  BY <1>1, <1>2

(* A parsed document adds its bytes to what was read, within both budgets. *)
LEMMA ParseStep ==
  ASSUME Inv, Parse
  PROVE  Inv'
<1> DEFINE checks ==
             <<<<Cardinality(DOMAIN docs) >= budgets.documents, "document limit">>,
               <<fetch.data > budgets.fileBytes, "file limit">>,
               <<fetch.data > Remaining, "read limit">>,
               <<SourceNodes(DOMAIN docs \cup {fetch.doc}) > budgets.sourceNodes
                   \/ TooDeepSource(fetch.doc), "source">>>>
<1>1. CASE Errors(checks) # {}
  <2>1. FailFirst(checks)
    BY <1>1 DEF Parse
  <2> QED
    BY <2>1, FailStep DEF FailFirst
<1>2. CASE Errors(checks) = {}
  <2> DEFINE d == fetch.doc
             new == [bytes |-> fetch.data, whole |-> fetch.whole]
  <2>1. /\ fetch # None /\ fetch.step = "parse" /\ fetch' = None
        /\ docs' = Extend(docs, d, new)
        /\ UNCHANGED <<input, files, resolution>>
    BY <1>2 DEF Parse, Fetching
  <2>2. fetch.data <= budgets.fileBytes /\ fetch.data <= Remaining
    <3>1. /\ 2 \in DOMAIN checks /\ checks[2][1] = (fetch.data > budgets.fileBytes)
          /\ 3 \in DOMAIN checks /\ checks[3][1] = (fetch.data > Remaining)
      OBVIOUS
    <3> HIDE DEF checks
    <3>2. ~checks[2][1] /\ ~checks[3][1]
      BY <1>2, <3>1, NoErrors
    <3>3. fetch.data \in Nat
      BY <2>1 DEF Inv, FetchOK
    <3>4. ~(fetch.data > budgets.fileBytes) /\ ~(fetch.data > Remaining)
      BY <3>1, <3>2
    <3> QED
      BY <3>3, <3>4, RemainingIsNumber
  <2>3. d \in Documents \ DOMAIN docs /\ fetch.data \in Nat /\ fetch.data = fetch.whole
    BY <2>1 DEF Inv, FetchOK
  <2>4. /\ DOMAIN docs' = DOMAIN docs \cup {d}
        /\ docs'[d] = new /\ \A e \in DOMAIN docs : docs'[e] = docs[e]
    BY <2>1, <2>3 DEF Extend
  <2>5. UNCHANGED <<graph, budgets, size, stack>>
    BY <2>1 DEF input, files, resolution
  <2>6. IsFiniteSet(DOMAIN docs) /\ IsFiniteSet(DOMAIN docs')
    BY <2>4, FS_AddElement DEF Inv, DocsOK
  <2>7. ReadBytes' = fetch.data + ReadBytes
    <3> DEFINE f == [e \in DOMAIN docs |-> docs[e].bytes]
               g == [e \in DOMAIN docs' |-> docs'[e].bytes]
    <3>1. ReadBytes = SumFunctionOnSet(f, DOMAIN docs) /\ ReadBytes' = SumFunctionOnSet(g, DOMAIN docs')
      BY DEF ReadBytes
    <3>2. g[d] = fetch.data /\ \A e \in DOMAIN docs : g[e] = f[e] /\ g[e] \in Int
      BY <2>4 DEF Inv, DocsOK
    <3>3. \A e \in DOMAIN docs \cup {d} : g[e] \in Int
      BY <2>3, <3>2
    <3> HIDE DEF f, g, d
    <3>4. SumFunctionOnSet(g, DOMAIN docs \cup {d}) = g[d] + SumFunctionOnSet(g, DOMAIN docs)
      BY <2>3, <2>6, <3>3, SumAdd
    <3>5. SumFunctionOnSet(g, DOMAIN docs) = SumFunctionOnSet(f, DOMAIN docs)
      BY <2>6, <3>2, SumCongruent
    <3> QED
      BY <2>4, <3>1, <3>2, <3>4, <3>5
  <2>8. DocsOK'
    <3>1. ReadBytes' <= budgets'.readBytes
      BY <2>2, <2>3, <2>5, <2>7, RemainingIsNumber
    <3>2. ASSUME NEW e \in DOMAIN docs'
          PROVE  /\ docs'[e].bytes \in Nat /\ docs'[e].bytes = docs'[e].whole
                 /\ docs'[e].bytes <= budgets'.fileBytes
      <4>1. CASE e = d
        BY <2>2, <2>3, <2>4, <2>5, <4>1
      <4>2. CASE e \in DOMAIN docs
        BY <2>4, <2>5, <4>2 DEF Inv, DocsOK
      <4> QED
        BY <2>4, <3>2, <4>1, <4>2
    <3> QED
      BY <2>6, <3>1, <3>2 DEF DocsOK
  <2>9. FetchOK' /\ StackOK'
    BY <2>1, <2>5, SameStack DEF Inv, FetchOK
  <2> QED
    BY <2>5, <2>8, <2>9 DEF Inv
<1> QED
  BY <1>1, <1>2

(* A file that grows has at least the bytes that were read of it. *)
LEMMA GrowStep ==
  ASSUME Inv, Grow
  PROVE  Inv'
<1>1. /\ fetch # None /\ size' = [size EXCEPT ![fetch.doc] = @ + 1]
      /\ UNCHANGED <<graph, budgets, docs, fetch, stack>>
  BY DEF Grow, input, resolution
<1>2. size' \in [Documents -> Nat]
  BY <1>1 DEF Inv, FetchOK
<1>3. fetch.doc \in Documents /\ size[fetch.doc] \in Nat /\ size'[fetch.doc] = size[fetch.doc] + 1
  BY <1>1 DEF Inv, FetchOK
<1>4. FetchOK'
  BY <1>1, <1>3 DEF Inv, FetchOK, Remaining, ReadBytes
<1>5. DocsOK' /\ StackOK'
  BY <1>1, SameStack DEF Inv, DocsOK, ReadBytes
<1> QED
  BY <1>1, <1>2, <1>4, <1>5 DEF Inv

(* A reference asks for the document of its target, which is not there yet. *)
LEMMA RequestDocumentStep ==
  ASSUME Inv, RequestDocument
  PROVE  Inv'
<1>1. CASE inline
  BY <1>1, FailStep DEF RequestDocument
<1>2. CASE ~inline
  <2> DEFINE doc == graph[Children(Top.node)[1]].doc
  <2>1. /\ fetch' = [doc |-> doc, step |-> "open", limit |-> 0, data |-> 0, whole |-> 0]
        /\ UNCHANGED <<input, files, docs, resolution>>
        /\ stack # <<>> /\ Refers(Top.node) /\ doc \notin DOMAIN docs
    BY <1>2 DEF RequestDocument, AwaitsDocument
  <2>2. PICK R : stack \in Seq(Frames(R))
    BY DEF Inv, StackOK
  <2>3. Top.node \in DOMAIN graph
    <3>1. Top \in Frames(R)
      BY <2>1, <2>2, EmptySeq, ElementOfSeq DEF Top, Last
    <3> QED
      BY <3>1 DEF Frames
  <2>4. Children(Top.node) \in Seq(DOMAIN graph) /\ 1 \in 1..Len(Children(Top.node))
    <3> DEFINE c == graph[Top.node].content
    <3>1. c \in Seq(DOMAIN graph) /\ (Len(c) = 1 \/ Len(c) % 2 = 1)
      BY <2>1, <2>3, GraphsAssumption DEF Inv, Refers, Overrides, Kind
    <3>2. Len(c) \in Nat /\ Len(c) # 0
      <4>1. 0 % 2 = 0 /\ 0 # 1
        OBVIOUS
      <4>2. Len(c) \in Nat
        BY <3>1, LenProperties
      <4> QED
        BY <3>1, <4>1, <4>2, Zenon
    <3> QED
      BY <2>3, <3>2, ChildrenInGraph DEF Inv
  <2>5. doc \in Documents
    <3>1. Children(Top.node)[1] \in DOMAIN graph
      BY <2>4, ElementOfSeq
    <3> QED
      BY <3>1, GraphsAssumption DEF Inv, Documents
  <2>6. docs' = docs
    BY <2>1
  <2> HIDE DEF doc
  <2>7. FetchOK'
    BY <2>1, <2>5, <2>6 DEF FetchOK
  <2> QED
    BY <2>1, <2>7, FetchStep
<1> QED
  BY <1>1, <1>2

-----------------------------------------------------------------------------
(* The specification. *)

(* Nothing has been read when the loading starts; a policy given inline is     *)
(* parsed at once.                                                             *)
LEMMA InitEstablishesInv == Init => Inv
<1> SUFFICES ASSUME Init PROVE Inv
  OBVIOUS
<1>1. /\ graph \in Graphs /\ budgets \in AllBudgets /\ size \in [Documents -> Nat]
      /\ Main \in Documents /\ DOMAIN docs = {}
  BY SizesAssumption DEF Init, Documents
<1>2. DocsOK
  <2>1. ReadBytes = 0
    BY <1>1, SumEmpty DEF ReadBytes
  <2>2. budgets.readBytes \in Nat
    BY <1>1, BudgetsAssumption
  <2> QED
    BY <1>1, <2>1, <2>2, FS_EmptySet DEF DocsOK
<1>3. FetchOK
  <2> DEFINE step == IF inline THEN "parse" ELSE "open"
  <2>1. fetch = [doc |-> Main, step |-> step, limit |-> 0, data |-> size[Main], whole |-> size[Main]]
    BY DEF Init
  <2>2. step \in {"parse", "open"} /\ size[Main] \in Nat
    BY <1>1
  <2> HIDE DEF step
  <2> QED
    BY <1>1, <2>1, <2>2 DEF FetchOK
<1>4. StackOK
  <2>1. stack = <<>> /\ <<>> \in Seq(Frames({}))
    BY EmptySeq DEF Init
  <2> QED
    BY <2>1 DEF StackOK
<1> QED
  BY <1>1, <1>2, <1>3, <1>4 DEF Inv

(* The calls and returns of resolve. *)
LEMMA ResolveStep ==
  ASSUME Inv,
         CallCached \/ CallFresh \/ CompleteScalar \/ CompleteHop \/ CompleteMapping \/ CompleteOverride
  PROVE  Inv'
<1>1. CASE CallCached
  <2>1. \/ \E code : Fail(code)
        \/ \E result : Return(stack, result) /\ UNCHANGED <<input, files, docs, fetch>>
    BY <1>1 DEF CallCached, FailFirst
  <2>2. ASSUME NEW result, Return(stack, result), UNCHANGED <<input, files, docs, fetch>>
        PROVE  Inv'
    <3>1. PICK R : stack \in Seq(Frames(R))
      BY DEF Inv, StackOK
    <3>2. graph' = graph
      BY <2>2 DEF input
    <3> QED
      BY <2>2, <3>1, <3>2, ReturnKeepsStack, ResolutionStep
  <2> QED
    BY <2>1, <2>2, FailStep
<1>2. CASE CallFresh
  <2>1. PICK R : stack \in Seq(Frames(R))
    BY DEF Inv, StackOK
  <2> DEFINE frame == [node |-> Callee.node, depth |-> Callee.depth, results |-> <<>>]
  <2>2. /\ Calls /\ stack' = Append(stack, frame)
        /\ UNCHANGED <<input, files, docs, fetch>> /\ graph' = graph
    BY <1>2 DEF CallFresh, input
  <2>3. frame \in Frames(R)
    BY <2>2, CalleeInGraph, EmptySeq DEF Frames
  <2> HIDE DEF frame
  <2>4. stack' \in Seq(Frames(R)) /\ Frames(R)' = Frames(R)
    BY <2>1, <2>2, <2>3, AppendProperties DEF Frames
  <2>5. StackOK'
    BY <2>4 DEF StackOK
  <2> QED
    BY <2>2, <2>5, ResolutionStep
<1>3. CASE CompleteScalar
  <2>1. stack # <<>>
    BY <1>3 DEF CompleteScalar, Completes
  <2>2. \/ \E code : Fail(code)
        \/ \E result, below : Keep(result, below, 1)
    BY <1>3 DEF CompleteScalar, FailFirst
  <2> QED
    BY <2>1, <2>2, FailStep, KeepStep
<1>4. CASE CompleteHop
  <2>1. stack # <<>> /\ \E result : Keep(result, content, 0)
    BY <1>4 DEF CompleteHop, Completes
  <2> QED
    BY <2>1, KeepStep
<1>5. CASE CompleteMapping
  <2>1. stack # <<>> /\ Container(Top.node, Top.results, 0, content)
    BY <1>5 DEF CompleteMapping, Completes
  <2> QED
    BY <2>1, ContainerStep
<1>6. CASE CompleteOverride
  <2>1. /\ stack # <<>>
        /\ \/ \E code : Fail(code)
           \/ \E children : Container(Top.node, children, 1, content)
    BY <1>6 DEF CompleteOverride, Completes
  <2> QED
    BY <2>1, FailStep, ContainerStep
<1> QED
  BY <1>1, <1>2, <1>3, <1>4, <1>5, <1>6

(* Every state that the loading reaches satisfies Inv: each step of document   *)
(* keeps what was read within the limit it took, each step of resolve leaves   *)
(* the documents alone.                                                        *)
THEOREM Invariance == Spec => []Inv
<1>1. ASSUME Inv, [Next]_vars
      PROVE  Inv'
  <2>1. CASE FileFails \/ RefuseTarget \/ RefuseOverride \/ CallTooDeep \/ CallActive
    <3>1. \E code : Fail(code)
      BY <2>1 DEF FileFails, RefuseTarget, RefuseOverride, CallTooDeep, CallActive
    <3> QED
      BY <1>1, <3>1, FailStep
  <2>2. CASE UNCHANGED vars
    <3>1. UNCHANGED <<input, files, docs, fetch>> /\ UNCHANGED <<graph, stack>>
      BY <2>2 DEF vars, input, resolution
    <3> QED
      BY <1>1, <3>1, SameStack, ResolutionStep DEF Inv
  <2> QED
    BY <1>1, <2>1, <2>2, OpenDocumentStep, ReadDocumentStep, StatAgainStep, ParseStep,
       RequestDocumentStep, GrowStep, ResolveStep DEF Next, Ended
<1> QED
  BY <1>1, InitEstablishesInv, PTL DEF Spec

(* A document that was parsed is its file as it was when it was read, and      *)
(* neither the budget of a file nor that of all files was exceeded: the second *)
(* Stat of document catches every file that grew behind the first.             *)
THEOREM ReadsStayWhole == Spec => []ReadsAreWhole
<1>1. Inv => ReadsAreWhole
  BY DEF Inv, DocsOK, ReadsAreWhole
<1> QED
  BY <1>1, Invariance, PTL

-----------------------------------------------------------------------------
(* The reference does not change while a policy is loaded. *)
LEMMA SameGraph ==
  ASSUME UNCHANGED <<graph, budgets>>
  PROVE  /\ \A n : Children(n)' = Children(n)
         /\ \A n : Creates(n)' = Creates(n)
         /\ \A n : Overrides(n)' = Overrides(n)
         /\ \A n : Kind(n)' = Kind(n)
BY DEF Children, Refers, Kind, Overrides, Creates

(* The depths are those of the graph and the budgets, *)
LEMMA SameDepths ==
  ASSUME UNCHANGED <<graph, budgets>>
  PROVE  Depths' = Depths
BY DEF Depths, Children, Refers, Kind, Overrides

(* ... so are the charges, *)
LEMMA SameCharges ==
  ASSUME UNCHANGED <<graph, budgets>>
  PROVE  Charges' = Charges
BY DEF Charges, Children, Refers, Kind, Overrides, Creates

(* ... and the ends of walks. *)
LEMMA SameEnds ==
  ASSUME UNCHANGED <<graph, budgets>>, NEW S
  PROVE  Ends(S)' = Ends(S)
BY DEF Ends, Callees, Children, Refers, Overrides, Kind

-----------------------------------------------------------------------------
(* Recursive functions and maxima. *)

Iterates(D, a, F, K, f) == f \in [0..K -> D] /\ f[0] = a /\ \A k \in 1..K : f[k] = F[f[k - 1]]

(* There is a function that is defined by its first value and a step. *)
LEMMA PrimRec ==
  ASSUME NEW D, NEW a \in D, NEW F \in [D -> D], NEW K \in Nat
  PROVE  \E f : Iterates(D, a, F, K, f)
<1> DEFINE Part(k) == \E f \in [0..k -> D] : f[0] = a /\ \A j \in 1..k : f[j] = F[f[j - 1]]
           Good == {k \in Nat : Part(k)}
<1>1. ASSUME NEW k \in Nat, \A m \in 0..(k - 1) : m \in Good
      PROVE  k \in Good
  <2>1. CASE k = 0
    <3> DEFINE f == [j \in 0..0 |-> a]
    <3>1. f \in [0..0 -> D] /\ f[0] = a /\ \A j \in 1..0 : f[j] = F[f[j - 1]]
      OBVIOUS
    <3> HIDE DEF f
    <3> QED
      BY <2>1, <3>1
  <2>2. CASE k > 0
    <3>1. k - 1 \in 0..(k - 1)
      BY <2>2
    <3>2. PICK g \in [0..(k - 1) -> D] :
                 g[0] = a /\ \A j \in 1..(k - 1) : g[j] = F[g[j - 1]]
      BY <1>1, <3>1
    <3> DEFINE f == [j \in 0..k |-> IF j = k THEN F[g[k - 1]] ELSE g[j]]
    <3>3. f \in [0..k -> D]
      <4>1. \A j \in 0..k : j # k => j \in 0..(k - 1)
        OBVIOUS
      <4> QED
        BY <3>1, <3>2, <4>1
    <3>4. f[0] = a
      BY <2>2, <3>2
    <3>5. ASSUME NEW j \in 1..k PROVE f[j] = F[f[j - 1]]
      <4>1. CASE j = k
        BY <2>2, <3>1, <4>1
      <4>2. CASE j # k
        BY <3>2, <3>5, <4>2
      <4> QED
        BY <4>1, <4>2
    <3> HIDE DEF f
    <3> QED
      BY <3>3, <3>4, <3>5
  <2> QED
    BY <2>1, <2>2
<1>2. Nat \subseteq Good
  <2> HIDE DEF Good
  <2> QED
    BY <1>1, NatInductionBySet
<1> QED
  BY <1>2 DEF Iterates

(* A finite set of numbers has a largest one. *)
LEMMA MaxOfNaturals ==
  ASSUME NEW S \in SUBSET Nat, IsFiniteSet(S), S # {}
  PROVE  Max(S) \in S /\ \A x \in S : x <= Max(S)
<1> DEFINE Good == {T \in SUBSET S : T # {} => \E x \in T : \A y \in T : y <= x}
<1>1. ASSUME NEW T \in SUBSET S, \A U \in SUBSET T : U # T => U \in Good
      PROVE  T \in Good
  <2> SUFFICES ASSUME T # {} PROVE \E x \in T : \A y \in T : y <= x
    OBVIOUS
  <2>1. PICK z \in T : TRUE
    OBVIOUS
  <2>2. T \ {z} \in Good
    BY <1>1, <2>1
  <2>3. CASE T = {z}
    BY <2>3
  <2>4. CASE T # {z}
    <3>1. PICK x \in T \ {z} : \A y \in T \ {z} : y <= x
      BY <2>1, <2>2, <2>4
    <3>2. CASE z <= x
      BY <3>1, <3>2
    <3>3. CASE ~(z <= x)
      BY <3>1, <3>3
    <3> QED
      BY <3>2, <3>3
  <2> QED
    BY <2>3, <2>4
<1>2. (SUBSET S) \subseteq Good
  <2> HIDE DEF Good
  <2> QED
    BY <1>1, SubsetInductionBySet
<1>3. \E x \in S : \A y \in S : y <= x
  BY <1>2
<1> QED
  BY <1>3 DEF Max

Largest(a, K, f) == Max({a} \cup {f[i] : i \in 1..K})

(* ... so has the image of an interval, with a number added to it. *)
LEMMA LargestDef ==
  ASSUME NEW a \in Nat, NEW K \in Nat, NEW f \in [1..K -> Nat]
  PROVE  /\ Largest(a, K, f) \in Nat /\ a <= Largest(a, K, f)
         /\ \A i \in 1..K : f[i] <= Largest(a, K, f)
         /\ (Largest(a, K, f) = a \/ \E i \in 1..K : Largest(a, K, f) = f[i])
<1> DEFINE I == {f[i] : i \in 1..K}
           S == {a} \cup I
<1>1. IsFiniteSet(I)
  <2>1. IsFiniteSet(1..K)
    BY FS_Interval
  <2>2. f \in Surjection(1..K, I)
    BY DEF Surjection
  <2> HIDE DEF I
  <2> QED
    BY <2>1, <2>2, FS_Surjection
<1>2. IsFiniteSet(S) /\ S \in SUBSET Nat /\ S # {}
  BY <1>1, FS_AddElement
<1>3. Max(S) \in S /\ \A x \in S : x <= Max(S)
  <2> HIDE DEF S
  <2> QED
    BY <1>2, MaxOfNaturals
<1>4. Largest(a, K, f) = Max(S)
  BY DEF Largest
<1> QED
  BY <1>3, <1>4

-----------------------------------------------------------------------------
(* The reference definitions. *)

B == budgets.depth
Nodes == DOMAIN graph

\* The levels that a child adds to the depth of its caller.
Levels(n, i) == IF Overrides(n) /\ i > 1 THEN 2 ELSE 1

DeepOver(d) ==
  [n \in Nodes |-> Max({1} \cup {d[Children(n)[i]] + Levels(n, i) : i \in DOMAIN Children(n)})]
ChargeOver(c) ==
  [n \in Nodes |-> (IF Creates(n) THEN 1 ELSE 0)
     + SumFunctionOnSet([i \in DOMAIN Children(n) |-> c[Children(n)[i]]], DOMAIN Children(n))]

DeepSteps(f) ==
  f = [k \in 0..(B + 1) |-> [n \in Nodes |-> IF k = 0 THEN 0 ELSE DeepOver(f[k - 1])[n]]]
ChargeSteps(f) ==
  f = [k \in 0..B |-> [n \in Nodes |-> IF k = 0 THEN 0 ELSE ChargeOver(f[k - 1])[n]]]

(* The depths, as the function that one equation defines. *)
LEMMA DepthsChosen == Depths = CHOOSE f : DeepSteps(f)
BY DEF Depths, DeepSteps, B, Nodes, Levels, DeepOver

(* The charges, likewise. *)
LEMMA ChargesChosen == Charges = CHOOSE f : ChargeSteps(f)
BY DEF Charges, ChargeSteps, B, Nodes, ChargeOver

(* A graph and its budgets. *)
LEMMA GraphFacts ==
  ASSUME Inv
  PROVE  /\ B \in Nat /\ budgets.expandedNodes \in Nat
         /\ IsFiniteSet(Nodes) /\ Root[Main] \in Nodes
         /\ \A n \in Nodes : /\ Children(n) \in Seq(Nodes) /\ Len(Children(n)) \in Nat
                             /\ DOMAIN Children(n) = 1..Len(Children(n))
                             /\ \A i \in 1..Len(Children(n)) : Children(n)[i] \in Nodes
<1>1. budgets \in AllBudgets /\ graph \in Graphs
  BY DEF Inv
<1>2. ASSUME NEW n \in Nodes
      PROVE  /\ Children(n) \in Seq(Nodes) /\ Len(Children(n)) \in Nat
             /\ DOMAIN Children(n) = 1..Len(Children(n))
             /\ \A i \in 1..Len(Children(n)) : Children(n)[i] \in Nodes
  <2>1. Children(n) \in Seq(Nodes)
    BY <1>1, ChildrenInGraph DEF Nodes
  <2> QED
    BY <2>1, LenProperties, ElementOfSeq
<1> QED
  BY <1>1, <1>2, BudgetsAssumption, GraphsAssumption DEF B, Nodes

(* One level more of depth. *)
LEMMA DeepOverType ==
  ASSUME Inv, NEW d \in [Nodes -> Nat], NEW n \in Nodes
  PROVE  /\ DeepOver(d)[n] \in Nat /\ 1 <= DeepOver(d)[n]
         /\ \A i \in DOMAIN Children(n) : d[Children(n)[i]] + Levels(n, i) <= DeepOver(d)[n]
<1> DEFINE K == Len(Children(n))
           f == [i \in 1..K |-> d[Children(n)[i]] + Levels(n, i)]
<1>1. K \in Nat /\ DOMAIN Children(n) = 1..K /\ f \in [1..K -> Nat]
  BY GraphFacts DEF Levels
<1>2. DeepOver(d)[n] = Largest(1, K, f)
  <2>1. {d[Children(n)[i]] + Levels(n, i) : i \in DOMAIN Children(n)} = {f[i] : i \in 1..K}
    BY <1>1
  <2> QED
    BY <2>1 DEF DeepOver, Largest
<1>3. \A i \in DOMAIN Children(n) : f[i] = d[Children(n)[i]] + Levels(n, i)
  BY <1>1
<1> HIDE DEF f, K
<1> QED
  BY <1>1, <1>2, <1>3, LargestDef, 1 \in Nat, SMTT(30)

(* The depths are numbers, and each is the depth of the levels below and one or *)
(* two more.                                                                    *)
LEMMA DepthsDef ==
  ASSUME Inv
  PROVE  /\ Depths \in [0..(B + 1) -> [Nodes -> Nat]]
         /\ \A k \in 1..(B + 1), n \in Nodes :
              /\ 1 <= Depths[k][n]
              /\ \A i \in DOMAIN Children(n) :
                   Depths[k - 1][Children(n)[i]] + Levels(n, i) <= Depths[k][n]
<1> DEFINE D == [Nodes -> Nat]
           a == [n \in Nodes |-> 0]
           F == [d \in D |-> DeepOver(d)]
<1>1. \A d \in D : DeepOver(d) \in D
  <2> SUFFICES ASSUME NEW d \in D PROVE DeepOver(d) \in D
    OBVIOUS
  <2>1. \A n \in Nodes : DeepOver(d)[n] \in Nat
    BY DeepOverType
  <2>2. DeepOver(d) = [n \in Nodes |-> DeepOver(d)[n]]
    BY DEF DeepOver
  <2> QED
    BY <2>1, <2>2
<1>2. a \in D /\ F \in [D -> D] /\ B + 1 \in Nat /\ \A d \in D : F[d] = DeepOver(d)
  BY <1>1, GraphFacts
<1> HIDE DEF D, a, F
<1>3. PICK f : f \in [0..(B + 1) -> D] /\ f[0] = a /\ \A k \in 1..(B + 1) : f[k] = F[f[k - 1]]
  <2>1. \E f : Iterates(D, a, F, B + 1, f)
    BY <1>2, PrimRec
  <2> QED
    BY <2>1 DEF Iterates
<1>4. DeepSteps(f)
  <2>1. ASSUME NEW k \in 0..(B + 1)
        PROVE  f[k] = [n \in Nodes |-> IF k = 0 THEN 0 ELSE DeepOver(f[k - 1])[n]]
    <3>1. CASE k = 0
      BY <1>3, <3>1 DEF a
    <3>2. CASE k # 0
      <4>1. k \in 1..(B + 1) /\ k - 1 \in 0..(B + 1)
        BY <1>2, <3>2
      <4>2. f[k] = DeepOver(f[k - 1]) /\ f[k - 1] \in D
        BY <1>2, <1>3, <4>1
      <4>3. DeepOver(f[k - 1]) = [n \in Nodes |-> DeepOver(f[k - 1])[n]]
        BY DEF DeepOver
      <4> QED
        BY <3>2, <4>2, <4>3
    <3> QED
      BY <3>1, <3>2
  <2> QED
    BY <1>3, <2>1 DEF DeepSteps
<1>5. DeepSteps(Depths)
  BY <1>4, DepthsChosen
<1>6. /\ DOMAIN Depths = 0..(B + 1)
      /\ \A k \in 0..(B + 1) : Depths[k] = [n \in Nodes |-> IF k = 0 THEN 0 ELSE DeepOver(Depths[k - 1])[n]]
  BY <1>5 DEF DeepSteps
<1>7. \A k \in 0..(B + 1) : Depths[k] \in D
  <2> DEFINE Good == {k \in Nat : k \in 0..(B + 1) => Depths[k] \in D}
  <2>1. ASSUME NEW k \in Nat, \A m \in 0..(k - 1) : m \in Good
        PROVE  k \in Good
    <3>1. CASE k = 0
      BY <1>2, <1>6, <3>1 DEF D
    <3>2. CASE k # 0 /\ k \in 0..(B + 1)
      <4>1. k - 1 \in 0..(k - 1) /\ k - 1 \in 0..(B + 1)
        BY <1>2, <3>2
      <4>2. Depths[k - 1] \in D
        BY <2>1, <4>1
      <4>3. DeepOver(Depths[k - 1]) \in D
        BY <1>1, <4>2
      <4> QED
        BY <1>6, <3>2, <4>3 DEF D
    <3> QED
      BY <3>1, <3>2
  <2>2. Nat \subseteq Good
    <3> HIDE DEF Good
    <3> QED
      BY <2>1, NatInductionBySet
  <2> QED
    BY <2>2
<1>8. ASSUME NEW k \in 1..(B + 1), NEW n \in Nodes
      PROVE  /\ 1 <= Depths[k][n]
             /\ \A i \in DOMAIN Children(n) :
                  Depths[k - 1][Children(n)[i]] + Levels(n, i) <= Depths[k][n]
  <2>1. k \in 0..(B + 1) /\ k # 0 /\ k - 1 \in 0..(B + 1)
    BY <1>2
  <2>2. Depths[k][n] = DeepOver(Depths[k - 1])[n] /\ Depths[k - 1] \in [Nodes -> Nat]
    BY <1>6, <1>7, <2>1 DEF D
  <2> QED
    BY <2>2, DeepOverType
<1>9. Depths = [k \in 0..(B + 1) |-> Depths[k]]
  BY <1>5 DEF DeepSteps
<1> QED
  BY <1>7, <1>8, <1>9 DEF D

\* The terms of the charge of a node: what its children charge.
Terms(c, n) == [i \in DOMAIN Children(n) |-> c[Children(n)[i]]]
Own(n) == IF Creates(n) THEN 1 ELSE 0

(* One level more of charges. *)
LEMMA ChargeOverType ==
  ASSUME Inv, NEW c \in [Nodes -> Nat], NEW n \in Nodes
  PROVE  /\ ChargeOver(c)[n] \in Nat
         /\ ChargeOver(c)[n] = Own(n) + SumFunctionOnSet(Terms(c, n), DOMAIN Children(n))
<1>1. IsFiniteSet(DOMAIN Children(n)) /\ \A i \in DOMAIN Children(n) : Terms(c, n)[i] \in Nat
  BY GraphFacts, FS_Interval DEF Terms
<1>2. SumFunctionOnSet(Terms(c, n), DOMAIN Children(n)) \in Nat
  BY <1>1, SumNat
<1>3. ChargeOver(c)[n] = Own(n) + SumFunctionOnSet(Terms(c, n), DOMAIN Children(n))
  BY DEF ChargeOver, Own, Terms
<1> QED
  BY <1>2, <1>3 DEF Own

(* The charges are numbers, and each is the sum of the charges below and one    *)
(* for the node that is created.                                                *)
LEMMA ChargesDef ==
  ASSUME Inv
  PROVE  /\ Charges \in [0..B -> [Nodes -> Nat]]
         /\ \A k \in 1..B, n \in Nodes :
              Charges[k][n] = Own(n) + SumFunctionOnSet(Terms(Charges[k - 1], n), DOMAIN Children(n))
<1> DEFINE D == [Nodes -> Nat]
           a == [n \in Nodes |-> 0]
           F == [d \in D |-> ChargeOver(d)]
<1>1. \A d \in D : ChargeOver(d) \in D
  <2> SUFFICES ASSUME NEW d \in D PROVE ChargeOver(d) \in D
    OBVIOUS
  <2>1. \A n \in Nodes : ChargeOver(d)[n] \in Nat
    BY ChargeOverType
  <2>2. ChargeOver(d) = [n \in Nodes |-> ChargeOver(d)[n]]
    BY DEF ChargeOver
  <2> QED
    BY <2>1, <2>2
<1>2. a \in D /\ F \in [D -> D] /\ B \in Nat /\ \A d \in D : F[d] = ChargeOver(d)
  BY <1>1, GraphFacts
<1> HIDE DEF D, a, F
<1>3. PICK f : f \in [0..B -> D] /\ f[0] = a /\ \A k \in 1..B : f[k] = F[f[k - 1]]
  <2>1. \E f : Iterates(D, a, F, B, f)
    BY <1>2, PrimRec
  <2> QED
    BY <2>1 DEF Iterates
<1>4. ChargeSteps(f)
  <2>1. ASSUME NEW k \in 0..B
        PROVE  f[k] = [n \in Nodes |-> IF k = 0 THEN 0 ELSE ChargeOver(f[k - 1])[n]]
    <3>1. CASE k = 0
      BY <1>3, <3>1 DEF a
    <3>2. CASE k # 0
      <4>1. k \in 1..B /\ k - 1 \in 0..B
        BY <1>2, <3>2
      <4>2. f[k] = ChargeOver(f[k - 1]) /\ f[k - 1] \in D
        BY <1>2, <1>3, <4>1
      <4>3. ChargeOver(f[k - 1]) = [n \in Nodes |-> ChargeOver(f[k - 1])[n]]
        BY DEF ChargeOver
      <4> QED
        BY <3>2, <4>2, <4>3
    <3> QED
      BY <3>1, <3>2
  <2> QED
    BY <1>3, <2>1 DEF ChargeSteps
<1>5. ChargeSteps(Charges)
  BY <1>4, ChargesChosen
<1>6. /\ DOMAIN Charges = 0..B
      /\ \A k \in 0..B : Charges[k] = [n \in Nodes |-> IF k = 0 THEN 0 ELSE ChargeOver(Charges[k - 1])[n]]
  BY <1>5 DEF ChargeSteps
<1>7. \A k \in 0..B : Charges[k] \in D
  <2> DEFINE Good == {k \in Nat : k \in 0..B => Charges[k] \in D}
  <2>1. ASSUME NEW k \in Nat, \A m \in 0..(k - 1) : m \in Good
        PROVE  k \in Good
    <3>1. CASE k = 0
      BY <1>2, <1>6, <3>1 DEF D
    <3>2. CASE k # 0 /\ k \in 0..B
      <4>1. k - 1 \in 0..(k - 1) /\ k - 1 \in 0..B
        BY <1>2, <3>2
      <4>2. Charges[k - 1] \in D
        BY <2>1, <4>1
      <4>3. ChargeOver(Charges[k - 1]) \in D
        BY <1>1, <4>2
      <4> QED
        BY <1>6, <3>2, <4>3 DEF D
    <3> QED
      BY <3>1, <3>2
  <2>2. Nat \subseteq Good
    <3> HIDE DEF Good
    <3> QED
      BY <2>1, NatInductionBySet
  <2> QED
    BY <2>2
<1>8. ASSUME NEW k \in 1..B, NEW n \in Nodes
      PROVE  Charges[k][n] = Own(n) + SumFunctionOnSet(Terms(Charges[k - 1], n), DOMAIN Children(n))
  <2>1. k \in 0..B /\ k # 0 /\ k - 1 \in 0..B
    BY <1>2
  <2>2. Charges[k][n] = ChargeOver(Charges[k - 1])[n] /\ Charges[k - 1] \in [Nodes -> Nat]
    BY <1>6, <1>7, <2>1 DEF D
  <2> QED
    BY <2>2, ChargeOverType
<1>9. Charges = [k \in 0..B |-> Charges[k]]
  BY <1>5 DEF ChargeSteps
<1> QED
  BY <1>7, <1>8, <1>9 DEF D

-----------------------------------------------------------------------------
(* What can be reached. *)

Steps(S) == UNION {{n} \cup Callees(n) : n \in S}
EndSteps(from, f) ==
  f = [k \in 0..Cardinality(Nodes) |-> IF k = 0 THEN from ELSE Steps(f[k - 1])]
Closed(S) == \A n \in S : Callees(n) \subseteq S

(* The ends of walks, likewise. *)
LEMMA EndsChosen ==
  ASSUME NEW from
  PROVE  Ends(from) = CHOOSE f : EndSteps(from, f)
BY DEF Ends, EndSteps, Nodes, Steps

(* The walks from a set of nodes, and where they end. *)
LEMMA EndsDef ==
  ASSUME Inv, NEW from \in SUBSET Nodes
  PROVE  LET N == Cardinality(Nodes)
         IN  /\ N \in Nat
             /\ Ends(from)[0] = from
             /\ \A k \in 1..N : Ends(from)[k] = Steps(Ends(from)[k - 1])
             /\ \A k \in 0..N : Ends(from)[k] \in SUBSET Nodes
             /\ Reachable(from) = Ends(from)[N]
<1> DEFINE N == Cardinality(Nodes)
           D == SUBSET Nodes
           F == [S \in D |-> Steps(S)]
<1>1. \A S \in D : Steps(S) \in D
  <2>1. \A n \in Nodes : Callees(n) \in D
    BY GraphFacts DEF Callees, ToSet
  <2> QED
    BY <2>1 DEF Steps
<1>2. N \in Nat /\ F \in [D -> D] /\ \A S \in D : F[S] = Steps(S)
  BY <1>1, GraphFacts, FS_CardinalityType
<1> HIDE DEF D, F, N
<1>3. PICK f : f \in [0..N -> D] /\ f[0] = from /\ \A k \in 1..N : f[k] = F[f[k - 1]]
  <2>1. \E f : Iterates(D, from, F, N, f)
    BY <1>2, PrimRec DEF D
  <2> QED
    BY <2>1 DEF Iterates
<1>4. EndSteps(from, f)
  <2>1. ASSUME NEW k \in 0..N PROVE f[k] = IF k = 0 THEN from ELSE Steps(f[k - 1])
    BY <1>2, <1>3
  <2> QED
    BY <1>3, <2>1 DEF EndSteps, N
<1>5. EndSteps(from, Ends(from))
  BY <1>4, EndsChosen
<1>6. /\ Ends(from)[0] = from
      /\ \A k \in 1..N : Ends(from)[k] = Steps(Ends(from)[k - 1])
  <2>1. \A k \in 0..N : Ends(from)[k] = IF k = 0 THEN from ELSE Steps(Ends(from)[k - 1])
    BY <1>5 DEF EndSteps, N
  <2> QED
    BY <1>2, <2>1
<1>7. \A k \in 0..N : Ends(from)[k] \in D
  <2> DEFINE Good == {k \in Nat : k \in 0..N => Ends(from)[k] \in D}
  <2>1. ASSUME NEW k \in Nat, \A m \in 0..(k - 1) : m \in Good
        PROVE  k \in Good
    <3>1. CASE k = 0
      BY <1>6, <3>1 DEF D
    <3>2. CASE k \in 1..N
      BY <1>1, <1>2, <1>6, <2>1, <3>2
    <3> QED
      BY <1>2, <3>1, <3>2
  <2>2. Nat \subseteq Good
    <3> HIDE DEF Good
    <3> QED
      BY <2>1, NatInductionBySet
  <2> QED
    BY <2>2
<1>8. Reachable(from) = Ends(from)[N]
  BY DEF Reachable, N, Nodes
<1> QED
  BY <1>2, <1>6, <1>7, <1>8 DEF N, D

(* Nothing outside a closed set is reached from within. *)
LEMMA ReachableWithin ==
  ASSUME Inv, NEW from \in SUBSET Nodes, NEW S, from \subseteq S, Closed(S)
  PROVE  Reachable(from) \subseteq S
<1> DEFINE N == Cardinality(Nodes)
           Good == {k \in Nat : k \in 0..N => Ends(from)[k] \subseteq S}
<1>1. N \in Nat /\ Reachable(from) = Ends(from)[N]
  BY EndsDef
<1>2. ASSUME NEW k \in Nat, \A m \in 0..(k - 1) : m \in Good
      PROVE  k \in Good
  <2>1. CASE k = 0
    BY <2>1, EndsDef
  <2>2. CASE k \in 1..N
    <3>1. Ends(from)[k] = Steps(Ends(from)[k - 1])
      BY <2>2, EndsDef
    <3>2. Ends(from)[k - 1] \subseteq S
      BY <1>1, <1>2, <2>2
    <3> QED
      BY <3>1, <3>2 DEF Steps, Closed
  <2> QED
    BY <1>1, <2>1, <2>2
<1>3. Nat \subseteq Good
  <2> HIDE DEF Good
  <2> QED
    BY <1>2, NatInductionBySet
<1> QED
  BY <1>1, <1>3

(* What is reached is closed: as long as a step leads further, it adds a node, *)
(* and there are no more steps than nodes.                                     *)
LEMMA ReachableClosed ==
  ASSUME Inv, NEW from \in SUBSET Nodes
  PROVE  /\ from \subseteq Reachable(from) /\ Reachable(from) \subseteq Nodes
         /\ Closed(Reachable(from))
<1> DEFINE N == Cardinality(Nodes)
           E(k) == Ends(from)[k]
           Good == {k \in Nat : k \in 0..N => /\ from \subseteq E(k)
                                              /\ (Closed(E(k)) \/ Cardinality(E(k)) >= k)}
<1>1. /\ N \in Nat /\ Reachable(from) = E(N) /\ \A k \in 0..N : E(k) \in SUBSET Nodes
      /\ E(0) = from /\ \A k \in 1..N : E(k) = Steps(E(k - 1))
  BY EndsDef
<1> HIDE DEF E, N
<1>2. \A k \in 0..N : IsFiniteSet(E(k)) /\ Cardinality(E(k)) \in Nat
  BY <1>1, GraphFacts, FS_Subset, FS_CardinalityType
<1>3. ASSUME NEW k \in Nat, \A m \in 0..(k - 1) : m \in Good
      PROVE  k \in Good
  <2>1. CASE k = 0
    <3>1. 0 \in 0..N /\ Cardinality(E(0)) >= 0
      BY <1>1, <1>2
    <3> QED
      BY <1>1, <2>1, <3>1
  <2>2. CASE k \in 1..N
    <3>1. E(k) = Steps(E(k - 1))
      BY <1>1, <2>2
    <3>2. k - 1 \in 0..N /\ k - 1 \in Good
      BY <1>1, <1>3, <2>2
    <3>3. E(k - 1) \subseteq E(k)
      BY <3>1 DEF Steps
    <3>4. CASE Closed(E(k - 1))
      <4>1. E(k) = E(k - 1)
        BY <3>1, <3>4 DEF Steps, Closed
      <4>2. Closed(E(k)) /\ from \subseteq E(k)
        BY <3>2, <3>4, <4>1, Zenon
      <4> QED
        BY <4>2
    <3>5. CASE ~Closed(E(k - 1))
      <4>1. E(k) # E(k - 1)
        BY <3>1, <3>5 DEF Steps, Closed
      <4>2. Cardinality(E(k - 1)) < Cardinality(E(k))
        <5>1. k \in 0..N
          BY <2>2
        <5> QED
          BY <1>2, <3>2, <3>3, <4>1, <5>1, FS_Subset
      <4>3. Cardinality(E(k - 1)) >= k - 1
        BY <3>2, <3>5
      <4>4. Cardinality(E(k - 1)) \in Nat /\ Cardinality(E(k)) \in Nat
        BY <1>2, <2>2, <3>2
      <4>5. Cardinality(E(k)) >= k
        BY <4>2, <4>3, <4>4
      <4> QED
        BY <3>2, <3>3, <4>5
    <3> QED
      BY <3>4, <3>5
  <2> QED
    BY <1>1, <2>1, <2>2
<1>4. Nat \subseteq Good
  <2> HIDE DEF Good
  <2> QED
    BY <1>3, NatInductionBySet
<1>5. from \subseteq E(N) /\ (Closed(E(N)) \/ Cardinality(E(N)) >= N)
  <2>1. N \in Good /\ N \in 0..N
    BY <1>1, <1>4
  <2> QED
    BY <2>1, Zenon
<1>6. CASE Cardinality(E(N)) >= N
  <2>1. E(N) \subseteq Nodes /\ IsFiniteSet(Nodes) /\ Cardinality(E(N)) \in Nat
    BY <1>1, <1>2, GraphFacts
  <2>2. Cardinality(E(N)) <= N /\ (Cardinality(E(N)) = N => E(N) = Nodes)
    BY <2>1, FS_Subset DEF N
  <2>3. E(N) = Nodes
    BY <1>1, <1>6, <2>1, <2>2
  <2>4. Closed(Nodes)
    BY GraphFacts DEF Closed, Callees, ToSet
  <2> QED
    BY <1>1, <1>5, <2>3, <2>4
<1> QED
  BY <1>1, <1>5, <1>6

-----------------------------------------------------------------------------
(* The calls, as a walk over the graph. *)

Kids == [n \in Nodes |-> Children(n)]
Under == [n \in Nodes |-> Reachable(Callees(n))]
FromRoot == Reachable({Root[Main]})

\* The calls in progress are a path from the root, each of a new node, and
\* have the results of the children that have returned.
WalkOK ==
  /\ \A i \in 1..Len(stack) :
       /\ stack[i].depth = i /\ i <= B
       /\ stack[i].node \in FromRoot \ DOMAIN resolved
       /\ Len(stack[i].results) <= Len(Kids[stack[i].node])
       /\ \A j \in 1..Len(stack[i].results) :
            /\ Kids[stack[i].node][j] \in DOMAIN resolved
            /\ stack[i].results[j] = resolved[Kids[stack[i].node][j]]
  /\ Len(stack) > 0 => stack[1].node = Root[Main]
  /\ \A i \in 1..(Len(stack) - 1) :
       /\ Len(stack[i].results) < Len(Kids[stack[i].node])
       /\ stack[i + 1].node = Kids[stack[i].node][Len(stack[i].results) + 1]
  /\ \A i, j \in 1..Len(stack) :
       i < j => stack[i].node # stack[j].node /\ stack[j].node \in Under[stack[i].node]

\* What is below a result has its result too, and does not lead back.
ResolvedOK ==
  \A n \in DOMAIN resolved :
    /\ n \in Nodes \ Under[n] /\ Kind(n) # "missing"
    /\ \A i \in 1..Len(Kids[n]) : Kids[n][i] \in DOMAIN resolved

\* What never changes.
LEMMA Static ==
  ASSUME UNCHANGED <<graph, budgets>>
  PROVE  /\ Nodes' = Nodes /\ B' = B /\ Kids' = Kids /\ Under' = Under /\ FromRoot' = FromRoot
         /\ Depths' = Depths /\ Charges' = Charges
         /\ FullDepth' = FullDepth /\ FullCharge' = FullCharge /\ Cyclic' = Cyclic
<1>1. Nodes' = Nodes /\ B' = B
  BY DEF Nodes, B
<1>2. Kids' = Kids
  BY DEF Kids, Nodes, Children, Refers, Overrides, Kind
<1>3. Under' = Under
  BY DEF Under, Nodes, Reachable, Ends, Callees, Children, Refers, Overrides, Kind
<1>4. FromRoot' = FromRoot
  BY DEF FromRoot, Reachable, Ends, Callees, Children, Refers, Overrides, Kind
<1>5. Cyclic' = Cyclic
  BY DEF Cyclic, Reachable, Ends, Callees, Children, Refers, Overrides, Kind
<1> QED
  BY <1>1, <1>2, <1>3, <1>4, <1>5, SameDepths, SameCharges DEF FullDepth, FullCharge

(* The walks of the graph. *)
LEMMA WalkFacts ==
  ASSUME Inv
  PROVE  /\ FromRoot \in SUBSET Nodes /\ Root[Main] \in FromRoot
         /\ \A n \in Nodes : /\ Kids[n] \in Seq(Nodes) /\ Len(Kids[n]) \in Nat
                             /\ \A i \in 1..Len(Kids[n]) : Kids[n][i] \in Nodes \cap Under[n]
         /\ \A n \in FromRoot : \A i \in 1..Len(Kids[n]) : Kids[n][i] \in FromRoot
         /\ \A n \in Nodes : \A m \in Under[n] :
              m \in Nodes /\ \A i \in 1..Len(Kids[m]) : Kids[m][i] \in Under[n]
         /\ Cyclic <=> \E n \in FromRoot : n \in Under[n]
<1>1. \A n \in Nodes : /\ Kids[n] = Children(n) /\ Under[n] = Reachable(Callees(n))
                       /\ Callees(n) = {Kids[n][i] : i \in 1..Len(Kids[n])}
                       /\ Callees(n) \in SUBSET Nodes
  BY GraphFacts DEF Kids, Under, Callees, ToSet
<1>2. {Root[Main]} \in SUBSET Nodes
  BY GraphFacts
<1>3. Root[Main] \in FromRoot /\ FromRoot \in SUBSET Nodes /\ Closed(FromRoot)
  BY <1>2, ReachableClosed DEF FromRoot
<1>4. \A n \in Nodes : Callees(n) \subseteq Under[n] /\ Under[n] \subseteq Nodes /\ Closed(Under[n])
  <2> SUFFICES ASSUME NEW n \in Nodes
               PROVE  Callees(n) \subseteq Under[n] /\ Under[n] \subseteq Nodes /\ Closed(Under[n])
    OBVIOUS
  <2> DEFINE from == Callees(n)
  <2>1. from \in SUBSET Nodes /\ Under[n] = Reachable(from)
    BY <1>1
  <2> HIDE DEF from
  <2>2. from \subseteq Reachable(from) /\ Reachable(from) \subseteq Nodes /\ Closed(Reachable(from))
    BY <2>1, ReachableClosed
  <2> QED
    BY <2>1, <2>2 DEF from
<1>5. \A n \in FromRoot : \A i \in 1..Len(Kids[n]) : Kids[n][i] \in FromRoot
  BY <1>1, <1>3 DEF Closed
<1>6. \A n \in Nodes : \A m \in Under[n] :
        m \in Nodes /\ \A i \in 1..Len(Kids[m]) : Kids[m][i] \in Under[n]
  BY <1>1, <1>4 DEF Closed
<1>7. \A n \in Nodes : /\ Kids[n] \in Seq(Nodes) /\ Len(Kids[n]) \in Nat
                       /\ \A i \in 1..Len(Kids[n]) : Kids[n][i] \in Nodes \cap Under[n]
  BY <1>1, <1>4, GraphFacts
<1>8. Cyclic <=> \E n \in FromRoot : n \in Under[n]
  BY <1>1, <1>3 DEF Cyclic, FromRoot
<1> QED
  BY <1>3, <1>5, <1>6, <1>7, <1>8

(* What is under a node stays within a closed set that has its children. *)
LEMMA UnderWithin ==
  ASSUME Inv, NEW n \in Nodes, NEW S \in SUBSET Nodes,
         \A i \in 1..Len(Kids[n]) : Kids[n][i] \in S,
         \A m \in S : \A i \in 1..Len(Kids[m]) : Kids[m][i] \in S
  PROVE  Under[n] \subseteq S
<1>1. \A m \in Nodes : /\ Kids[m] = Children(m) /\ Under[m] = Reachable(Callees(m))
                       /\ Callees(m) = {Kids[m][i] : i \in 1..Len(Kids[m])}
                       /\ Callees(m) \in SUBSET Nodes
  BY GraphFacts DEF Kids, Under, Callees, ToSet
<1> DEFINE from == Callees(n)
<1>2. from \in SUBSET Nodes /\ from \subseteq S /\ Closed(S) /\ Under[n] = Reachable(from)
  BY <1>1 DEF Closed
<1> HIDE DEF from
<1> QED
  BY <1>2, ReachableWithin

(* What is reached from the root stays within a closed set that has the root. *)
LEMMA FromRootWithin ==
  ASSUME Inv, NEW S \in SUBSET Nodes, Root[Main] \in S,
         \A m \in S : \A i \in 1..Len(Kids[m]) : Kids[m][i] \in S
  PROVE  FromRoot \subseteq S
<1>1. \A m \in Nodes : Callees(m) = {Kids[m][i] : i \in 1..Len(Kids[m])}
  BY GraphFacts DEF Kids, Callees, ToSet
<1> DEFINE from == {Root[Main]}
<1>2. from \in SUBSET Nodes /\ from \subseteq S /\ Closed(S) /\ FromRoot = Reachable(from)
  BY <1>1, GraphFacts DEF Closed, FromRoot
<1> HIDE DEF from
<1> QED
  BY <1>2, ReachableWithin

-----------------------------------------------------------------------------
(* The kinds of steps. *)

TopFrame == stack[Len(stack)]

\* The frames of the calls.
LEMMA StackFacts ==
  ASSUME Inv
  PROVE  /\ Len(stack) \in Nat /\ DOMAIN stack = 1..Len(stack)
         /\ (stack = <<>> <=> Len(stack) = 0)
         /\ (stack # <<>> => Top = stack[Len(stack)])
         /\ \A i \in 1..Len(stack) :
              /\ stack[i].node \in Nodes /\ stack[i].depth \in Nat
              /\ Len(stack[i].results) \in Nat
              /\ DOMAIN stack[i].results = 1..Len(stack[i].results)
<1>1. PICK R : stack \in Seq(Frames(R))
  BY DEF Inv, StackOK
<1>2. Len(stack) \in Nat /\ DOMAIN stack = 1..Len(stack) /\ (stack = <<>> <=> Len(stack) = 0)
  BY <1>1, LenProperties, EmptySeq
<1>3. ASSUME NEW i \in 1..Len(stack)
      PROVE  /\ stack[i].node \in Nodes /\ stack[i].depth \in Nat
             /\ Len(stack[i].results) \in Nat
             /\ DOMAIN stack[i].results = 1..Len(stack[i].results)
  <2>1. stack[i] \in Frames(R)
    BY <1>1, <1>3, ElementOfSeq
  <2>2. stack[i].node \in Nodes /\ stack[i].depth \in Nat /\ stack[i].results \in Seq(R)
    BY <2>1 DEF Frames, Nodes
  <2> QED
    BY <2>2, LenProperties
<1>4. stack # <<>> => Top = stack[Len(stack)]
  BY DEF Top, Last
<1> QED
  BY <1>2, <1>3, <1>4

\* The callee comes next among the children of the caller.
LEMMA CalleeFacts ==
  ASSUME Inv, WalkOK, Calls
  PROVE  /\ Callee.node \in FromRoot /\ Callee.depth = Len(stack) + 1
         /\ Len(stack) = 0 => Callee.node = Root[Main]
         /\ Len(stack) > 0 =>
              /\ Len(TopFrame.results) < Len(Kids[TopFrame.node])
              /\ Callee.node = Kids[TopFrame.node][Len(TopFrame.results) + 1]
<1>1. CASE Len(stack) = 0
  <2>1. Callee = [node |-> Root[Main], depth |-> 1]
    BY <1>1, StackFacts DEF Callee
  <2> QED
    BY <1>1, <2>1, WalkFacts
<1>2. CASE Len(stack) > 0
  <2>1. stack # <<>> /\ Top = TopFrame /\ Len(stack) \in 1..Len(stack)
    BY <1>2, StackFacts DEF TopFrame
  <2>2. /\ TopFrame.node \in Nodes /\ TopFrame.node \in FromRoot
        /\ TopFrame.depth = Len(stack) /\ Len(TopFrame.results) \in Nat
    BY <2>1, StackFacts DEF WalkOK, TopFrame
  <2>3. Children(TopFrame.node) = Kids[TopFrame.node]
    BY <2>2 DEF Kids
  <2>4. /\ Callee = [node |-> Children(Top.node)[Len(Top.results) + 1], depth |-> Top.depth + 1]
        /\ Len(Top.results) < Len(Children(Top.node))
    BY <2>1 DEF Callee, Calls
  <2>5. /\ Callee.node = Kids[TopFrame.node][Len(TopFrame.results) + 1] /\ Callee.depth = Len(stack) + 1
        /\ Len(TopFrame.results) < Len(Kids[TopFrame.node])
    BY <2>1, <2>2, <2>3, <2>4
  <2>6. Len(TopFrame.results) + 1 \in 1..Len(Kids[TopFrame.node])
    BY <2>2, <2>5, WalkFacts
  <2> QED
    BY <1>2, <2>2, <2>5, <2>6, WalkFacts
<1> QED
  BY <1>1, <1>2, StackFacts

Quiet == UNCHANGED <<graph, budgets, stack, resolved, content, expandedNodes>>

\* The first k calls remain, and the last of them has one result more.
Returned(k, result) ==
  /\ Len(stack') = k
  /\ \A i \in 1..(k - 1) : stack'[i] = stack[i]
  /\ k = 0 => outcome' = "loaded"
  /\ k > 0 =>
       /\ outcome' = outcome
       /\ stack'[k].node = stack[k].node /\ stack'[k].depth = stack[k].depth
       /\ Len(stack'[k].results) = Len(stack[k].results) + 1
       /\ \A j \in 1..Len(stack[k].results) : stack'[k].results[j] = stack[k].results[j]
       /\ stack'[k].results[Len(stack[k].results) + 1] = result

(* A result goes to the last call that remains, or ends the loading. *)
LEMMA ReturnFacts ==
  ASSUME Inv, NEW k \in 0..Len(stack), NEW R, NEW frames \in Seq(Frames(R)),
         Len(frames) = k, \A i \in 1..k : frames[i] = stack[i],
         NEW result, Return(frames, result)
  PROVE  Returned(k, result)
<1>0. k \in Nat
  BY StackFacts
<1>1. CASE k = 0
  <2>1. frames = <<>>
    BY <1>1, EmptySeq
  <2>2. outcome' = "loaded" /\ Len(stack') = 0
    BY <2>1, EmptySeq DEF Return
  <2> QED
    BY <1>1, <2>2 DEF Returned
<1>2. CASE k > 0
  <2> DEFINE T == R \cup {result}
             top == [frames[k] EXCEPT !.results = Append(@, result)]
  <2>1. frames # <<>> /\ k \in 1..Len(frames) /\ frames[k] \in Frames(R) /\ frames[k] = stack[k]
    BY <1>0, <1>2, EmptySeq, ElementOfSeq
  <2>2. stack' = [frames EXCEPT ![k] = top] /\ outcome' = outcome
    BY <2>1 DEF Return
  <2>3. DOMAIN frames = 1..k
    BY LenProperties
  <2>4. frames[k].results \in Seq(T) /\ result \in T
    <3>1. frames[k].results \in Seq(R)
      BY <2>1 DEF Frames
    <3> QED
      BY <3>1, SeqMonotonic
  <2>5. /\ top.node = stack[k].node /\ top.depth = stack[k].depth
        /\ top.results = Append(stack[k].results, result)
    BY <2>1 DEF Frames
  <2>6. /\ Len(top.results) = Len(stack[k].results) + 1
        /\ \A j \in 1..Len(stack[k].results) : top.results[j] = stack[k].results[j]
        /\ top.results[Len(stack[k].results) + 1] = result
    <3> HIDE DEF T, top
    <3> QED
      BY <2>1, <2>4, <2>5, AppendProperties
  <2> HIDE DEF T, top
  <2>7. stack'[k] = top /\ \A i \in 1..(k - 1) : stack'[i] = stack[i]
    BY <1>0, <2>1, <2>2, <2>3
  <2>8. Len(stack') = k
    <3>1. frames \in Seq(Frames(R) \cup {top}) /\ top \in Frames(R) \cup {top}
      BY SeqMonotonic
    <3> QED
      BY <2>1, <2>2, <3>1, ExceptSeq
  <2> QED
    BY <1>2, <2>2, <2>5, <2>6, <2>7, <2>8 DEF Returned
<1> QED
  BY <1>0, <1>1, <1>2

Kept(result, below, charge) ==
  /\ Returned(Len(stack) - 1, result)
  /\ resolved' = Extend(resolved, TopFrame.node, result)
  /\ content' = below /\ expandedNodes' = expandedNodes + charge
  /\ UNCHANGED <<graph, budgets>>

(* The end of a call of resolve. *)
LEMMA KeepFacts ==
  ASSUME Inv, stack # <<>>, NEW result, NEW below, NEW charge, Keep(result, below, charge)
  PROVE  \/ Exceeds(result.height, TopFrame.depth) /\ outcome' = "depth" /\ Quiet
         \/ ~Exceeds(result.height, TopFrame.depth) /\ Kept(result, below, charge)
<1>1. Top = TopFrame /\ Len(stack) \in Nat /\ Len(stack) - 1 \in 0..Len(stack)
  BY StackFacts DEF TopFrame
<1>2. CASE Exceeds(result.height, Top.depth)
  BY <1>1, <1>2 DEF Keep, Fail, Quiet, input, resolution
<1>3. CASE ~Exceeds(result.height, Top.depth)
  <2>1. /\ resolved' = Extend(resolved, Top.node, result) /\ content' = below
        /\ expandedNodes' = expandedNodes + charge /\ Return(Front(stack), result)
        /\ UNCHANGED <<graph, budgets>>
    BY <1>3 DEF Keep, input
  <2>2. PICK R : stack \in Seq(Frames(R))
    BY DEF Inv, StackOK
  <2>3. /\ Front(stack) \in Seq(Frames(R)) /\ Len(Front(stack)) = Len(stack) - 1
        /\ \A i \in 1..(Len(stack) - 1) : Front(stack)[i] = stack[i]
    <3>1. \A i \in 1..(Len(stack) - 1) : stack[i] \in Frames(R)
      BY <1>1, <2>2, ElementOfSeq
    <3>2. /\ SubSeq(stack, 1, Len(stack) - 1) \in Seq(Frames(R))
          /\ Len(SubSeq(stack, 1, Len(stack) - 1)) = Len(stack) - 1
          /\ \A i \in 1..(Len(stack) - 1) : SubSeq(stack, 1, Len(stack) - 1)[i] = stack[i]
      <4> DEFINE L == Len(stack) - 1
      <4>1. L \in Nat /\ 1 \in Int /\ \A i \in 1..L : stack[i] \in Frames(R)
        BY <1>1, <3>1
      <4> HIDE DEF L
      <4>2. /\ SubSeq(stack, 1, L) \in Seq(Frames(R))
            /\ Len(SubSeq(stack, 1, L)) = IF 1 <= L THEN L - 1 + 1 ELSE 0
            /\ \A i \in 1..(L - 1 + 1) : SubSeq(stack, 1, L)[i] = stack[1 + i - 1]
        BY <4>1, SubSeqProperties
      <4>3. \A i \in 1..L : i \in 1..(L - 1 + 1) /\ 1 + i - 1 = i
        BY <4>1
      <4>4. /\ Len(SubSeq(stack, 1, L)) = L
            /\ \A i \in 1..L : SubSeq(stack, 1, L)[i] = stack[i]
        BY <4>1, <4>2, <4>3
      <4> QED
        BY <4>2, <4>4 DEF L
    <3> QED
      BY <3>2 DEF Front
  <2>4. Returned(Len(stack) - 1, result)
    BY <1>1, <2>1, <2>3, ReturnFacts
  <2> QED
    BY <1>1, <1>3, <2>1, <2>4 DEF Kept
<1> QED
  BY <1>2, <1>3, <1>1

(* The error that is returned is one of a check that applies. *)
LEMMA FirstError ==
  ASSUME NEW checks, DOMAIN checks \subseteq Nat, Errors(checks) # {}, FailFirst(checks)
  PROVE  \E i \in DOMAIN checks : checks[i][1] /\ Fail(checks[i][2])
<1>1. Errors(checks) \in SUBSET Nat
  BY DEF Errors
<1>2. PICK i \in Errors(checks) : \A j \in Errors(checks) : i <= j
  BY <1>1, LeastNatural
<1>3. Min(Errors(checks)) \in Errors(checks)
  BY <1>2 DEF Min
<1> QED
  BY <1>3 DEF FailFirst, Errors

OtherCodes == {"document limit", "read limit", "file limit", "source", "file", "external",
               "target", "override target", "assembled"}

(* An error ends the loading and has no part in the resolution. *)
LEMMA FailFacts ==
  ASSUME NEW code, Fail(code)
  PROVE  Quiet /\ outcome' = code
BY DEF Fail, Quiet, input, resolution

(* Steps that have no part in the resolution. *)
LEMMA QuietSteps ==
  ASSUME \/ OpenDocument \/ FileFails \/ ReadDocument \/ StatAgain \/ Parse
         \/ RequestDocument \/ RefuseTarget \/ RefuseOverride \/ Grow \/ Ended \/ UNCHANGED vars
  PROVE  Quiet /\ (outcome' = outcome \/ outcome' \in OtherCodes)
<1> DEFINE Goal == Quiet /\ (outcome' = outcome \/ outcome' \in OtherCodes)
<1>1. \A code \in OtherCodes : Fail(code) => Goal
  BY FailFacts
<1>2. UNCHANGED <<input, resolution, outcome>> => Goal
  BY DEF Quiet, input, resolution
<1>3. CASE OpenDocument
  <2> DEFINE checks ==
               <<<<Cardinality(DOMAIN docs) >= budgets.documents, "document limit">>,
                 <<Remaining <= 0, "read limit">>,
                 <<size[fetch.doc] > budgets.fileBytes, "file limit">>,
                 <<size[fetch.doc] > Remaining, "read limit">>>>
  <2>1. CASE Errors(checks) = {}
    BY <1>2, <1>3, <2>1 DEF OpenDocument
  <2>2. CASE Errors(checks) # {}
    <3>1. FailFirst(checks)
      BY <1>3, <2>2 DEF OpenDocument
    <3>2. DOMAIN checks = 1..4 /\ \A i \in 1..4 : checks[i][2] \in OtherCodes
      BY DEF OtherCodes
    <3> HIDE DEF checks
    <3>3. PICK i \in DOMAIN checks : Fail(checks[i][2])
      BY <2>2, <3>1, <3>2, FirstError
    <3>4. checks[i][2] \in OtherCodes
      BY <3>2, <3>3
    <3> QED
      BY <3>3, <3>4, FailFacts
  <2> QED
    BY <2>1, <2>2
<1>4. CASE Parse
  <2> DEFINE checks ==
             <<<<Cardinality(DOMAIN docs) >= budgets.documents, "document limit">>,
               <<fetch.data > budgets.fileBytes, "file limit">>,
               <<fetch.data > Remaining, "read limit">>,
               <<SourceNodes(DOMAIN docs \cup {fetch.doc}) > budgets.sourceNodes
                   \/ TooDeepSource(fetch.doc), "source">>>>
  <2>1. CASE Errors(checks) = {}
    BY <1>2, <1>4, <2>1 DEF Parse
  <2>2. CASE Errors(checks) # {}
    <3>1. FailFirst(checks)
      BY <1>4, <2>2 DEF Parse
    <3>2. DOMAIN checks = 1..4 /\ \A i \in 1..4 : checks[i][2] \in OtherCodes
      BY DEF OtherCodes
    <3> HIDE DEF checks
    <3>3. PICK i \in DOMAIN checks : Fail(checks[i][2])
      BY <2>2, <3>1, <3>2, FirstError
    <3>4. checks[i][2] \in OtherCodes
      BY <3>2, <3>3
    <3> QED
      BY <3>3, <3>4, FailFacts
  <2> QED
    BY <2>1, <2>2
<1>5. CASE StatAgain
  BY <1>1, <1>2, <1>5 DEF StatAgain, OtherCodes
<1>6. CASE RequestDocument
  BY <1>1, <1>2, <1>6 DEF RequestDocument, OtherCodes
<1>7. CASE FileFails \/ RefuseTarget \/ RefuseOverride
  BY <1>1, <1>7 DEF FileFails, RefuseTarget, RefuseOverride, OtherCodes
<1>8. CASE ReadDocument \/ Grow \/ Ended \/ UNCHANGED vars
  BY <1>2, <1>8 DEF ReadDocument, Grow, Ended, vars
<1> QED
  BY <1>3, <1>4, <1>5, <1>6, <1>7, <1>8

CachedReturned ==
  /\ Returned(Len(stack), resolved[Callee.node])
  /\ expandedNodes' = expandedNodes + resolved[Callee.node].nodes
  /\ UNCHANGED <<graph, budgets, resolved, content>>

(* A cached result is returned and charged, or refused. *)
LEMMA CallCachedFacts ==
  ASSUME Inv, CallCached
  PROVE  /\ Calls /\ Callee.depth <= B /\ Callee.node \in DOMAIN resolved
         /\ \/ /\ Quiet /\ outcome' = "depth"
               /\ Exceeds(resolved[Callee.node].height, Callee.depth)
            \/ /\ Quiet /\ outcome' = "expansion"
               /\ resolved[Callee.node].nodes > budgets.expandedNodes - expandedNodes
            \/ CachedReturned
<1> DEFINE checks == <<<<Exceeds(resolved[Callee.node].height, Callee.depth), "depth">>,
                       <<resolved[Callee.node].nodes > budgets.expandedNodes - expandedNodes, "expansion">>>>
<1>1. Calls /\ Callee.depth <= B /\ Callee.node \in DOMAIN resolved
  BY DEF CallCached, B
<1>2. CASE Errors(checks) # {}
  <2>1. FailFirst(checks)
    BY <1>2 DEF CallCached
  <2>2. /\ DOMAIN checks = 1..2
        /\ checks[1] = <<Exceeds(resolved[Callee.node].height, Callee.depth), "depth">>
        /\ checks[2] = <<resolved[Callee.node].nodes > budgets.expandedNodes - expandedNodes, "expansion">>
    OBVIOUS
  <2> HIDE DEF checks
  <2>3. PICK i \in 1..2 : checks[i][1] /\ Fail(checks[i][2])
    BY <1>2, <2>1, <2>2, FirstError
  <2>4. CASE i = 1
    BY <1>1, <2>2, <2>3, <2>4, FailFacts
  <2>5. CASE i = 2
    <3>1. checks[2][2] = "expansion"
      BY <2>2
    <3>2. checks[2][1] = (resolved[Callee.node].nodes > budgets.expandedNodes - expandedNodes)
      BY <2>2
    <3>3. checks[2][1] /\ Fail("expansion")
      BY <2>3, <2>5, <3>1
    <3>4. resolved[Callee.node].nodes > budgets.expandedNodes - expandedNodes
      BY <3>2, <3>3
    <3> QED
      BY <1>1, <3>3, <3>4, FailFacts
  <2> QED
    BY <2>3, <2>4, <2>5
<1>3. CASE Errors(checks) = {}
  <2>1. /\ expandedNodes' = expandedNodes + resolved[Callee.node].nodes
        /\ Return(stack, resolved[Callee.node])
        /\ UNCHANGED <<graph, budgets, resolved, content>>
    BY <1>3 DEF CallCached, input
  <2>2. PICK R : stack \in Seq(Frames(R))
    BY DEF Inv, StackOK
  <2>3. Len(stack) \in 0..Len(stack)
    BY StackFacts
  <2>4. Returned(Len(stack), resolved[Callee.node])
    BY <2>1, <2>2, <2>3, ReturnFacts
  <2> QED
    BY <1>1, <2>1, <2>4 DEF CachedReturned
<1> QED
  BY <1>2, <1>3

Pushed ==
  /\ Len(stack') = Len(stack) + 1
  /\ \A i \in 1..Len(stack) : stack'[i] = stack[i]
  /\ stack'[Len(stack) + 1].node = Callee.node
  /\ stack'[Len(stack) + 1].depth = Callee.depth
  /\ Len(stack'[Len(stack) + 1].results) = 0
  /\ UNCHANGED <<graph, budgets, resolved, content, expandedNodes, outcome>>

(* A call of a node without result, and not in progress, is a new frame. *)
LEMMA CallFreshFacts ==
  ASSUME Inv, CallFresh
  PROVE  /\ Calls /\ Callee.depth <= B
         /\ Callee.node \notin DOMAIN resolved /\ Callee.node \notin Active
         /\ Pushed
<1> DEFINE frame == [node |-> Callee.node, depth |-> Callee.depth, results |-> <<>>]
<1>1. /\ Calls /\ Callee.depth <= B
      /\ Callee.node \notin DOMAIN resolved /\ Callee.node \notin Active
      /\ stack' = Append(stack, frame)
      /\ UNCHANGED <<graph, budgets, resolved, content, expandedNodes, outcome>>
  BY DEF CallFresh, B, input
<1>2. PICK R : stack \in Seq(Frames(R))
  BY DEF Inv, StackOK
<1>3. frame.node = Callee.node /\ frame.depth = Callee.depth /\ frame.results = <<>> /\ Len(<<>>) = 0
  BY EmptySeq
<1> HIDE DEF frame
<1>4. stack \in Seq(Frames(R) \cup {frame}) /\ frame \in Frames(R) \cup {frame}
  BY <1>2, SeqMonotonic
<1>5. /\ Len(Append(stack, frame)) = Len(stack) + 1
      /\ \A i \in 1..Len(stack) : Append(stack, frame)[i] = stack[i]
      /\ Append(stack, frame)[Len(stack) + 1] = frame
  BY <1>4, AppendProperties
<1> QED
  BY <1>1, <1>3, <1>5 DEF Pushed

\* The end of a call: refused, or kept.
Completion(result, below, charge) ==
  \/ Quiet /\ outcome' \in {"assembled", "expansion"}
  \/ Quiet /\ outcome' = "depth" /\ Exceeds(result.height, TopFrame.depth)
  \/ Kept(result, below, charge)

(* A result that is kept, or too deep, is not refused for expansion. *)
LEMMA KeepCompletes ==
  ASSUME Inv, stack # <<>>, NEW result, NEW below, NEW charge, Keep(result, below, charge)
  PROVE  Completion(result, below, charge) /\ ~(Quiet /\ outcome' = "expansion")
<1>1. \/ Exceeds(result.height, TopFrame.depth) /\ outcome' = "depth" /\ Quiet
      \/ ~Exceeds(result.height, TopFrame.depth) /\ Kept(result, below, charge)
  BY KeepFacts
<1>2. CASE outcome' = "depth"
  BY <1>1, <1>2 DEF Completion
<1>3. CASE Kept(result, below, charge)
  <2>1. Len(stack') = Len(stack) - 1 /\ Len(stack) \in Nat
    BY <1>3, StackFacts DEF Kept, Returned
  <2> QED
    BY <1>3, <2>1 DEF Quiet, Completion
<1> QED
  BY <1>1, <1>2, <1>3

NodesUpTo(children, i) == 1 + SumFunctionOnSet([j \in 1..i |-> children[j].nodes], 1..i)
ContainerResult(n, children, hops, bytes) ==
  [node |-> n, nodes |-> NodesUpTo(children, Len(children)), size |-> bytes,
   height |-> Height(children) + hops]
ContainerBelow(n, children, before) == Extend(before, n, [i \in DOMAIN children |-> children[i].node])

(* A mapping is refused for a check that applies, or kept with its counts. *)
LEMMA ContainerFacts ==
  ASSUME Inv, stack # <<>>, NEW n, NEW children, NEW hops, NEW before,
         Container(n, children, hops, before)
  PROVE  /\ \E bytes : Completion(ContainerResult(n, children, hops, bytes),
                                 ContainerBelow(n, children, before), 1)
         /\ Quiet /\ outcome' = "expansion" =>
              \/ 1 > budgets.expandedNodes - expandedNodes
              \/ \E i \in DOMAIN children : NodesUpTo(children, i) > budgets.expandedNodes
<1> DEFINE nodes(i) == 1 + SumFunctionOnSet([j \in 1..i |-> children[j].nodes], 1..i)
           bytes(i) == 2 + Max({0, Len(children) - 1})
                         + SumFunctionOnSet([j \in 1..i |-> children[j].size], 1..i)
           result == [node |-> n, nodes |-> nodes(Len(children)), size |-> bytes(Len(children)),
                      height |-> Height(children) + hops]
           tooMany(i) == nodes(i) > budgets.expandedNodes
           tooLong(i) == bytes(i) > budgets.assembledBytes
           many == \E i \in DOMAIN children : tooMany(i) /\ \A j \in 1..(i - 1) : ~tooLong(j)
           checks == <<<<1 > budgets.expandedNodes - expandedNodes, "expansion">>,
                       <<many, "expansion">>,
                       <<tooLong(Len(children)), "assembled">>>>
           below == ContainerBelow(n, children, before)
<1>1. result = ContainerResult(n, children, hops, bytes(Len(children)))
  BY DEF ContainerResult, NodesUpTo
<1>2. IF Errors(checks) # {} THEN FailFirst(checks) ELSE Keep(result, below, 1)
  BY DEF Container, ContainerBelow
<1>3. many => \E i \in DOMAIN children : NodesUpTo(children, i) > budgets.expandedNodes
  BY DEF NodesUpTo
<1> HIDE DEF result, below, tooLong, many
<1>4. CASE Errors(checks) # {}
  <2>1. /\ DOMAIN checks = 1..3
        /\ checks[1] = <<1 > budgets.expandedNodes - expandedNodes, "expansion">>
        /\ checks[2] = <<many, "expansion">>
        /\ checks[3] = <<tooLong(Len(children)), "assembled">>
    OBVIOUS
  <2>2. FailFirst(checks)
    BY <1>2, <1>4
  <2> HIDE DEF checks
  <2>3. PICK i \in 1..3 : checks[i][1] /\ Fail(checks[i][2])
    BY <1>4, <2>1, <2>2, FirstError
  <2>4. Quiet /\ outcome' = checks[i][2]
    BY <2>3, FailFacts
  <2>5. checks[i][2] \in {"assembled", "expansion"}
    BY <2>1, <2>3
  <2>6. Completion(result, below, 1)
    BY <2>4, <2>5 DEF Completion
  <2>7. ASSUME outcome' = "expansion"
        PROVE  \/ 1 > budgets.expandedNodes - expandedNodes
               \/ \E j \in DOMAIN children : NodesUpTo(children, j) > budgets.expandedNodes
    <3>1. i # 3
      <4>1. checks[3][2] = "assembled"
        BY <2>1
      <4> QED
        BY <2>4, <2>7, <4>1
    <3>2. CASE i = 1
      <4>1. checks[1][1] = (1 > budgets.expandedNodes - expandedNodes)
        BY <2>1
      <4> QED
        BY <2>3, <3>2, <4>1
    <3>3. CASE i = 2
      <4>1. checks[2][1] = many
        BY <2>1
      <4> QED
        BY <1>3, <2>3, <3>3, <4>1
    <3> QED
      BY <2>3, <3>1, <3>2, <3>3
  <2> QED
    BY <1>1, <2>6, <2>7 DEF below
<1>5. CASE Errors(checks) = {}
  <2>1. Keep(result, below, 1)
    BY <1>2, <1>5
  <2> QED
    BY <1>1, <2>1, KeepCompletes DEF below
<1> QED
  BY <1>4, <1>5

(* A call that completes has the results of all its children. *)
LEMMA CompletesFacts ==
  ASSUME Inv, NEW n, Completes(n)
  PROVE  /\ stack # <<>> /\ Len(stack) \in Nat \ {0} /\ Len(stack) \in 1..Len(stack)
         /\ Top = TopFrame /\ TopFrame.node = n /\ n \in Nodes
         /\ Len(TopFrame.results) = Len(Kids[n])
<1>1. stack # <<>> /\ Top.node = n /\ Len(Top.results) = Len(Children(n))
  BY DEF Completes
<1> QED
  BY <1>1, StackFacts DEF TopFrame, Kids

ScalarResult(n) == [node |-> n, nodes |-> 1, size |-> graph[n].size, height |-> 1]
HopResult(r) == [r EXCEPT !.height = @ + 1]

(* A scalar ends with itself, *)
LEMMA CompleteScalarFacts ==
  ASSUME Inv, CompleteScalar
  PROVE  \E n \in Nodes :
           /\ Completes(n) /\ Kind(n) = "scalar"
           /\ Completion(ScalarResult(n), Extend(content, n, <<>>), 1)
           /\ Quiet /\ outcome' = "expansion" => 1 > budgets.expandedNodes - expandedNodes
<1>1. PICK n \in Nodes : Completes(n) /\ Kind(n) = "scalar"
  BY DEF CompleteScalar, Nodes
<1>2. Top.node = n /\ stack # <<>>
  BY <1>1 DEF Completes
<1> DEFINE checks == <<<<1 > budgets.expandedNodes - expandedNodes, "expansion">>,
                       <<graph[n].size > budgets.assembledBytes, "assembled">>>>
           result == ScalarResult(n)
           below == Extend(content, n, <<>>)
<1>3. IF Errors(checks) # {} THEN FailFirst(checks) ELSE Keep(result, below, 1)
  BY <1>2 DEF CompleteScalar, ScalarResult
<1>4. CASE Errors(checks) # {}
  <2>1. /\ DOMAIN checks = 1..2
        /\ checks[1] = <<1 > budgets.expandedNodes - expandedNodes, "expansion">>
        /\ checks[2][2] = "assembled"
    OBVIOUS
  <2>2. FailFirst(checks)
    BY <1>3, <1>4
  <2> HIDE DEF checks, result, below
  <2>3. PICK i \in 1..2 : checks[i][1] /\ Fail(checks[i][2])
    BY <1>4, <2>1, <2>2, FirstError
  <2>4. Quiet /\ outcome' = checks[i][2]
    BY <2>3, FailFacts
  <2>5. checks[i][2] \in {"assembled", "expansion"}
    BY <2>1, <2>3
  <2>6. Completion(result, below, 1)
    BY <2>4, <2>5 DEF Completion
  <2>7. ASSUME outcome' = "expansion" PROVE 1 > budgets.expandedNodes - expandedNodes
    <3>1. i = 1
      <4>1. checks[2][2] = "assembled"
        BY <2>1
      <4>2. i # 2
        BY <2>4, <2>7, <4>1
      <4> QED
        BY <2>3, <4>2
    <3>2. checks[1][1] = (1 > budgets.expandedNodes - expandedNodes)
      BY <2>1
    <3> QED
      BY <2>3, <3>1, <3>2
  <2> QED
    BY <1>1, <2>6, <2>7 DEF result, below
<1>5. CASE Errors(checks) = {}
  <2>1. Keep(result, below, 1)
    BY <1>3, <1>5
  <2> QED
    BY <1>1, <1>2, <2>1, KeepCompletes
<1> QED
  BY <1>4, <1>5

(* ... an alias, or a reference without override, with its target, *)
LEMMA CompleteHopFacts ==
  ASSUME Inv, CompleteHop
  PROVE  \E n \in Nodes :
           /\ Completes(n) /\ Kind(n) \in {"alias", "ref"}
           /\ Completion(HopResult(TopFrame.results[1]), content, 0)
           /\ ~(Quiet /\ outcome' = "expansion")
<1>1. PICK n \in Nodes : Completes(n) /\ Kind(n) \in {"alias", "ref"}
  BY DEF CompleteHop, Nodes
<1>2. stack # <<>> /\ Top = TopFrame
  BY <1>1, CompletesFacts
<1>3. Keep(HopResult(TopFrame.results[1]), content, 0)
  BY <1>2 DEF CompleteHop, HopResult
<1> QED
  BY <1>1, <1>2, <1>3, KeepCompletes

(* ... a mapping with the results of its children, *)
LEMMA CompleteMappingFacts ==
  ASSUME Inv, CompleteMapping
  PROVE  \E n \in Nodes :
           /\ Completes(n) /\ Kind(n) = "mapping" /\ stack # <<>>
           /\ Container(n, TopFrame.results, 0, content)
<1>1. PICK n \in Nodes : Completes(n) /\ Kind(n) = "mapping"
  BY DEF CompleteMapping, Nodes
<1>2. stack # <<>> /\ Top = TopFrame /\ TopFrame.node = n
  BY <1>1, CompletesFacts
<1> QED
  BY <1>1, <1>2 DEF CompleteMapping

Overridden == Flatten(OverriddenPairs(content[TopFrame.results[1].node], OverridePairs(TopFrame.results)))

(* ... and an override with the results of its own and those of its base. *)
LEMMA CompleteOverrideFacts ==
  ASSUME Inv, CompleteOverride
  PROVE  \E n \in Nodes :
           /\ Completes(n) /\ Overrides(n) /\ stack # <<>>
           /\ \/ /\ Len(Overridden) >= budgets.expandedNodes
                 /\ Quiet /\ outcome' = "expansion"
              \/ Container(n, Overridden, 1, content)
<1>1. PICK n \in Nodes : Completes(n) /\ Overrides(n)
  BY DEF CompleteOverride, Nodes
<1>2. stack # <<>> /\ Top = TopFrame /\ TopFrame.node = n
  BY <1>1, CompletesFacts
<1>3. \/ Len(Overridden) >= budgets.expandedNodes /\ Fail("expansion")
      \/ Container(n, Overridden, 1, content)
  BY <1>2 DEF CompleteOverride, Overridden
<1> QED
  BY <1>1, <1>2, <1>3, FailFacts

(* However a call ends, it was of a node that is there. *)
LEMMA CompletionFacts ==
  ASSUME Inv, CompleteScalar \/ CompleteHop \/ CompleteMapping \/ CompleteOverride
  PROVE  /\ Len(stack) \in Nat \ {0} /\ Len(stack) \in 1..Len(stack)
         /\ Len(TopFrame.results) = Len(Kids[TopFrame.node])
         /\ Kind(TopFrame.node) # "missing"
         /\ \E result, below, charge : Completion(result, below, charge)
<1>1. ASSUME NEW n, Completes(n), Kind(n) # "missing",
             \E result, below, charge : Completion(result, below, charge)
      PROVE  /\ Len(stack) \in Nat \ {0} /\ Len(stack) \in 1..Len(stack)
             /\ Len(TopFrame.results) = Len(Kids[TopFrame.node])
             /\ Kind(TopFrame.node) # "missing"
             /\ \E result, below, charge : Completion(result, below, charge)
  BY <1>1, CompletesFacts
<1>2. CASE CompleteScalar
  BY <1>1, <1>2, CompleteScalarFacts
<1>3. CASE CompleteHop
  BY <1>1, <1>3, CompleteHopFacts
<1>4. CASE CompleteMapping
  <2>1. PICK n \in Nodes : /\ Completes(n) /\ Kind(n) = "mapping" /\ stack # <<>>
                           /\ Container(n, TopFrame.results, 0, content)
    BY <1>4, CompleteMappingFacts
  <2>2. \E result, below, charge : Completion(result, below, charge)
    BY <2>1, ContainerFacts
  <2> QED
    BY <1>1, <2>1, <2>2
<1>5. CASE CompleteOverride
  <2>1. PICK n \in Nodes : /\ Completes(n) /\ Overrides(n) /\ stack # <<>>
                           /\ \/ Quiet /\ outcome' = "expansion"
                              \/ Container(n, Overridden, 1, content)
    BY <1>5, CompleteOverrideFacts
  <2>2. \E result, below, charge : Completion(result, below, charge)
    <3>1. CASE Quiet /\ outcome' = "expansion"
      BY <3>1 DEF Completion
    <3>2. CASE Container(n, Overridden, 1, content)
      BY <2>1, <3>2, ContainerFacts
    <3> QED
      BY <2>1, <3>1, <3>2
  <2> QED
    BY <1>1, <2>1, <2>2 DEF Overrides
<1> QED
  BY <1>2, <1>3, <1>4, <1>5

-----------------------------------------------------------------------------
(* Cycles. *)

OutcomeOK ==
  /\ outcome = "loaded" => Root[Main] \in DOMAIN resolved
  /\ outcome = "cycle" => Cyclic
WalkInv == Inv /\ WalkOK /\ ResolvedOK /\ OutcomeOK

(* A step that has no part in the resolution. *)
LEMMA WalkQuiet ==
  ASSUME WalkInv, Quiet, outcome' # "loaded" \/ outcome' = outcome, outcome' = "cycle" => Cyclic
  PROVE  WalkOK' /\ ResolvedOK' /\ OutcomeOK'
<1>1. UNCHANGED <<graph, budgets, stack, resolved>>
  BY DEF Quiet
<1>2. WalkOK'
  BY <1>1, Static DEF WalkInv, WalkOK
<1>3. ResolvedOK'
  BY <1>1, Static DEF WalkInv, ResolvedOK, Kind
<1>4. OutcomeOK'
  BY <1>1, Static DEF WalkInv, OutcomeOK
<1> QED
  BY <1>2, <1>3, <1>4

(* A call leads to a new node. *)
LEMMA WalkPushed ==
  ASSUME WalkInv, CallFresh
  PROVE  WalkOK' /\ ResolvedOK' /\ OutcomeOK'
<1> DEFINE L == Len(stack)
           c == Callee.node
<1>1. Inv /\ WalkOK /\ ResolvedOK /\ OutcomeOK
  BY DEF WalkInv
<1>2. /\ Calls /\ Callee.depth <= B /\ c \notin DOMAIN resolved /\ c \notin Active /\ Pushed
  BY <1>1, CallFreshFacts
<1>3. /\ c \in FromRoot /\ Callee.depth = L + 1
      /\ L = 0 => c = Root[Main]
      /\ L > 0 => /\ Len(TopFrame.results) < Len(Kids[TopFrame.node])
                  /\ c = Kids[TopFrame.node][Len(TopFrame.results) + 1]
  BY <1>1, <1>2, CalleeFacts
<1>4. /\ L \in Nat
      /\ \A i \in 1..L : stack[i].node \in Nodes /\ Len(stack[i].results) \in Nat
      /\ \A i \in 1..L : stack[i].node # c
  BY <1>1, <1>2, StackFacts DEF Active
<1>5. /\ Len(stack') = L + 1 /\ \A i \in 1..L : stack'[i] = stack[i]
      /\ stack'[L + 1].node = c /\ stack'[L + 1].depth = L + 1 /\ Len(stack'[L + 1].results) = 0
      /\ UNCHANGED <<graph, budgets, resolved, outcome>>
  BY <1>2, <1>3 DEF Pushed
<1>6. /\ B' = B /\ FromRoot' = FromRoot /\ Kids' = Kids /\ Under' = Under
      /\ Nodes' = Nodes /\ Cyclic' = Cyclic
  BY <1>5, Static
<1>7. ASSUME L > 0
      PROVE  \A i \in 1..L : c \in Under[stack[i].node]
  <2>1. L \in 1..L /\ TopFrame.node \in Nodes /\ Len(Kids[TopFrame.node]) \in Nat
    BY <1>1, <1>4, <1>7, WalkFacts DEF TopFrame
  <2>2. /\ Len(TopFrame.results) + 1 \in 1..Len(Kids[TopFrame.node])
        /\ c = Kids[TopFrame.node][Len(TopFrame.results) + 1]
    BY <1>3, <1>4, <1>7, <2>1 DEF TopFrame
  <2>3. c \in Under[TopFrame.node]
    BY <1>1, <2>1, <2>2, WalkFacts
  <2>4. ASSUME NEW i \in 1..L, i # L PROVE c \in Under[stack[i].node]
    <3>1. TopFrame.node \in Under[stack[i].node]
      BY <1>1, <1>4, <2>1, <2>4 DEF WalkOK, TopFrame
    <3>2. stack[i].node \in Nodes
      BY <1>4, <2>4
    <3> QED
      BY <1>1, <2>2, <3>1, <3>2, WalkFacts
  <2> QED
    BY <2>3, <2>4 DEF TopFrame
<1> HIDE DEF c, L
<1>8. WalkOK'
  <2>1. ASSUME NEW i \in 1..(L + 1)
        PROVE  /\ stack'[i].depth = i /\ i <= B
               /\ stack'[i].node \in FromRoot \ DOMAIN resolved
               /\ Len(stack'[i].results) <= Len(Kids[stack'[i].node])
               /\ \A j \in 1..Len(stack'[i].results) :
                    /\ Kids[stack'[i].node][j] \in DOMAIN resolved
                    /\ stack'[i].results[j] = resolved[Kids[stack'[i].node][j]]
    <3>1. CASE i \in 1..L
      BY <1>1, <1>5, <3>1 DEF WalkOK, L
    <3>2. CASE i = L + 1
      <4>1. Len(Kids[c]) \in Nat
        BY <1>1, <1>3, WalkFacts
      <4> QED
        BY <1>2, <1>3, <1>4, <1>5, <3>2, <4>1
    <3> QED
      BY <1>4, <3>1, <3>2
  <2>2. Len(stack') > 0 => stack'[1].node = Root[Main]
    <3>1. CASE L = 0
      BY <1>3, <1>5, <3>1
    <3>2. CASE L > 0
      <4>1. 1 \in 1..L
        BY <1>4, <3>2
      <4> QED
        BY <1>1, <1>5, <3>2, <4>1 DEF WalkOK, L
    <3> QED
      BY <1>4, <3>1, <3>2
  <2>3. ASSUME NEW i \in 1..L
        PROVE  /\ Len(stack'[i].results) < Len(Kids[stack'[i].node])
               /\ stack'[i + 1].node = Kids[stack'[i].node][Len(stack'[i].results) + 1]
    <3>1. CASE i = L
      BY <1>3, <1>4, <1>5, <3>1 DEF TopFrame, L
    <3>2. CASE i # L
      <4>1. i \in 1..(L - 1) /\ i + 1 \in 1..L
        BY <1>4, <3>2
      <4> QED
        BY <1>1, <1>5, <4>1 DEF WalkOK, L
    <3> QED
      BY <3>1, <3>2
  <2>4. ASSUME NEW i \in 1..(L + 1), NEW j \in 1..(L + 1), i < j
        PROVE  stack'[i].node # stack'[j].node /\ stack'[j].node \in Under[stack'[i].node]
    <3>1. i \in 1..L
      BY <1>4, <2>4
    <3>2. CASE j = L + 1
      BY <1>4, <1>5, <1>7, <3>1, <3>2
    <3>3. CASE j \in 1..L
      BY <1>1, <1>5, <2>4, <3>1, <3>3 DEF WalkOK, L
    <3> QED
      BY <1>4, <3>2, <3>3
  <2>5. Len(stack') - 1 = L
    BY <1>4, <1>5
  <2> QED
    BY <1>5, <1>6, <2>1, <2>2, <2>3, <2>4, <2>5 DEF WalkOK
<1>9. ResolvedOK'
  BY <1>1, <1>5, <1>6 DEF ResolvedOK, Kind
<1> QED
  BY <1>1, <1>5, <1>6, <1>8, <1>9 DEF OutcomeOK

(* A result goes to the call that asked for it. *)
LEMMA WalkReturned ==
  ASSUME WalkInv, UNCHANGED <<graph, budgets>>,
         NEW k \in 0..Len(stack), NEW result, Returned(k, result), NEW m,
         k > 0 => /\ Len(stack[k].results) < Len(Kids[stack[k].node])
                  /\ m = Kids[stack[k].node][Len(stack[k].results) + 1],
         m \in DOMAIN resolved', resolved'[m] = result,
         \A n \in DOMAIN resolved : n \in DOMAIN resolved' /\ resolved'[n] = resolved[n],
         \A i \in 1..k : stack[i].node \notin DOMAIN resolved'
  PROVE  WalkOK'
<1>1. Inv /\ WalkOK
  BY DEF WalkInv
<1>2. B' = B /\ FromRoot' = FromRoot /\ Kids' = Kids /\ Under' = Under
  BY Static
<1>3. /\ Len(stack) \in Nat /\ k \in Nat
      /\ \A i \in 1..k : /\ i \in 1..Len(stack) /\ stack[i].node \in Nodes
                         /\ Len(stack[i].results) \in Nat /\ Len(Kids[stack[i].node]) \in Nat
  BY <1>1, StackFacts, WalkFacts
<1>4. /\ Len(stack') = k /\ \A i \in 1..(k - 1) : stack'[i] = stack[i]
      /\ k > 0 => /\ stack'[k].node = stack[k].node /\ stack'[k].depth = stack[k].depth
                  /\ Len(stack'[k].results) = Len(stack[k].results) + 1
                  /\ \A j \in 1..Len(stack[k].results) : stack'[k].results[j] = stack[k].results[j]
                  /\ stack'[k].results[Len(stack[k].results) + 1] = result
  BY DEF Returned
<1>5. \A i \in 1..k : stack'[i].node = stack[i].node /\ stack'[i].depth = stack[i].depth
  BY <1>3, <1>4
<1>6. ASSUME NEW i \in 1..k
      PROVE  /\ stack'[i].depth = i /\ i <= B
             /\ stack'[i].node \in FromRoot \ DOMAIN resolved'
  BY <1>1, <1>3, <1>5 DEF WalkOK
<1>7. ASSUME NEW i \in 1..k
      PROVE  /\ Len(stack'[i].results) <= Len(Kids[stack[i].node])
             /\ \A j \in 1..Len(stack'[i].results) :
                  /\ Kids[stack[i].node][j] \in DOMAIN resolved'
                  /\ stack'[i].results[j] = resolved'[Kids[stack[i].node][j]]
  <2>1. /\ Len(stack[i].results) <= Len(Kids[stack[i].node])
        /\ \A j \in 1..Len(stack[i].results) :
             /\ Kids[stack[i].node][j] \in DOMAIN resolved'
             /\ stack[i].results[j] = resolved'[Kids[stack[i].node][j]]
    BY <1>1, <1>3 DEF WalkOK
  <2>2. CASE i = k
    <3>1. k > 0
      BY <1>3, <2>2
    <3>2. Len(stack'[k].results) <= Len(Kids[stack[k].node])
      BY <1>3, <1>4, <3>1
    <3>3. ASSUME NEW j \in 1..Len(stack'[k].results)
          PROVE  /\ Kids[stack[k].node][j] \in DOMAIN resolved'
                 /\ stack'[k].results[j] = resolved'[Kids[stack[k].node][j]]
      <4>1. CASE j = Len(stack[k].results) + 1
        BY <1>4, <3>1, <4>1
      <4>2. CASE j \in 1..Len(stack[k].results)
        BY <1>4, <2>1, <2>2, <3>1, <4>2
      <4> QED
        BY <1>3, <1>4, <3>1, <4>1, <4>2
    <3> QED
      BY <2>2, <3>2, <3>3
  <2>3. CASE i # k
    <3>1. stack'[i] = stack[i]
      BY <1>3, <1>4, <2>3
    <3> QED
      BY <2>1, <3>1
  <2> QED
    BY <2>2, <2>3
<1>8. Len(stack') > 0 => stack'[1].node = Root[Main]
  <2>1. k > 0 => 1 \in 1..k
    BY <1>3
  <2> QED
    BY <1>1, <1>3, <1>4, <1>5, <2>1 DEF WalkOK
<1>9. ASSUME NEW i \in 1..(k - 1)
      PROVE  /\ Len(stack'[i].results) < Len(Kids[stack'[i].node])
             /\ stack'[i + 1].node = Kids[stack'[i].node][Len(stack'[i].results) + 1]
  <2>1. i + 1 \in 1..k /\ i \in 1..(Len(stack) - 1)
    BY <1>3
  <2>2. /\ Len(stack[i].results) < Len(Kids[stack[i].node])
        /\ stack[i + 1].node = Kids[stack[i].node][Len(stack[i].results) + 1]
    BY <1>1, <2>1 DEF WalkOK
  <2>3. stack'[i] = stack[i] /\ stack'[i + 1].node = stack[i + 1].node
    BY <1>4, <1>5, <2>1
  <2> QED
    BY <2>2, <2>3
<1>10. ASSUME NEW i \in 1..k, NEW j \in 1..k, i < j
       PROVE  stack'[i].node # stack'[j].node /\ stack'[j].node \in Under[stack'[i].node]
  <2>1. i \in 1..Len(stack) /\ j \in 1..Len(stack)
    BY <1>3
  <2>2. stack[i].node # stack[j].node /\ stack[j].node \in Under[stack[i].node]
    BY <1>1, <1>10, <2>1 DEF WalkOK
  <2>3. stack'[i].node = stack[i].node /\ stack'[j].node = stack[j].node
    BY <1>5
  <2> QED
    BY <2>2, <2>3
<1>11. ASSUME NEW i \in 1..k
       PROVE  /\ Len(stack'[i].results) <= Len(Kids[stack'[i].node])
              /\ \A j \in 1..Len(stack'[i].results) :
                   /\ Kids[stack'[i].node][j] \in DOMAIN resolved'
                   /\ stack'[i].results[j] = resolved'[Kids[stack'[i].node][j]]
  <2>1. stack'[i].node = stack[i].node
    BY <1>5
  <2> QED
    BY <1>7, <2>1
<1>12. Len(stack') = k
  BY <1>4
<1>13. \A i \in 1..k :
         /\ stack'[i].depth = i /\ i <= B
         /\ stack'[i].node \in FromRoot \ DOMAIN resolved'
         /\ Len(stack'[i].results) <= Len(Kids[stack'[i].node])
         /\ \A j \in 1..Len(stack'[i].results) :
              /\ Kids[stack'[i].node][j] \in DOMAIN resolved'
              /\ stack'[i].results[j] = resolved'[Kids[stack'[i].node][j]]
  BY <1>6, <1>11
<1>14. \A i \in 1..(k - 1) :
         /\ Len(stack'[i].results) < Len(Kids[stack'[i].node])
         /\ stack'[i + 1].node = Kids[stack'[i].node][Len(stack'[i].results) + 1]
  BY <1>9
<1>15. \A i, j \in 1..k :
         i < j => stack'[i].node # stack'[j].node /\ stack'[j].node \in Under[stack'[i].node]
  BY <1>10
<1> QED
  BY <1>2, <1>8, <1>12, <1>13, <1>14, <1>15 DEF WalkOK

(* A result is taken from the cache. *)
LEMMA WalkCached ==
  ASSUME WalkInv, Calls, Callee.node \in DOMAIN resolved, CachedReturned
  PROVE  WalkOK' /\ ResolvedOK' /\ OutcomeOK'
<1> DEFINE L == Len(stack)
<1>1. Inv /\ WalkOK /\ ResolvedOK /\ OutcomeOK /\ L \in Nat /\ L \in 0..L
  BY StackFacts DEF WalkInv
<1>2. Returned(L, resolved[Callee.node]) /\ UNCHANGED <<graph, budgets, resolved>>
  BY DEF CachedReturned
<1>3. L > 0 => /\ Len(stack[L].results) < Len(Kids[stack[L].node])
               /\ Callee.node = Kids[stack[L].node][Len(stack[L].results) + 1]
  BY <1>1, CalleeFacts DEF TopFrame
<1>4. \A i \in 1..L : stack[i].node \notin DOMAIN resolved'
  BY <1>1, <1>2 DEF WalkOK
<1>5. WalkOK'
  BY <1>1, <1>2, <1>3, <1>4, WalkReturned
<1>6. ResolvedOK'
  BY <1>1, <1>2, Static DEF ResolvedOK, Kind
<1>7. OutcomeOK'
  <2>1. CASE L = 0
    <3>1. outcome' = "loaded" /\ Callee.node = Root[Main]
      BY <1>1, <1>2, <2>1, CalleeFacts DEF Returned
    <3> QED
      BY <1>2, <3>1 DEF OutcomeOK
  <2>2. CASE L > 0
    <3>1. outcome' = outcome
      BY <1>2, <2>2 DEF Returned
    <3> QED
      BY <1>1, <1>2, <3>1, Static DEF OutcomeOK
  <2> QED
    BY <1>1, <2>1, <2>2
<1> QED
  BY <1>5, <1>6, <1>7

(* What a call adds to the results. *)
LEMMA KeptFacts ==
  ASSUME WalkInv, Len(stack) \in Nat \ {0}, NEW result, NEW below, NEW charge,
         Kept(result, below, charge)
  PROVE  /\ DOMAIN resolved' = DOMAIN resolved \cup {TopFrame.node}
         /\ TopFrame.node \in Nodes \ DOMAIN resolved
         /\ resolved'[TopFrame.node] = result
         /\ \A n \in DOMAIN resolved : resolved'[n] = resolved[n]
         /\ UNCHANGED <<graph, budgets>>
<1>1. Inv /\ WalkOK /\ Len(stack) \in 1..Len(stack)
  BY DEF WalkInv
<1>2. TopFrame.node \in Nodes \ DOMAIN resolved
  BY <1>1, StackFacts DEF WalkOK, TopFrame
<1> QED
  BY <1>2 DEF Kept, Extend

(* A call completes: what is below its node was resolved before. *)
LEMMA WalkKept ==
  ASSUME WalkInv, Len(stack) \in Nat \ {0}, NEW result, NEW below, NEW charge,
         Kept(result, below, charge),
         Len(TopFrame.results) = Len(Kids[TopFrame.node]), Kind(TopFrame.node) # "missing"
  PROVE  WalkOK' /\ ResolvedOK' /\ OutcomeOK'
<1> DEFINE L == Len(stack)
           t == TopFrame.node
<1>1. Inv /\ WalkOK /\ ResolvedOK /\ OutcomeOK /\ L \in 1..L /\ L - 1 \in 0..L
  BY DEF WalkInv
<1>2. /\ DOMAIN resolved' = DOMAIN resolved \cup {t} /\ t \in Nodes \ DOMAIN resolved
      /\ resolved'[t] = result /\ \A n \in DOMAIN resolved : resolved'[n] = resolved[n]
      /\ UNCHANGED <<graph, budgets>>
  BY KeptFacts
<1>3. Returned(L - 1, result)
  BY DEF Kept
<1>4. /\ Nodes' = Nodes /\ Kids' = Kids /\ Under' = Under /\ Cyclic' = Cyclic
  BY <1>2, Static
<1>5. L - 1 > 0 => /\ Len(stack[L - 1].results) < Len(Kids[stack[L - 1].node])
                   /\ t = Kids[stack[L - 1].node][Len(stack[L - 1].results) + 1]
  <2>1. L - 1 > 0 => L - 1 \in 1..(L - 1) /\ L - 1 + 1 = L
    BY <1>1
  <2> QED
    BY <1>1, <2>1 DEF WalkOK, TopFrame
<1>6. \A i \in 1..(L - 1) : stack[i].node \notin DOMAIN resolved'
  <2>1. \A i \in 1..(L - 1) : i \in 1..L /\ i < L
    BY <1>1
  <2> QED
    BY <1>1, <1>2, <2>1 DEF WalkOK, TopFrame
<1>7. WalkOK'
  <2> DEFINE k == L - 1
  <2>1. /\ k \in 0..Len(stack) /\ Returned(k, result)
        /\ k > 0 => /\ Len(stack[k].results) < Len(Kids[stack[k].node])
                    /\ t = Kids[stack[k].node][Len(stack[k].results) + 1]
        /\ \A i \in 1..k : stack[i].node \notin DOMAIN resolved'
    BY <1>1, <1>3, <1>5, <1>6
  <2> HIDE DEF k, t, L
  <2> QED
    BY <1>2, <2>1, WalkReturned
<1>8. ResolvedOK'
  <2>1. \A i \in 1..Len(Kids[t]) : Kids[t][i] \in DOMAIN resolved
    BY <1>1 DEF WalkOK, TopFrame
  <2>2. t \notin Under[t]
    <3>1. DOMAIN resolved \in SUBSET Nodes
      BY <1>1 DEF ResolvedOK
    <3>2. \A n \in DOMAIN resolved : \A i \in 1..Len(Kids[n]) : Kids[n][i] \in DOMAIN resolved
      BY <1>1 DEF ResolvedOK
    <3>3. Under[t] \subseteq DOMAIN resolved
      BY <1>1, <1>2, <2>1, <3>1, <3>2, UnderWithin
    <3> QED
      BY <1>2, <3>3
  <2> HIDE DEF t
  <2>3. ASSUME NEW n \in DOMAIN resolved'
        PROVE  /\ n \in Nodes \ Under[n] /\ graph[n].kind # "missing"
               /\ \A i \in 1..Len(Kids[n]) : Kids[n][i] \in DOMAIN resolved'
    <3>1. CASE n = t
      BY <1>2, <2>1, <2>2, <3>1 DEF t, Kind
    <3>2. CASE n \in DOMAIN resolved
      BY <1>1, <1>2, <3>2 DEF ResolvedOK, Kind
    <3> QED
      BY <1>2, <3>1, <3>2
  <2>4. graph' = graph
    BY <1>2
  <2> QED
    BY <1>4, <2>3, <2>4 DEF ResolvedOK, Kind
<1>9. OutcomeOK'
  <2>1. CASE L = 1
    <3>1. t = Root[Main]
      BY <1>1, <2>1 DEF WalkOK, TopFrame
    <3>2. outcome' = "loaded"
      BY <1>3, <2>1 DEF Returned
    <3> QED
      BY <1>2, <3>1, <3>2 DEF OutcomeOK
  <2>2. CASE L > 1
    <3>1. outcome' = outcome
      BY <1>1, <1>3, <2>2 DEF Returned
    <3> QED
      BY <1>1, <1>2, <1>4, <3>1 DEF OutcomeOK
  <2>3. L = 1 \/ L > 1
    <3>1. L \in Nat \ {0}
      OBVIOUS
    <3> HIDE DEF L
    <3> QED
      BY <3>1
  <2> QED
    BY <2>1, <2>2, <2>3
<1> QED
  BY <1>7, <1>8, <1>9

(* Every step keeps the calls a path of new nodes. *)
LEMMA WalkStep ==
  ASSUME WalkInv, [Next]_vars
  PROVE  WalkOK' /\ ResolvedOK' /\ OutcomeOK'
<1>1. Inv /\ WalkOK /\ ResolvedOK /\ OutcomeOK
  BY DEF WalkInv
<1>2. CASE \/ OpenDocument \/ FileFails \/ ReadDocument \/ StatAgain \/ Parse
           \/ RequestDocument \/ RefuseTarget \/ RefuseOverride \/ Grow \/ Ended \/ UNCHANGED vars
  <2>1. Quiet /\ (outcome' = outcome \/ outcome' \in OtherCodes)
    BY <1>2, QuietSteps
  <2> QED
    BY <1>1, <2>1, WalkQuiet DEF OtherCodes, OutcomeOK
<1>3. CASE CallTooDeep
  BY <1>3, WalkQuiet, FailFacts DEF CallTooDeep
<1>4. CASE CallActive
  <2>1. Calls /\ Callee.node \in Active /\ Quiet /\ outcome' = "cycle"
    BY <1>4, FailFacts DEF CallActive
  <2>2. PICK i \in 1..Len(stack) : stack[i].node = Callee.node
    BY <1>1, <2>1, StackFacts DEF Active
  <2>3. Len(stack) \in Nat /\ Len(stack) > 0 /\ Len(stack) \in 1..Len(stack)
    BY <1>1, <2>2, StackFacts
  <2>4. /\ Len(TopFrame.results) < Len(Kids[TopFrame.node])
        /\ Callee.node = Kids[TopFrame.node][Len(TopFrame.results) + 1]
        /\ Callee.node \in FromRoot
    BY <1>1, <2>1, <2>3, CalleeFacts
  <2>5. TopFrame.node \in Nodes /\ Len(TopFrame.results) + 1 \in 1..Len(Kids[TopFrame.node])
    <3>1. TopFrame.node \in Nodes /\ Len(TopFrame.results) \in Nat
      BY <1>1, <2>3, StackFacts DEF TopFrame
    <3>2. Len(Kids[TopFrame.node]) \in Nat
      BY <1>1, <3>1, WalkFacts
    <3> QED
      BY <2>4, <3>1, <3>2
  <2>6. Callee.node \in Under[stack[i].node]
    <3>1. CASE i = Len(stack)
      BY <1>1, <2>4, <2>5, <3>1, WalkFacts DEF TopFrame
    <3>2. CASE i # Len(stack)
      <4>1. stack[i].node \in Nodes
        BY <1>1, <2>2, StackFacts
      <4>2. TopFrame.node \in Under[stack[i].node]
        <5>1. i < Len(stack)
          BY <2>2, <2>3, <3>2
        <5> QED
          BY <1>1, <2>2, <2>3, <5>1 DEF WalkOK, TopFrame
      <4> QED
        BY <1>1, <2>4, <2>5, <4>1, <4>2, WalkFacts
    <3> QED
      BY <3>1, <3>2
  <2>7. Cyclic
    BY <1>1, <2>2, <2>4, <2>6, WalkFacts
  <2> QED
    BY <2>1, <2>7, WalkQuiet
<1>5. CASE CallCached
  <2>1. /\ Calls /\ Callee.node \in DOMAIN resolved
        /\ \/ Quiet /\ outcome' = "depth"
           \/ Quiet /\ outcome' = "expansion"
           \/ CachedReturned
    BY <1>1, <1>5, CallCachedFacts
  <2> QED
    BY <2>1, WalkQuiet, WalkCached
<1>6. CASE CallFresh
  BY <1>6, WalkPushed
<1>7. CASE CompleteScalar \/ CompleteHop \/ CompleteMapping \/ CompleteOverride
  <2>1. /\ Len(stack) \in Nat \ {0}
        /\ Len(TopFrame.results) = Len(Kids[TopFrame.node]) /\ Kind(TopFrame.node) # "missing"
    BY <1>1, <1>7, CompletionFacts
  <2>2. PICK result, below, charge : Completion(result, below, charge)
    BY <1>1, <1>7, CompletionFacts
  <2>3. CASE Quiet /\ outcome' \in {"assembled", "expansion", "depth"}
    BY <2>3, WalkQuiet
  <2>4. CASE Kept(result, below, charge)
    BY <2>1, <2>4, WalkKept
  <2> QED
    BY <2>2, <2>3, <2>4 DEF Completion
<1> QED
  BY <1>2, <1>3, <1>4, <1>5, <1>6, <1>7 DEF Next

(* Every state that the loading reaches satisfies WalkInv. *)
THEOREM WalkInvariance == Spec => []WalkInv
<1>1. Init => WalkOK /\ ResolvedOK /\ OutcomeOK
  <2> SUFFICES ASSUME Init PROVE WalkOK /\ ResolvedOK /\ OutcomeOK
    OBVIOUS
  <2>1. Len(stack) = 0 /\ DOMAIN resolved = {} /\ outcome = "loading"
    BY EmptySeq DEF Init
  <2> QED
    BY <2>1 DEF WalkOK, ResolvedOK, OutcomeOK
<1>2. ASSUME Inv, WalkOK /\ ResolvedOK /\ OutcomeOK, [Next]_vars
      PROVE  (WalkOK /\ ResolvedOK /\ OutcomeOK)'
  BY <1>2, WalkStep DEF WalkInv
<1>3. WalkInv <=> Inv /\ (WalkOK /\ ResolvedOK /\ OutcomeOK)
  BY DEF WalkInv
<1> QED
  BY <1>1, <1>2, <1>3, Invariance, PTL DEF Spec

(* resolve refuses a policy for a cycle (an active node is called again) only  *)
(* if a node of the policy leads back to itself: the calls in progress are a    *)
(* path of the graph, and its last step closes it.                              *)
THEOREM CyclesStayJustified == Spec => []CycleIsJustified
<1>1. WalkInv => CycleIsJustified
  BY DEF WalkInv, OutcomeOK, CycleIsJustified
<1> QED
  BY <1>1, WalkInvariance, PTL

(* A policy that loads has no cycle and no dangling target anywhere below its  *)
(* root, in the branches that an override replaces too: resolve cached a result *)
(* for all of them, and each only after those below it.                         *)
THEOREM LoadedStaysGrounded == Spec => []LoadedIsGrounded
<1>1. WalkInv => LoadedIsGrounded
  <2> SUFFICES ASSUME WalkInv, outcome = "loaded"
               PROVE  ~Cyclic /\ \A n \in FromRoot : Kind(n) # "missing"
    BY DEF LoadedIsGrounded, FromRoot
  <2>1. Inv /\ ResolvedOK /\ Root[Main] \in DOMAIN resolved
    BY DEF WalkInv, OutcomeOK
  <2>2. /\ DOMAIN resolved \in SUBSET Nodes
        /\ \A m \in DOMAIN resolved : \A i \in 1..Len(Kids[m]) : Kids[m][i] \in DOMAIN resolved
    BY <2>1 DEF ResolvedOK
  <2>3. FromRoot \subseteq DOMAIN resolved
    BY <2>1, <2>2, FromRootWithin
  <2> QED
    BY <2>1, <2>3, WalkFacts DEF ResolvedOK
<1> QED
  BY <1>1, WalkInvariance, PTL

-----------------------------------------------------------------------------
(* Where the children of an override come from. *)

(* The members of a finite set of numbers have ranks. *)
LEMMA RankExists ==
  ASSUME NEW S \in SUBSET Nat, IsFiniteSet(S), NEW k \in 1..Cardinality(S)
  PROVE  \E x \in S : Cardinality({y \in S : y <= x}) = k
<1> DEFINE Good == {T \in SUBSET S : \A j \in 1..Cardinality(T) :
                                      \E x \in T : Cardinality({y \in T : y <= x}) = j}
<1>1. ASSUME NEW T \in SUBSET S, \A U \in SUBSET T : U # T => U \in Good
      PROVE  T \in Good
  <2> SUFFICES ASSUME NEW j \in 1..Cardinality(T)
               PROVE  \E x \in T : Cardinality({y \in T : y <= x}) = j
    OBVIOUS
  <2>1. IsFiniteSet(T) /\ Cardinality(T) \in Nat /\ T \in SUBSET Nat
    BY FS_Subset, FS_CardinalityType
  <2>2. T # {}
    BY <2>1, FS_EmptySet
  <2> DEFINE z == Max(T)
             U == T \ {z}
  <2>3. z \in T /\ \A y \in T : y <= z
    BY <2>1, <2>2, MaxOfNaturals
  <2> HIDE DEF z
  <2>4. IsFiniteSet(U) /\ Cardinality(U) = Cardinality(T) - 1 /\ U # T /\ U \in SUBSET T
    BY <2>1, <2>3, FS_RemoveElement
  <2>5. CASE j = Cardinality(T)
    <3>1. {y \in T : y <= z} = T
      BY <2>3
    <3> QED
      BY <2>3, <2>5, <3>1
  <2>6. CASE j # Cardinality(T)
    <3>1. U \in Good /\ j \in 1..Cardinality(U)
      <4>1. U \in Good
        BY <1>1, <2>4
      <4> HIDE DEF U, Good
      <4>2. j \in 1..Cardinality(U)
        BY <2>1, <2>4, <2>6
      <4> QED
        BY <4>1, <4>2
    <3>2. PICK x \in U : Cardinality({y \in U : y <= x}) = j
      BY <3>1
    <3>3. {y \in T : y <= x} = {y \in U : y <= x}
      <4>1. x \in Nat /\ z \in Nat /\ x <= z /\ x # z
        BY <2>1, <2>3, <3>2
      <4>2. ~(z <= x)
        BY <4>1
      <4> QED
        BY <4>2
    <3> QED
      BY <3>2, <3>3
  <2> QED
    BY <2>5, <2>6
<1>2. (SUBSET S) \subseteq Good
  <2> HIDE DEF Good
  <2> QED
    BY <1>1, SubsetInductionBySet
<1> QED
  BY <1>2

\* A pair of an override comes from the base (a negative number) or from the
\* override, and no two from the same place.
PairOrigin(base, over, pairs, g) ==
  /\ g \in [1..Len(pairs) -> Int]
  /\ \A i, j \in 1..Len(pairs) : g[i] = g[j] => i = j
  /\ \A i \in 1..Len(pairs) :
       \/ /\ 0 - g[i] \in 1..(Len(base) \div 2)
          /\ pairs[i] = [key |-> resolved[base[2 * (0 - g[i]) - 1]], value |-> resolved[base[2 * (0 - g[i])]]]
       \/ g[i] \in DOMAIN over /\ pairs[i] = over[g[i]]

(* Every pair of an override has such a place. *)
LEMMA OverriddenPairsOrigin ==
  ASSUME NEW base, Len(base) \in Nat, NEW over, NEW p \in Nat, DOMAIN over = 1..p
  PROVE  /\ Len(OverriddenPairs(base, over)) \in Nat
         /\ \E g : PairOrigin(base, over, OverriddenPairs(base, over), g)
<1> DEFINE q == Len(base) \div 2
           old == [i \in 1..q |-> [key |-> resolved[base[2 * i - 1]], value |-> resolved[base[2 * i]]]]
           first(i) == \A j \in 1..(i - 1) : KeyOf(old[j].key) # KeyOf(old[i].key)
           replacing(i) == {j \in DOMAIN over : KeyOf(over[j].key) = KeyOf(old[i].key)}
           new == {j \in DOMAIN over : \A i \in DOMAIN old : KeyOf(old[i].key) # KeyOf(over[j].key)}
           c == Cardinality(new)
           rank(k) == CHOOSE i \in new : Cardinality({j \in new : j <= i}) = k
           replaced(i) == first(i) /\ replacing(i) # {}
           pick(i) == CHOOSE j \in replacing(i) : TRUE
           left == [i \in DOMAIN old |-> IF replaced(i) THEN over[pick(i)] ELSE old[i]]
           right == [k \in 1..c |-> over[rank(k)]]
           g == [i \in 1..(q + c) |->
                   IF i > q THEN rank(i - q) ELSE IF replaced(i) THEN pick(i) ELSE 0 - i]
           pairs == OverriddenPairs(base, over)
<1>1. q \in Nat /\ DOMAIN old = 1..q
  OBVIOUS
<1>2. IsFiniteSet(new) /\ new \in SUBSET (1..p) /\ c \in Nat
  <2>1. IsFiniteSet(1..p) /\ new \in SUBSET (1..p)
    BY FS_Interval
  <2> QED
    BY <2>1, FS_Subset, FS_CardinalityType
<1>3. \A k \in 1..c : rank(k) \in new /\ Cardinality({j \in new : j <= rank(k)}) = k
  <2> SUFFICES ASSUME NEW k \in 1..c
               PROVE  rank(k) \in new /\ Cardinality({j \in new : j <= rank(k)}) = k
    OBVIOUS
  <2>1. new \in SUBSET Nat
    BY <1>2
  <2> HIDE DEF new
  <2>2. \E i \in new : Cardinality({j \in new : j <= i}) = k
    BY <1>2, <2>1, RankExists
  <2> QED
    BY <2>2
<1>4. pairs = left \o right
  BY DEF OverriddenPairs, ItemsAt
<1>5. /\ Len(pairs) = q + c
      /\ \A i \in 1..(q + c) : pairs[i] = IF i <= q THEN left[i] ELSE over[rank(i - q)]
  <2> DEFINE Set == {left[i] : i \in 1..q} \cup {right[k] : k \in 1..c}
  <2>1. left \in [1..q -> Set] /\ right \in [1..c -> Set]
    BY <1>1
  <2>2. DOMAIN left = 1..q /\ DOMAIN right = 1..c /\ \A k \in 1..c : right[k] = over[rank(k)]
    BY <1>1
  <2> HIDE DEF left, right, Set, q, c, rank, pairs
  <2>3. left \in Seq(Set) /\ right \in Seq(Set)
    BY <1>1, <1>2, <2>1, SeqDef
  <2>4. Len(left) = q /\ Len(right) = c
    BY <1>1, <1>2, <2>2, <2>3, LenProperties
  <2>5. /\ Len(left \o right) = q + c
        /\ \A i \in 1..(q + c) : (left \o right)[i] = IF i <= q THEN left[i] ELSE right[i - q]
    BY <2>3, <2>4, ConcatProperties
  <2>6. \A i \in 1..(q + c) : ~(i <= q) => i - q \in 1..c
    BY <1>1, <1>2
  <2> QED
    BY <1>4, <2>2, <2>5, <2>6
<1>6. /\ \A i \in 1..(q + c) :
           g[i] = IF i > q THEN rank(i - q) ELSE IF replaced(i) THEN pick(i) ELSE 0 - i
      /\ \A i \in 1..q : left[i] = IF replaced(i) THEN over[pick(i)] ELSE old[i]
  <2>1. DOMAIN old = 1..q
    BY <1>1
  <2> HIDE DEF rank, replaced, pick, old, q, c
  <2> QED
    BY <2>1
<1>7. \A i \in 1..q : i \in 1..(q + c) /\ ~(i > q)
  BY <1>1, <1>2
<1>8. ASSUME NEW i \in 1..q, replaced(i)
      PROVE  /\ g[i] \in 1..p /\ left[i] = over[g[i]] /\ first(i)
             /\ KeyOf(over[g[i]].key) = KeyOf(old[i].key)
  <2>1. pick(i) \in replacing(i) /\ first(i)
    BY <1>8
  <2>2. g[i] = pick(i) /\ left[i] = over[pick(i)]
    <3> HIDE DEF g, left, rank, replaced, pick, old, q, c
    <3> QED
      BY <1>8, <1>6, <1>7
  <2>3. pick(i) \in 1..p /\ KeyOf(over[pick(i)].key) = KeyOf(old[i].key)
    BY <2>1
  <2> HIDE DEF g, left, pick, old, first
  <2> QED
    BY <2>1, <2>2, <2>3
<1>9. ASSUME NEW i \in 1..q, ~replaced(i)
      PROVE  g[i] = 0 - i /\ left[i] = old[i]
  <2> HIDE DEF g, left, rank, replaced, pick, old, q, c
  <2> QED
    BY <1>9, <1>6, <1>7
<1>10. ASSUME NEW i \in 1..(q + c), i > q
      PROVE  /\ g[i] = rank(i - q) /\ i - q \in 1..c
             /\ g[i] \in 1..p /\ g[i] \in new
             /\ Cardinality({j \in new : j <= g[i]}) = i - q
             /\ \A k \in 1..q : KeyOf(old[k].key) # KeyOf(over[g[i]].key)
  <2>1. i - q \in 1..c /\ g[i] = rank(i - q)
    <3> HIDE DEF g, left, rank, replaced, pick, old, q, c
    <3> QED
      BY <1>1, <1>2, <1>10, <1>6
  <2>2. rank(i - q) \in new /\ Cardinality({j \in new : j <= rank(i - q)}) = i - q
    BY <1>3, <2>1
  <2> HIDE DEF rank, g
  <2> QED
    BY <1>1, <2>1, <2>2
<1>11. \A i \in 1..q : old[i] = [key |-> resolved[base[2 * i - 1]], value |-> resolved[base[2 * i]]]
  OBVIOUS
<1>12. ASSUME NEW i \in 1..q, NEW j \in 1..q, i < j, first(j)
       PROVE  KeyOf(old[i].key) # KeyOf(old[j].key)
  <2>1. i \in 1..(j - 1)
    BY <1>1, <1>12
  <2> HIDE DEF old, q
  <2> QED
    BY <1>12, <2>1
<1>13. DOMAIN g = 1..(q + c)
  OBVIOUS
<1>14. g = [i \in 1..(q + c) |-> g[i]]
  OBVIOUS
<1> HIDE DEF old, first, replacing, replaced, pick, new, c, rank, left, right, g, pairs, q
<1>15. ASSUME NEW i \in 1..(q + c)
       PROVE  /\ g[i] \in Int
              /\ \/ 0 - g[i] \in 1..q /\ pairs[i] = old[0 - g[i]]
                 \/ g[i] \in 1..p /\ pairs[i] = over[g[i]]
  <2>1. CASE i > q
    <3>1. g[i] = rank(i - q) /\ g[i] \in 1..p
      BY <1>10, <2>1
    <3>2. ~(i <= q)
      BY <1>1, <2>1
    <3>3. pairs[i] = over[g[i]]
      BY <1>5, <3>1, <3>2
    <3> QED
      BY <3>1, <3>3
  <2>2. CASE i <= q /\ replaced(i)
    BY <1>1, <1>2, <1>5, <1>8, <2>2
  <2>3. CASE i <= q /\ ~replaced(i)
    <3>1. i \in 1..q
      BY <1>1, <1>2, <2>3
    <3>2. g[i] = 0 - i /\ left[i] = old[i]
      BY <1>9, <2>3, <3>1
    <3>3. 0 - g[i] = i
      BY <3>1, <3>2
    <3> QED
      BY <1>5, <2>3, <3>1, <3>2, <3>3
  <2> QED
    BY <1>1, <1>2, <2>1, <2>2, <2>3
<1>16. ASSUME NEW i \in 1..(q + c), NEW j \in 1..(q + c), g[i] = g[j], i < j
       PROVE  FALSE
  <2>1. CASE j > q /\ i > q
    <3>1. /\ Cardinality({k \in new : k <= g[i]}) = i - q
          /\ Cardinality({k \in new : k <= g[j]}) = j - q
      BY <1>10, <2>1
    <3>2. i - q = j - q
      BY <1>16, <3>1
    <3> QED
      BY <1>1, <1>2, <1>16, <3>2
  <2>2. CASE j > q /\ i <= q
    <3>1. i \in 1..q
      BY <1>1, <1>2, <2>2
    <3>2. CASE replaced(i)
      BY <1>8, <1>10, <1>16, <2>2, <3>1, <3>2, ZenonT(30)
    <3>3. CASE ~replaced(i)
      <4>1. g[i] = 0 - i /\ g[j] \in 1..p
        BY <1>9, <1>10, <2>2, <3>1, <3>3
      <4> QED
        BY <1>16, <3>1, <4>1
    <3> QED
      BY <3>2, <3>3
  <2>3. CASE j <= q
    <3>1. i \in 1..q /\ j \in 1..q
      BY <1>1, <1>2, <1>16, <2>3
    <3>2. CASE ~replaced(j)
      <4>1. g[j] = 0 - j
        BY <1>9, <3>1, <3>2
      <4>2. CASE replaced(i)
        BY <1>8, <1>16, <3>1, <4>1, <4>2
      <4>3. CASE ~replaced(i)
        BY <1>9, <1>16, <3>1, <4>1, <4>3
      <4> QED
        BY <4>2, <4>3
    <3>3. CASE replaced(j)
      <4>1. g[j] \in 1..p /\ KeyOf(over[g[j]].key) = KeyOf(old[j].key)
        BY <1>8, <3>1, <3>3
      <4>2. CASE replaced(i)
        <5>1. KeyOf(over[g[i]].key) = KeyOf(old[i].key)
          BY <1>8, <3>1, <4>2
        <5> QED
          BY <1>8, <1>12, <1>16, <3>1, <3>3, <4>1, <5>1
      <4>3. CASE ~replaced(i)
        BY <1>9, <1>16, <3>1, <4>1, <4>3
      <4> QED
        BY <4>2, <4>3
    <3> QED
      BY <3>2, <3>3
  <2> QED
    BY <1>1, <1>2, <2>1, <2>2, <2>3
<1>17. \A i, j \in 1..(q + c) : g[i] = g[j] => i = j
  <2> SUFFICES ASSUME NEW i \in 1..(q + c), NEW j \in 1..(q + c), g[i] = g[j], i # j
               PROVE  FALSE
    OBVIOUS
  <2>1. i < j \/ j < i
    BY <1>1, <1>2
  <2> QED
    BY <1>16, <2>1
<1>18. PairOrigin(base, over, pairs, g)
  <2>1. g \in [1..(q + c) -> Int]
    BY <1>14, <1>15
  <2>2. ASSUME NEW i \in 1..(q + c)
        PROVE  \/ /\ 0 - g[i] \in 1..q
                  /\ pairs[i] = [key |-> resolved[base[2 * (0 - g[i]) - 1]], value |-> resolved[base[2 * (0 - g[i])]]]
               \/ g[i] \in DOMAIN over /\ pairs[i] = over[g[i]]
    BY <1>11, <1>15
  <2> QED
    BY <1>5, <1>17, <2>1, <2>2 DEF PairOrigin, q
<1> QED
  BY <1>1, <1>2, <1>5, <1>18 DEF pairs

\* The same of the children: h is negative for one of the base.
Origin(base, results, children, h) ==
  /\ h \in [1..Len(children) -> Int]
  /\ \A i, j \in 1..Len(children) : h[i] = h[j] => i = j
  /\ \A i \in 1..Len(children) :
       \/ 0 - h[i] \in 1..Len(base) /\ children[i] = resolved[base[0 - h[i]]]
       \/ h[i] \in 2..Len(results) /\ children[i] = results[h[i]]

(* Every child of an override has such a place. *)
LEMMA OverriddenOrigin ==
  ASSUME NEW base, Len(base) \in Nat, NEW results, NEW p \in Nat, Len(results) = 2 * p + 1,
         NEW children, children = Flatten(OverriddenPairs(base, OverridePairs(results)))
  PROVE  /\ Len(children) \in Nat /\ DOMAIN children = 1..Len(children)
         /\ \E h : Origin(base, results, children, h)
<1> DEFINE over == OverridePairs(results)
           pairs == OverriddenPairs(base, over)
           M == Len(pairs)
           child(i) == IF i % 2 = 1 THEN pairs[(i + 1) \div 2].key ELSE pairs[i \div 2].value
<1>1. /\ DOMAIN over = 1..p
      /\ \A j \in 1..p : over[j] = [key |-> results[2 * j + 1], value |-> results[2 * j]]
  <2>1. (Len(results) - 1) \div 2 = p
    OBVIOUS
  <2> QED
    BY <2>1 DEF OverridePairs
<1> HIDE DEF over
<1>2. M \in Nat /\ \E g : PairOrigin(base, over, pairs, g)
  BY <1>1, OverriddenPairsOrigin
<1>3. PICK g : PairOrigin(base, over, pairs, g)
  BY <1>2
<1>4. children = [i \in 1..(2 * M) |-> child(i)]
  BY DEF Flatten, over
<1> HIDE DEF pairs
<1>5. DOMAIN children = 1..(2 * M) /\ \A i \in 1..(2 * M) : children[i] = child(i)
  BY <1>4
<1>6. Len(children) = 2 * M
  <2> DEFINE Set == {children[i] : i \in 1..(2 * M)}
  <2>1. children \in [1..(2 * M) -> Set]
    BY <1>4, <1>5
  <2>2. 2 * M \in Nat
    BY <1>2
  <2> HIDE DEF Set, M
  <2>3. children \in Seq(Set)
    BY <2>1, <2>2, SeqDef
  <2> QED
    BY <1>5, <2>2, <2>3, LenProperties
<1> HIDE DEF M
<1> DEFINE odd(i) == i % 2 = 1
           index(i) == IF i % 2 = 1 THEN (i + 1) \div 2 ELSE i \div 2
           h == [i \in 1..(2 * M) |-> IF i % 2 = 1 THEN 2 * g[index(i)] + 1 ELSE 2 * g[index(i)]]
<1>7. \A i \in 1..(2 * M) :
        /\ index(i) \in 1..M
        /\ odd(i) => i = 2 * index(i) - 1
        /\ ~odd(i) => i = 2 * index(i)
  BY <1>2
<1>8. /\ \A i \in 1..M : g[i] \in Int
      /\ \A i, j \in 1..M : g[i] = g[j] => i = j
      /\ \A i \in 1..M :
           \/ /\ 0 - g[i] \in 1..(Len(base) \div 2)
              /\ pairs[i] = [key |-> resolved[base[2 * (0 - g[i]) - 1]], value |-> resolved[base[2 * (0 - g[i])]]]
           \/ g[i] \in 1..p /\ pairs[i] = over[g[i]]
  BY <1>1, <1>3 DEF PairOrigin, M
<1>9. /\ \A i \in 1..(2 * M) : odd(i) => h[i] = 2 * g[index(i)] + 1 /\ children[i] = pairs[index(i)].key
      /\ \A i \in 1..(2 * M) : ~odd(i) => h[i] = 2 * g[index(i)] /\ children[i] = pairs[index(i)].value
  BY <1>5
<1>10. DOMAIN h = 1..(2 * M) /\ h = [i \in 1..(2 * M) |-> h[i]]
  OBVIOUS
<1> HIDE DEF h, index, child, odd
<1>11. ASSUME NEW i \in 1..(2 * M) PROVE h[i] \in Int
  <2>1. index(i) \in 1..M /\ g[index(i)] \in Int
    BY <1>7, <1>8
  <2>2. h[i] = 2 * g[index(i)] + 1 \/ h[i] = 2 * g[index(i)]
    BY <1>9
  <2> QED
    BY <2>1, <2>2
<1>12. ASSUME NEW i \in 1..(2 * M), NEW j \in 1..(2 * M), h[i] = h[j] PROVE i = j
  <2>1. index(i) \in 1..M /\ index(j) \in 1..M /\ g[index(i)] \in Int /\ g[index(j)] \in Int
    BY <1>7, <1>8
  <2>2. CASE odd(i) /\ odd(j)
    <3>1. 2 * g[index(i)] + 1 = 2 * g[index(j)] + 1
      BY <1>9, <1>12, <2>2
    <3>2. index(i) = index(j)
      BY <1>8, <2>1, <3>1, SMTT(30)
    <3> QED
      BY <1>7, <2>2, <3>2
  <2>3. CASE ~odd(i) /\ ~odd(j)
    <3>1. 2 * g[index(i)] = 2 * g[index(j)]
      BY <1>9, <1>12, <2>3
    <3>2. index(i) = index(j)
      BY <1>8, <2>1, <3>1
    <3> QED
      BY <1>7, <2>3, <3>2
  <2>4. CASE odd(i) /\ ~odd(j)
    <3>1. 2 * g[index(i)] + 1 = 2 * g[index(j)]
      BY <1>9, <1>12, <2>4
    <3> QED
      BY <2>1, <3>1
  <2>5. CASE ~odd(i) /\ odd(j)
    <3>1. 2 * g[index(i)] = 2 * g[index(j)] + 1
      BY <1>9, <1>12, <2>5
    <3> QED
      BY <2>1, <3>1
  <2> QED
    BY <2>2, <2>3, <2>4, <2>5
<1>13. ASSUME NEW i \in 1..(2 * M)
       PROVE  \/ 0 - h[i] \in 1..Len(base) /\ children[i] = resolved[base[0 - h[i]]]
              \/ h[i] \in 2..Len(results) /\ children[i] = results[h[i]]
  <2> DEFINE x == index(i)
  <2>1. x \in 1..M /\ g[x] \in Int
    BY <1>7, <1>8
  <2> HIDE DEF x
  <2>2. CASE /\ 0 - g[x] \in 1..(Len(base) \div 2)
             /\ pairs[x] = [key |-> resolved[base[2 * (0 - g[x]) - 1]], value |-> resolved[base[2 * (0 - g[x])]]]
    <3>1. 2 * (0 - g[x]) - 1 \in 1..Len(base) /\ 2 * (0 - g[x]) \in 1..Len(base)
      <4>1. Len(base) \div 2 \in Nat /\ 2 * (Len(base) \div 2) <= Len(base)
        OBVIOUS
      <4>2. \A q \in Nat : 0 - g[x] \in 1..q => /\ 2 * (0 - g[x]) - 1 \in 1..(2 * q)
                                                /\ 2 * (0 - g[x]) \in 1..(2 * q)
        BY <2>1
      <4> QED
        BY <2>2, <4>1, <4>2
    <3>2. CASE odd(i)
      <4>1. h[i] = 2 * g[x] + 1 /\ children[i] = resolved[base[2 * (0 - g[x]) - 1]]
        BY <1>9, <2>2, <3>2 DEF x
      <4>2. 0 - h[i] = 2 * (0 - g[x]) - 1
        BY <2>1, <4>1
      <4> QED
        BY <3>1, <4>1, <4>2
    <3>3. CASE ~odd(i)
      <4>1. h[i] = 2 * g[x] /\ children[i] = resolved[base[2 * (0 - g[x])]]
        BY <1>9, <2>2, <3>3 DEF x
      <4>2. 0 - h[i] = 2 * (0 - g[x])
        BY <2>1, <4>1
      <4> QED
        BY <3>1, <4>1, <4>2
    <3> QED
      BY <3>2, <3>3
  <2>3. CASE g[x] \in 1..p /\ pairs[x] = over[g[x]]
    <3>1. pairs[x] = [key |-> results[2 * g[x] + 1], value |-> results[2 * g[x]]]
      BY <1>1, <2>3
    <3>2. 2 * g[x] + 1 \in 2..(2 * p + 1) /\ 2 * g[x] \in 2..(2 * p + 1)
      BY <2>1, <2>3
    <3> QED
      BY <1>9, <3>1, <3>2 DEF x
  <2> QED
    BY <1>8, <2>1, <2>2, <2>3
<1>14. Origin(base, results, children, h)
  <2>1. h \in [1..(2 * M) -> Int]
    BY <1>10, <1>11
  <2> QED
    BY <1>6, <1>12, <1>13, <2>1 DEF Origin
<1> QED
  BY <1>2, <1>5, <1>6, <1>14

-----------------------------------------------------------------------------
(* Depth. *)

\* The depth of a node is at least h, or more than can be told.
Reaches(n, h) == \A k \in 0..(B + 1) : k <= Depths[k][n] \/ h <= Depths[k][n]

Record(r) == [node |-> r.node, nodes |-> r.nodes, size |-> r.size, height |-> r.height]

\* The height of a result is reached by calls, and it is more than that of what
\* was assembled below.
HeightsOK ==
  /\ DOMAIN content \subseteq DOMAIN resolved
  /\ \A n \in DOMAIN resolved :
       /\ resolved[n] = Record(resolved[n])
       /\ resolved[n].height \in Nat \ {0} /\ Reaches(n, resolved[n].height)
       /\ resolved[n].node \in DOMAIN content
       /\ resolved[resolved[n].node].height <= resolved[n].height
       /\ content[resolved[n].node] \in Seq(DOMAIN resolved)
       /\ \A i \in 1..Len(content[resolved[n].node]) :
            resolved[content[resolved[n].node][i]].height < resolved[n].height

\* The root is at least as deep as what is called.
DepthsOK ==
  \A i \in 1..Len(stack) : i - 1 + Depths[B + 2 - i][stack[i].node] <= FullDepth

DeepOK == outcome = "depth" => FullDepth > B

\* A result of a call of n, with what was assembled.
GoodHeight(n, r, below) ==
  /\ r = Record(r) /\ r.height \in Nat \ {0} /\ Reaches(n, r.height)
  /\ DOMAIN content \subseteq DOMAIN below /\ DOMAIN below \subseteq DOMAIN content \cup {n}
  /\ \A m \in DOMAIN content : m # n => below[m] = content[m]
  /\ r.node \in DOMAIN below
  /\ r.node # n => r.node \in DOMAIN resolved /\ resolved[r.node].height <= r.height
  /\ below[r.node] \in Seq(DOMAIN resolved)
  /\ \A i \in 1..Len(below[r.node]) : resolved[below[r.node][i]].height < r.height

(* A call that is kept: the heights stay below the depth of the calls. *)
LEMMA HeightsKept ==
  ASSUME WalkInv, HeightsOK, Len(stack) \in Nat \ {0}, NEW result, NEW below, NEW charge,
         Kept(result, below, charge), GoodHeight(TopFrame.node, result, below)
  PROVE  HeightsOK'
<1> DEFINE t == TopFrame.node
<1>1. /\ DOMAIN resolved' = DOMAIN resolved \cup {t} /\ t \in Nodes \ DOMAIN resolved
      /\ resolved'[t] = result /\ \A n \in DOMAIN resolved : resolved'[n] = resolved[n]
      /\ UNCHANGED <<graph, budgets>> /\ content' = below
  BY KeptFacts DEF Kept
<1>2. B' = B /\ Depths' = Depths
  BY <1>1, Static
<1>3. DOMAIN content \subseteq DOMAIN resolved /\ t \notin DOMAIN content
  BY <1>1 DEF HeightsOK
<1>4. GoodHeight(t, result, below)
  OBVIOUS
<1> HIDE DEF t
<1>5. DOMAIN content' \subseteq DOMAIN resolved'
  BY <1>1, <1>3, <1>4 DEF GoodHeight
<1>6. \A s \in Seq(DOMAIN resolved) : s \in Seq(DOMAIN resolved')
  BY <1>1, SeqMonotonic
<1>7. \A n, h : Reaches(n, h)' <=> Reaches(n, h)
  BY <1>2 DEF Reaches
<1>8. ASSUME NEW n \in DOMAIN resolved'
      PROVE  /\ resolved'[n] = Record(resolved'[n])
             /\ resolved'[n].height \in Nat \ {0} /\ Reaches(n, resolved'[n].height)
             /\ resolved'[n].node \in DOMAIN content'
             /\ resolved'[resolved'[n].node].height <= resolved'[n].height
             /\ content'[resolved'[n].node] \in Seq(DOMAIN resolved')
             /\ \A i \in 1..Len(content'[resolved'[n].node]) :
                  resolved'[content'[resolved'[n].node][i]].height < resolved'[n].height
  <2>1. CASE n = t
    <3>1. resolved'[n] = result
      BY <1>1, <2>1
    <3>2. /\ result = Record(result) /\ result.height \in Nat \ {0} /\ Reaches(n, result.height)
          /\ result.node \in DOMAIN content'
      BY <1>1, <1>4, <2>1 DEF GoodHeight
    <3>3. resolved'[result.node].height <= result.height
      <4>1. CASE result.node = t
        BY <1>1, <3>2, <4>1
      <4>2. CASE result.node # t
        BY <1>1, <1>4, <4>2 DEF GoodHeight
      <4> QED
        BY <4>1, <4>2
    <3>4. /\ below[result.node] \in Seq(DOMAIN resolved)
          /\ \A i \in 1..Len(below[result.node]) : resolved[below[result.node][i]].height < result.height
      BY <1>4 DEF GoodHeight
    <3>5. \A i \in 1..Len(below[result.node]) : resolved'[below[result.node][i]].height < result.height
      <4>1. \A i \in 1..Len(below[result.node]) : below[result.node][i] \in DOMAIN resolved
        BY <3>4, ElementOfSeq
      <4> QED
        BY <1>1, <3>4, <4>1
    <3> QED
      BY <1>1, <1>6, <3>1, <3>2, <3>3, <3>4, <3>5
  <2>2. CASE n \in DOMAIN resolved
    <3> DEFINE r == resolved[n]
    <3>1. /\ r = Record(r) /\ r.height \in Nat \ {0} /\ Reaches(n, r.height)
          /\ r.node \in DOMAIN content /\ resolved[r.node].height <= r.height
          /\ content[r.node] \in Seq(DOMAIN resolved)
          /\ \A i \in 1..Len(content[r.node]) : resolved[content[r.node][i]].height < r.height
      BY <2>2 DEF HeightsOK
    <3>2. resolved'[n] = r
      BY <1>1, <2>2
    <3>3. r.node \in DOMAIN resolved /\ r.node # t /\ below[r.node] = content[r.node]
          /\ r.node \in DOMAIN below
      BY <1>3, <1>4, <3>1 DEF GoodHeight
    <3>4. resolved'[r.node] = resolved[r.node]
      BY <1>1, <3>3
    <3>5. \A i \in 1..Len(content[r.node]) : content[r.node][i] \in DOMAIN resolved
      BY <3>1, ElementOfSeq
    <3>6. \A i \in 1..Len(content[r.node]) : resolved'[content[r.node][i]].height < r.height
      BY <1>1, <3>1, <3>5
    <3> HIDE DEF r
    <3> QED
      BY <1>1, <1>6, <3>1, <3>2, <3>3, <3>4, <3>6
  <2> QED
    BY <1>1, <2>1, <2>2
<1> QED
  BY <1>2, <1>5, <1>7, <1>8 DEF HeightsOK, Reaches, Record

(* A node is a level, or two, deeper than a child of it. *)
LEMMA ReachesUp ==
  ASSUME Inv, NEW n \in Nodes, NEW i \in 1..Len(Kids[n]), NEW h \in Nat, Reaches(Kids[n][i], h)
  PROVE  Reaches(n, h + Levels(n, i)) /\ Levels(n, i) \in {1, 2}
<1>1. /\ Kids[n] = Children(n) /\ DOMAIN Children(n) = 1..Len(Kids[n]) /\ Kids[n][i] \in Nodes
      /\ B \in Nat /\ Levels(n, i) \in {1, 2}
  BY GraphFacts DEF Kids, Levels
<1>2. ASSUME NEW k \in 0..(B + 1)
      PROVE  k <= Depths[k][n] \/ h + Levels(n, i) <= Depths[k][n]
  <2>1. Depths[k][n] \in Nat
    BY DepthsDef
  <2>2. CASE k = 0
    BY <2>1, <2>2
  <2>3. CASE k # 0
    <3>1. k \in 1..(B + 1) /\ k - 1 \in 0..(B + 1)
      BY <1>1, <2>3
    <3>2. Depths[k - 1][Kids[n][i]] + Levels(n, i) <= Depths[k][n]
      BY <1>1, <3>1, DepthsDef
    <3>3. k - 1 <= Depths[k - 1][Kids[n][i]] \/ h <= Depths[k - 1][Kids[n][i]]
      BY <3>1 DEF Reaches
    <3>4. Depths[k - 1][Kids[n][i]] \in Nat
      BY <1>1, <3>1, DepthsDef
    <3> DEFINE a == Depths[k - 1][Kids[n][i]]
               b == Depths[k][n]
               l == Levels(n, i)
    <3>5. a \in Nat /\ b \in Nat /\ l \in {1, 2} /\ a + l <= b /\ (k - 1 <= a \/ h <= a)
      BY <1>1, <2>1, <3>2, <3>3, <3>4
    <3> HIDE DEF a, b, l
    <3>6. k <= b \/ h + l <= b
      BY <3>5
    <3> QED
      BY <3>6 DEF a, b, l
  <2> QED
    BY <2>2, <2>3
<1> QED
  BY <1>1, <1>2 DEF Reaches

(* A node that is at least h deep is at least as deep as less. *)
LEMMA ReachesLess ==
  ASSUME Inv, NEW n \in Nodes, NEW h \in Nat, Reaches(n, h), NEW l \in Nat, l <= h
  PROVE  Reaches(n, l)
<1>1. \A k \in 0..(B + 1) : Depths[k][n] \in Nat
  BY DepthsDef
<1> QED
  BY <1>1 DEF Reaches

(* Every node is a level deep. *)
LEMMA ReachesOne ==
  ASSUME Inv, NEW n \in Nodes
  PROVE  Reaches(n, 1)
<1>1. \A k \in 0..(B + 1) : Depths[k][n] \in Nat
  BY DepthsDef
<1>2. \A k \in 1..(B + 1) : 1 <= Depths[k][n]
  BY DepthsDef
<1>3. B \in Nat
  BY GraphFacts
<1> QED
  BY <1>1, <1>2, <1>3 DEF Reaches

(* A mapping is a level above its highest child. *)
LEMMA ContainerHeight ==
  ASSUME WalkInv, HeightsOK, NEW n \in Nodes, n \notin DOMAIN resolved, NEW children,
         Len(children) \in Nat, DOMAIN children = 1..Len(children),
         \A i \in 1..Len(children) : \E m \in DOMAIN resolved : children[i] = resolved[m],
         NEW hops \in Nat, Reaches(n, 1 + hops),
         \A i \in 1..Len(children) : Reaches(n, children[i].height + 1 + hops), NEW bytes
  PROVE  GoodHeight(n, ContainerResult(n, children, hops, bytes), ContainerBelow(n, children, content))
<1> DEFINE K == Len(children)
           f == [i \in 1..K |-> children[i].height]
           r == ContainerResult(n, children, hops, bytes)
           below == ContainerBelow(n, children, content)
           nodes == [i \in 1..K |-> children[i].node]
<1>1. \A i \in 1..K : /\ children[i].height \in Nat
                      /\ children[i].node \in DOMAIN resolved
                      /\ resolved[children[i].node].height \in Nat
                      /\ resolved[children[i].node].height <= children[i].height
  <2> SUFFICES ASSUME NEW i \in 1..K
               PROVE  /\ children[i].height \in Nat
                      /\ children[i].node \in DOMAIN resolved
                      /\ resolved[children[i].node].height \in Nat
                      /\ resolved[children[i].node].height <= children[i].height
    OBVIOUS
  <2>1. PICK m \in DOMAIN resolved : children[i] = resolved[m]
    OBVIOUS
  <2>2. /\ resolved[m].height \in Nat /\ resolved[m].node \in DOMAIN resolved
        /\ resolved[resolved[m].node].height <= resolved[m].height
    BY DEF HeightsOK
  <2>3. resolved[resolved[m].node].height \in Nat
    BY <2>2 DEF HeightsOK
  <2> QED
    BY <2>1, <2>2, <2>3
<1>2. f \in [1..K -> Nat] /\ \A i \in 1..K : f[i] = children[i].height
  BY <1>1
<1>3. Height(children) = 1 + Largest(0, K, f)
  <2>1. {children[i].height : i \in DOMAIN children} = {f[i] : i \in 1..K}
    BY <1>2
  <2> QED
    BY <2>1 DEF Height, Largest
<1> HIDE DEF f
<1>4. /\ Largest(0, K, f) \in Nat /\ \A i \in 1..K : f[i] <= Largest(0, K, f)
      /\ (Largest(0, K, f) = 0 \/ \E i \in 1..K : Largest(0, K, f) = f[i])
  BY <1>2, LargestDef, 0 \in Nat
<1>5. /\ r = Record(r) /\ r.node = n /\ r.height = 1 + Largest(0, K, f) + hops
  BY <1>3 DEF ContainerResult, Record
<1>6. Reaches(n, r.height)
  <2>1. CASE Largest(0, K, f) = 0
    <3>1. r.height = 1 + hops
      BY <1>5, <2>1
    <3> QED
      BY <3>1
  <2>2. CASE \E i \in 1..K : Largest(0, K, f) = f[i]
    <3>1. PICK i \in 1..K : Largest(0, K, f) = f[i]
      BY <2>2
    <3>2. r.height = children[i].height + 1 + hops
      BY <1>1, <1>2, <1>5, <3>1
    <3> QED
      BY <3>2
  <2> QED
    BY <1>4, <2>1, <2>2
<1>7. /\ DOMAIN below = DOMAIN content \cup {n} /\ below[n] = nodes
      /\ \A m \in DOMAIN content : m # n => below[m] = content[m]
  BY DEF ContainerBelow, Extend
<1>8. nodes \in Seq(DOMAIN resolved) /\ Len(nodes) = K /\ \A i \in 1..K : nodes[i] = children[i].node
  <2>1. nodes \in [1..K -> DOMAIN resolved] /\ DOMAIN nodes = 1..K
    BY <1>1
  <2>2. \A i \in 1..K : nodes[i] = children[i].node
    OBVIOUS
  <2> HIDE DEF nodes
  <2>3. nodes \in Seq(DOMAIN resolved)
    BY <2>1, SeqDef
  <2> QED
    BY <2>1, <2>2, <2>3, LenProperties
<1> HIDE DEF r, below, nodes, K
<1>9. r.height \in Nat \ {0} /\ \A i \in 1..Len(nodes) : resolved[nodes[i]].height < r.height
  <2>1. r.height \in Nat \ {0}
    BY <1>4, <1>5
  <2>2. ASSUME NEW i \in 1..K PROVE resolved[nodes[i]].height < r.height
    BY <1>1, <1>2, <1>4, <1>5, <1>8, SMTT(30)
  <2> QED
    BY <1>8, <2>1, <2>2
<1>10. GoodHeight(n, r, below)
  BY <1>5, <1>6, <1>7, <1>8, <1>9 DEF GoodHeight
<1> QED
  BY <1>10 DEF r, below

(* The results that a call has when it completes. *)
LEMMA ResultsFacts ==
  ASSUME WalkInv, HeightsOK, NEW n, Completes(n)
  PROVE  /\ n \in Nodes /\ n \notin DOMAIN resolved /\ Len(TopFrame.results) \in Nat
         /\ DOMAIN TopFrame.results = 1..Len(TopFrame.results)
         /\ Len(TopFrame.results) = Len(Kids[n]) /\ Len(Kids[n]) = Len(graph[n].content)
         /\ \A i \in 1..Len(TopFrame.results) :
              /\ Kids[n][i] \in DOMAIN resolved /\ TopFrame.results[i] = resolved[Kids[n][i]]
              /\ TopFrame.results[i].height \in Nat \ {0}
              /\ Reaches(n, TopFrame.results[i].height + Levels(n, i)) /\ Levels(n, i) \in {1, 2}
<1>1. Inv /\ WalkOK /\ ResolvedOK
  BY DEF WalkInv
<1>2. /\ Len(stack) \in 1..Len(stack) /\ TopFrame.node = n /\ n \in Nodes
      /\ Len(TopFrame.results) = Len(Kids[n])
  BY <1>1, CompletesFacts
<1>3. /\ Len(TopFrame.results) \in Nat /\ DOMAIN TopFrame.results = 1..Len(TopFrame.results)
      /\ n \notin DOMAIN resolved
      /\ \A i \in 1..Len(TopFrame.results) :
           Kids[n][i] \in DOMAIN resolved /\ TopFrame.results[i] = resolved[Kids[n][i]]
  BY <1>1, <1>2, StackFacts DEF WalkOK, TopFrame
<1>4. Len(Kids[n]) = Len(graph[n].content)
  BY <1>1, <1>2, ChildrenInGraph DEF Kids, Nodes, Inv
<1>5. ASSUME NEW i \in 1..Len(TopFrame.results)
      PROVE  /\ TopFrame.results[i].height \in Nat \ {0}
             /\ Reaches(n, TopFrame.results[i].height + Levels(n, i)) /\ Levels(n, i) \in {1, 2}
  <2> DEFINE h == TopFrame.results[i].height
  <2>1. h \in Nat \ {0} /\ Reaches(Kids[n][i], h)
    BY <1>3 DEF HeightsOK
  <2>2. i \in 1..Len(Kids[n])
    BY <1>2
  <2> HIDE DEF h
  <2>3. Reaches(n, h + Levels(n, i)) /\ Levels(n, i) \in {1, 2}
    BY <1>1, <1>2, <2>1, <2>2, ReachesUp
  <2> QED
    BY <2>1, <2>3 DEF h
<1> QED
  BY <1>2, <1>3, <1>4, <1>5

(* A result has a height that calls of its node reach: of a scalar, *)
LEMMA ScalarHeight ==
  ASSUME WalkInv, HeightsOK, NEW n, Completes(n)
  PROVE  GoodHeight(n, ScalarResult(n), Extend(content, n, <<>>))
<1>1. n \in Nodes /\ n \notin DOMAIN resolved /\ Reaches(n, 1)
  BY ResultsFacts, ReachesOne DEF WalkInv
<1> DEFINE below == Extend(content, n, <<>>)
<1>2. /\ DOMAIN below = DOMAIN content \cup {n} /\ below[n] = <<>>
      /\ \A m \in DOMAIN content : m # n => below[m] = content[m]
  BY DEF Extend
<1>3. <<>> \in Seq(DOMAIN resolved) /\ Len(<<>>) = 0
  BY EmptySeq
<1>4. /\ ScalarResult(n) = Record(ScalarResult(n)) /\ ScalarResult(n).node = n
      /\ ScalarResult(n).height = 1
  BY DEF ScalarResult, Record
<1> HIDE DEF below
<1>5. GoodHeight(n, ScalarResult(n), below)
  BY <1>1, <1>2, <1>3, <1>4 DEF GoodHeight
<1> QED
  BY <1>5 DEF below

(* An alias and a reference without override have one child. *)
LEMMA HopKid ==
  ASSUME Inv, NEW n \in Nodes, Kind(n) \in {"alias", "ref"}
  PROVE  Len(graph[n].content) = 1
BY GraphsAssumption DEF Inv, Nodes, Kind

(* ... of a hop, *)
LEMMA HopHeight ==
  ASSUME WalkInv, HeightsOK, NEW n, Completes(n), Kind(n) \in {"alias", "ref"}
  PROVE  GoodHeight(n, HopResult(TopFrame.results[1]), content)
<1>1. Inv /\ n \in Nodes /\ n \notin DOMAIN resolved /\ Len(TopFrame.results) = Len(graph[n].content)
  BY ResultsFacts DEF WalkInv
<1>2. 1 \in 1..Len(TopFrame.results)
  <2>1. Len(graph[n].content) = 1
    BY <1>1, HopKid
  <2> QED
    BY <1>1, <2>1
<1> DEFINE m == Kids[n][1]
           r == resolved[m]
           q == HopResult(r)
<1>3. /\ m \in DOMAIN resolved /\ TopFrame.results[1] = r
      /\ r.height \in Nat \ {0} /\ Reaches(n, r.height + Levels(n, 1))
  BY <1>2, ResultsFacts
<1>4. Levels(n, 1) = 1
  BY DEF Levels
<1>5. /\ r = Record(r) /\ r.node \in DOMAIN content /\ resolved[r.node].height <= r.height
      /\ content[r.node] \in Seq(DOMAIN resolved) /\ r.node \in DOMAIN resolved
      /\ \A i \in 1..Len(content[r.node]) : resolved[content[r.node][i]].height < r.height
  BY <1>3 DEF HeightsOK
<1>6. /\ q = Record(q) /\ q.node = r.node /\ q.height = r.height + 1 /\ q.nodes = r.nodes
  BY <1>5, SMTT(40) DEF HopResult, Record
<1> HIDE DEF r, q, m
<1>7. q.height \in Nat \ {0} /\ Reaches(n, q.height)
  BY <1>3, <1>4, <1>6
<1>8. resolved[r.node].height <= q.height
  <2>1. resolved[r.node].height \in Nat
    BY <1>5 DEF HeightsOK
  <2> QED
    BY <1>3, <1>5, <1>6, <2>1
<1>9. \A i \in 1..Len(content[r.node]) :
        resolved[content[r.node][i]].height \in Nat /\ resolved[content[r.node][i]].height < q.height
  <2> SUFFICES ASSUME NEW i \in 1..Len(content[r.node])
               PROVE  /\ resolved[content[r.node][i]].height \in Nat
                      /\ resolved[content[r.node][i]].height < q.height
    OBVIOUS
  <2>1. content[r.node][i] \in DOMAIN resolved
    BY <1>5, ElementOfSeq
  <2>2. resolved[content[r.node][i]].height \in Nat
    BY <2>1 DEF HeightsOK
  <2>3. resolved[content[r.node][i]].height < r.height
    BY <1>5
  <2> QED
    BY <1>3, <1>6, <2>2, <2>3
<1>10. GoodHeight(n, q, content)
  BY <1>5, <1>6, <1>7, <1>8, <1>9 DEF GoodHeight
<1> QED
  BY <1>3, <1>10 DEF q

(* ... of a mapping, *)
LEMMA MappingHeight ==
  ASSUME WalkInv, HeightsOK, NEW n, Completes(n), Kind(n) = "mapping", NEW bytes
  PROVE  GoodHeight(n, ContainerResult(n, TopFrame.results, 0, bytes),
                    ContainerBelow(n, TopFrame.results, content))
<1> DEFINE children == TopFrame.results
<1>1. /\ n \in Nodes /\ n \notin DOMAIN resolved /\ Len(children) \in Nat
      /\ DOMAIN children = 1..Len(children)
  BY ResultsFacts
<1>2. Reaches(n, 1 + 0)
  BY <1>1, ReachesOne DEF WalkInv
<1>3. ASSUME NEW i \in 1..Len(children)
      PROVE  /\ \E m \in DOMAIN resolved : children[i] = resolved[m]
             /\ Reaches(n, children[i].height + 1 + 0)
  <2>1. /\ Kids[n][i] \in DOMAIN resolved /\ children[i] = resolved[Kids[n][i]]
        /\ children[i].height \in Nat \ {0} /\ Reaches(n, children[i].height + Levels(n, i))
    BY <1>3, ResultsFacts
  <2>2. Levels(n, i) = 1 /\ children[i].height + Levels(n, i) = children[i].height + 1 + 0
    BY <2>1 DEF Levels, Overrides
  <2> QED
    BY <2>1, <2>2
<1> HIDE DEF children
<1>4. GoodHeight(n, ContainerResult(n, children, 0, bytes), ContainerBelow(n, children, content))
  BY <1>1, <1>2, <1>3, ContainerHeight, 0 \in Nat
<1> QED
  BY <1>4 DEF children

(* What an override has when it completes. *)
LEMMA OverrideFacts ==
  ASSUME WalkInv, HeightsOK, NEW n, Completes(n), Overrides(n)
  PROVE  /\ n \in Nodes /\ n \notin DOMAIN resolved /\ Len(TopFrame.results) = Len(Kids[n])
         /\ Len(Kids[n]) \in Nat /\ 1 \in 1..Len(Kids[n])
         /\ TopFrame.results[1].node \in DOMAIN content
         /\ content[TopFrame.results[1].node] \in Seq(DOMAIN resolved)
         /\ Len(content[TopFrame.results[1].node]) \in Nat
         /\ Len(Overridden) \in Nat /\ DOMAIN Overridden = 1..Len(Overridden)
         /\ \E h : Origin(content[TopFrame.results[1].node], TopFrame.results, Overridden, h)
<1> DEFINE results == TopFrame.results
           base == content[results[1].node]
           p == (Len(results) - 1) \div 2
<1>1. /\ Inv /\ n \in Nodes /\ n \notin DOMAIN resolved /\ Len(results) \in Nat
      /\ Len(results) = Len(Kids[n]) /\ Len(results) = Len(graph[n].content)
  BY ResultsFacts DEF WalkInv
<1>2. Len(results) % 2 = 1
  BY <1>1, GraphsAssumption DEF Overrides, Inv, Nodes, Kind
<1>3. p \in Nat /\ Len(results) = 2 * p + 1 /\ 1 \in 1..Len(results)
  <2> DEFINE l == Len(results)
  <2>1. l \in Nat /\ l % 2 = 1
    BY <1>1, <1>2
  <2> HIDE DEF l
  <2>2. (l - 1) \div 2 \in Nat /\ l = 2 * ((l - 1) \div 2) + 1 /\ 1 \in 1..l
    BY <2>1
  <2> QED
    BY <2>2 DEF l
<1>4. Kids[n][1] \in DOMAIN resolved /\ results[1] = resolved[Kids[n][1]]
  BY <1>3, ResultsFacts
<1>5. results[1].node \in DOMAIN content /\ base \in Seq(DOMAIN resolved)
  BY <1>4 DEF HeightsOK
<1>6. Len(base) \in Nat
  BY <1>5, LenProperties
<1>7. Overridden = Flatten(OverriddenPairs(base, OverridePairs(results)))
  BY DEF Overridden
<1> HIDE DEF results, base, p
<1>8. /\ Len(Overridden) \in Nat /\ DOMAIN Overridden = 1..Len(Overridden)
      /\ \E h : Origin(base, results, Overridden, h)
  BY <1>3, <1>6, <1>7, OverriddenOrigin
<1> QED
  BY <1>1, <1>3, <1>5, <1>6, <1>8 DEF results, base

(* ... and of an override. *)
LEMMA OverrideHeight ==
  ASSUME WalkInv, HeightsOK, NEW n, Completes(n), Overrides(n), NEW bytes
  PROVE  GoodHeight(n, ContainerResult(n, Overridden, 1, bytes), ContainerBelow(n, Overridden, content))
<1> DEFINE results == TopFrame.results
           base == content[results[1].node]
<1>1. /\ Inv /\ n \in Nodes /\ n \notin DOMAIN resolved /\ 1 \in 1..Len(results)
      /\ Len(results) \in Nat /\ base \in Seq(DOMAIN resolved)
      /\ Len(Overridden) \in Nat /\ DOMAIN Overridden = 1..Len(Overridden)
  BY OverrideFacts DEF WalkInv
<1>2. PICK h : Origin(base, results, Overridden, h)
  BY OverrideFacts
<1>3. \A i \in 1..Len(results) :
        /\ Kids[n][i] \in DOMAIN resolved /\ results[i] = resolved[Kids[n][i]]
        /\ results[i].height \in Nat \ {0} /\ Reaches(n, results[i].height + Levels(n, i))
  BY ResultsFacts
<1>4. Levels(n, 1) = 1 /\ \A i \in 2..Len(results) : Levels(n, i) = 2
  BY <1>1 DEF Levels
<1>5. \A i \in 1..Len(base) : base[i] \in DOMAIN resolved /\ resolved[base[i]].height \in Nat
                              /\ resolved[base[i]].height < results[1].height
  <2> SUFFICES ASSUME NEW i \in 1..Len(base)
               PROVE  /\ base[i] \in DOMAIN resolved /\ resolved[base[i]].height \in Nat
                      /\ resolved[base[i]].height < results[1].height
    OBVIOUS
  <2>1. base[i] \in DOMAIN resolved
    BY <1>1, ElementOfSeq
  <2> QED
    BY <1>1, <1>3, <2>1 DEF HeightsOK
<1> HIDE DEF results, base
<1> DEFINE top == results[1].height
<1>6. top \in Nat \ {0} /\ Reaches(n, top + 1)
  BY <1>1, <1>3, <1>4
<1>7. Reaches(n, 1 + 1)
  <2>1. 1 + 1 \in Nat /\ top + 1 \in Nat /\ 1 + 1 <= top + 1
    BY <1>6
  <2> QED
    BY <1>1, <1>6, <2>1, ReachesLess
<1>8. ASSUME NEW i \in 1..Len(Overridden)
      PROVE  /\ \E m \in DOMAIN resolved : Overridden[i] = resolved[m]
             /\ Reaches(n, Overridden[i].height + 1 + 1)
  <2>1. \/ 0 - h[i] \in 1..Len(base) /\ Overridden[i] = resolved[base[0 - h[i]]]
        \/ h[i] \in 2..Len(results) /\ Overridden[i] = results[h[i]]
    BY <1>2, <1>8 DEF Origin
  <2>2. CASE 0 - h[i] \in 1..Len(base) /\ Overridden[i] = resolved[base[0 - h[i]]]
    <3> DEFINE c == Overridden[i].height
    <3>1. base[0 - h[i]] \in DOMAIN resolved /\ c \in Nat /\ c < top
      BY <1>5, <2>2
    <3> HIDE DEF c, top
    <3>2. c + 1 + 1 \in Nat /\ top + 1 \in Nat /\ c + 1 + 1 <= top + 1
      BY <1>6, <3>1
    <3>3. Reaches(n, c + 1 + 1)
      BY <1>1, <1>6, <3>2, ReachesLess
    <3> QED
      BY <2>2, <3>1, <3>3 DEF c
  <2>3. CASE h[i] \in 2..Len(results) /\ Overridden[i] = results[h[i]]
    <3>1. h[i] \in 1..Len(results) /\ Levels(n, h[i]) = 2
      BY <1>1, <1>4, <2>3
    <3>2. /\ Kids[n][h[i]] \in DOMAIN resolved /\ Overridden[i] = resolved[Kids[n][h[i]]]
          /\ Overridden[i].height \in Nat /\ Reaches(n, Overridden[i].height + 2)
      BY <1>3, <2>3, <3>1
    <3>3. Overridden[i].height + 2 = Overridden[i].height + 1 + 1
      BY <3>2
    <3> QED
      BY <3>2, <3>3
  <2> QED
    BY <2>1, <2>2, <2>3
<1>9. /\ \A i \in 1..Len(Overridden) : \E m \in DOMAIN resolved : Overridden[i] = resolved[m]
      /\ \A i \in 1..Len(Overridden) : Reaches(n, Overridden[i].height + 1 + 1)
  BY <1>8
<1> QED
  BY <1>1, <1>7, <1>9, ContainerHeight, 1 \in Nat

(* A call that completes ends with such a result, or is refused. *)
LEMMA CompletionHeight ==
  ASSUME WalkInv, HeightsOK, CompleteScalar \/ CompleteHop \/ CompleteMapping \/ CompleteOverride
  PROVE  \E result, below, charge :
           /\ Completion(result, below, charge)
           /\ GoodHeight(TopFrame.node, result, below) \/ (Quiet /\ outcome' = "expansion")
<1>1. Inv
  BY DEF WalkInv
<1>2. CASE CompleteScalar
  <2>1. PICK n \in Nodes : /\ Completes(n)
                           /\ Completion(ScalarResult(n), Extend(content, n, <<>>), 1)
    BY <1>1, <1>2, CompleteScalarFacts
  <2> QED
    BY <1>1, <2>1, ScalarHeight, CompletesFacts
<1>3. CASE CompleteHop
  <2>1. PICK n \in Nodes : /\ Completes(n) /\ Kind(n) \in {"alias", "ref"}
                           /\ Completion(HopResult(TopFrame.results[1]), content, 0)
    BY <1>1, <1>3, CompleteHopFacts
  <2> QED
    BY <1>1, <2>1, HopHeight, CompletesFacts
<1>4. CASE CompleteMapping
  <2>1. PICK n \in Nodes : /\ Completes(n) /\ Kind(n) = "mapping" /\ stack # <<>>
                           /\ Container(n, TopFrame.results, 0, content)
    BY <1>1, <1>4, CompleteMappingFacts
  <2>2. PICK bytes : Completion(ContainerResult(n, TopFrame.results, 0, bytes),
                                ContainerBelow(n, TopFrame.results, content), 1)
    BY <1>1, <2>1, ContainerFacts
  <2> QED
    BY <1>1, <2>1, <2>2, MappingHeight, CompletesFacts
<1>5. CASE CompleteOverride
  <2>1. PICK n \in Nodes : /\ Completes(n) /\ Overrides(n) /\ stack # <<>>
                           /\ \/ Quiet /\ outcome' = "expansion"
                              \/ Container(n, Overridden, 1, content)
    BY <1>1, <1>5, CompleteOverrideFacts
  <2>2. CASE Quiet /\ outcome' = "expansion"
    BY <2>2 DEF Completion
  <2>3. CASE Container(n, Overridden, 1, content)
    <3>1. PICK bytes : Completion(ContainerResult(n, Overridden, 1, bytes),
                                  ContainerBelow(n, Overridden, content), 1)
      BY <1>1, <2>1, <2>3, ContainerFacts
    <3> QED
      BY <1>1, <2>1, <3>1, OverrideHeight, CompletesFacts
  <2> QED
    BY <2>1, <2>2, <2>3
<1> QED
  BY <1>2, <1>3, <1>4, <1>5

(* The root is at least as deep as what is called next. *)
LEMMA CalleeDepth ==
  ASSUME WalkInv, DepthsOK, Calls
  PROVE  /\ Len(stack) \in 0..B /\ B \in Nat /\ FullDepth \in Nat /\ Callee.node \in Nodes
         /\ Depths[B + 1 - Len(stack)][Callee.node] \in Nat \ {0}
         /\ Len(stack) + Depths[B + 1 - Len(stack)][Callee.node] <= FullDepth
<1> DEFINE L == Len(stack)
           c == Callee.node
<1>1. Inv /\ WalkOK /\ L \in Nat /\ B \in Nat
  BY StackFacts, GraphFacts DEF WalkInv
<1>2. c \in Nodes /\ FullDepth \in Nat
  <2>1. Root[Main] \in Nodes /\ B + 1 \in 0..(B + 1)
    BY <1>1, GraphFacts
  <2> QED
    BY <1>1, <2>1, CalleeFacts, WalkFacts, DepthsDef DEF FullDepth, B
<1>3. CASE L = 0
  <2>1. c = Root[Main] /\ B + 1 - L = B + 1 /\ B + 1 \in 1..(B + 1)
    BY <1>1, <1>3, CalleeFacts
  <2>2. Depths[B + 1][c] \in Nat /\ 1 <= Depths[B + 1][c] /\ FullDepth = Depths[B + 1][c]
    BY <1>1, <1>2, <2>1, DepthsDef DEF FullDepth, B
  <2> QED
    BY <1>1, <1>2, <1>3, <2>1, <2>2
<1>4. CASE L > 0
  <2> DEFINE t == TopFrame.node
             i == Len(TopFrame.results) + 1
  <2>1. /\ L \in 1..L /\ t \in Nodes /\ Len(TopFrame.results) \in Nat
        /\ Len(TopFrame.results) < Len(Kids[t]) /\ c = Kids[t][i] /\ L <= B
        /\ L - 1 + Depths[B + 2 - L][t] <= FullDepth
    BY <1>1, <1>4, StackFacts, CalleeFacts DEF TopFrame, WalkOK, DepthsOK
  <2>2. i \in DOMAIN Children(t) /\ c = Children(t)[i]
    BY <1>1, <2>1, GraphFacts DEF Kids
  <2>3. /\ B + 2 - L \in 1..(B + 1) /\ B + 1 - L \in 0..(B + 1) /\ B + 1 - L \in 1..(B + 1)
        /\ B + 2 - L - 1 = B + 1 - L
    BY <1>1, <1>4, <2>1
  <2> DEFINE k == B + 2 - L
  <2>4. Depths[B + 1 - L][c] + Levels(t, i) <= Depths[B + 2 - L][t]
    <3>1. k \in 1..(B + 1) /\ k - 1 = B + 1 - L /\ t \in Nodes
      <4>1. t \in Nodes
        BY <2>1
      <4> HIDE DEF t, i, c, L
      <4> QED
        BY <1>1, <2>3, <4>1
    <3> HIDE DEF k, t, i, c, L
    <3>2. Depths[k - 1][Children(t)[i]] + Levels(t, i) <= Depths[k][t]
      BY <1>1, <2>2, <3>1, DepthsDef
    <3> QED
      BY <2>2, <3>1, <3>2 DEF k
  <2>5. Levels(t, i) >= 1 /\ Levels(t, i) \in Nat
    BY DEF Levels
  <2>6. Depths[B + 1 - L][c] \in Nat /\ Depths[B + 2 - L][t] \in Nat /\ 1 <= Depths[B + 1 - L][c]
    <3> DEFINE j == B + 1 - L
    <3>1. k \in 0..(B + 1) /\ j \in 0..(B + 1) /\ j \in 1..(B + 1) /\ t \in Nodes /\ c \in Nodes
      BY <1>2, <2>1, <2>3
    <3> HIDE DEF k, j, t, c, L
    <3>2. Depths[j][c] \in Nat /\ Depths[k][t] \in Nat /\ 1 <= Depths[j][c]
      BY <1>1, <3>1, DepthsDef
    <3> QED
      BY <3>2 DEF k, j
  <2> HIDE DEF k
  <2> HIDE DEF t, i, c, L
  <2> DEFINE x == Depths[B + 1 - L][c]
             y == Depths[B + 2 - L][t]
             l == Levels(t, i)
  <2>7. x \in Nat /\ y \in Nat /\ l \in Nat /\ 1 <= l /\ x + l <= y /\ L - 1 + y <= FullDepth
    BY <2>1, <2>4, <2>5, <2>6
  <2> HIDE DEF x, y, l
  <2>8. L + x <= FullDepth
    BY <1>1, <1>2, <2>7
  <2> QED
    BY <1>1, <1>2, <2>1, <2>6, <2>8 DEF x, c, L
<1> QED
  BY <1>1, <1>3, <1>4

(* The calls that return leave the others as they are. *)
LEMMA DepthsReturned ==
  ASSUME WalkInv, DepthsOK, UNCHANGED <<graph, budgets>>,
         NEW k \in 0..Len(stack), NEW result, Returned(k, result)
  PROVE  DepthsOK'
<1>1. /\ Len(stack') = k /\ \A i \in 1..(k - 1) : stack'[i] = stack[i]
      /\ k > 0 => stack'[k].node = stack[k].node
  BY DEF Returned
<1>2. k \in Nat /\ Len(stack) \in Nat /\ B' = B /\ Depths' = Depths /\ FullDepth' = FullDepth
  BY StackFacts, Static DEF WalkInv
<1>3. \A i \in 1..k : stack'[i].node = stack[i].node /\ i \in 1..Len(stack)
  BY <1>1, <1>2
<1> QED
  BY <1>1, <1>2, <1>3 DEF DepthsOK

(* A node at the depth of a call that a result would take beyond the limit. *)
LEMMA TooDeep ==
  ASSUME Inv, NEW n \in Nodes, NEW d \in 1..B, FullDepth \in Nat,
         d - 1 + Depths[B + 2 - d][n] <= FullDepth,
         NEW h \in Nat, Reaches(n, h), Exceeds(h, d)
  PROVE  FullDepth > B
<1> DEFINE x == Depths[B + 2 - d][n]
<1>1. B \in Nat /\ B + 2 - d \in 0..(B + 1)
  BY GraphFacts
<1>2. x \in Nat /\ (B + 2 - d <= x \/ h <= x)
  BY <1>1, DepthsDef DEF Reaches
<1>3. h + d - 1 > B
  BY DEF Exceeds, B
<1> HIDE DEF x
<1>4. d - 1 + x <= FullDepth
  BY DEF x
<1> QED
  BY <1>1, <1>2, <1>3, <1>4

DepthInv == HeightsOK /\ DepthsOK /\ DeepOK

(* A step that has no part in the resolution keeps the heights. *)
LEMMA DepthQuiet ==
  ASSUME WalkInv, DepthInv, Quiet, outcome' = "depth" => FullDepth > B
  PROVE  DepthInv'
<1>1. UNCHANGED <<graph, budgets, stack, resolved, content>>
  BY DEF Quiet
<1>2. B' = B /\ Depths' = Depths /\ FullDepth' = FullDepth
  BY <1>1, Static
<1>3. HeightsOK' /\ DepthsOK'
  BY <1>1, <1>2 DEF DepthInv, HeightsOK, DepthsOK, Reaches, Record
<1> QED
  BY <1>2, <1>3 DEF DepthInv, DeepOK

(* Every step keeps the heights of the results within the depth of the calls. *)
LEMMA DepthStep ==
  ASSUME WalkInv, DepthInv, [Next]_vars
  PROVE  DepthInv'
<1>1. Inv /\ WalkOK /\ HeightsOK /\ DepthsOK /\ DeepOK /\ Len(stack) \in Nat /\ B \in Nat
  BY StackFacts, GraphFacts DEF WalkInv, DepthInv
<1>2. CASE \/ OpenDocument \/ FileFails \/ ReadDocument \/ StatAgain \/ Parse
           \/ RequestDocument \/ RefuseTarget \/ RefuseOverride \/ Grow \/ Ended \/ UNCHANGED vars
  <2>1. Quiet /\ (outcome' = outcome \/ outcome' \in OtherCodes)
    BY <1>2, QuietSteps
  <2> QED
    BY <1>1, <2>1, DepthQuiet DEF OtherCodes, DeepOK
<1>3. CASE CallTooDeep
  <2>1. Calls /\ Callee.depth > B /\ Quiet /\ outcome' = "depth"
    BY <1>3, FailFacts DEF CallTooDeep, B
  <2>2. Callee.depth = Len(stack) + 1
    BY <1>1, <2>1, CalleeFacts
  <2>3. /\ Len(stack) \in 0..B /\ FullDepth \in Nat
        /\ Depths[B + 1 - Len(stack)][Callee.node] \in Nat \ {0}
        /\ Len(stack) + Depths[B + 1 - Len(stack)][Callee.node] <= FullDepth
    BY <1>1, <2>1, CalleeDepth
  <2>4. FullDepth > B
    BY <1>1, <2>1, <2>2, <2>3
  <2> QED
    BY <2>1, <2>4, DepthQuiet
<1>4. CASE CallActive
  BY <1>4, DepthQuiet, FailFacts DEF CallActive
<1>5. CASE CallCached
  <2>1. /\ Calls /\ Callee.depth <= B /\ Callee.node \in DOMAIN resolved
        /\ \/ /\ Quiet /\ outcome' = "depth"
              /\ Exceeds(resolved[Callee.node].height, Callee.depth)
           \/ Quiet /\ outcome' = "expansion"
           \/ CachedReturned
    BY <1>1, <1>5, CallCachedFacts
  <2>2. CASE /\ Quiet /\ outcome' = "depth"
             /\ Exceeds(resolved[Callee.node].height, Callee.depth)
    <3> DEFINE c == Callee.node
               d == Callee.depth
               h == resolved[c].height
    <3>1. d = Len(stack) + 1
      BY <1>1, <2>1, CalleeFacts
    <3>2. /\ Len(stack) \in 0..B /\ FullDepth \in Nat /\ c \in Nodes
          /\ Len(stack) + Depths[B + 1 - Len(stack)][c] <= FullDepth
      BY <1>1, <2>1, CalleeDepth
    <3>3. h \in Nat /\ Reaches(c, h) /\ Exceeds(h, d)
      BY <1>1, <2>1, <2>2 DEF HeightsOK
    <3>4. d \in 1..B /\ d - 1 = Len(stack) /\ B + 2 - d = B + 1 - Len(stack)
      BY <1>1, <2>1, <3>1, <3>2
    <3> HIDE DEF c, d, h
    <3>5. FullDepth > B
      BY <1>1, <3>2, <3>3, <3>4, TooDeep
    <3> QED
      BY <2>2, <3>5, DepthQuiet
  <2>3. CASE Quiet /\ outcome' = "expansion"
    BY <2>3, DepthQuiet
  <2>4. CASE CachedReturned
    <3>1. /\ Returned(Len(stack), resolved[Callee.node])
          /\ UNCHANGED <<graph, budgets, resolved, content>>
      BY <2>4 DEF CachedReturned
    <3>2. B' = B /\ Depths' = Depths /\ FullDepth' = FullDepth
      BY <3>1, Static
    <3>3. HeightsOK'
      BY <1>1, <3>1, <3>2 DEF HeightsOK, Reaches, Record
    <3>4. DepthsOK'
      <4>1. Len(stack) \in 0..Len(stack)
        BY <1>1
      <4> QED
        BY <1>1, <3>1, <4>1, DepthsReturned
    <3>5. outcome' = outcome \/ outcome' = "loaded"
      BY <1>1, <3>1 DEF Returned
    <3> QED
      BY <1>1, <3>2, <3>3, <3>4, <3>5 DEF DepthInv, DeepOK
  <2> QED
    BY <2>1, <2>2, <2>3, <2>4
<1>6. CASE CallFresh
  <2>1. Calls /\ Pushed
    BY <1>1, <1>6, CallFreshFacts
  <2>2. /\ Len(stack') = Len(stack) + 1 /\ \A i \in 1..Len(stack) : stack'[i] = stack[i]
        /\ stack'[Len(stack) + 1].node = Callee.node
        /\ UNCHANGED <<graph, budgets, resolved, content, outcome>>
    BY <2>1 DEF Pushed
  <2>3. B' = B /\ Depths' = Depths /\ FullDepth' = FullDepth
    BY <2>2, Static
  <2>4. Len(stack) + Depths[B + 1 - Len(stack)][Callee.node] <= FullDepth
    BY <1>1, <2>1, CalleeDepth
  <2>5. HeightsOK'
    BY <1>1, <2>2, <2>3 DEF HeightsOK, Reaches, Record
  <2>6. ASSUME NEW i \in 1..Len(stack')
        PROVE  i - 1 + Depths[B + 2 - i][stack'[i].node] <= FullDepth
    <3>1. CASE i \in 1..Len(stack)
      BY <1>1, <2>2, <3>1 DEF DepthsOK
    <3>2. CASE i = Len(stack) + 1
      <4>1. B + 2 - i = B + 1 - Len(stack) /\ i - 1 = Len(stack)
        BY <1>1, <3>2
      <4> QED
        BY <2>2, <2>4, <3>2, <4>1
    <3> QED
      BY <1>1, <2>2, <2>6, <3>1, <3>2
  <2> QED
    BY <1>1, <2>2, <2>3, <2>5, <2>6 DEF DepthInv, DepthsOK, DeepOK
<1>7. CASE CompleteScalar \/ CompleteHop \/ CompleteMapping \/ CompleteOverride
  <2> DEFINE L == Len(stack)
             t == TopFrame.node
  <2>1. L \in Nat \ {0} /\ L \in 1..L
    BY <1>1, <1>7, CompletionFacts
  <2>2. PICK result, below, charge :
               /\ Completion(result, below, charge)
               /\ GoodHeight(t, result, below) \/ (Quiet /\ outcome' = "expansion")
    BY <1>1, <1>7, CompletionHeight
  <2>3. CASE Quiet /\ outcome' \in {"assembled", "expansion"}
    BY <2>3, DepthQuiet
  <2>4. CASE Quiet /\ outcome' = "depth" /\ Exceeds(result.height, TopFrame.depth)
    <3>1. /\ TopFrame.depth = L /\ L <= B /\ t \in Nodes
          /\ L - 1 + Depths[B + 2 - L][t] <= FullDepth
      BY <1>1, <2>1, StackFacts DEF TopFrame, WalkOK, DepthsOK
    <3>2. result.height \in Nat /\ Reaches(t, result.height)
      BY <2>2, <2>4 DEF GoodHeight
    <3>3. FullDepth \in Nat
      <4>1. Root[Main] \in Nodes /\ B + 1 \in 0..(B + 1)
        BY <1>1, GraphFacts
      <4> QED
        BY <1>1, <4>1, DepthsDef DEF FullDepth, B
    <3>4. L \in 1..B /\ Exceeds(result.height, L)
      BY <1>1, <2>1, <2>4, <3>1
    <3> HIDE DEF L, t
    <3>5. FullDepth > B
      BY <1>1, <3>1, <3>2, <3>3, <3>4, TooDeep
    <3> QED
      BY <2>4, <3>5, DepthQuiet
  <2>5. CASE Kept(result, below, charge)
    <3>1. Returned(L - 1, result) /\ UNCHANGED <<graph, budgets>> /\ L - 1 \in 0..L
      BY <2>1, <2>5 DEF Kept
    <3>2. ~Quiet
      BY <2>1, <3>1 DEF Quiet, Returned
    <3>3. HeightsOK'
      BY <1>1, <2>1, <2>2, <2>5, <3>2, HeightsKept
    <3>4. DepthsOK'
      BY <1>1, <3>1, DepthsReturned
    <3>5. outcome' = outcome \/ outcome' = "loaded"
      BY <2>1, <3>1 DEF Returned
    <3>6. B' = B /\ FullDepth' = FullDepth
      BY <3>1, Static
    <3> QED
      BY <1>1, <3>3, <3>4, <3>5, <3>6 DEF DepthInv, DeepOK
  <2> QED
    BY <2>2, <2>3, <2>4, <2>5 DEF Completion
<1> QED
  BY <1>2, <1>3, <1>4, <1>5, <1>6, <1>7 DEF Next

(* Every state that the loading reaches satisfies DepthInv. *)
THEOREM DepthInvariance == Spec => [](WalkInv /\ DepthInv)
<1>1. Init => DepthInv
  <2> SUFFICES ASSUME Init PROVE DepthInv
    OBVIOUS
  <2>1. /\ Len(stack) = 0 /\ DOMAIN resolved = {} /\ DOMAIN content = {} /\ outcome = "loading"
    BY EmptySeq DEF Init
  <2> QED
    BY <2>1 DEF DepthInv, HeightsOK, DepthsOK, DeepOK
<1>2. WalkInv /\ DepthInv /\ [Next]_vars => DepthInv'
  BY DepthStep
<1> QED
  BY <1>1, <1>2, WalkInvariance, PTL DEF Spec

(* resolve refuses a policy for its depth only if a resolution without cache   *)
(* would go that deep, although a cached result is checked by the height it was *)
(* kept with and not by a walk.                                                 *)
THEOREM DepthStaysJustified == Spec => []DepthIsJustified
<1>1. DepthInv => DepthIsJustified
  BY DEF DepthInv, DeepOK, DepthIsJustified, B
<1> QED
  BY <1>1, DepthInvariance, PTL

-----------------------------------------------------------------------------
(* Expansion. *)

\* The calls of n go no deeper than k levels can tell.
Within(n, k) == Depths[k + 1][n] <= k

(* As deep as the calls of a node go, more levels do not add to its charge. *)
LEMMA ChargesStable ==
  ASSUME Inv
  PROVE  \A k \in 0..B, n \in Nodes, j \in 0..B :
           Within(n, k) /\ k <= j => k > 0 /\ Charges[j][n] = Charges[k][n]
<1> DEFINE Stable(k) == \A n \in Nodes, j \in 0..B :
                          Within(n, k) /\ k <= j => k > 0 /\ Charges[j][n] = Charges[k][n]
           Good == {k \in Nat : k \in 0..B => Stable(k)}
<1>0. B \in Nat
  BY GraphFacts
<1>1. ASSUME NEW k \in Nat, \A m \in 0..(k - 1) : m \in Good
      PROVE  k \in Good
  <2>1. CASE k = 0
    <3>1. ASSUME NEW n \in Nodes PROVE ~Within(n, k)
      <4>1. 1 \in 1..(B + 1) /\ k + 1 = 1
        BY <1>0, <2>1
      <4>2. 1 <= Depths[1][n] /\ Depths[1][n] \in Nat
        BY <4>1, <1>0, DepthsDef
      <4> QED
        BY <2>1, <4>1, <4>2 DEF Within
    <3> QED
      BY <2>1, <3>1
  <2>2. CASE k # 0 /\ k \in 0..B
    <3> SUFFICES ASSUME NEW n \in Nodes, NEW j \in 0..B, Within(n, k), k <= j
                 PROVE  Charges[j][n] = Charges[k][n]
      BY <2>2
    <3> DEFINE q == k - 1
               i == j - 1
               C == DOMAIN Children(n)
    <3>1. /\ q \in 0..(k - 1) /\ q \in 0..B /\ i \in 0..B /\ q <= i /\ k \in 1..B /\ j \in 1..B
          /\ q + 1 = k /\ k + 1 \in 1..(B + 1) /\ k + 1 - 1 = k
      BY <1>0, <2>2
    <3>2. ASSUME NEW x \in C PROVE Charges[i][Children(n)[x]] = Charges[q][Children(n)[x]]
      <4> DEFINE c == Children(n)[x]
      <4>1. c \in Nodes
        BY GraphFacts
      <4>2. Depths[k][c] + Levels(n, x) <= Depths[k + 1][n]
        BY <3>1, DepthsDef
      <4>3. Depths[k][c] \in Nat /\ Depths[k + 1][n] \in Nat
        <5>1. k \in 0..(B + 1) /\ k + 1 \in 0..(B + 1)
          BY <1>0, <2>2
        <5> QED
          BY <4>1, <5>1, DepthsDef
      <4>4. Levels(n, x) \in Nat /\ Levels(n, x) >= 1
        BY DEF Levels
      <4> HIDE DEF c
      <4>5. Depths[k + 1][n] <= k
        BY DEF Within
      <4>6. Depths[k][c] <= k - 1
        BY <4>2, <4>3, <4>4, <4>5
      <4>7. Within(c, q)
        BY <3>1, <4>6 DEF Within
      <4>8. Stable(q)
        BY <1>1, <3>1
      <4> HIDE DEF q, i
      <4>9. Charges[i][c] = Charges[q][c]
        BY <3>1, <4>1, <4>7, <4>8
      <4> QED
        BY <4>9 DEF c
    <3>3. Terms(Charges[i], n) = Terms(Charges[q], n)
      BY <3>2 DEF Terms
    <3>4. /\ Charges[j][n] = Own(n) + SumFunctionOnSet(Terms(Charges[i], n), C)
          /\ Charges[k][n] = Own(n) + SumFunctionOnSet(Terms(Charges[q], n), C)
      BY <3>1, ChargesDef
    <3> QED
      BY <3>3, <3>4
  <2> QED
    BY <2>1, <2>2
<1>2. Nat \subseteq Good
  <2> HIDE DEF Good
  <2> QED
    BY <1>1, NatInductionBySet
<1> QED
  BY <1>0, <1>2

\* The charge of a node, and of its first q children.
Charge == Charges[B]
ChargeUpTo == [n \in Nodes |-> [q \in Nat |-> SumFunctionOnSet(Terms(Charge, n), 1..q)]]

(* A node within k levels is charged with what its children are charged with. *)
LEMMA ChargeSums ==
  ASSUME Inv, NEW n \in Nodes, NEW k \in 0..B, Within(n, k)
  PROVE  /\ k > 0 /\ \A i \in 1..Len(Kids[n]) : Within(Kids[n][i], k - 1)
         /\ Charge[n] = Own(n) + ChargeUpTo[n][Len(Kids[n])]
<1> DEFINE q == k - 1
           C == DOMAIN Children(n)
<1>0. B \in Nat /\ Kids[n] = Children(n) /\ C = 1..Len(Kids[n])
  BY GraphFacts DEF Kids
<1>1. k > 0
  BY <1>0, ChargesStable
<1>2. /\ q \in 0..B /\ B - 1 \in 0..B /\ q <= B - 1 /\ q <= B /\ B \in 1..B /\ B \in 0..B
      /\ q + 1 = k /\ k + 1 \in 1..(B + 1) /\ k + 1 - 1 = k
  BY <1>0, <1>1
<1>3. ASSUME NEW x \in C
      PROVE  Within(Children(n)[x], q) /\ Charges[B - 1][Children(n)[x]] = Charges[B][Children(n)[x]]
  <2> DEFINE c == Children(n)[x]
  <2>1. c \in Nodes
    BY GraphFacts
  <2>2. Depths[k][c] + Levels(n, x) <= Depths[k + 1][n]
    BY <1>2, DepthsDef
  <2>3. Depths[k][c] \in Nat /\ Depths[k + 1][n] \in Nat
    <3>1. k \in 0..(B + 1) /\ k + 1 \in 0..(B + 1)
      BY <1>0
    <3> QED
      BY <2>1, <3>1, DepthsDef
  <2>4. Levels(n, x) \in Nat /\ Levels(n, x) >= 1
    BY DEF Levels
  <2> HIDE DEF c
  <2>5. Depths[k + 1][n] <= k
    BY DEF Within
  <2>6. Depths[k][c] <= k - 1
    BY <2>2, <2>3, <2>4, <2>5
  <2>7. Within(c, q)
    BY <1>2, <2>6 DEF Within
  <2> HIDE DEF q
  <2>8. Charges[B - 1][c] = Charges[q][c] /\ Charges[B][c] = Charges[q][c]
    BY <1>2, <2>1, <2>7, ChargesStable
  <2> QED
    BY <2>7, <2>8 DEF c
<1>4. Terms(Charges[B - 1], n) = Terms(Charge, n)
  BY <1>3 DEF Terms, Charge
<1>5. Charges[B][n] = Own(n) + SumFunctionOnSet(Terms(Charges[B - 1], n), C)
  BY <1>2, ChargesDef
<1>6. Charge[n] = Own(n) + ChargeUpTo[n][Len(Kids[n])]
  BY <1>0, <1>4, <1>5 DEF Charge, ChargeUpTo
<1> QED
  BY <1>0, <1>1, <1>3, <1>6

(* When the root is within the limit of depth, all that it reaches is. *)
LEMMA ChargeFacts ==
  ASSUME Inv, FullDepth <= B
  PROVE  /\ FullCharge = Charge[Root[Main]]
         /\ \A n \in FromRoot :
              /\ Charge[n] \in Nat /\ Len(Kids[n]) \in Nat
              /\ Charge[n] = Own(n) + ChargeUpTo[n][Len(Kids[n])]
              /\ ChargeUpTo[n][0] = 0
              /\ \A q \in 0..Len(Kids[n]) : ChargeUpTo[n][q] \in Nat /\ ChargeUpTo[n][q] <= Charge[n]
              /\ \A i \in 1..Len(Kids[n]) : /\ Kids[n][i] \in FromRoot
                                            /\ Terms(Charge, n)[i] = Charge[Kids[n][i]]
              /\ \A q \in 0..(Len(Kids[n]) - 1) :
                   /\ ChargeUpTo[n][q + 1] = ChargeUpTo[n][q] + Charge[Kids[n][q + 1]]
                   /\ ChargeUpTo[n][q] + Charge[Kids[n][q + 1]] <= Charge[n]
<1> DEFINE S == {n \in Nodes : \E k \in 0..B : Within(n, k)}
<1>0. B \in Nat /\ Charge \in [Nodes -> Nat] /\ FullCharge = Charge[Root[Main]]
  <2>1. B \in Nat /\ B \in 0..B
    BY GraphFacts
  <2> QED
    BY <2>1, ChargesDef DEF Charge, FullCharge, B
<1>1. S \in SUBSET Nodes /\ Root[Main] \in S
  <2>1. Root[Main] \in Nodes /\ B \in 0..B
    BY <1>0, GraphFacts
  <2>2. Within(Root[Main], B)
    BY DEF Within, FullDepth, B
  <2> QED
    BY <2>1, <2>2
<1>2. ASSUME NEW m \in S, NEW i \in 1..Len(Kids[m]) PROVE Kids[m][i] \in S
  <2>1. PICK k \in 0..B : Within(m, k)
    OBVIOUS
  <2>2. k > 0 /\ Within(Kids[m][i], k - 1)
    BY <2>1, ChargeSums
  <2>3. k - 1 \in 0..B /\ Kids[m][i] \in Nodes
    BY <1>0, <2>2, WalkFacts
  <2> QED
    BY <2>2, <2>3
<1>3. FromRoot \subseteq S
  <2> HIDE DEF S
  <2> QED
    BY <1>1, <1>2, FromRootWithin
<1>4. ASSUME NEW n \in FromRoot
      PROVE  /\ Charge[n] \in Nat /\ Len(Kids[n]) \in Nat
             /\ Charge[n] = Own(n) + ChargeUpTo[n][Len(Kids[n])]
             /\ ChargeUpTo[n][0] = 0
             /\ \A q \in 0..Len(Kids[n]) : ChargeUpTo[n][q] \in Nat /\ ChargeUpTo[n][q] <= Charge[n]
             /\ \A i \in 1..Len(Kids[n]) : /\ Kids[n][i] \in FromRoot
                                           /\ Terms(Charge, n)[i] = Charge[Kids[n][i]]
             /\ \A q \in 0..(Len(Kids[n]) - 1) :
                  /\ ChargeUpTo[n][q + 1] = ChargeUpTo[n][q] + Charge[Kids[n][q + 1]]
                  /\ ChargeUpTo[n][q] + Charge[Kids[n][q + 1]] <= Charge[n]
  <2> DEFINE K == Len(Kids[n])
             f == Terms(Charge, n)
  <2>1. n \in Nodes /\ K \in Nat /\ Charge[n] \in Nat
    BY <1>0, <1>3, WalkFacts
  <2>2. PICK k \in 0..B : Within(n, k)
    BY <1>3
  <2>3. Charge[n] = Own(n) + ChargeUpTo[n][K]
    BY <2>1, <2>2, ChargeSums
  <2>4. \A i \in 1..K : /\ Kids[n][i] \in FromRoot /\ Kids[n][i] \in Nodes
                        /\ f[i] = Charge[Kids[n][i]] /\ f[i] \in Nat
    BY <1>0, <2>1, GraphFacts, WalkFacts DEF Terms, Kids
  <2> HIDE DEF K, f
  <2>5. ChargeUpTo[n][0] = 0
    <3>1. 1..0 = {}
      OBVIOUS
    <3> QED
      BY <2>1, <3>1, SumEmpty DEF ChargeUpTo
  <2>6. Own(n) \in Nat
    BY DEF Own
  <2>7. ASSUME NEW q \in 0..K PROVE ChargeUpTo[n][q] \in Nat /\ ChargeUpTo[n][q] <= Charge[n]
    <3> DEFINE x == ChargeUpTo[n][q]
               y == ChargeUpTo[n][K]
    <3>1. x \in Nat /\ y \in Nat /\ x <= y
      BY <2>1, <2>4, SumPrefix DEF ChargeUpTo, f
    <3> HIDE DEF x, y
    <3>2. Charge[n] = Own(n) + y
      BY <2>3 DEF y
    <3>3. x \in Nat /\ x <= Charge[n]
      BY <2>6, <3>1, <3>2
    <3> QED
      BY <3>3 DEF x
  <2>8. ASSUME NEW q \in 0..(K - 1)
        PROVE  /\ ChargeUpTo[n][q + 1] = ChargeUpTo[n][q] + Charge[Kids[n][q + 1]]
               /\ ChargeUpTo[n][q] + Charge[Kids[n][q + 1]] <= Charge[n]
    <3>1. q \in Nat /\ q + 1 \in 0..K /\ q + 1 \in 1..K /\ \A x \in 1..(q + 1) : f[x] \in Nat
      BY <2>1, <2>4
    <3>2. SumFunctionOnSet(f, 1..(q + 1)) = SumFunctionOnSet(f, 1..q) + f[q + 1]
      BY <3>1, SumNext
    <3>3. ChargeUpTo[n][q + 1] = ChargeUpTo[n][q] + Charge[Kids[n][q + 1]]
      BY <2>1, <2>4, <3>1, <3>2 DEF ChargeUpTo, f
    <3>4. ChargeUpTo[n][q + 1] <= Charge[n]
      BY <2>7, <3>1
    <3> QED
      BY <3>3, <3>4
  <2> QED
    BY <2>1, <2>3, <2>4, <2>5, <2>7, <2>8 DEF K, f
<1> QED
  BY <1>0, <1>4

\* What a result that is assembled from others would be charged with.
Weight(results, s) == 1 + SumFunctionOnSet([i \in 1..Len(s) |-> results[s[i]].nodes], 1..Len(s))

\* A result has no more nodes than a call of its node is charged with, and what
\* was assembled below has no more than it says.
ChargesOK ==
  \A n \in DOMAIN resolved :
    /\ n \in FromRoot
    /\ resolved[n].nodes \in Nat \ {0} /\ resolved[n].nodes <= Charge[n]
    /\ resolved[resolved[n].node].nodes <= resolved[n].nodes
    /\ Weight(resolved, content[resolved[n].node]) <= resolved[n].nodes

GoodCharge(n, r, below) ==
  /\ r.nodes \in Nat \ {0} /\ r.nodes <= Charge[n]
  /\ r.node # n => resolved[r.node].nodes <= r.nodes
  /\ Weight(resolved, below[r.node]) <= r.nodes

\* What was charged before each call, its own and its results' charges left out.
Ledger(e) ==
  /\ e \in [1..Len(stack) -> Nat]
  /\ \A i \in 1..Len(stack) : e[i] + Charge[stack[i].node] <= FullCharge
  /\ \A i \in 1..(Len(stack) - 1) :
       e[i + 1] <= e[i] + ChargeUpTo[stack[i].node][Len(stack[i].results)]
  /\ Len(stack) > 0 =>
       expandedNodes <= e[Len(stack)] + ChargeUpTo[stack[Len(stack)].node][Len(stack[Len(stack)].results)]

SpentOK ==
  /\ expandedNodes \in Nat /\ \E e : Ledger(e)
  /\ Loading /\ Len(stack) = 0 => expandedNodes = 0

\* A policy that is not too deep is charged no more than its expansion.
ExpansionInv ==
  FullDepth <= B =>
    /\ ChargesOK /\ SpentOK
    /\ outcome = "expansion" => FullCharge > budgets.expandedNodes

(* The charges do not change while a policy is loaded. *)
LEMMA StaticCharges ==
  ASSUME UNCHANGED <<graph, budgets>>
  PROVE  Charge' = Charge /\ ChargeUpTo' = ChargeUpTo
<1>1. Charge' = Charge /\ Nodes' = Nodes
  BY Static DEF Charge
<1> QED
  BY <1>1 DEF ChargeUpTo, Terms, Children, Refers, Overrides, Kind

(* A call that is kept: no result has more nodes than it was charged with. *)
LEMMA ChargesKept ==
  ASSUME WalkInv, HeightsOK, ChargesOK, Len(stack) \in Nat \ {0},
         NEW result, NEW below, NEW charge, Kept(result, below, charge),
         GoodHeight(TopFrame.node, result, below), GoodCharge(TopFrame.node, result, below)
  PROVE  ChargesOK'
<1> DEFINE t == TopFrame.node
<1>1. /\ DOMAIN resolved' = DOMAIN resolved \cup {t} /\ t \in Nodes \ DOMAIN resolved
      /\ resolved'[t] = result /\ \A n \in DOMAIN resolved : resolved'[n] = resolved[n]
      /\ UNCHANGED <<graph, budgets>> /\ content' = below
  BY KeptFacts DEF Kept
<1>2. Charge' = Charge /\ FromRoot' = FromRoot
  BY <1>1, Static, StaticCharges
<1>3. t \in FromRoot /\ DOMAIN content \subseteq DOMAIN resolved /\ t \notin DOMAIN content
  <2>1. Len(stack) \in 1..Len(stack)
    OBVIOUS
  <2> QED
    BY <1>1, <2>1 DEF WalkInv, WalkOK, TopFrame, HeightsOK
<1>4. GoodHeight(t, result, below) /\ GoodCharge(t, result, below)
  OBVIOUS
<1> HIDE DEF t
<1>5. ASSUME NEW s \in Seq(DOMAIN resolved)
      PROVE  Weight(resolved', s) = Weight(resolved, s)
  <2>1. \A i \in 1..Len(s) : s[i] \in DOMAIN resolved
    BY ElementOfSeq
  <2>2. [i \in 1..Len(s) |-> resolved'[s[i]].nodes] = [i \in 1..Len(s) |-> resolved[s[i]].nodes]
    BY <1>1, <2>1
  <2> QED
    BY <2>2 DEF Weight
<1>6. ASSUME NEW n \in DOMAIN resolved'
      PROVE  /\ n \in FromRoot
             /\ resolved'[n].nodes \in Nat \ {0} /\ resolved'[n].nodes <= Charge[n]
             /\ resolved'[resolved'[n].node].nodes <= resolved'[n].nodes
             /\ Weight(resolved', content'[resolved'[n].node]) <= resolved'[n].nodes
  <2>1. CASE n = t
    <3>1. resolved'[n] = result /\ n \in FromRoot
      BY <1>1, <1>3, <2>1
    <3>2. result.nodes \in Nat \ {0} /\ result.nodes <= Charge[n]
      BY <1>4, <2>1 DEF GoodCharge
    <3>3. resolved'[result.node].nodes <= result.nodes
      <4>1. CASE result.node = t
        BY <1>1, <3>2, <4>1
      <4>2. CASE result.node # t
        <5>1. result.node \in DOMAIN resolved /\ resolved[result.node].nodes <= result.nodes
          BY <1>4, <4>2 DEF GoodHeight, GoodCharge
        <5> QED
          BY <1>1, <5>1
      <4> QED
        BY <4>1, <4>2
    <3>4. below[result.node] \in Seq(DOMAIN resolved) /\ Weight(resolved, below[result.node]) <= result.nodes
      BY <1>4 DEF GoodHeight, GoodCharge
    <3>5. Weight(resolved', below[result.node]) <= result.nodes
      BY <1>5, <3>4
    <3> QED
      BY <1>1, <3>1, <3>2, <3>3, <3>5
  <2>2. CASE n \in DOMAIN resolved
    <3> DEFINE r == resolved[n]
    <3>1. r.node \in DOMAIN content /\ content[r.node] \in Seq(DOMAIN resolved)
      BY <2>2 DEF HeightsOK
    <3>2. resolved'[n] = r
      BY <1>1, <2>2
    <3>3. r.node \in DOMAIN resolved /\ r.node # t /\ below[r.node] = content[r.node]
      BY <1>3, <1>4, <3>1 DEF GoodHeight
    <3>4. resolved'[r.node] = resolved[r.node]
      BY <1>1, <3>3
    <3>5. /\ n \in FromRoot /\ r.nodes \in Nat \ {0} /\ r.nodes <= Charge[n]
          /\ resolved[r.node].nodes <= r.nodes /\ Weight(resolved, content[r.node]) <= r.nodes
      BY <2>2 DEF ChargesOK
    <3>6. Weight(resolved', content[r.node]) = Weight(resolved, content[r.node])
      BY <1>5, <3>1
    <3> HIDE DEF r
    <3> QED
      BY <1>1, <3>2, <3>3, <3>4, <3>5, <3>6
  <2> QED
    BY <1>1, <2>1, <2>2
<1>7. \A n \in DOMAIN resolved' :
        Weight(resolved, content[resolved[n].node])' = Weight(resolved', content'[resolved'[n].node])
  BY DEF Weight
<1> QED
  BY <1>2, <1>6, <1>7 DEF ChargesOK

(* What a call has been charged with when it completes. *)
LEMMA ChargeResults ==
  ASSUME WalkInv, HeightsOK, ChargesOK, FullDepth <= B, NEW n, Completes(n)
  PROVE  /\ n \in FromRoot /\ n \notin DOMAIN resolved
         /\ Charge[n] \in Nat /\ ChargeUpTo[n][Len(Kids[n])] \in Nat
         /\ Charge[n] = Own(n) + ChargeUpTo[n][Len(Kids[n])]
         /\ Len(TopFrame.results) = Len(Kids[n]) /\ Len(Kids[n]) \in Nat
         /\ DOMAIN TopFrame.results = 1..Len(Kids[n])
         /\ \A i \in 1..Len(Kids[n]) :
              /\ Kids[n][i] \in DOMAIN resolved /\ TopFrame.results[i] = resolved[Kids[n][i]]
              /\ TopFrame.results[i].nodes \in Nat \ {0}
              /\ TopFrame.results[i].nodes <= Charge[Kids[n][i]]
         /\ SumFunctionOnSet([i \in 1..Len(Kids[n]) |-> TopFrame.results[i].nodes], 1..Len(Kids[n]))
              <= ChargeUpTo[n][Len(Kids[n])]
<1> DEFINE K == Len(Kids[n])
           results == TopFrame.results
<1>1. Inv /\ WalkOK
  BY DEF WalkInv
<1>2. /\ n \in Nodes /\ n \notin DOMAIN resolved /\ Len(results) = K /\ DOMAIN results = 1..K
      /\ \A i \in 1..K : Kids[n][i] \in DOMAIN resolved /\ results[i] = resolved[Kids[n][i]]
  BY ResultsFacts
<1>3. n \in FromRoot
  <2>1. Len(stack) \in 1..Len(stack) /\ TopFrame.node = n
    BY <1>1, CompletesFacts
  <2> QED
    BY <1>1, <2>1 DEF WalkOK, TopFrame
<1>4. /\ Charge[n] \in Nat /\ K \in Nat /\ Charge[n] = Own(n) + ChargeUpTo[n][K]
      /\ ChargeUpTo[n][K] \in Nat
      /\ \A i \in 1..K : /\ Kids[n][i] \in FromRoot
                         /\ Terms(Charge, n)[i] = Charge[Kids[n][i]]
  <2>1. K \in Nat /\ K \in 0..K
    BY <1>1, <1>2, WalkFacts
  <2> QED
    BY <1>1, <1>3, <2>1, ChargeFacts
<1>5. \A i \in 1..K : results[i].nodes \in Nat \ {0} /\ results[i].nodes <= Charge[Kids[n][i]]
  BY <1>2 DEF ChargesOK
<1> DEFINE f == [i \in 1..K |-> results[i].nodes]
           g == Terms(Charge, n)
           S == 1..K
           h == [i \in S |-> i]
<1>6. \A i \in S : f[i] = results[i].nodes
  OBVIOUS
<1>7. \A i \in S : g[i] = Charge[Kids[n][i]] /\ g[i] \in Nat
  BY <1>1, <1>4, ChargeFacts
<1>8. IsFiniteSet(S) /\ h \in [S -> S] /\ \A i \in S : h[i] = i
  BY <1>4, FS_Interval
<1> HIDE DEF f, h, results
<1>9. /\ \A i \in S : f[i] \in Nat
      /\ \A i \in S : f[i] <= g[h[i]]
  BY <1>5, <1>6, <1>7, <1>8
<1>10. SumFunctionOnSet(g, 1..K) = ChargeUpTo[n][K]
  BY <1>2, <1>4 DEF ChargeUpTo
<1> HIDE DEF g, S, K
<1>11. SumFunctionOnSet(f, S) <= SumFunctionOnSet(g, S)
  BY <1>7, <1>8, <1>9, SumInjection
<1>12. SumFunctionOnSet(f, 1..K) <= ChargeUpTo[n][K]
  BY <1>10, <1>11 DEF S
<1> QED
  BY <1>2, <1>3, <1>4, <1>5, <1>12 DEF K, f, results

(* The nodes of a mapping. *)
LEMMA NodesFacts ==
  ASSUME NEW children, NEW K \in Nat, Len(children) = K,
         \A i \in 1..K : children[i].nodes \in Nat \ {0}
  PROVE  /\ NodesUpTo(children, K) \in Nat \ {0} /\ K + 1 <= NodesUpTo(children, K)
         /\ \A i \in 1..K : NodesUpTo(children, i) <= NodesUpTo(children, K)
<1> DEFINE f == [j \in 1..K |-> children[j].nodes]
<1>1. \A j \in 1..K : f[j] = children[j].nodes /\ f[j] \in Nat \ {0} /\ f[j] \in Nat
  OBVIOUS
<1>2. NodesUpTo(children, K) = 1 + SumFunctionOnSet(f, 1..K)
  BY DEF NodesUpTo
<1> HIDE DEF f
<1>3. K <= SumFunctionOnSet(f, 1..K)
  BY <1>1, SumPositive
<1>4. SumFunctionOnSet(f, 1..K) \in Nat
  <2>1. K \in 0..K
    OBVIOUS
  <2> QED
    BY <1>1, <2>1, SumPrefix
<1>5. ASSUME NEW i \in 1..K PROVE NodesUpTo(children, i) <= NodesUpTo(children, K)
  <2> DEFINE g == [j \in 1..i |-> children[j].nodes]
  <2>1. IsFiniteSet(1..i) /\ i \in 0..K
    BY FS_Interval
  <2>2. \A j \in 1..i : g[j] = f[j]
    BY <1>1
  <2>3. NodesUpTo(children, i) = 1 + SumFunctionOnSet(g, 1..i)
    BY DEF NodesUpTo
  <2> HIDE DEF g
  <2>4. SumFunctionOnSet(g, 1..i) = SumFunctionOnSet(f, 1..i)
    BY <2>1, <2>2, SumCongruent
  <2>5. SumFunctionOnSet(f, 1..i) \in Nat /\ SumFunctionOnSet(f, 1..i) <= SumFunctionOnSet(f, 1..K)
    BY <1>1, <2>1, SumPrefix
  <2> QED
    BY <1>2, <1>4, <2>3, <2>4, <2>5
<1>6. /\ NodesUpTo(children, K) \in Nat \ {0} /\ K + 1 <= NodesUpTo(children, K)
  BY <1>2, <1>3, <1>4
<1> QED
  BY <1>5, <1>6

(* A mapping has as many nodes as its children, and itself. *)
LEMMA ContainerCharge ==
  ASSUME WalkInv, HeightsOK, ChargesOK, NEW n, Charge[n] \in Nat, NEW children, NEW K \in Nat,
         Len(children) = K, DOMAIN children = 1..K,
         \A i \in 1..K : \E m \in DOMAIN resolved : children[i] = resolved[m],
         NodesUpTo(children, K) <= Charge[n], NEW hops, NEW bytes
  PROVE  /\ GoodCharge(n, ContainerResult(n, children, hops, bytes), ContainerBelow(n, children, content))
         /\ K + 1 <= Charge[n]
         /\ \A i \in 1..K : NodesUpTo(children, i) <= Charge[n]
<1> DEFINE r == ContainerResult(n, children, hops, bytes)
           below == ContainerBelow(n, children, content)
           nodes == [i \in 1..K |-> children[i].node]
<1>1. ASSUME NEW i \in 1..K
      PROVE  /\ children[i].nodes \in Nat \ {0} /\ children[i].node \in DOMAIN resolved
             /\ resolved[children[i].node].nodes \in Nat
             /\ resolved[children[i].node].nodes <= children[i].nodes
  <2>1. PICK m \in DOMAIN resolved : children[i] = resolved[m]
    BY <1>1
  <2>2. resolved[m].node \in DOMAIN resolved
    BY DEF HeightsOK
  <2> QED
    BY <2>1, <2>2 DEF ChargesOK
<1>2. /\ NodesUpTo(children, K) \in Nat \ {0} /\ K + 1 <= NodesUpTo(children, K)
      /\ \A i \in 1..K : NodesUpTo(children, i) <= NodesUpTo(children, K)
  BY <1>1, NodesFacts
<1>3. r.node = n /\ r.nodes = NodesUpTo(children, K)
  BY DEF ContainerResult
<1>4. below[n] = nodes
  BY DEF ContainerBelow, Extend
<1>5. Len(nodes) = K /\ \A i \in 1..K : nodes[i] = children[i].node
  <2>1. nodes \in [1..K -> DOMAIN resolved] /\ DOMAIN nodes = 1..K
    BY <1>1
  <2>2. \A i \in 1..K : nodes[i] = children[i].node
    OBVIOUS
  <2> HIDE DEF nodes
  <2>3. nodes \in Seq(DOMAIN resolved)
    BY <2>1, SeqDef
  <2> QED
    BY <2>1, <2>2, <2>3, LenProperties
<1> HIDE DEF r, below, nodes
<1>6. Weight(resolved, nodes) <= r.nodes
  <2> DEFINE f == [i \in 1..K |-> resolved[nodes[i]].nodes]
             g == [i \in 1..K |-> children[i].nodes]
             S == 1..K
             h == [i \in S |-> i]
  <2>1. /\ \A i \in S : f[i] \in Nat
        /\ \A i \in S : g[i] \in Nat
        /\ \A i \in S : f[i] <= g[i]
    BY <1>1, <1>5
  <2>2. IsFiniteSet(S) /\ h \in [S -> S] /\ \A i \in S : h[i] = i
    BY FS_Interval
  <2>3. /\ Weight(resolved, nodes) = 1 + SumFunctionOnSet(f, S)
        /\ NodesUpTo(children, K) = 1 + SumFunctionOnSet(g, S)
    BY <1>5 DEF Weight, NodesUpTo
  <2> HIDE DEF f, g, S, h
  <2>4. SumFunctionOnSet(f, S) <= SumFunctionOnSet(g, S)
    BY <2>1, <2>2, SumInjection
  <2>5. SumFunctionOnSet(f, S) \in Nat /\ SumFunctionOnSet(g, S) \in Nat
    BY <2>1, <2>2, SumNat
  <2> QED
    BY <1>3, <2>3, <2>4, <2>5
<1>7. GoodCharge(n, r, below)
  BY <1>2, <1>3, <1>4, <1>6 DEF GoodCharge
<1>8. K + 1 <= Charge[n]
  BY <1>2
<1>9. ASSUME NEW i \in 1..K PROVE NodesUpTo(children, i) <= Charge[n]
  <2> DEFINE f == [j \in 1..i |-> children[j].nodes]
  <2>1. IsFiniteSet(1..i) /\ \A j \in 1..i : f[j] \in Nat
    <3>1. IsFiniteSet(1..i)
      BY FS_Interval
    <3>2. \A j \in 1..i : j \in 1..K
      OBVIOUS
    <3> QED
      BY <1>1, <3>1, <3>2
  <2>2. NodesUpTo(children, i) = 1 + SumFunctionOnSet(f, 1..i)
    BY DEF NodesUpTo
  <2> HIDE DEF f
  <2>3. NodesUpTo(children, i) \in Nat
    BY <2>1, <2>2, SumNat
  <2> QED
    BY <1>2, <2>3
<1> QED
  BY <1>7, <1>8, <1>9 DEF r, below

(* An override keeps some of the nodes of its base, which it was charged with. *)
LEMMA OverrideNodes ==
  ASSUME WalkInv, HeightsOK, ChargesOK, FullDepth <= B, NEW n, Completes(n), Overrides(n)
  PROVE  /\ Len(Overridden) \in Nat /\ DOMAIN Overridden = 1..Len(Overridden)
         /\ \A i \in 1..Len(Overridden) : \E m \in DOMAIN resolved : Overridden[i] = resolved[m]
         /\ NodesUpTo(Overridden, Len(Overridden)) <= Charge[n]
<1> DEFINE results == TopFrame.results
           base == content[results[1].node]
           R == Len(Kids[n])
           K == Len(Overridden)
           M == Len(base)
<1>1. /\ 1 \in 1..R /\ R \in Nat /\ base \in Seq(DOMAIN resolved) /\ M \in Nat
      /\ K \in Nat /\ DOMAIN Overridden = 1..K /\ Len(results) = R
  BY OverrideFacts
<1>2. PICK h : Origin(base, results, Overridden, h)
  BY OverrideFacts
<1>3. /\ Charge[n] \in Nat /\ ChargeUpTo[n][R] \in Nat /\ Charge[n] = Own(n) + ChargeUpTo[n][R]
      /\ \A i \in 1..R :
           /\ Kids[n][i] \in DOMAIN resolved /\ results[i] = resolved[Kids[n][i]]
           /\ results[i].nodes \in Nat \ {0}
      /\ SumFunctionOnSet([i \in 1..R |-> results[i].nodes], 1..R) <= ChargeUpTo[n][R]
  BY ChargeResults
<1>4. Own(n) = 1
  BY DEF Own, Creates
<1>5. \A i \in 1..M : base[i] \in DOMAIN resolved /\ resolved[base[i]].nodes \in Nat
  <2>1. \A i \in 1..M : base[i] \in DOMAIN resolved
    BY <1>1, ElementOfSeq
  <2> QED
    BY <2>1 DEF ChargesOK
<1>6. Weight(resolved, base) <= results[1].nodes
  BY <1>1, <1>3 DEF ChargesOK
<1> HIDE DEF results, base, R, K, M
<1>7. /\ h \in [1..K -> Int] /\ \A i, j \in 1..K : h[i] = h[j] => i = j
      /\ \A i \in 1..K : \/ 0 - h[i] \in 1..M /\ Overridden[i] = resolved[base[0 - h[i]]]
                         \/ h[i] \in 2..R /\ Overridden[i] = results[h[i]]
  BY <1>1, <1>2 DEF Origin, K, M
<1> DEFINE N == (0 - M)..(0 - 1)
           P == 2..R
           T == N \cup P
           f == [i \in 1..K |-> Overridden[i].nodes]
           g == [x \in T |-> IF x < 0 THEN resolved[base[0 - x]].nodes ELSE results[x].nodes]
           b == [i \in 1..M |-> resolved[base[i]].nodes]
           c == [i \in 1..R |-> results[i].nodes]
<1>8. /\ IsFiniteSet(N) /\ IsFiniteSet(P) /\ IsFiniteSet(T) /\ N \cap P = {}
  <2>1. 0 - M \in Int /\ 0 - 1 \in Int /\ 2 \in Int /\ R \in Int
    BY <1>1
  <2>2. IsFiniteSet(N) /\ IsFiniteSet(P)
    BY <2>1, FS_Interval
  <2>3. N \cap P = {}
    BY <1>1
  <2> HIDE DEF N, P
  <2> QED
    BY <2>2, <2>3, FS_Union
<1>9. /\ \A x \in N : g[x] = resolved[base[0 - x]].nodes /\ 0 - x \in 1..M /\ g[x] = b[0 - x]
      /\ \A x \in P : g[x] = results[x].nodes /\ x \in 1..R /\ g[x] = c[x]
  BY <1>1
<1>10. \A x \in T : g[x] \in Nat
  BY <1>3, <1>5, <1>9
<1>11. \A i \in 1..K : h[i] \in T /\ f[i] = g[h[i]]
  <2> SUFFICES ASSUME NEW i \in 1..K PROVE h[i] \in T /\ f[i] = g[h[i]]
    OBVIOUS
  <2>0. h[i] \in Int /\ f[i] = Overridden[i].nodes
    BY <1>7
  <2>1. CASE 0 - h[i] \in 1..M /\ Overridden[i] = resolved[base[0 - h[i]]]
    <3>1. h[i] \in N
      BY <1>1, <2>0, <2>1
    <3> QED
      BY <1>9, <2>0, <2>1, <3>1
  <2>2. CASE h[i] \in P /\ Overridden[i] = results[h[i]]
    BY <1>9, <2>0, <2>2
  <2> QED
    BY <1>7, <2>1, <2>2
<1>12. \A i \in 1..K : \E m \in DOMAIN resolved : Overridden[i] = resolved[m]
  <2> SUFFICES ASSUME NEW i \in 1..K PROVE \E m \in DOMAIN resolved : Overridden[i] = resolved[m]
    OBVIOUS
  <2>1. \A x \in 2..R : x \in 1..R
    BY <1>1
  <2> QED
    BY <1>3, <1>5, <1>7, <2>1
<1>13. /\ NodesUpTo(Overridden, K) = 1 + SumFunctionOnSet(f, 1..K)
       /\ Weight(resolved, base) = 1 + SumFunctionOnSet(b, 1..M)
  BY DEF NodesUpTo, Weight, M
<1>14. (\A i \in 1..M : b[i] \in Nat) /\ (\A i \in 1..R : c[i] \in Nat /\ c[i] = results[i].nodes)
  BY <1>3, <1>5
<1>15. h \in [1..K -> T]
  BY <1>7, <1>11
<1> HIDE DEF f, g, b, c, N, P, T
<1>16. SumFunctionOnSet(f, 1..K) <= SumFunctionOnSet(g, T)
  <2> DEFINE S == 1..K
  <2>1. /\ IsFiniteSet(S) /\ h \in [S -> T]
        /\ \A i \in S : f[i] \in Nat
        /\ \A i, j \in S : h[i] = h[j] => i = j
        /\ \A i \in S : f[i] <= g[h[i]]
    <3>1. IsFiniteSet(S)
      BY <1>1, FS_Interval
    <3>2. \A i \in S : f[i] \in Nat /\ f[i] <= g[h[i]]
      BY <1>10, <1>11
    <3> QED
      BY <1>7, <1>15, <3>1, <3>2
  <2> HIDE DEF S
  <2>2. SumFunctionOnSet(f, S) <= SumFunctionOnSet(g, T)
    BY <1>8, <1>10, <2>1, SumInjection
  <2> QED
    BY <2>2 DEF S
<1>17. SumFunctionOnSet(g, T) = SumFunctionOnSet(g, N) + SumFunctionOnSet(g, P)
  <2>1. \A x \in N \cup P : g[x] \in Nat
    BY <1>10 DEF T
  <2>2. SumFunctionOnSet(g, N \cup P) = SumFunctionOnSet(g, N) + SumFunctionOnSet(g, P)
    BY <1>8, <2>1, SumUnion
  <2> QED
    BY <2>2 DEF T
<1>18. SumFunctionOnSet(g, N) <= SumFunctionOnSet(b, 1..M)
  <2> DEFINE S == 1..M
             q == [x \in N |-> 0 - x]
  <2>1. /\ IsFiniteSet(S) /\ \A x \in N : x \in Int
    BY <1>1, FS_Interval DEF N
  <2>2. q \in [N -> S] /\ \A x \in N : q[x] = 0 - x
    BY <1>9
  <2>3. /\ \A x \in N : g[x] \in Nat
        /\ \A x \in N : g[x] <= b[q[x]]
        /\ \A x \in S : b[x] \in Nat
    BY <1>9, <1>10, <1>14, <2>2 DEF T
  <2>4. \A x, y \in N : q[x] = q[y] => x = y
    BY <2>1, <2>2
  <2> HIDE DEF S, q
  <2>5. SumFunctionOnSet(g, N) <= SumFunctionOnSet(b, S)
    BY <1>8, <2>1, <2>2, <2>3, <2>4, SumInjection
  <2> QED
    BY <2>5 DEF S
<1>19. c[1] + SumFunctionOnSet(g, P) = SumFunctionOnSet(c, 1..R)
  <2>1. 1..R = P \cup {1} /\ 1 \notin P
    BY <1>1 DEF P
  <2>2. SumFunctionOnSet(g, P) = SumFunctionOnSet(c, P)
    BY <1>8, <1>9, SumCongruent
  <2>3. \A x \in P \cup {1} : c[x] \in Int
    BY <1>14, <2>1
  <2>4. SumFunctionOnSet(c, P \cup {1}) = c[1] + SumFunctionOnSet(c, P)
    BY <1>8, <2>1, <2>3, SumAdd
  <2> QED
    BY <2>1, <2>2, <2>4
<1>20. SumFunctionOnSet(c, 1..R) <= ChargeUpTo[n][R]
  BY <1>3 DEF c
<1> DEFINE sf == SumFunctionOnSet(f, 1..K)
           sg == SumFunctionOnSet(g, T)
           sn == SumFunctionOnSet(g, N)
           sp == SumFunctionOnSet(g, P)
           sb == SumFunctionOnSet(b, 1..M)
           sc == SumFunctionOnSet(c, 1..R)
<1>21. /\ sf \in Nat /\ sn \in Nat /\ sp \in Nat /\ sb \in Nat /\ sc \in Nat /\ c[1] \in Nat
       /\ c[1] = results[1].nodes
  <2>1. /\ \A x \in N : g[x] \in Nat
        /\ \A x \in P : g[x] \in Nat
    BY <1>10 DEF T
  <2>2. /\ IsFiniteSet(1..K) /\ IsFiniteSet(1..M) /\ IsFiniteSet(1..R)
        /\ \A i \in 1..K : f[i] \in Nat
    <3>1. /\ IsFiniteSet(1..K) /\ IsFiniteSet(1..M) /\ IsFiniteSet(1..R)
      BY <1>1, FS_Interval
    <3>2. \A i \in 1..K : f[i] \in Nat
      BY <1>10, <1>11
    <3> QED
      BY <3>1, <3>2
  <2>3. sn \in Nat /\ sp \in Nat
    BY <1>8, <2>1, SumNat
  <2>4. sf \in Nat /\ sb \in Nat /\ sc \in Nat
    BY <1>14, <2>2, SumNat
  <2> QED
    BY <1>1, <1>14, <2>3, <2>4
<1>22. /\ sf <= sg /\ sg = sn + sp /\ sn <= sb /\ c[1] + sp = sc /\ sc <= ChargeUpTo[n][R]
       /\ 1 + sb <= c[1] /\ NodesUpTo(Overridden, K) = 1 + sf
  BY <1>6, <1>13, <1>16, <1>17, <1>18, <1>19, <1>20, <1>21
<1> HIDE DEF sf, sg, sn, sp, sb, sc
<1>23. 1 + sf <= Charge[n]
  BY <1>3, <1>4, <1>21, <1>22, SMTT(30)
<1>24. NodesUpTo(Overridden, K) <= Charge[n]
  BY <1>22, <1>23
<1> QED
  BY <1>1, <1>12, <1>24 DEF K

\* How a call of n may end: refused because the budget is used up or too small
\* for what n is charged with, or with a result.
ChargedEnd(n, result, below, charge) ==
  \/ /\ Quiet /\ outcome' = "expansion"
     /\ \/ 1 > budgets.expandedNodes - expandedNodes /\ Own(n) = 1
        \/ Charge[n] > budgets.expandedNodes
  \/ /\ ~(Quiet /\ outcome' = "expansion") /\ Completion(result, below, charge)
     /\ GoodHeight(n, result, below) /\ GoodCharge(n, result, below)
     /\ charge \in Nat /\ charge <= Own(n)

(* A mapping, or an override, ends so. *)
LEMMA ContainerEnd ==
  ASSUME WalkInv, HeightsOK, ChargesOK, NEW n, Charge[n] \in Nat, Own(n) = 1, stack # <<>>,
         NEW children, NEW K \in Nat, Len(children) = K, DOMAIN children = 1..K,
         \A i \in 1..K : \E m \in DOMAIN resolved : children[i] = resolved[m],
         NodesUpTo(children, K) <= Charge[n], NEW hops, Container(n, children, hops, content),
         \A bytes : GoodHeight(n, ContainerResult(n, children, hops, bytes),
                               ContainerBelow(n, children, content))
  PROVE  \E result, below, charge : ChargedEnd(n, result, below, charge)
<1>1. /\ \E bytes : Completion(ContainerResult(n, children, hops, bytes),
                              ContainerBelow(n, children, content), 1)
      /\ Quiet /\ outcome' = "expansion" =>
           \/ 1 > budgets.expandedNodes - expandedNodes
           \/ \E i \in DOMAIN children : NodesUpTo(children, i) > budgets.expandedNodes
  BY ContainerFacts DEF WalkInv
<1>2. PICK bytes : Completion(ContainerResult(n, children, hops, bytes),
                              ContainerBelow(n, children, content), 1)
  BY <1>1
<1> DEFINE r == ContainerResult(n, children, hops, bytes)
           below == ContainerBelow(n, children, content)
<1>3. GoodCharge(n, r, below) /\ \A i \in 1..K : NodesUpTo(children, i) <= Charge[n]
  BY ContainerCharge
<1>4. GoodHeight(n, r, below) /\ Completion(r, below, 1)
  BY <1>2
<1> HIDE DEF r, below
<1>5. CASE Quiet /\ outcome' = "expansion"
  <2>1. CASE \E i \in DOMAIN children : NodesUpTo(children, i) > budgets.expandedNodes
    <3>1. PICK i \in 1..K : NodesUpTo(children, i) > budgets.expandedNodes
      BY <2>1
    <3>2. NodesUpTo(children, i) <= Charge[n] /\ NodesUpTo(children, i) \in Int
      <4> DEFINE f == [j \in 1..i |-> children[j].nodes]
      <4>1. IsFiniteSet(1..i) /\ \A j \in 1..i : j \in 1..K
        BY FS_Interval, SMTT(30)
      <4>2. \A j \in 1..K : children[j].nodes \in Int
        BY DEF ChargesOK
      <4>3. \A j \in 1..i : f[j] \in Int
        BY <4>1, <4>2
      <4>4. NodesUpTo(children, i) = 1 + SumFunctionOnSet(f, 1..i)
        BY DEF NodesUpTo
      <4> HIDE DEF f
      <4>5. SumFunctionOnSet(f, 1..i) \in Int
        BY <4>1, <4>3, SumInt
      <4> QED
        BY <1>3, <3>1, <4>4, <4>5
    <3>3. budgets.expandedNodes \in Nat
      BY GraphFacts DEF WalkInv
    <3>4. Charge[n] > budgets.expandedNodes
      BY <3>1, <3>2, <3>3
    <3> QED
      BY <1>5, <3>4 DEF ChargedEnd
  <2>2. CASE 1 > budgets.expandedNodes - expandedNodes
    BY <1>5, <2>2 DEF ChargedEnd
  <2> QED
    BY <1>1, <1>5, <2>1, <2>2
<1>6. CASE ~(Quiet /\ outcome' = "expansion")
  BY <1>3, <1>4, <1>6 DEF ChargedEnd
<1> QED
  BY <1>5, <1>6

(* So does every call. *)
LEMMA CompletionCharge ==
  ASSUME WalkInv, HeightsOK, ChargesOK, FullDepth <= B,
         CompleteScalar \/ CompleteHop \/ CompleteMapping \/ CompleteOverride
  PROVE  \E result, below, charge : ChargedEnd(TopFrame.node, result, below, charge)
<1>1. Inv
  BY DEF WalkInv
<1>2. CASE CompleteScalar
  <2>1. PICK n \in Nodes : /\ Completes(n) /\ Kind(n) = "scalar"
                           /\ Completion(ScalarResult(n), Extend(content, n, <<>>), 1)
                           /\ Quiet /\ outcome' = "expansion" => 1 > budgets.expandedNodes - expandedNodes
    BY <1>1, <1>2, CompleteScalarFacts
  <2> DEFINE below == Extend(content, n, <<>>)
  <2>2. Own(n) = 1 /\ TopFrame.node = n
    BY <1>1, <2>1, CompletesFacts DEF Own, Creates
  <2>3. GoodHeight(n, ScalarResult(n), below)
    BY <2>1, ScalarHeight
  <2>4. GoodCharge(n, ScalarResult(n), below)
    <3>1. /\ Charge[n] \in Nat /\ ChargeUpTo[n][Len(Kids[n])] \in Nat
          /\ Charge[n] = Own(n) + ChargeUpTo[n][Len(Kids[n])]
      BY <2>1, ChargeResults
    <3>2. 1 <= Charge[n]
      BY <2>2, <3>1
    <3>3. ScalarResult(n).node = n /\ ScalarResult(n).nodes = 1 /\ below[n] = <<>>
      BY DEF ScalarResult, Extend
    <3>4. Weight(resolved, <<>>) = 1
      <4>1. Len(<<>>) = 0 /\ 1..0 = {}
        BY EmptySeq
      <4> DEFINE f == [i \in 1..Len(<<>>) |-> resolved[<<>>[i]].nodes]
      <4>2. Weight(resolved, <<>>) = 1 + SumFunctionOnSet(f, {})
        BY <4>1 DEF Weight
      <4> HIDE DEF f
      <4> QED
        BY <4>2, SumEmpty
    <3> HIDE DEF below
    <3> QED
      BY <3>2, <3>3, <3>4 DEF GoodCharge
  <2> HIDE DEF below
  <2>5. Completion(ScalarResult(n), below, 1)
    BY <2>1 DEF below
  <2>6. ChargedEnd(n, ScalarResult(n), below, 1)
    BY <2>1, <2>2, <2>3, <2>4, <2>5 DEF ChargedEnd
  <2> QED
    BY <2>2, <2>6
<1>3. CASE CompleteHop
  <2>1. PICK n \in Nodes : /\ Completes(n) /\ Kind(n) \in {"alias", "ref"}
                           /\ Completion(HopResult(TopFrame.results[1]), content, 0)
                           /\ ~(Quiet /\ outcome' = "expansion")
    BY <1>1, <1>3, CompleteHopFacts
  <2>2. Own(n) \in Nat /\ TopFrame.node = n
    BY <1>1, <2>1, CompletesFacts DEF Own
  <2> DEFINE r == TopFrame.results[1]
             m == Kids[n][1]
             q == HopResult(r)
  <2>3. GoodHeight(n, q, content)
    BY <2>1, HopHeight
  <2>4. /\ 1 \in 1..Len(Kids[n]) /\ Len(Kids[n]) = 1 /\ 0 \in 0..(Len(Kids[n]) - 1) /\ 0 + 1 = 1
    BY <1>1, <2>1, HopKid, ResultsFacts
  <2>5. /\ n \in FromRoot /\ m \in DOMAIN resolved /\ r = resolved[m]
        /\ r.nodes \in Nat \ {0} /\ r.nodes <= Charge[m]
    <3>1. /\ n \in FromRoot
          /\ \A i \in 1..Len(Kids[n]) :
               /\ Kids[n][i] \in DOMAIN resolved /\ TopFrame.results[i] = resolved[Kids[n][i]]
               /\ TopFrame.results[i].nodes \in Nat \ {0}
               /\ TopFrame.results[i].nodes <= Charge[Kids[n][i]]
      BY <2>1, ChargeResults
    <3> QED
      BY <2>4, <3>1
  <2>6. /\ ChargeUpTo[n][0] = 0 /\ ChargeUpTo[n][0] + Charge[m] <= Charge[n] /\ Charge[n] \in Nat
    BY <1>1, <2>4, <2>5, ChargeFacts
  <2>7. Charge[m] \in Nat
    BY <1>1, <2>4, <2>5, ChargeFacts
  <2>8. q.nodes = r.nodes /\ q.node = r.node
    <3>1. r = Record(r)
      BY <2>5 DEF HeightsOK
    <3> QED
      BY <3>1 DEF HopResult, Record
  <2>9. resolved[r.node].nodes <= r.nodes /\ Weight(resolved, content[r.node]) <= r.nodes
    BY <2>5 DEF ChargesOK
  <2> HIDE DEF q, r, m
  <2>10. GoodCharge(n, q, content)
    BY <2>5, <2>6, <2>7, <2>8, <2>9 DEF GoodCharge
  <2>11. Completion(q, content, 0)
    BY <2>1 DEF q, r
  <2>12. ChargedEnd(n, q, content, 0)
    BY <2>1, <2>2, <2>3, <2>10, <2>11 DEF ChargedEnd
  <2> QED
    BY <2>2, <2>12
<1>4. CASE CompleteMapping
  <2>1. PICK n \in Nodes : /\ Completes(n) /\ Kind(n) = "mapping" /\ stack # <<>>
                           /\ Container(n, TopFrame.results, 0, content)
    BY <1>1, <1>4, CompleteMappingFacts
  <2> DEFINE children == TopFrame.results
             K == Len(Kids[n])
  <2>2. Own(n) = 1 /\ TopFrame.node = n
    BY <1>1, <2>1, CompletesFacts DEF Own, Creates
  <2>3. /\ Charge[n] \in Nat /\ ChargeUpTo[n][K] \in Nat
        /\ Charge[n] = Own(n) + ChargeUpTo[n][K] /\ K \in Nat
        /\ Len(children) = K /\ DOMAIN children = 1..K
        /\ \A i \in 1..K : /\ Kids[n][i] \in DOMAIN resolved /\ children[i] = resolved[Kids[n][i]]
                           /\ children[i].nodes \in Nat \ {0}
        /\ SumFunctionOnSet([i \in 1..K |-> children[i].nodes], 1..K) <= ChargeUpTo[n][K]
    BY <2>1, ChargeResults
  <2>4. \A bytes : GoodHeight(n, ContainerResult(n, children, 0, bytes),
                              ContainerBelow(n, children, content))
    BY <2>1, MappingHeight
  <2>5. Container(n, children, 0, content)
    BY <2>1
  <2> HIDE DEF children, K
  <2>6. NodesUpTo(children, K) <= Charge[n]
    <3> DEFINE s == SumFunctionOnSet([i \in 1..K |-> children[i].nodes], 1..K)
    <3>1. NodesUpTo(children, K) = 1 + s /\ s <= ChargeUpTo[n][K]
      BY <2>3 DEF NodesUpTo
    <3>2. NodesUpTo(children, K) \in Nat
      BY <2>3, NodesFacts
    <3>3. s \in Int
      <4>1. IsFiniteSet(1..K) /\ \A i \in 1..K : [j \in 1..K |-> children[j].nodes][i] \in Int
        BY <2>3, FS_Interval
      <4> QED
        BY <4>1, SumInt
    <3> HIDE DEF s
    <3> QED
      BY <2>2, <2>3, <3>1, <3>3
  <2>7. \A i \in 1..K : \E m \in DOMAIN resolved : children[i] = resolved[m]
    BY <2>3
  <2>8. \E result, below, charge : ChargedEnd(n, result, below, charge)
    BY <2>1, <2>2, <2>3, <2>4, <2>5, <2>6, <2>7, ContainerEnd
  <2> QED
    BY <2>2, <2>8
<1>5. CASE CompleteOverride
  <2>1. PICK n \in Nodes : /\ Completes(n) /\ Overrides(n) /\ stack # <<>>
                           /\ \/ /\ Len(Overridden) >= budgets.expandedNodes
                                 /\ Quiet /\ outcome' = "expansion"
                              \/ Container(n, Overridden, 1, content)
    BY <1>1, <1>5, CompleteOverrideFacts
  <2> DEFINE K == Len(Overridden)
  <2>2. Own(n) = 1 /\ TopFrame.node = n
    BY <1>1, <2>1, CompletesFacts DEF Own, Creates
  <2>3. Charge[n] \in Nat
    BY <2>1, ChargeResults
  <2>4. /\ K \in Nat /\ DOMAIN Overridden = 1..K
        /\ \A i \in 1..K : \E m \in DOMAIN resolved : Overridden[i] = resolved[m]
        /\ NodesUpTo(Overridden, K) <= Charge[n]
    BY <2>1, OverrideNodes
  <2>5. \A bytes : GoodHeight(n, ContainerResult(n, Overridden, 1, bytes),
                              ContainerBelow(n, Overridden, content))
    BY <2>1, OverrideHeight
  <2>6. K >= budgets.expandedNodes \/ Container(n, Overridden, 1, content)
    BY <2>1
  <2>7. Len(Overridden) = K
    OBVIOUS
  <2> HIDE DEF K
  <2>8. CASE K >= budgets.expandedNodes /\ Quiet /\ outcome' = "expansion"
    <3>1. K + 1 <= Charge[n]
      BY <2>3, <2>4, <2>7, ContainerCharge
    <3>2. budgets.expandedNodes \in Nat
      BY <1>1, GraphFacts
    <3>3. Charge[n] > budgets.expandedNodes
      BY <2>3, <2>4, <2>8, <3>1, <3>2
    <3> QED
      BY <2>2, <2>8, <3>3 DEF ChargedEnd
  <2>9. CASE Container(n, Overridden, 1, content)
    <3>1. \E result, below, charge : ChargedEnd(n, result, below, charge)
      BY <2>1, <2>2, <2>3, <2>4, <2>5, <2>7, <2>9, ContainerEnd
    <3> QED
      BY <2>2, <3>1
  <2> QED
    BY <2>1, <2>7, <2>8, <2>9
<1> QED
  BY <1>2, <1>3, <1>4, <1>5

\* What may have been charged, as a ledger has it.
Spent(e) ==
  IF Len(stack) = 0 THEN 0
  ELSE e[Len(stack)] + ChargeUpTo[stack[Len(stack)].node][Len(stack[Len(stack)].results)]

(* What is called next is still to be charged. *)
LEMMA CalleeCharge ==
  ASSUME WalkInv, SpentOK, FullDepth <= B, Calls, NEW e, Ledger(e)
  PROVE  /\ expandedNodes <= Spent(e) /\ Spent(e) \in Nat
         /\ Charge[Callee.node] \in Nat /\ FullCharge \in Nat
         /\ Spent(e) + Charge[Callee.node] <= FullCharge
<1> DEFINE L == Len(stack)
           c == Callee.node
           t == stack[L].node
           q == Len(stack[L].results)
<1>1. Inv /\ WalkOK /\ L \in Nat
  BY StackFacts DEF WalkInv
<1>2. c \in FromRoot /\ Charge[c] \in Nat
  BY <1>1, CalleeFacts, ChargeFacts
<1>3. FullCharge \in Nat /\ FullCharge = Charge[Root[Main]]
  BY <1>1, WalkFacts, ChargeFacts
<1>4. CASE L = 0
  <2>1. c = Root[Main] /\ Loading
    BY <1>1, <1>4, CalleeFacts DEF Calls, Running
  <2>2. expandedNodes = 0
    BY <1>4, <2>1 DEF SpentOK
  <2>3. Spent(e) = 0
    BY <1>4 DEF Spent
  <2> QED
    BY <1>2, <1>3, <2>1, <2>2, <2>3
<1>5. CASE L > 0
  <2>1. L \in 1..L /\ L # 0
    BY <1>1, <1>5
  <2>2. t \in FromRoot /\ q \in Nat /\ q < Len(Kids[t]) /\ c = Kids[t][q + 1]
    BY <1>1, <1>5, <2>1, StackFacts, CalleeFacts DEF WalkOK, TopFrame
  <2>3. e[L] \in Nat /\ e[L] + Charge[t] <= FullCharge /\ expandedNodes <= e[L] + ChargeUpTo[t][q]
    BY <1>5, <2>1 DEF Ledger
  <2> HIDE DEF t, q, c, L
  <2>4. Charge[t] \in Nat /\ Len(Kids[t]) \in Nat
    BY <1>1, <2>2, ChargeFacts
  <2>5. q \in 0..(Len(Kids[t]) - 1) /\ q \in 0..Len(Kids[t])
    BY <2>2, <2>4
  <2>6. ChargeUpTo[t][q] \in Nat /\ ChargeUpTo[t][q] + Charge[Kids[t][q + 1]] <= Charge[t]
    BY <1>1, <2>2, <2>5, ChargeFacts
  <2> DEFINE u == ChargeUpTo[t][q]
             v == Charge[c]
             w == Charge[t]
  <2>7. /\ u \in Nat /\ v \in Nat /\ w \in Nat /\ u + v <= w /\ e[L] + w <= FullCharge
        /\ expandedNodes <= e[L] + u
    BY <1>2, <2>2, <2>3, <2>4, <2>6
  <2> HIDE DEF u, v, w
  <2>8. e[L] + u \in Nat /\ e[L] + u + v <= FullCharge
    BY <1>3, <2>3, <2>7
  <2>9. Spent(e) = e[L] + u
    BY <2>1 DEF Spent, u, t, q, L
  <2> QED
    BY <1>2, <1>3, <2>7, <2>8, <2>9 DEF v, c
<1> QED
  BY <1>1, <1>4, <1>5

(* A result for the call at k, which is charged with no more than a call of its *)
(* node would be.                                                               *)
LEMMA LedgerReturned ==
  ASSUME WalkInv, FullDepth <= B, UNCHANGED <<graph, budgets>>,
         NEW k \in 1..Len(stack), NEW result, Returned(k, result), NEW e, Ledger(e),
         Len(stack[k].results) < Len(Kids[stack[k].node]), expandedNodes' \in Nat,
         expandedNodes' <= e[k] + ChargeUpTo[stack[k].node][Len(stack[k].results)]
                             + Charge[Kids[stack[k].node][Len(stack[k].results) + 1]]
  PROVE  \E d : Ledger(d)'
<1> DEFINE t == stack[k].node
           q == Len(stack[k].results)
           d == [i \in 1..k |-> e[i]]
<1>1. Inv /\ WalkOK /\ Len(stack) \in Nat /\ k \in Nat
  BY StackFacts DEF WalkInv
<1>2. /\ Len(stack') = k /\ \A i \in 1..(k - 1) : stack'[i] = stack[i]
      /\ stack'[k].node = t /\ Len(stack'[k].results) = q + 1
  BY <1>1 DEF Returned
<1>3. Charge' = Charge /\ ChargeUpTo' = ChargeUpTo /\ FullCharge' = FullCharge
  BY Static, StaticCharges
<1>4. t \in FromRoot /\ q \in Nat
  BY <1>1, StackFacts DEF WalkOK
<1>5. /\ e \in [1..Len(stack) -> Nat]
      /\ \A i \in 1..Len(stack) : e[i] + Charge[stack[i].node] <= FullCharge
      /\ \A i \in 1..(Len(stack) - 1) :
           e[i + 1] <= e[i] + ChargeUpTo[stack[i].node][Len(stack[i].results)]
  BY DEF Ledger
<1>6. /\ d \in [1..k -> Nat] /\ \A i \in 1..k : d[i] = e[i] /\ i \in 1..Len(stack)
  <2>1. \A i \in 1..k : i \in 1..Len(stack)
    BY <1>1
  <2>2. \A i \in 1..k : e[i] \in Nat
    BY <1>5, <2>1
  <2> QED
    BY <2>1, <2>2
<1>7. ASSUME NEW i \in 1..k PROVE d[i] + Charge[stack'[i].node] <= FullCharge
  <2>1. stack'[i].node = stack[i].node
    BY <1>1, <1>2
  <2> QED
    BY <1>5, <1>6, <2>1
<1>8. ASSUME NEW i \in 1..(k - 1)
      PROVE  d[i + 1] <= d[i] + ChargeUpTo[stack'[i].node][Len(stack'[i].results)]
  <2>1. stack'[i] = stack[i] /\ i \in 1..(Len(stack) - 1) /\ i \in 1..k /\ i + 1 \in 1..k
    BY <1>1, <1>2
  <2>2. d[i + 1] = e[i + 1] /\ d[i] = e[i]
    BY <2>1
  <2> QED
    BY <1>5, <2>1, <2>2
<1>9. expandedNodes' <= d[k] + ChargeUpTo[stack'[k].node][Len(stack'[k].results)]
  <2>1. q < Len(Kids[t]) /\ expandedNodes' <= e[k] + ChargeUpTo[t][q] + Charge[Kids[t][q + 1]]
    OBVIOUS
  <2>2. d[k] = e[k] /\ e[k] \in Nat
    BY <1>1, <1>5, <1>6
  <2> HIDE DEF t, q, d
  <2>3. Len(Kids[t]) \in Nat
    BY <1>1, <1>4, ChargeFacts
  <2>4. q \in 0..(Len(Kids[t]) - 1) /\ q \in 0..Len(Kids[t]) /\ q + 1 \in 1..Len(Kids[t])
    BY <1>4, <2>1, <2>3
  <2>5. /\ ChargeUpTo[t][q + 1] = ChargeUpTo[t][q] + Charge[Kids[t][q + 1]]
        /\ ChargeUpTo[t][q] \in Nat /\ Kids[t][q + 1] \in FromRoot
    BY <1>1, <1>4, <2>4, ChargeFacts
  <2>6. Charge[Kids[t][q + 1]] \in Nat
    BY <1>1, <2>5, ChargeFacts
  <2> DEFINE a == ChargeUpTo[t][q]
             b == Charge[Kids[t][q + 1]]
             x == expandedNodes'
             y == e[k]
  <2>7. expandedNodes' <= e[k] + ChargeUpTo[t][q + 1]
    <3>1. a \in Nat /\ b \in Nat /\ x \in Nat /\ y \in Nat /\ x <= y + a + b
      BY <2>1, <2>2, <2>5, <2>6
    <3>2. ChargeUpTo[t][q + 1] = a + b
      BY <2>5
    <3> HIDE DEF a, b, x, y
    <3>3. x <= y + (a + b)
      BY <3>1
    <3> QED
      BY <3>2, <3>3 DEF x, y
  <2> QED
    BY <1>2, <2>2, <2>7
<1> HIDE DEF d
<1>10. /\ d \in [1..Len(stack') -> Nat]
       /\ \A i \in 1..Len(stack') : d[i] + Charge'[stack'[i].node] <= FullCharge'
       /\ \A i \in 1..(Len(stack') - 1) :
            d[i + 1] <= d[i] + ChargeUpTo'[stack'[i].node][Len(stack'[i].results)]
       /\ expandedNodes' <= d[Len(stack')]
                              + ChargeUpTo'[stack'[Len(stack')].node][Len(stack'[Len(stack')].results)]
  BY <1>2, <1>3, <1>6, <1>7, <1>8, <1>9
<1> QED
  BY <1>10 DEF Ledger

(* A call that completes has only itself left to charge. *)
LEMMA CompleteSpent ==
  ASSUME WalkInv, SpentOK, FullDepth <= B, NEW e, Ledger(e), Len(stack) \in Nat \ {0},
         Len(TopFrame.results) = Len(Kids[TopFrame.node])
  PROVE  /\ e[Len(stack)] \in Nat /\ Charge[TopFrame.node] \in Nat /\ Own(TopFrame.node) \in Nat
         /\ FullCharge \in Nat /\ expandedNodes \in Nat
         /\ expandedNodes + Own(TopFrame.node) <= e[Len(stack)] + Charge[TopFrame.node]
         /\ e[Len(stack)] + Charge[TopFrame.node] <= FullCharge
<1> DEFINE L == Len(stack)
           t == TopFrame.node
           u == ChargeUpTo[t][Len(Kids[t])]
<1>1. Inv /\ WalkOK /\ L \in 1..L
  BY DEF WalkInv
<1>2. t \in FromRoot
  BY <1>1 DEF WalkOK, TopFrame
<1>3. FullCharge \in Nat /\ expandedNodes \in Nat /\ Own(t) \in Nat
  BY <1>1, WalkFacts, ChargeFacts DEF SpentOK, Own
<1>4. e[L] \in Nat /\ e[L] + Charge[t] <= FullCharge /\ expandedNodes <= e[L] + u
  BY <1>1 DEF Ledger, TopFrame
<1>5. Charge[t] \in Nat /\ Len(Kids[t]) \in Nat /\ Charge[t] = Own(t) + u
  BY <1>1, <1>2, ChargeFacts
<1>6. u \in Nat
  <2>1. Len(Kids[t]) \in 0..Len(Kids[t])
    BY <1>5
  <2> QED
    BY <1>1, <1>2, <2>1, ChargeFacts
<1> HIDE DEF u, t, L
<1>7. expandedNodes + Own(t) <= e[L] + Charge[t]
  BY <1>3, <1>4, <1>5, <1>6
<1> QED
  BY <1>3, <1>4, <1>5, <1>7 DEF t, L

(* No call is left. *)
LEMMA LedgerEmpty ==
  ASSUME Len(stack') = 0
  PROVE  \E e : Ledger(e)'
<1> DEFINE e == [i \in {} |-> 0]
<1>1. /\ e \in [1..Len(stack') -> Nat]
      /\ \A i \in 1..Len(stack') : FALSE
      /\ \A i \in 1..(Len(stack') - 1) : FALSE
      /\ ~(Len(stack') > 0)
  OBVIOUS
<1> HIDE DEF e
<1> QED
  BY <1>1 DEF Ledger

(* A step that has no part in the resolution. *)
LEMMA ExpansionQuiet ==
  ASSUME WalkInv, ExpansionInv, Quiet, outcome' = outcome \/ outcome' # "loading",
         FullDepth <= B /\ outcome' = "expansion" => FullCharge > budgets.expandedNodes
  PROVE  ExpansionInv'
<1>1. UNCHANGED <<graph, budgets, stack, resolved, content, expandedNodes>>
  BY DEF Quiet
<1>2. /\ B' = B /\ FromRoot' = FromRoot /\ FullDepth' = FullDepth /\ FullCharge' = FullCharge
      /\ Charge' = Charge /\ ChargeUpTo' = ChargeUpTo
  BY <1>1, Static, StaticCharges
<1>3. ChargesOK => ChargesOK'
  BY <1>1, <1>2 DEF ChargesOK, Weight
<1>4. SpentOK => SpentOK'
  <2>1. \A e : Ledger(e) => Ledger(e)'
    BY <1>1, <1>2 DEF Ledger
  <2> QED
    BY <1>1, <2>1 DEF SpentOK, Loading
<1> QED
  BY <1>1, <1>2, <1>3, <1>4 DEF ExpansionInv

(* Every step charges no more than a resolution without cache would. *)
LEMMA ExpansionStep ==
  ASSUME WalkInv, DepthInv, ExpansionInv, [Next]_vars
  PROVE  ExpansionInv'
<1> DEFINE L == Len(stack)
           X == budgets.expandedNodes
<1>1. Inv /\ WalkOK /\ HeightsOK /\ L \in Nat /\ X \in Nat
  BY StackFacts, GraphFacts DEF WalkInv, DepthInv
<1>2. CASE \/ OpenDocument \/ FileFails \/ ReadDocument \/ StatAgain \/ Parse
           \/ RequestDocument \/ RefuseTarget \/ RefuseOverride \/ Grow \/ Ended \/ UNCHANGED vars
  <2>1. Quiet /\ (outcome' = outcome \/ outcome' \in OtherCodes)
    BY <1>2, QuietSteps
  <2>2. outcome' \in OtherCodes => outcome' # "loading" /\ outcome' # "expansion"
    BY DEF OtherCodes
  <2> QED
    BY <2>1, <2>2, ExpansionQuiet DEF ExpansionInv
<1>3. CASE CallTooDeep \/ CallActive
  <2>1. Quiet /\ outcome' \in {"depth", "cycle"}
    BY <1>3, FailFacts DEF CallTooDeep, CallActive
  <2> QED
    BY <2>1, ExpansionQuiet
<1>4. CASE CallCached
  <2> DEFINE c == Callee.node
             r == resolved[c]
  <2>1. /\ Calls /\ c \in DOMAIN resolved
        /\ \/ Quiet /\ outcome' = "depth"
           \/ Quiet /\ outcome' = "expansion" /\ r.nodes > X - expandedNodes
           \/ CachedReturned
    BY <1>1, <1>4, CallCachedFacts
  <2>2. ASSUME FullDepth <= B, NEW e, Ledger(e)
        PROVE  /\ r.nodes \in Nat /\ r.nodes <= Charge[c] /\ Charge[c] \in Nat /\ FullCharge \in Nat
               /\ expandedNodes \in Nat /\ Spent(e) \in Nat /\ expandedNodes <= Spent(e)
               /\ Spent(e) + Charge[c] <= FullCharge
    <3>1. ChargesOK /\ SpentOK
      BY <2>2 DEF ExpansionInv
    <3>2. r.nodes \in Nat /\ r.nodes <= Charge[c] /\ expandedNodes \in Nat
      BY <2>1, <3>1 DEF ChargesOK, SpentOK
    <3>3. /\ expandedNodes <= Spent(e) /\ Spent(e) \in Nat
          /\ Charge[c] \in Nat /\ FullCharge \in Nat /\ Spent(e) + Charge[c] <= FullCharge
      BY <2>1, <2>2, <3>1, CalleeCharge
    <3> QED
      BY <3>2, <3>3
  <2> HIDE DEF c, r
  <2>3. CASE Quiet /\ outcome' = "depth"
    BY <2>3, ExpansionQuiet
  <2>4. CASE Quiet /\ outcome' = "expansion" /\ r.nodes > X - expandedNodes
    <3>1. ASSUME FullDepth <= B PROVE FullCharge > X
      <4>1. PICK e : Ledger(e)
        BY <3>1 DEF ExpansionInv, SpentOK
      <4> DEFINE a == r.nodes
                 v == Charge[c]
                 w == Spent(e)
      <4>2. /\ a \in Nat /\ a <= v /\ v \in Nat /\ FullCharge \in Nat
            /\ expandedNodes \in Nat /\ w \in Nat /\ expandedNodes <= w /\ w + v <= FullCharge
            /\ a > X - expandedNodes
        BY <2>2, <2>4, <3>1, <4>1
      <4> HIDE DEF a, v, w, X
      <4> QED
        BY <1>1, <4>2
    <3> QED
      BY <2>4, <3>1, ExpansionQuiet
  <2>5. CASE CachedReturned
    <3>1. /\ Returned(L, r) /\ expandedNodes' = expandedNodes + r.nodes
          /\ UNCHANGED <<graph, budgets, resolved, content>>
      BY <2>5 DEF CachedReturned, c, r
    <3>2. /\ B' = B /\ FromRoot' = FromRoot /\ FullDepth' = FullDepth /\ FullCharge' = FullCharge
          /\ Charge' = Charge
      BY <3>1, Static, StaticCharges
    <3>3. outcome' = outcome \/ outcome' = "loaded"
      BY <1>1, <3>1 DEF Returned
    <3> SUFFICES ASSUME FullDepth <= B PROVE ChargesOK' /\ SpentOK'
      BY <3>1, <3>2, <3>3 DEF ExpansionInv
    <3>4. ChargesOK /\ SpentOK
      BY DEF ExpansionInv
    <3>5. ChargesOK'
      BY <3>1, <3>2, <3>4 DEF ChargesOK, Weight
    <3>6. PICK e : Ledger(e)
      BY <3>4 DEF SpentOK
    <3>7. expandedNodes' \in Nat /\ expandedNodes' <= Spent(e) + Charge[c]
      <4> DEFINE a == r.nodes
                 v == Charge[c]
                 w == Spent(e)
      <4>1. /\ a \in Nat /\ a <= v /\ v \in Nat
            /\ expandedNodes \in Nat /\ w \in Nat /\ expandedNodes <= w
            /\ expandedNodes' = expandedNodes + a
        BY <2>2, <3>1, <3>6
      <4> HIDE DEF a, v, w
      <4>2. expandedNodes' \in Nat /\ expandedNodes' <= w + v
        BY <4>1
      <4> QED
        BY <4>2 DEF w, v
    <3>8. CASE L = 0
      <4>1. Len(stack') = 0 /\ outcome' = "loaded"
        BY <3>1, <3>8 DEF Returned
      <4> QED
        BY <3>5, <3>7, <4>1, LedgerEmpty DEF SpentOK, Loading
    <3>9. CASE L > 0
      <4>1. /\ L \in 1..L /\ Len(stack') = L
            /\ Len(stack[L].results) < Len(Kids[stack[L].node])
            /\ c = Kids[stack[L].node][Len(stack[L].results) + 1]
        BY <1>1, <2>1, <3>1, <3>9, CalleeFacts DEF TopFrame, Returned, c
      <4>2. Spent(e) = e[L] + ChargeUpTo[stack[L].node][Len(stack[L].results)]
        BY <3>9, <4>1 DEF Spent
      <4>3. expandedNodes' <= e[L] + ChargeUpTo[stack[L].node][Len(stack[L].results)]
                                + Charge[Kids[stack[L].node][Len(stack[L].results) + 1]]
        BY <3>7, <4>1, <4>2
      <4>4. \E d : Ledger(d)'
        BY <3>1, <3>6, <3>7, <4>1, <4>3, LedgerReturned
      <4> QED
        BY <3>5, <3>7, <3>9, <4>1, <4>4 DEF SpentOK
    <3> QED
      BY <1>1, <3>8, <3>9
  <2> QED
    BY <2>1, <2>3, <2>4, <2>5
<1>5. CASE CallFresh
  <2> DEFINE c == Callee.node
  <2>1. Calls /\ Pushed
    BY <1>1, <1>5, CallFreshFacts
  <2>2. /\ Len(stack') = L + 1 /\ \A i \in 1..L : stack'[i] = stack[i]
        /\ stack'[L + 1].node = c /\ Len(stack'[L + 1].results) = 0
        /\ UNCHANGED <<graph, budgets, resolved, content, expandedNodes, outcome>>
    BY <2>1 DEF Pushed
  <2>3. /\ B' = B /\ FromRoot' = FromRoot /\ FullDepth' = FullDepth /\ FullCharge' = FullCharge
        /\ Charge' = Charge /\ ChargeUpTo' = ChargeUpTo
    BY <2>2, Static, StaticCharges
  <2> SUFFICES ASSUME FullDepth <= B PROVE ChargesOK' /\ SpentOK'
    BY <2>2, <2>3 DEF ExpansionInv
  <2>4. ChargesOK /\ SpentOK
    BY DEF ExpansionInv
  <2>5. ChargesOK'
    BY <2>2, <2>3, <2>4 DEF ChargesOK, Weight
  <2>6. PICK e : Ledger(e)
    BY <2>4 DEF SpentOK
  <2>7. /\ expandedNodes <= Spent(e) /\ Spent(e) \in Nat /\ expandedNodes \in Nat
        /\ Spent(e) + Charge[c] <= FullCharge
    BY <2>1, <2>4, <2>6, CalleeCharge DEF SpentOK
  <2>8. ChargeUpTo[c][0] = 0
    BY <1>1, <2>1, CalleeFacts, ChargeFacts
  <2>9. /\ e \in [1..L -> Nat]
        /\ \A i \in 1..L : e[i] + Charge[stack[i].node] <= FullCharge
        /\ \A i \in 1..(L - 1) : e[i + 1] <= e[i] + ChargeUpTo[stack[i].node][Len(stack[i].results)]
    BY <2>6 DEF Ledger
  <2> HIDE DEF c
  <2> DEFINE s == Spent(e)
             d == [i \in 1..(L + 1) |-> IF i = L + 1 THEN s ELSE e[i]]
  <2>10. L > 0 => s = e[L] + ChargeUpTo[stack[L].node][Len(stack[L].results)]
    BY <1>1 DEF Spent
  <2> HIDE DEF s
  <2>11. s \in Nat /\ s + Charge[c] <= FullCharge /\ expandedNodes <= s
    BY <2>7 DEF s
  <2>12. /\ \A i \in 1..L : d[i] = e[i] /\ i \in 1..(L + 1)
         /\ d[L + 1] = s
    BY <1>1
  <2>13. d \in [1..(L + 1) -> Nat]
    <3>1. \A i \in 1..(L + 1) : i # L + 1 => e[i] \in Nat
      BY <1>1, <2>9
    <3> QED
      BY <2>11, <3>1
  <2> HIDE DEF d
  <2>14. ASSUME NEW i \in 1..(L + 1) PROVE d[i] + Charge[stack'[i].node] <= FullCharge
    <3>1. CASE i = L + 1
      BY <2>2, <2>11, <2>12, <3>1
    <3>2. CASE i \in 1..L
      BY <2>2, <2>9, <2>12, <3>2
    <3> QED
      BY <1>1, <2>14, <3>1, <3>2
  <2>15. ASSUME NEW i \in 1..L
         PROVE  d[i + 1] <= d[i] + ChargeUpTo[stack'[i].node][Len(stack'[i].results)]
    <3>1. stack'[i] = stack[i] /\ d[i] = e[i]
      BY <2>2, <2>12, <2>15
    <3>2. CASE i = L
      <4>1. d[i + 1] = e[i] + ChargeUpTo[stack[i].node][Len(stack[i].results)]
        BY <1>1, <2>10, <2>12, <2>15, <3>2
      <4>2. d[i + 1] \in Nat
        BY <2>11, <2>12, <3>2
      <4> QED
        BY <3>1, <4>1, <4>2
    <3>3. CASE i # L
      <4>1. i \in 1..(L - 1) /\ i + 1 \in 1..L
        BY <1>1, <2>15, <3>3
      <4> QED
        BY <2>9, <2>12, <3>1, <4>1
    <3> QED
      BY <3>2, <3>3
  <2>16. expandedNodes' <= d[L + 1] + ChargeUpTo[stack'[L + 1].node][Len(stack'[L + 1].results)]
    BY <2>2, <2>7, <2>8, <2>11, <2>12
  <2>17. /\ Len(stack') = L + 1 /\ Len(stack') - 1 = L /\ Len(stack') # 0
    BY <1>1, <2>2
  <2>18. /\ d \in [1..Len(stack') -> Nat]
         /\ \A i \in 1..Len(stack') : d[i] + Charge'[stack'[i].node] <= FullCharge'
         /\ \A i \in 1..(Len(stack') - 1) :
              d[i + 1] <= d[i] + ChargeUpTo'[stack'[i].node][Len(stack'[i].results)]
         /\ expandedNodes' <= d[Len(stack')]
                                + ChargeUpTo'[stack'[Len(stack')].node][Len(stack'[Len(stack')].results)]
    BY <2>3, <2>13, <2>14, <2>15, <2>16, <2>17
  <2>19. PICK x : x = d
    OBVIOUS
  <2>20. Ledger(x)'
    BY <2>18, <2>19 DEF Ledger
  <2> QED
    BY <2>2, <2>5, <2>7, <2>17, <2>20 DEF SpentOK
<1>6. CASE CompleteScalar \/ CompleteHop \/ CompleteMapping \/ CompleteOverride
  <2> DEFINE t == TopFrame.node
  <2>1. L \in Nat \ {0} /\ L \in 1..L /\ Len(TopFrame.results) = Len(Kids[t])
    BY <1>1, <1>6, CompletionFacts
  <2>2. CASE FullDepth <= B
    <3>1. ChargesOK /\ SpentOK
      BY <2>2 DEF ExpansionInv
    <3>2. PICK result, below, charge : ChargedEnd(t, result, below, charge)
      BY <1>1, <1>6, <2>2, <3>1, CompletionCharge
    <3>3. PICK e : Ledger(e)
      BY <3>1 DEF SpentOK
    <3>4. /\ e[L] \in Nat /\ Charge[t] \in Nat /\ Own(t) \in Nat
          /\ FullCharge \in Nat /\ expandedNodes \in Nat
          /\ expandedNodes + Own(t) <= e[L] + Charge[t]
          /\ e[L] + Charge[t] <= FullCharge
      BY <2>1, <2>2, <3>1, <3>3, CompleteSpent
    <3>5. CASE /\ Quiet /\ outcome' = "expansion"
               /\ \/ 1 > budgets.expandedNodes - expandedNodes /\ Own(t) = 1
                  \/ Charge[t] > budgets.expandedNodes
      <4> HIDE DEF t, L
      <4>1. FullCharge > X
        BY <1>1, <3>4, <3>5
      <4> QED
        BY <3>5, <4>1, ExpansionQuiet
    <3>6. CASE /\ ~(Quiet /\ outcome' = "expansion") /\ Completion(result, below, charge)
               /\ GoodHeight(t, result, below) /\ GoodCharge(t, result, below)
               /\ charge \in Nat /\ charge <= Own(t)
      <4>1. CASE Quiet
        <5>1. outcome' \in {"assembled", "depth"}
          <6>1. ~Kept(result, below, charge)
            BY <2>1, <4>1 DEF Quiet, Kept, Returned
          <6> QED
            BY <3>6, <4>1, <6>1 DEF Completion
        <5> QED
          BY <4>1, <5>1, ExpansionQuiet
      <4>2. CASE ~Quiet
        <5> DEFINE k == L - 1
        <5>1. Kept(result, below, charge)
          BY <3>6, <4>2 DEF Completion
        <5>2. /\ Returned(k, result) /\ UNCHANGED <<graph, budgets>>
              /\ expandedNodes' = expandedNodes + charge
          BY <5>1 DEF Kept
        <5>3. ChargesOK'
          BY <1>1, <2>1, <3>1, <3>6, <5>1, ChargesKept
        <5>4. /\ expandedNodes' \in Nat /\ expandedNodes' <= e[L] + Charge[t]
          BY <3>4, <3>6, <5>2
        <5>5. outcome' = outcome \/ outcome' = "loaded"
          BY <2>1, <5>2 DEF Returned
        <5>6. Len(stack') = k
          BY <5>2 DEF Returned
        <5>7. SpentOK'
          <6>1. CASE k = 0
            <7>1. Len(stack') = 0 /\ outcome' = "loaded"
              BY <5>2, <6>1 DEF Returned
            <7> QED
              BY <5>4, <7>1, LedgerEmpty DEF SpentOK, Loading
          <6>2. CASE k > 0
            <7>1. k \in 1..L /\ k \in 1..(L - 1) /\ k + 1 = L
              BY <2>1, <6>2
            <7> DEFINE m == stack[k].node
                       q == Len(stack[k].results)
            <7>2. q < Len(Kids[m]) /\ t = Kids[m][q + 1] /\ e[L] <= e[k] + ChargeUpTo[m][q]
              BY <1>1, <3>3, <7>1 DEF WalkOK, Ledger, TopFrame
            <7>3. m \in FromRoot /\ q \in Nat
              BY <1>1, <7>1, StackFacts DEF WalkOK
            <7>4. Len(Kids[m]) \in Nat
              BY <1>1, <2>2, <7>3, ChargeFacts
            <7>5. q \in 0..Len(Kids[m])
              BY <7>2, <7>3, <7>4
            <7>6. ChargeUpTo[m][q] \in Nat /\ e[k] \in Nat
              BY <1>1, <2>2, <3>3, <7>1, <7>3, <7>5, ChargeFacts DEF Ledger
            <7> DEFINE u == ChargeUpTo[m][q]
                       v == Charge[t]
                       w == e[L]
            <7>7. /\ u \in Nat /\ v \in Nat /\ w \in Nat /\ w <= e[k] + u
                  /\ expandedNodes' <= w + v
              BY <3>4, <5>4, <7>2, <7>6
            <7> HIDE DEF u, v, w
            <7>8. expandedNodes' <= e[k] + u + v
              BY <5>4, <7>6, <7>7
            <7>9. expandedNodes' <= e[k] + ChargeUpTo[m][q] + Charge[Kids[m][q + 1]]
              BY <7>2, <7>8 DEF u, v
            <7>10. \E d : Ledger(d)'
              BY <2>2, <3>3, <5>2, <5>4, <7>1, <7>2, <7>9, LedgerReturned
            <7>11. Len(stack') # 0
              BY <5>6, <6>2
            <7> QED
              BY <5>4, <7>10, <7>11 DEF SpentOK
          <6>3. k = 0 \/ k > 0
            <7>1. L \in Nat /\ L # 0
              BY <2>1
            <7> HIDE DEF L
            <7> QED
              BY <7>1
          <6> QED
            BY <6>1, <6>2, <6>3
        <5>8. FullCharge' = FullCharge /\ UNCHANGED budgets
          BY <5>2, Static
        <5> QED
          BY <2>2, <5>3, <5>5, <5>7, <5>8 DEF ExpansionInv
      <4> QED
        BY <4>1, <4>2
    <3> QED
      BY <3>2, <3>5, <3>6 DEF ChargedEnd
  <2>3. CASE ~(FullDepth <= B)
    <3>1. PICK result, below, charge : Completion(result, below, charge)
      BY <1>1, <1>6, CompletionFacts
    <3>2. UNCHANGED <<graph, budgets>>
      BY <3>1 DEF Completion, Quiet, Kept
    <3>3. FullDepth' = FullDepth /\ B' = B
      BY <3>2, Static
    <3> QED
      BY <2>3, <3>3 DEF ExpansionInv
  <2> QED
    BY <2>2, <2>3
<1> QED
  BY <1>2, <1>3, <1>4, <1>5, <1>6 DEF Next

(* Every state that the loading reaches satisfies ExpansionInv. *)
THEOREM ExpansionInvariance == Spec => []ExpansionInv
<1>1. Init => ExpansionInv
  <2> SUFFICES ASSUME Init PROVE ChargesOK /\ SpentOK /\ outcome # "expansion"
    BY DEF ExpansionInv
  <2>1. Len(stack) = 0 /\ DOMAIN resolved = {} /\ outcome = "loading" /\ expandedNodes = 0
    BY EmptySeq DEF Init
  <2> DEFINE e == [i \in {} |-> 0]
  <2>2. /\ e \in [1..Len(stack) -> Nat]
        /\ \A i \in 1..Len(stack) : FALSE
        /\ \A i \in 1..(Len(stack) - 1) : FALSE
        /\ ~(Len(stack) > 0)
    BY <2>1
  <2> HIDE DEF e
  <2>3. Ledger(e)
    BY <2>2 DEF Ledger
  <2> QED
    BY <2>1, <2>3 DEF ChargesOK, SpentOK
<1>2. WalkInv /\ DepthInv /\ ExpansionInv /\ [Next]_vars => ExpansionInv'
  BY ExpansionStep
<1> QED
  BY <1>1, <1>2, DepthInvariance, PTL DEF Spec

(* resolve and container refuse a policy for its expanded nodes only if a      *)
(* resolution without cache would be charged with as many, or be too deep: no   *)
(* result is charged with more nodes than a call of its node would be, and      *)
(* nothing is charged twice for the calls in progress.                          *)
THEOREM ExpansionStaysJustified == Spec => []ExpansionIsJustified
<1>1. WalkInv /\ ExpansionInv => ExpansionIsJustified
  <2> SUFFICES ASSUME WalkInv, ExpansionInv, outcome = "expansion"
               PROVE  FullCharge > budgets.expandedNodes \/ FullDepth > B
    BY DEF ExpansionIsJustified, B
  <2>1. Inv /\ B \in Nat
    BY GraphFacts DEF WalkInv
  <2>2. FullDepth \in Nat
    <3>1. Root[Main] \in Nodes /\ B + 1 \in 0..(B + 1)
      BY <2>1, GraphFacts
    <3> QED
      BY <2>1, <3>1, DepthsDef DEF FullDepth, B
  <2>3. CASE FullDepth <= B
    BY <2>3 DEF ExpansionInv
  <2> QED
    BY <2>1, <2>2, <2>3
<1> QED
  BY <1>1, DepthInvariance, ExpansionInvariance, PTL

(* However resolve ends, a resolution without cache agrees with it: no cycle and *)
(* no dangling target is accepted behind a cached result, and a refusal for a     *)
(* cycle, for depth or for expansion is never the work of the cache.              *)
THEOREM OutcomesStayJustified == Spec => []OutcomeIsJustified
<1>1. LoadedIsGrounded /\ CycleIsJustified /\ DepthIsJustified /\ ExpansionIsJustified
        => OutcomeIsJustified
  BY DEF OutcomeIsJustified
<1> QED
  BY <1>1, LoadedStaysGrounded, CyclesStayJustified, DepthStaysJustified,
     ExpansionStaysJustified, PTL
=============================================================================
