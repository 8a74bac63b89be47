--------------------------- MODULE PolicyAssembly ---------------------------
(***************************************************************************)
(* The loading of a policy from its files (internal/config/load.go): the   *)
(* reading of each document under the byte budgets, while files may grow,  *)
(* and the resolution of aliases, $ref and $override into one tree, by a   *)
(* recursion with a cache, an active set and budgets for depth, expanded   *)
(* nodes and assembled bytes.  The recursion is an explicit stack, a step  *)
(* for each call and each return.                                          *)
(*                                                                         *)
(* A source node is a scalar, a mapping, an alias, a reference without or  *)
(* with an override, or the absent target of one.  Its content is, in that *)
(* order: nothing; key, value, key, value...; the target; the target; the  *)
(* target and, under $override, key, value... if it is not empty.          *)
(* Sequences are mappings without keys and add nothing.  An assembled node *)
(* is named by the source node that created it.  Documents are well-       *)
(* formed: what scan refuses of tags, keys and reference syntax is left    *)
(* out.                                                                    *)
(***************************************************************************)
EXTENDS Integers, Sequences, FiniteSets, SequencesExt, FiniteSetsExt

CONSTANTS
  Main,        \* the document named on the command line
  Root,        \* document -> the node at its root
  Graphs,      \* the sources: node -> [kind, doc, content, key, size]
  AllBudgets,  \* policyBudgets
  Sizes,       \* document -> bytes of its file when the gateway starts
  MaxGrowth    \* bound: how many bytes the files gain while they are read

ASSUME MaxGrowthAssumption == MaxGrowth \in Nat
ASSUME SizesAssumption == Main \in DOMAIN Root /\ Sizes \subseteq [DOMAIN Root -> Nat]
ASSUME BudgetsAssumption ==
  \A b \in AllBudgets : {b.fileBytes, b.readBytes, b.depth, b.expandedNodes} \subseteq Nat
\* An alias and a reference have one target.  Keys and values of an override
\* come in pairs, behind its target.
ASSUME GraphsAssumption ==
  \A g \in Graphs :
    /\ IsFiniteSet(DOMAIN g) /\ Root[Main] \in DOMAIN g
    /\ \A n \in DOMAIN g :
         /\ g[n].doc \in DOMAIN Root /\ g[n].content \in Seq(DOMAIN g)
         /\ g[n].kind \in {"alias", "ref"} => Len(g[n].content) = 1
         /\ g[n].kind = "override" => Len(g[n].content) % 2 = 1

VARIABLES
  graph, budgets, inline,  \* what is loaded, and whether from a file: never changed
  size,           \* document -> bytes of its file now
  growth,         \* bytes the files may still gain
  docs,           \* document -> [bytes, whole]: what was parsed, and the file's size then
  fetch,          \* the call of document in progress
  stack,          \* the calls of resolve in progress: node, depth, results so far
  resolved,       \* node -> its result, for every call that has returned
  content,        \* assembled node -> its children
  expandedNodes,  \* charged so far
  outcome         \* "loading", "loaded" or the code of the error

input == <<graph, budgets, inline>>
files == <<size, growth>>
resolution == <<stack, resolved, content, expandedNodes>>
vars == <<input, files, docs, fetch, resolution, outcome>>

None == [none |-> TRUE]
Loading == outcome = "loading"
Fail(code) == outcome' = code /\ UNCHANGED <<input, files, docs, fetch, resolution>>

\* Checks made one after the other, each a condition and its error: the ones
\* that apply, of which the first is returned.
Errors(checks) == {i \in DOMAIN checks : checks[i][1]}
FailFirst(checks) == Fail(checks[Min(Errors(checks))][2])

Extend(f, x, y) == [z \in DOMAIN f \cup {x} |-> IF z = x THEN y ELSE f[z]]

-----------------------------------------------------------------------------
(* Source graphs. *)

Kind(n) == graph[n].kind
Content(n) == ToSet(graph[n].content)
Overrides(n) == Kind(n) = "override"
Refers(n) == Kind(n) = "ref" \/ Overrides(n)

\* The nodes resolve is called with below n, in the order of the calls: the
\* base of an override first, then each value before its key.
Children(n) ==
  LET c == graph[n].content
  IN  IF ~Refers(n) THEN c
      ELSE [i \in DOMAIN c |-> IF i = 1 THEN c[1] ELSE IF i % 2 = 0 THEN c[i + 1] ELSE c[i - 1]]

-----------------------------------------------------------------------------
(* Documents. *)

ReadBytes == SumFunctionOnSet([d \in DOMAIN docs |-> docs[d].bytes], DOMAIN docs)
Remaining == budgets.readBytes - ReadBytes

\* $ref and $override and the values below them are source nodes too.
SourceNodes(ds) ==
  MapThenSumSet(LAMBDA n : 1 + (IF Refers(n) THEN 2 ELSE 0) + (IF Overrides(n) THEN 2 ELSE 0),
                {n \in DOMAIN graph : graph[n].doc \in ds /\ Kind(n) # "missing"})

\* scan and checkAliases: nesting and alias hops, without references.  A node
\* below $override is two levels below its reference.  An alias that leads
\* back to itself is refused too; here it is too deep.
Below(n) == IF Refers(n) THEN Content(n) \ {graph[n].content[1]} ELSE Content(n)
TooDeepSource(d) ==
  LET levels[k \in 0..(budgets.depth + 1), n \in DOMAIN graph] ==
        IF k = 0 THEN 0
        ELSE (IF Refers(n) THEN 2 ELSE 1) + Max({0} \cup {levels[k - 1, m] : m \in Below(n)})
  IN  levels[budgets.depth + 1, Root[d]] > budgets.depth

Fetching(step) == Loading /\ fetch # None /\ fetch.step = step

\* Up to the first Stat.
OpenDocument ==
  /\ Fetching("open")
  /\ LET checks == <<<<Cardinality(DOMAIN docs) >= budgets.documents, "document limit">>,
                     <<Remaining <= 0, "read limit">>,
                     <<size[fetch.doc] > budgets.fileBytes, "file limit">>,
                     <<size[fetch.doc] > Remaining, "read limit">>>>
     IN  IF Errors(checks) # {} THEN FailFirst(checks)
         ELSE
            /\ fetch' = [fetch EXCEPT !.step = "read", !.limit = Min({budgets.fileBytes, Remaining})]
            /\ UNCHANGED <<input, files, docs, resolution, outcome>>

\* The file cannot be opened, is not regular or has another mode; or it cannot
\* be read, or asked for its size again.
FileFails == (Fetching("open") \/ Fetching("read") \/ Fetching("stat")) /\ Fail("file")

ReadDocument ==
  /\ Fetching("read")
  /\ LET data == Min({size[fetch.doc], fetch.limit})
     IN  fetch' = [fetch EXCEPT !.data = data, !.whole = size[fetch.doc],
                                !.step = IF data = fetch.limit THEN "stat" ELSE "parse"]
  /\ UNCHANGED <<input, files, docs, resolution, outcome>>

\* Variant: a full buffer is taken for the whole file.
StatOmitted ==
  /\ Fetching("stat")
  /\ fetch' = [fetch EXCEPT !.step = "parse"]
  /\ UNCHANGED <<input, files, docs, resolution, outcome>>

\* The second Stat, when the read has used up its limit.
StatAgain ==
  /\ Fetching("stat")
  /\ IF size[fetch.doc] > fetch.limit
       THEN Fail(IF Remaining < budgets.fileBytes THEN "read limit" ELSE "file limit")
       ELSE /\ fetch' = [fetch EXCEPT !.step = "parse"]
            /\ UNCHANGED <<input, files, docs, resolution, outcome>>

Parse ==
  /\ Fetching("parse")
  /\ LET checks == <<<<Cardinality(DOMAIN docs) >= budgets.documents, "document limit">>,
                     <<fetch.data > budgets.fileBytes, "file limit">>,
                     <<fetch.data > Remaining, "read limit">>,
                     <<SourceNodes(DOMAIN docs \cup {fetch.doc}) > budgets.sourceNodes
                         \/ TooDeepSource(fetch.doc), "source">>>>
     IN  IF Errors(checks) # {} THEN FailFirst(checks)
         ELSE
            /\ docs' = Extend(docs, fetch.doc, [bytes |-> fetch.data, whole |-> fetch.whole])
            /\ fetch' = None
            /\ UNCHANGED <<input, files, resolution, outcome>>

-----------------------------------------------------------------------------
(* resolve. *)

Top == Last(stack)
Active == {stack[i].node : i \in DOMAIN stack}

\* resolve of a reference, before it has the document of its target.
AwaitsDocument ==
  /\ stack # <<>> /\ Refers(Top.node) /\ Top.results = <<>>
  /\ graph[Children(Top.node)[1]].doc \notin DOMAIN docs

\* ... when its target is not there,
MissesTarget ==
  /\ stack # <<>> /\ Refers(Top.node) /\ Top.results = <<>> /\ ~AwaitsDocument
  /\ Kind(Children(Top.node)[1]) = "missing"

\* ... and when the base of its override is no mapping.
OverridesScalar ==
  /\ stack # <<>> /\ Overrides(Top.node) /\ Len(Top.results) = 1
  /\ Kind(Top.results[1].node) = "scalar"

Running == Loading /\ fetch = None
Calls ==
  /\ Running /\ ~AwaitsDocument /\ ~MissesTarget /\ ~OverridesScalar
  /\ stack # <<>> => Len(Top.results) < Len(Children(Top.node))
Callee ==
  IF stack = <<>> THEN [node |-> Root[Main], depth |-> 1]
  ELSE [node |-> Children(Top.node)[Len(Top.results) + 1], depth |-> Top.depth + 1]

\* A result goes to the caller.
Return(frames, result) ==
  IF frames = <<>> THEN outcome' = "loaded" /\ stack' = <<>>
  ELSE /\ stack' = [frames EXCEPT ![Len(frames)].results = Append(@, result)]
       /\ UNCHANGED outcome

RequestDocument ==
  /\ Running /\ AwaitsDocument
  /\ IF inline THEN Fail("external")
     ELSE /\ fetch' = [doc |-> graph[Children(Top.node)[1]].doc, step |-> "open",
                       limit |-> 0, data |-> 0, whole |-> 0]
          /\ UNCHANGED <<input, files, docs, resolution, outcome>>

\* The pointer leads to no node of the document.
RefuseTarget ==
  /\ Running /\ MissesTarget
  /\ Fail("target")

RefuseOverride == Running /\ OverridesScalar /\ Fail("override target")

Exceeds(height, depth) == height + depth - 1 > budgets.depth

CallTooDeep == Calls /\ Callee.depth > budgets.depth /\ Fail("depth")

CallActive ==
  /\ Calls /\ Callee.depth <= budgets.depth
  /\ Callee.node \in Active
  /\ Fail("cycle")

\* Variant: a cached result is taken at the depth below the call.
CallCachedBelow ==
  /\ Calls /\ Callee.depth <= budgets.depth
  /\ Callee.node \in DOMAIN resolved \ Active
  /\ LET cached == resolved[Callee.node]
         checks == <<<<Exceeds(cached.height, Callee.depth + 1), "depth">>,
                     <<cached.nodes > budgets.expandedNodes - expandedNodes, "expansion">>>>
     IN  IF Errors(checks) # {} THEN FailFirst(checks)
         ELSE /\ expandedNodes' = expandedNodes + cached.nodes
              /\ Return(stack, cached)
              /\ UNCHANGED <<input, files, docs, fetch, resolved, content>>

CallCached ==
  /\ Calls /\ Callee.depth <= budgets.depth
  /\ Callee.node \in DOMAIN resolved \ Active
  /\ LET cached == resolved[Callee.node]
         checks == <<<<Exceeds(cached.height, Callee.depth), "depth">>,
                     <<cached.nodes > budgets.expandedNodes - expandedNodes, "expansion">>>>
     IN  IF Errors(checks) # {} THEN FailFirst(checks)
         ELSE /\ expandedNodes' = expandedNodes + cached.nodes
              /\ Return(stack, cached)
              /\ UNCHANGED <<input, files, docs, fetch, resolved, content>>

CallFresh ==
  /\ Calls /\ Callee.depth <= budgets.depth
  /\ Callee.node \notin DOMAIN resolved \cup Active
  /\ stack' = Append(stack, [node |-> Callee.node, depth |-> Callee.depth, results |-> <<>>])
  /\ UNCHANGED <<input, files, docs, fetch, resolved, content, expandedNodes, outcome>>

Completes(n) ==
  /\ Running /\ stack # <<>> /\ Top.node = n
  /\ Len(Top.results) = Len(Children(n)) /\ ~OverridesScalar

\* The end of resolve: the depth is checked, the result kept and returned.
Keep(result, children, charge) ==
  IF Exceeds(result.height, Top.depth) THEN Fail("depth")
  ELSE /\ resolved' = Extend(resolved, Top.node, result)
       /\ content' = children
       /\ expandedNodes' = expandedNodes + charge
       /\ Return(Front(stack), result)
       /\ UNCHANGED <<input, files, docs, fetch>>

CompleteScalar ==
  /\ \E n \in DOMAIN graph : Completes(n) /\ Kind(n) = "scalar"
  /\ LET n == Top.node
         checks == <<<<1 > budgets.expandedNodes - expandedNodes, "expansion">>,
                     <<graph[n].size > budgets.assembledBytes, "assembled">>>>
     IN  IF Errors(checks) # {} THEN FailFirst(checks)
         ELSE Keep([node |-> n, nodes |-> 1, size |-> graph[n].size, height |-> 1],
                   Extend(content, n, <<>>), 1)

\* An alias, and a reference without override: one level more.
CompleteHop ==
  /\ \E n \in DOMAIN graph : Completes(n) /\ Kind(n) \in {"alias", "ref"}
  /\ Keep([Top.results[1] EXCEPT !.height = @ + 1], content, 0)

Height(children) == 1 + Max({0} \cup {children[i].height : i \in DOMAIN children})

\* container: the result of a mapping created at n; it adds hops to its height.
Container(n, children, hops, before) ==
  LET nodes(i) == 1 + SumFunctionOnSet([j \in 1..i |-> children[j].nodes], 1..i)
      bytes(i) == 2 + Max({0, Len(children) - 1})
                    + SumFunctionOnSet([j \in 1..i |-> children[j].size], 1..i)
      result == [node |-> n, nodes |-> nodes(Len(children)), size |-> bytes(Len(children)),
                 height |-> Height(children) + hops]
      tooMany(i) == nodes(i) > budgets.expandedNodes
      tooLong(i) == bytes(i) > budgets.assembledBytes
      checks == <<<<1 > budgets.expandedNodes - expandedNodes, "expansion">>,
                  <<\E i \in DOMAIN children :
                      tooMany(i) /\ \A j \in 1..(i - 1) : ~tooLong(j), "expansion">>,
                  <<tooLong(Len(children)), "assembled">>>>
  IN  IF Errors(checks) # {} THEN FailFirst(checks)
      ELSE Keep(result, Extend(before, n, [i \in DOMAIN children |-> children[i].node]), 1)

CompleteMapping ==
  /\ \E n \in DOMAIN graph : Completes(n) /\ Kind(n) = "mapping"
  /\ Container(Top.node, Top.results, 0, content)

\* The results of the override: value, key, value, key... behind the base.
OverridePairs(results) ==
  [i \in 1..((Len(results) - 1) \div 2) |-> [key |-> results[2 * i + 1], value |-> results[2 * i]]]
KeyOf(result) == graph[result.node].key
Flatten(pairs) ==
  [i \in 1..(2 * Len(pairs)) |-> IF i % 2 = 1 THEN pairs[(i + 1) \div 2].key ELSE pairs[i \div 2].value]

\* The items of a sequence at the positions of a set, in their order.
ItemsAt(s, positions) ==
  [k \in 1..Cardinality(positions) |->
     s[CHOOSE i \in positions : Cardinality({j \in positions : j <= i}) = k]]

\* Fields of the base in their order, replaced or kept, then the new ones.  A
\* field of the override replaces one of the base.
OverriddenPairs(base, over) ==
  LET old == [i \in 1..(Len(base) \div 2) |->
                [key |-> resolved[base[2 * i - 1]], value |-> resolved[base[2 * i]]]]
      first(i) == \A j \in 1..(i - 1) : KeyOf(old[j].key) # KeyOf(old[i].key)
      replacing(i) == {j \in DOMAIN over : KeyOf(over[j].key) = KeyOf(old[i].key)}
      new == {j \in DOMAIN over : \A i \in DOMAIN old : KeyOf(old[i].key) # KeyOf(over[j].key)}
  IN  [i \in DOMAIN old |->
         IF first(i) /\ replacing(i) # {} THEN over[CHOOSE j \in replacing(i) : TRUE] ELSE old[i]]
      \o ItemsAt(over, new)

\* Variant: the override is written into the cached base.
CompleteOverrideInPlace ==
  /\ \E n \in DOMAIN graph : Completes(n) /\ Overrides(n)
  /\ LET base == Top.results[1].node
         children == Flatten(OverriddenPairs(content[base], OverridePairs(Top.results)))
     IN  IF Len(children) >= budgets.expandedNodes THEN Fail("expansion")
         ELSE Container(Top.node, children, 1,
                        [content EXCEPT ![base] = [i \in DOMAIN children |-> children[i].node]])

CompleteOverride ==
  /\ \E n \in DOMAIN graph : Completes(n) /\ Overrides(n)
  /\ LET base == Top.results[1].node
         children == Flatten(OverriddenPairs(content[base], OverridePairs(Top.results)))
     IN  IF Len(children) >= budgets.expandedNodes THEN Fail("expansion")
         ELSE Container(Top.node, children, 1, content)

-----------------------------------------------------------------------------

\* A file gains a byte behind what it holds, a comment for the parser.  What a
\* file gains at any other time it may as well gain before it is opened.
Grow ==
  /\ Loading /\ ~inline /\ fetch # None /\ growth > 0
  /\ size' = [size EXCEPT ![fetch.doc] = @ + 1]
  /\ growth' = growth - 1
  /\ UNCHANGED <<input, docs, fetch, resolution, outcome>>

Init ==
  /\ graph \in Graphs /\ budgets \in AllBudgets /\ inline \in BOOLEAN
  /\ size \in Sizes /\ growth = MaxGrowth
  /\ docs = [d \in {} |-> None]
  /\ fetch = [doc |-> Main, step |-> IF inline THEN "parse" ELSE "open",
              limit |-> 0, data |-> size[Main], whole |-> size[Main]]
  /\ stack = <<>> /\ expandedNodes = 0
  /\ resolved = [n \in {} |-> None] /\ content = [n \in {} |-> <<>>]
  /\ outcome = "loading"

Ended == ~Loading /\ UNCHANGED vars

Next ==
  \/ OpenDocument \/ FileFails \/ ReadDocument \/ StatAgain \/ Parse
  \/ RequestDocument \/ RefuseTarget \/ RefuseOverride
  \/ CallTooDeep \/ CallActive \/ CallCached \/ CallFresh
  \/ CompleteScalar \/ CompleteHop \/ CompleteMapping \/ CompleteOverride
  \/ Grow \/ Ended

Spec == Init /\ [][Next]_vars

-----------------------------------------------------------------------------
(* Reference: resolution by expansion, without cache and without budget.  A  *)
(* walk that never returns to a node is no longer than there are nodes.      *)

Mapping(pairs) ==
  [pairs |-> pairs,
   nodes |-> 1 + FoldSeq(LAMBDA p, n : n + 1 + p.value.nodes, 0, pairs),
   size |-> 2 + Max({0, 2 * Len(pairs) - 1})
              + FoldSeq(LAMBDA p, n : n + p.size + p.value.size, 0, pairs),
   depth |-> 1 + Max({IF pairs = <<>> THEN 0 ELSE 1} \cup {pairs[i].value.depth : i \in DOMAIN pairs})]

Pairs(nodes, Value(_)) ==
  [i \in 1..(Len(nodes) \div 2) |->
     [key |-> graph[nodes[2 * i - 1]].key, size |-> graph[nodes[2 * i - 1]].size,
      value |-> Value(nodes[2 * i])]]

Scalar(n) == [pairs |-> n, nodes |-> 1, size |-> graph[n].size, depth |-> 1]

Expansion ==
  LET steps == Cardinality(DOMAIN graph)
      expand[k \in 1..steps, n \in DOMAIN graph] ==
        LET c == graph[n].content
            below(m) == expand[k - 1, m]
            base == below(c[1]).pairs
            over == Pairs(Tail(c), below)
            keys(pairs) == {pairs[i].key : i \in DOMAIN pairs}
        IN  CASE Kind(n) = "scalar" -> Scalar(n)
              [] Kind(n) = "mapping" -> Mapping(Pairs(c, below))
              [] Kind(n) \in {"alias", "ref"} -> below(c[1])
              [] Overrides(n) ->
                   Mapping([i \in DOMAIN base |->
                              IF base[i].key \in keys(over)
                              THEN CHOOSE p \in ToSet(over) : p.key = base[i].key ELSE base[i]]
                           \o SelectSeq(over, LAMBDA p : p.key \notin keys(base)))
  IN  expand[steps, Root[Main]]

\* The tree that was assembled.
Assembled ==
  LET tree[k \in 1..budgets.depth, n \in DOMAIN content] ==
        IF Kind(n) = "scalar" THEN Scalar(n)
        ELSE Mapping(Pairs(content[n], LAMBDA m : tree[k - 1, m]))
  IN  tree[budgets.depth, resolved[Root[Main]].node]

Callees(n) == ToSet(Children(n))
\* Where the walks of up to k steps end.
Ends(from) ==
  LET ends[k \in 0..Cardinality(DOMAIN graph)] ==
        IF k = 0 THEN from ELSE UNION {{n} \cup Callees(n) : n \in ends[k - 1]}
  IN  ends
Reachable(from) == Ends(from)[Cardinality(DOMAIN graph)]
Cyclic == \E n \in Reachable({Root[Main]}) : n \in Reachable(Callees(n))

\* The charges of a resolution without cache, down to k levels: a node that is
\* created, and what is below.
Creates(n) == Kind(n) \in {"scalar", "mapping"} \/ Overrides(n)
Charges ==
  LET charge[k \in 0..budgets.depth] ==
        [n \in DOMAIN graph |->
           IF k = 0 THEN 0
           ELSE (IF Creates(n) THEN 1 ELSE 0)
                  + SumFunctionOnSet([i \in DOMAIN Children(n) |-> charge[k - 1][Children(n)[i]]],
                                     DOMAIN Children(n))]
  IN  charge
FullCharge == Charges[budgets.depth][Root[Main]]

\* Its depth, as far as k levels can tell: a node and an alias or a reference
\* on the way are a level each, and an override is a reference and the mapping
\* it creates.
Depths ==
  LET deep[k \in 0..(budgets.depth + 1)] ==
        [n \in DOMAIN graph |->
           IF k = 0 THEN 0
           ELSE LET levels(i) == deep[k - 1][Children(n)[i]] + IF Overrides(n) /\ i > 1 THEN 2 ELSE 1
                IN  Max({1} \cup {levels(i) : i \in DOMAIN Children(n)})]
  IN  deep
FullDepth == Depths[budgets.depth + 1][Root[Main]]

-----------------------------------------------------------------------------
(* Properties. *)

\* A policy that loads is the expansion of its references: cached results,
\* shared bases and overrides give the tree that replacing every reference by
\* its target would give, its node count and size are exact (load allocates and
\* limits the decoder by them), and the budgets hold for it.
AssemblyIsExpansion ==
  outcome = "loaded" =>
    LET result == resolved[Root[Main]]
    IN  /\ Assembled = Expansion
        /\ result.nodes = Expansion.nodes /\ result.size = Expansion.size
        /\ Expansion.depth <= budgets.depth /\ Expansion.nodes <= budgets.expandedNodes
        /\ Expansion.size <= budgets.assembledBytes

\* No reference of a policy that loads, branches that are replaced included,
\* leads back to itself or nowhere.
LoadedIsGrounded ==
  outcome = "loaded" => ~Cyclic /\ \A n \in Reachable({Root[Main]}) : Kind(n) # "missing"

\* A policy is refused for a cycle only if a call leads back to its own node:
\* a node that is shared, and is called again later, is none.
CycleIsJustified == outcome = "cycle" => Cyclic

\* ... for depth only if a resolution without cache would go that deep: the
\* heights that the cache keeps are heights that calls can reach.
DepthIsJustified == outcome = "depth" => FullDepth > budgets.depth

\* ... and for expansion only if it would charge that much, or be refused for
\* its depth first: an override is cached with the height of what it keeps,
\* and is then charged where its base would be too deep.
ExpansionIsJustified ==
  outcome = "expansion" =>
    FullCharge > budgets.expandedNodes \/ FullDepth > budgets.depth

\* How resolve ends agrees with a resolution that has no cache: it accepts no
\* cycle and no dangling target, and what it refuses would have been refused.
OutcomeIsJustified == LoadedIsGrounded /\ CycleIsJustified /\ DepthIsJustified /\ ExpansionIsJustified

\* A document that was parsed is its file as it was when it was read, and
\* neither budget was exceeded to find that out: a file that grows between the
\* first Stat and the read is never taken by its first bytes.
ReadsAreWhole ==
  /\ \A d \in DOMAIN docs : docs[d].bytes = docs[d].whole /\ docs[d].bytes <= budgets.fileBytes
  /\ ReadBytes <= budgets.readBytes
=============================================================================
