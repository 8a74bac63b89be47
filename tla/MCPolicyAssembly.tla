-------------------------- MODULE MCPolicyAssembly --------------------------
EXTENDS PolicyAssembly

\* The main document is {a: A, b: B}, the other {c: C}.  A, B and C are each a
\* scalar, {p: v}, an alias, a reference, or a reference with an override that
\* is empty or of p or q, where v is a scalar or a reference.
MCRoot == [main |-> <<"main">>, lib |-> <<"lib">>]

Node(kind, doc, below) == [kind |-> kind, doc |-> doc, content |-> below, key |-> "", size |-> 1]
Key(doc, key) == [kind |-> "scalar", doc |-> doc, content |-> <<>>, key |-> key, size |-> 3]

Form(kind, target, key, inner) == [kind |-> kind, target |-> target, key |-> key, inner |-> inner]
NoTarget == <<"missing">>
Leaf == Form("scalar", NoTarget, "p", NoTarget)
Hops(targets) == {Form("ref", t, "p", NoTarget) : t \in targets}
Maps(inners) == {Form("mapping", NoTarget, "p", i) : i \in inners}
Empty(targets) == {Form("override", t, "none", NoTarget) : t \in targets}
Overriding(targets, inners) == {Form("override", t, k, i) : t \in targets, k \in {"p", "q"}, i \in inners}

A == <<"A">>
B == <<"B">>
C == <<"C">>
Names == {A, B, C}
InnerOf(x) == <<x[1], "value">>
KeyOfForm(x) == <<x[1], "key">>

FormsOfA == {Leaf} \cup Hops({<<"main">>, B, C, <<"lib">>}) \cup Maps({NoTarget, B, C})
              \cup Overriding({B, C, <<"lib">>}, {NoTarget, C}) \cup Empty({B, C}) \cup {Form("alias", B, "p", NoTarget)}
FormsOfB == {Leaf} \cup Hops({A, C, NoTarget}) \cup Maps({NoTarget, C}) \cup Overriding({C, InnerOf(A)}, {NoTarget, A})
              \cup {Form("alias", <<"main">>, "p", NoTarget)}
FormsOfC == {Leaf} \cup Hops({B}) \cup Maps({NoTarget, B}) \cup Overriding({B}, {NoTarget})
              \cup Empty({B})

DocOf(x) == IF x = C THEN "lib" ELSE "main"

\* The node of a form, its key and its inner value.
Parts(x, f) ==
  LET doc == DocOf(x)
  IN  [n \in {x, KeyOfForm(x), InnerOf(x)} |->
         CASE n = KeyOfForm(x) -> Key(doc, f.key)
           [] n = InnerOf(x) -> IF f.inner = NoTarget THEN Node("scalar", doc, <<>>)
                                ELSE Node("ref", doc, <<f.inner>>)
           [] n = x ->
                CASE f.kind = "scalar" -> Node("scalar", doc, <<>>)
                  [] f.kind = "mapping" -> Node("mapping", doc, <<KeyOfForm(x), InnerOf(x)>>)
                  [] f.kind \in {"alias", "ref"} -> Node(f.kind, doc, <<f.target>>)
                  [] f.kind = "override" ->
                       Node("override", doc, <<f.target>> \o IF f.key = "none" THEN <<>>
                                                              ELSE <<KeyOfForm(x), InnerOf(x)>>)]

Frame ==
  [n \in {<<"main">>, <<"lib">>, NoTarget} \cup {<<"key", k>> : k \in {"a", "b", "c"}} |->
     CASE n = <<"main">> -> Node("mapping", "main", <<<<"key", "a">>, A, <<"key", "b">>, B>>)
       [] n = <<"lib">> -> Node("mapping", "lib", <<<<"key", "c">>, C>>)
       [] n = NoTarget -> Node("missing", "lib", <<>>)
       [] OTHER -> Key(IF n[2] = "c" THEN "lib" ELSE "main", n[2])]

\* An override, of p, of a reference to {p, q, r, s}, and an alias of it: the
\* alias finds it in the cache where its base would be too deep.
Field(k) == <<k, "field">>
Shared == Node("mapping", "main", <<<<"key", "p">>, Field("p"), <<"key", "q">>, Field("q"),
                                    <<"key", "r">>, Field("r"), <<"key", "s">>, Field("s")>>)
Cached ==
  Frame @@ Parts(A, Form("override", InnerOf(B), "p", NoTarget))
        @@ [n \in {B, InnerOf(B), C} |->
              CASE n = B -> Node("alias", "main", <<A>>)
                [] n = InnerOf(B) -> Node("ref", "main", <<C>>)
                [] n = C -> Shared]
        @@ [n \in {<<"key", k>> : k \in {"p", "q", "r", "s"}} |-> Key("main", n[2])]
        @@ [n \in {Field(k) : k \in {"p", "q", "r", "s"}} |-> Node("scalar", "main", <<>>)]

MCGraphs ==
  {Cached} \cup {Frame @@ Parts(A, fa) @@ Parts(B, fb) @@ Parts(C, fc) :
     fa \in FormsOfA, fb \in FormsOfB, fc \in FormsOfC}

Budgets(documents, depth, sourceNodes, expanded, assembled) ==
  [fileBytes |-> 5, readBytes |-> 9, documents |-> documents, depth |-> depth,
   sourceNodes |-> sourceNodes, expandedNodes |-> expanded, assembledBytes |-> assembled]
MCBudgets ==
  {Budgets(2, 5, 40, 9, 60), Budgets(2, 7, 40, 14, 60), Budgets(2, 9, 40, 40, 25),
   Budgets(1, 6, 40, 20, 40), Budgets(2, 6, 15, 20, 40), Budgets(2, 5, 40, 19, 60), Budgets(2, 5, 40, 40, 80)}
MCSizes == {[main |-> 5, lib |-> 4]}
=============================================================================
