--------------------------- MODULE MCQueryService ---------------------------
(***************************************************************************)
(* Two bindings of one datasource that share its snapshots, one slot per   *)
(* binding.                                                                *)
(***************************************************************************)
EXTENDS QueryService, TLC

CONSTANTS b1, b2, ds

MCBindings == {b1, b2}
MCOneBinding == {b1}
MCDatasources == {ds}
MCDatasourceOf == [b \in Bindings |-> ds]
MCBindingLimit == [b \in Bindings |-> 1]
MCEvents == Requests \X EventKinds
MCCancellable == Requests \X {"allow"}

RequestSymmetry == Permutations(Requests)
=============================================================================
