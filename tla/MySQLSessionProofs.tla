------------------------- MODULE MySQLSessionProofs -------------------------
(***************************************************************************)
(* A pooled connection is clean whatever failed before, and every cleanup  *)
(* is bounded.  Whatever a method has done to its connection is matched by *)
(* a deferred call that undoes it or by database/sql's goroutine, and the  *)
(* deferred call that clears the deadline is the last one.                 *)
(***************************************************************************)
EXTENDS MySQLSession, TLAPS

Transacts(k) == UsesDriverTx(k) \/ UsesStatementTx(k)

\* Where a method is, by what is done when it gets there.
Unpinned == {"bind", "inspect", "pin"}
Pinned == {"begin", "plan", "query", "collect", "rows_close", "commit"}
Begun == {"plan", "query", "collect", "rows_close", "commit"}
Bound == {"inspect", "pin", "begin", "plan", "query", "collect",
          "rows_close", "commit", "restore", "clear"}
RowsDone == {"rows_close", "commit", "restore", "clear"}

\* Only certain methods get there.
Path ==
  /\ pc = "bind" => BindsDeadline(call.kind)
  /\ pc \in {"pin", "restore"} => call.pins
  /\ pc \in {"begin", "plan", "commit", "restore"} => Transacts(call.kind)
  /\ pc = "plan" => UsesStatementTx(call.kind)

\* The deferred calls that are due, wherever the method is.
Due ==
  /\ pc = "pooled" => defers = {}
  /\ pc \in Unpinned => defers \subseteq {"deadline"}
  /\ pc \in {"bind", "inspect", "pin", "begin", "plan", "query"} => "rows" \notin defers
  /\ pc = "begin" => "transaction" \notin defers
  /\ pc \in Bound /\ BindsDeadline(call.kind) => "deadline" \in defers
  /\ pc \in Pinned => (call.pins <=> "zone" \in defers)
  /\ pc \in Begun => (Transacts(call.kind) <=> "transaction" \in defers)
  /\ pc = "restore" => "zone" \in defers /\ "transaction" \notin defers
  /\ pc = "clear" => {"zone", "transaction"} \cap defers = {}
  /\ "zone" \in defers => saved = "original" /\ call.pins
  /\ "transaction" \in defers => Transacts(call.kind) /\ (call.pins => "zone" \in defers)
  /\ {"zone", "transaction"} \cap defers # {} => "deadline" \in defers

\* What an open connection carries has its deferred call, and the reverse.
Matched ==
  conn.open =>
    /\ conn.zone = "utc" <=> "zone" \in defers
    /\ conn.tx <=> \/ UsesStatementTx(call.kind) /\ "transaction" \in defers
                   \/ sqlTx # "none"
    /\ conn.unread => /\ call.pins => "zone" \in defers
                      /\ Transacts(call.kind) => conn.tx
    /\ conn.unread =>
         \/ "rows" \in defers
         \/ pc = "collect" /\ call.kind = "select_keyset"
    /\ conn.deadline # "none" <=> "deadline" \in defers
    /\ conn.unread /\ BindsDeadline(call.kind) => "deadline" \in defers
    /\ pc \in RowsDone => ~conn.unread

\* Who ends the driver's Tx: the method while the context is not done, then
\* the deferred Rollback or Tx.awaitDone, for which a pinned method waits.
Owned ==
  /\ sqlTx # "none" => UsesDriverTx(call.kind) /\ pc \in Begun \cup {"unwind"}
  /\ sqlTx = "live" => "transaction" \in defers
  /\ sqlTx = "claimed" => ctxDone /\ (call.pins => "zone" \in defers)
  /\ pc \in Begun /\ UsesDriverTx(call.kind) /\ ~ctxDone => sqlTx = "live"

Inv == TypeOK /\ Path /\ Due /\ Matched /\ Owned

-----------------------------------------------------------------------------
(* The kinds of the methods, as the proof needs them. *)
LEMMA KindFacts ==
  \A c \in Calls :
    /\ c.kind \in Kinds /\ c.pins \in BOOLEAN
    /\ ~(UsesDriverTx(c.kind) /\ UsesStatementTx(c.kind))
    /\ c.pins => Transacts(c.kind)
    /\ c.kind = "select_keyset" => c.pins
    /\ Transacts(c.kind) => BindsDeadline(c.kind) /\ c.kind # "validate"
BY DEF Calls, Pins, Transacts, UsesDriverTx, UsesStatementTx, BindsDeadline

(* A call in the pool finds a connection that is clean or new. *)
LEMMA CheckoutStep ==
  ASSUME Inv, Checkout
  PROVE  Inv'
<1> USE KindFacts DEF Checkout, Fresh, Unpinned, Pinned, Begun, Bound, RowsDone
<1>1. conn \in Connection /\ defers = {} /\ (conn.open => conn = Fresh)
  BY DEF Inv, TypeOK, Connection, Due, Matched, Owned
<1>2. conn' = Fresh
  BY <1>1
<1>3. TypeOK'
  BY <1>1, <1>2 DEF Inv, TypeOK, States, TxStates, Connection
<1>4. Path'
  BY DEF Inv, TypeOK, Path
<1>5. Due' /\ Matched'
  BY <1>1, <1>2, <1>3 DEF TypeOK, Due, Matched, Inv, Owned
<1>6. Owned'
  BY DEF Inv, Owned
<1> QED
  BY <1>3, <1>4, <1>5, <1>6 DEF Inv

(* Each statement of a method leaves the connection and the deferred calls   *)
(* matched, whether it succeeds, is rejected or loses the connection.        *)
LEMMA MethodStep ==
  ASSUME Inv, Method
  PROVE  Inv'
<1> USE KindFacts DEF SucceedsInTime, Succeeds, Fails, Return, Closed, request, Unpinned, Pinned, Begun, Bound, RowsDone
<1>1. CASE BindConnectionDeadline
  <2>1. TypeOK'
    BY <1>1 DEF BindConnectionDeadline, Inv, TypeOK, States, TxStates, Deferred, Connection
  <2>2. Path'
    BY <1>1 DEF BindConnectionDeadline, Inv, TypeOK, Path, Transacts
  <2>3. Due'
    BY <1>1 DEF BindConnectionDeadline, Inv, TypeOK, Path, Due, Transacts
  <2>4. Matched'
    BY ZenonT(40), <1>1, <2>1 DEF BindConnectionDeadline, Inv, TypeOK, Connection, Path, Due, Matched, Owned, Transacts
  <2>5. Owned'
    BY <1>1 DEF BindConnectionDeadline, Inv, TypeOK, Path, Due, Owned, Transacts
  <2> QED
    BY <2>1, <2>2, <2>3, <2>4, <2>5 DEF Inv
<1>2. CASE Inspect
  <2>1. TypeOK'
    BY <1>2 DEF Inspect, Inv, TypeOK, States, TxStates, Deferred, Connection
  <2>2. Path'
    BY <1>2 DEF Inspect, Inv, TypeOK, Path, Transacts
  <2>3. Due'
    BY <1>2 DEF Inspect, Inv, TypeOK, Path, Due, Transacts
  <2>4. Matched'
    BY <1>2, <2>1 DEF Inspect, Inv, TypeOK, Connection, Path, Due, Matched, Owned, Transacts
  <2>5. Owned'
    BY <1>2 DEF Inspect, Inv, TypeOK, Path, Due, Owned, Transacts
  <2> QED
    BY <2>1, <2>2, <2>3, <2>4, <2>5 DEF Inv
<1>3. CASE SetAggregateUTCSession
  <2>1. TypeOK'
    BY <1>3 DEF SetAggregateUTCSession, Inv, TypeOK, States, TxStates, Deferred, Connection
  <2>2. Path'
    BY <1>3 DEF SetAggregateUTCSession, Inv, TypeOK, Path, Transacts
  <2>3. Due'
    BY <1>3 DEF SetAggregateUTCSession, Inv, TypeOK, Connection, Path, Due, Matched, Owned, Transacts
  <2>4. Matched'
    BY <1>3, <2>1 DEF SetAggregateUTCSession, Inv, TypeOK, Connection, Path, Due, Matched, Owned, Transacts
  <2>5. Owned'
    BY <1>3 DEF SetAggregateUTCSession, Inv, TypeOK, Path, Due, Owned, Transacts
  <2> QED
    BY <2>1, <2>2, <2>3, <2>4, <2>5 DEF Inv
<1>4. CASE Begin
  <2>1. TypeOK'
    BY <1>4 DEF Begin, Inv, TypeOK, States, TxStates, Deferred, Connection
  <2>2. Path'
    BY <1>4 DEF Begin, Inv, TypeOK, Path, Transacts
  <2>3. Due'
    BY <1>4 DEF Begin, Inv, TypeOK, Path, Due, Transacts
  <2>4. Matched'
    BY <1>4, <2>1 DEF Begin, Inv, TypeOK, Connection, Path, Due, Matched, Owned, Transacts
  <2>5. Owned'
    BY <1>4 DEF Begin, Inv, TypeOK, Path, Due, Owned, Transacts
  <2> QED
    BY <2>1, <2>2, <2>3, <2>4, <2>5 DEF Inv
<1>5. CASE Plan
  <2>1. TypeOK'
    BY <1>5 DEF Plan, Inv, TypeOK, States, TxStates, Deferred, Connection
  <2>2. Path'
    BY <1>5 DEF Plan, Inv, TypeOK, Path, Transacts
  <2>3. Due'
    BY <1>5 DEF Plan, Inv, TypeOK, Path, Due, Transacts
  <2>4. Matched'
    BY <1>5, <2>1 DEF Plan, Inv, TypeOK, Connection, Path, Due, Matched, Owned, Transacts
  <2>5. Owned'
    BY <1>5 DEF Plan, Inv, TypeOK, Path, Due, Owned, Transacts
  <2> QED
    BY <2>1, <2>2, <2>3, <2>4, <2>5 DEF Inv
<1>6. CASE Query
  <2>1. TypeOK'
    BY <1>6 DEF Query, Inv, TypeOK, States, TxStates, Deferred, Connection
  <2>2. Path'
    BY <1>6 DEF Query, Inv, TypeOK, Path, Transacts
  <2>3. Due'
    <3>1. CASE pc' = "unwind"
      BY <1>6, <3>1 DEF Query, Inv, TypeOK, Path, Due, Transacts
    <3>2. CASE pc' # "unwind"
      BY <1>6, <3>2 DEF Query, Inv, TypeOK, Path, Due, Transacts
    <3> QED
      BY <3>1, <3>2
  <2>4. Matched'
    <3>1. CASE pc' = "unwind"
      BY <1>6, <2>1, <3>1 DEF Query, Inv, TypeOK, Connection, Path, Due, Matched, Owned, Transacts
    <3>2. CASE pc' # "unwind"
      <4>1. /\ conn.open /\ pc' = "collect"
            /\ conn'.zone = conn.zone /\ conn'.tx = conn.tx /\ conn'.deadline = conn.deadline
        BY <1>6, <3>2 DEF Query, Inv, TypeOK, Connection
      <4>2. /\ call.kind # "select_keyset" => "rows" \in defers'
            /\ \A d \in {"zone", "transaction", "deadline"} : d \in defers' <=> d \in defers
        BY <1>6, <3>2 DEF Query
      <4>3. BindsDeadline(call.kind) => "deadline" \in defers
        BY <1>6 DEF Query, Inv, Due
      <4>4. /\ call.pins => "zone" \in defers
            /\ Transacts(call.kind) => conn.tx
        BY <1>6, <3>2, <4>1 DEF Query, Inv, Due, Matched, Owned, Transacts
      <4> QED
        BY <1>6, <4>1, <4>2, <4>3, <4>4 DEF Query, Inv, Matched
    <3> QED
      BY <3>1, <3>2
  <2>5. Owned'
    BY <1>6 DEF Query, Inv, TypeOK, Path, Due, Owned, Transacts
  <2> QED
    BY <2>1, <2>2, <2>3, <2>4, <2>5 DEF Inv
<1>7. CASE Collect
  <2>1. TypeOK'
    BY <1>7 DEF Collect, AbortKeysetRows, Inv, TypeOK, States, TxStates, Deferred, Connection
  <2>2. Path'
    BY <1>7 DEF Collect, AbortKeysetRows, Inv, TypeOK, Path, Transacts
  <2>3. Due'
    BY <1>7 DEF Collect, AbortKeysetRows, Inv, TypeOK, Path, Due, Transacts
  <2>4. Matched'
    BY <1>7, <2>1 DEF Collect, AbortKeysetRows, Inv, TypeOK, Connection, Path, Due, Matched, Owned, Transacts
  <2>5. Owned'
    BY <1>7 DEF Collect, AbortKeysetRows, Inv, TypeOK, Path, Due, Owned, Transacts, UsesDriverTx
  <2> QED
    BY <2>1, <2>2, <2>3, <2>4, <2>5 DEF Inv
<1>8. CASE RowsClose
  <2>1. TypeOK'
    BY <1>8 DEF RowsClose, Inv, TypeOK, States, TxStates, Deferred, Connection
  <2>2. Path'
    BY <1>8 DEF RowsClose, Inv, TypeOK, Path, Transacts
  <2>3. Due'
    <3>1. CASE pc' = "unwind"
      BY <1>8, <3>1 DEF RowsClose, Inv, TypeOK, Path, Due, Transacts
    <3>2. CASE pc' # "unwind"
      BY <1>8, <3>2 DEF RowsClose, Inv, TypeOK, Path, Due, Transacts
    <3> QED
      BY <3>1, <3>2
  <2>4. Matched'
    <3>1. CASE pc' = "unwind"
      BY <1>8, <2>1, <3>1 DEF RowsClose, Inv, TypeOK, Connection, Path, Due, Matched, Owned, Transacts
    <3>2. CASE pc' # "unwind"
      BY <1>8, <2>1, <3>2 DEF RowsClose, Inv, TypeOK, Connection, Path, Due, Matched, Owned, Transacts
    <3> QED
      BY <3>1, <3>2
  <2>5. Owned'
    BY <1>8 DEF RowsClose, Inv, TypeOK, Path, Due, Owned, Transacts
  <2> QED
    BY <2>1, <2>2, <2>3, <2>4, <2>5 DEF Inv
<1>9. CASE Commit
  <2>1. TypeOK'
    BY <1>9 DEF Commit, CommitRefused, EndDeadline, Inv, TypeOK, States, TxStates, Deferred, Connection
  <2>2. Path'
    BY <1>9 DEF Commit, CommitRefused, EndDeadline, Inv, TypeOK, Path, Transacts
  <2>3. Due'
    <3>1. CASE pc' = "unwind"
      BY <1>9, <3>1 DEF Commit, CommitRefused, Inv, TypeOK, Path, Due, Transacts
    <3>2. CASE pc' # "unwind"
      <4>1. /\ call.pins => pc' = "restore"
            /\ ~call.pins => pc' = "clear"
            /\ defers' = defers \ {"transaction"}
        BY <1>9, <3>2 DEF Commit, CommitRefused
      <4>2. (call.pins <=> "zone" \in defers) /\ "deadline" \in defers
        BY <1>9 DEF Commit, CommitRefused, Inv, TypeOK, Path, Due
      <4>3. "zone" \in defers => saved = "original" /\ call.pins
        BY DEF Inv, Due
      <4> QED
        BY <1>9, <4>1, <4>2, <4>3 DEF Commit, CommitRefused, Due
    <3> QED
      BY <3>1, <3>2
  <2>4. Matched'
    <3>1. CASE pc' = "unwind"
      BY <1>9, <2>1, <3>1 DEF Commit, CommitRefused, EndDeadline, Inv, TypeOK, Connection, Path, Due, Matched, Owned, Transacts
    <3>2. CASE pc' # "unwind"
      <4>1. /\ conn.open /\ ~conn'.tx /\ "transaction" \notin defers'
            /\ conn'.zone = conn.zone /\ conn'.unread = conn.unread
            /\ conn'.deadline \in {"cleanup", conn.deadline}
        BY <1>9, <3>2 DEF Commit, CommitRefused, EndDeadline, Inv, TypeOK, Connection
      <4>2. \A d \in {"rows", "zone", "deadline"} : d \in defers' <=> d \in defers
        BY <1>9, <3>2 DEF Commit, CommitRefused
      <4>3. "deadline" \in defers /\ ~conn.unread
        BY <1>9, <4>1 DEF Commit, CommitRefused, Inv, TypeOK, Path, Due, Matched
      <4> QED
        BY <1>9, <4>1, <4>2, <4>3 DEF Commit, CommitRefused, Inv, Matched
    <3> QED
      BY <3>1, <3>2
  <2>5. Owned'
    BY <1>9 DEF Commit, CommitRefused, Inv, TypeOK, Path, Due, Owned, Transacts
  <2> QED
    BY <2>1, <2>2, <2>3, <2>4, <2>5 DEF Inv
<1>10. CASE Restore
  <2>1. TypeOK'
    BY ZenonT(40), <1>10 DEF Restore, Inv, TypeOK, States, TxStates, Deferred, Connection, Due
  <2>2. Path'
    BY <1>10 DEF Restore, Inv, TypeOK, Path, Transacts
  <2>3. Due'
    BY <1>10 DEF Restore, Inv, TypeOK, Path, Due, Transacts
  <2>4. Matched'
    BY <1>10, <2>1 DEF Restore, Inv, TypeOK, Connection, Path, Due, Matched, Owned, Transacts
  <2>5. Owned'
    BY <1>10 DEF Restore, Inv, TypeOK, Path, Due, Owned, Transacts
  <2> QED
    BY <2>1, <2>2, <2>3, <2>4, <2>5 DEF Inv
<1>11. CASE ClearDeadline
  <2>1. TypeOK'
    BY <1>11 DEF ClearDeadline, Inv, TypeOK, States, TxStates, Deferred, Connection
  <2>2. Path'
    BY <1>11 DEF ClearDeadline, Inv, TypeOK, Path, Transacts
  <2>3. Due'
    BY <1>11 DEF ClearDeadline, Inv, TypeOK, Path, Due, Transacts
  <2>4. Matched'
    BY <1>11, <2>1 DEF ClearDeadline, Inv, TypeOK, Connection, Path, Due, Matched, Owned, Transacts
  <2>5. Owned'
    BY <1>11 DEF ClearDeadline, Inv, TypeOK, Path, Due, Owned, Transacts
  <2> QED
    BY <2>1, <2>2, <2>3, <2>4, <2>5 DEF Inv
<1> QED
  BY <1>1, <1>2, <1>3, <1>4, <1>5, <1>6, <1>7, <1>8, <1>9, <1>10, <1>11 DEF Method

(* So does each deferred call. *)
LEMMA UnwindStep ==
  ASSUME Inv, Unwind
  PROVE  Inv'
<1> USE KindFacts DEF Closed, request, Unpinned, Pinned, Begun, Bound, RowsDone
<1>1. CASE UnwindRows
  <2>1. TypeOK'
    BY <1>1 DEF UnwindRows, Undo, Inv, TypeOK, States, TxStates, Deferred, Connection
  <2>2. Path' /\ Due'
    BY <1>1 DEF UnwindRows, Undo, Inv, TypeOK, Path, Due
  <2>3. Matched'
    BY <1>1, <2>1 DEF UnwindRows, Undo, Inv, TypeOK, Connection, Path, Due, Matched, Owned, Transacts
  <2>4. Owned'
    BY <1>1 DEF UnwindRows, Undo, Inv, TypeOK, Path, Due, Owned, Transacts
  <2> QED
    BY <2>1, <2>2, <2>3, <2>4 DEF Inv
<1>2. CASE UnwindTransaction
  <2>1. TypeOK'
    BY ZenonT(40), <1>2 DEF UnwindTransaction, RollbackReturns, EndDeadline, Undo, Inv, TypeOK, States, TxStates, Deferred, Connection
  <2>2. Path' /\ Due'
    BY <1>2 DEF UnwindTransaction, RollbackReturns, EndDeadline, Undo, Inv, TypeOK, Path, Due
  <2>3. Matched'
    BY <1>2, <2>1 DEF UnwindTransaction, RollbackReturns, EndDeadline, Undo, Inv, TypeOK, Connection, Path, Due, Matched, Owned, Transacts
  <2>4. Owned'
    BY <1>2 DEF UnwindTransaction, RollbackReturns, Undo, Inv, TypeOK, Path, Due, Owned, Transacts
  <2> QED
    BY <2>1, <2>2, <2>3, <2>4 DEF Inv
<1>3. CASE UnwindZone
  <2>1. TypeOK'
    BY ZenonT(40), <1>3 DEF UnwindZone, Inv, TypeOK, States, TxStates, Deferred, Connection, Due
  <2>2. Path' /\ Due'
    BY <1>3 DEF UnwindZone, Inv, TypeOK, Path, Due
  <2>3. Matched'
    BY ZenonT(40), <1>3, <2>1 DEF UnwindZone, Inv, TypeOK, Connection, Path, Due, Matched, Owned, Transacts
  <2>4. Owned'
    BY <1>3 DEF UnwindZone, TxReleased, Inv, TypeOK, Path, Due, Owned, Transacts
  <2> QED
    BY <2>1, <2>2, <2>3, <2>4 DEF Inv
<1>4. CASE UnwindDeadline
  <2>1. TypeOK'
    BY <1>4 DEF UnwindDeadline, Undo, Inv, TypeOK, States, TxStates, Deferred, Connection
  <2>2. Path' /\ Due'
    BY <1>4 DEF UnwindDeadline, Undo, Inv, TypeOK, Path, Due
  <2>3. Matched'
    BY <1>4, <2>1 DEF UnwindDeadline, Undo, Inv, TypeOK, Connection, Path, Due, Matched, Owned, Transacts
  <2>4. Owned'
    BY <1>4 DEF UnwindDeadline, Undo, Inv, TypeOK, Path, Due, Owned, Transacts
  <2> QED
    BY <2>1, <2>2, <2>3, <2>4 DEF Inv
<1>5. CASE Close
  <2>1. TypeOK'
    BY <1>5 DEF Close, Inv, TypeOK, States, TxStates, Deferred, Connection
  <2>2. Path' /\ Due'
    BY <1>5 DEF Close, Inv, TypeOK, Path, Due
  <2>3. Matched'
    BY <1>5, <2>1 DEF Close, Inv, TypeOK, Connection, Path, Due, Matched, Owned, Transacts
  <2>4. Owned'
    BY <1>5 DEF Close, TxReleased, Inv, TypeOK, TxStates, Path, Due, Owned
  <2> QED
    BY <2>1, <2>2, <2>3, <2>4 DEF Inv
<1> QED
  BY <1>1, <1>2, <1>3, <1>4, <1>5 DEF Unwind

(* The client and database/sql's goroutines change the connection only in    *)
(* ways the method's deferred calls allow for.                               *)
LEMMA ContextStep ==
  ASSUME Inv, ContextDone \/ DatabaseSQL
  PROVE  Inv'
<1> USE KindFacts DEF Closed, method, Unpinned, Pinned, Begun, Bound, RowsDone
<1>1. CASE ContextDone
  <2>1. TypeOK' /\ Path'
    BY <1>1 DEF ContextDone, Inv, TypeOK, Path
  <2>2. Due' /\ Matched'
    BY <1>1 DEF ContextDone, Inv, Due, Matched
  <2>3. Owned'
    BY <1>1 DEF ContextDone, Inv, Owned
  <2> QED
    BY <2>1, <2>2, <2>3 DEF Inv
<1>2. CASE TxAwaitDone
  <2>1. TypeOK' /\ Path'
    BY <1>2 DEF TxAwaitDone, Inv, TypeOK, TxStates, Path
  <2>2. Due' /\ Matched'
    BY <1>2 DEF TxAwaitDone, Inv, Due, Matched
  <2>3. call.pins => "zone" \in defers
    BY <1>2 DEF TxAwaitDone, Inv, Due, Owned
  <2>4. Owned'
    BY <1>2, <2>3 DEF TxAwaitDone, Inv, Owned
  <2> QED
    BY <2>1, <2>2, <2>4 DEF Inv
<1>3. CASE RowsAwaitDone
  <2>1. TypeOK'
    BY <1>3 DEF RowsAwaitDone, Inv, TypeOK, Connection
  <2>2. Path' /\ Due' /\ Owned'
    BY <1>3 DEF RowsAwaitDone, Inv, Path, Due, Owned
  <2>3. Matched'
    BY <1>3 DEF RowsAwaitDone, Inv, TypeOK, Connection, Matched
  <2> QED
    BY <2>1, <2>2, <2>3 DEF Inv
<1>4. CASE TxRollback
  <2>1. TypeOK'
    BY <1>4 DEF TxRollback, Inv, TypeOK, TxStates, Connection
  <2>2. Path' /\ Due' /\ Owned'
    BY <1>4 DEF TxRollback, Inv, Path, Due, Owned
  <2>3. Matched'
    BY <1>4 DEF TxRollback, Inv, TypeOK, Connection, Matched, Owned, UsesDriverTx, UsesStatementTx
  <2> QED
    BY <2>1, <2>2, <2>3 DEF Inv
<1> QED
  BY <1>1, <1>2, <1>3, <1>4 DEF DatabaseSQL

(* The inductive invariant: types, the path, the deferred calls that are due *)
(* and their match with the connection.                                      *)
THEOREM Invariance == Spec => []Inv
<1>1. Init => Inv
  <2> SUFFICES ASSUME Init PROVE Inv
    OBVIOUS
  <2>1. Fresh \in Connection
    BY DEF Fresh, Connection
  <2>2. TypeOK
    BY <2>1 DEF Init, TypeOK, States, TxStates, Deferred
  <2>3. Path /\ Due /\ Owned
    BY DEF Init, Path, Due, Owned, Unpinned, Pinned, Begun, Bound
  <2>4. Matched
    BY DEF Init, Fresh, Matched, RowsDone
  <2> QED
    BY <2>2, <2>3, <2>4 DEF Inv
<1>2. Inv /\ [Next]_vars => Inv'
  <2>1. ASSUME Inv, UNCHANGED vars PROVE Inv'
    <3>1. TypeOK' /\ Path'
      BY <2>1 DEF vars, Inv, TypeOK, Path
    <3>2. Due'
      BY <2>1 DEF vars, Inv, Due
    <3>3. Matched' /\ Owned'
      BY <2>1 DEF vars, Inv, Matched, Owned
    <3> QED
      BY <3>1, <3>2, <3>3 DEF Inv
  <2> QED
    BY <2>1, CheckoutStep, MethodStep, UnwindStep, ContextStep DEF Next
<1> QED
  BY <1>1, <1>2, PTL DEF Spec

-----------------------------------------------------------------------------
(* Every variable keeps its type. *)
THEOREM TypeCorrect == Spec => []TypeOK
<1>1. Inv => TypeOK
  BY DEF Inv
<1> QED
  BY <1>1, Invariance, PTL

(* conn.Close returns to the pool only a connection with the session it was  *)
(* opened with, no transaction, no unread rows and no deadline, whichever    *)
(* statements of whichever methods failed before.                            *)
THEOREM PoolStaysClean == Spec => []PooledIsClean
<1>1. Inv => PooledIsClean
  BY DEF Inv, TypeOK, Connection, Due, Matched, Owned, Begun, PooledIsClean, Fresh
<1> QED
  BY <1>1, Invariance, PTL

(* When QueryContext's rows are read, the session is in UTC exactly if the   *)
(* method pins it, and in a transaction exactly if the method starts one.    *)
THEOREM ReadsStayPinned == Spec => []ReadsArePinned
<1>1. Inv => ReadsArePinned
  BY DEF Inv, TypeOK, Connection, Due, Matched, Owned, ReadsArePinned, Transacts
<1> QED
  BY <1>1, Invariance, PTL

(* COMMIT, ROLLBACK, the drain and the restored zone are sent under a        *)
(* deadline, because the deferred clearDeadline is the last of the deferred  *)
(* calls, except for the ROLLBACK that Tx.awaitDone owes to a method that    *)
(* has not pinned its session.                                               *)
THEOREM CleanupStaysBounded == Spec => CleanupIsBounded
<1> DEFINE Bounded ==
      BindsDeadline(call.kind) /\ pc # "pooled" /\ conn'.open /\ conn'.deadline = "none"
      => /\ conn.unread => conn'.unread
         /\ conn'.zone = conn.zone
         /\ conn.tx /\ ~conn'.tx => sqlTx = "claimed" /\ ctxDone /\ ~call.pins
<1>1. Inv /\ Inv' /\ [Next]_vars => [Bounded]_vars
  <2> SUFFICES ASSUME Inv, Inv', Next
               PROVE  Bounded
    BY DEF vars
  <2> SUFFICES ASSUME BindsDeadline(call.kind), pc # "pooled", conn'.open, conn'.deadline = "none"
               PROVE  /\ conn.unread => conn'.unread
                      /\ conn'.zone = conn.zone
                      /\ conn.tx /\ ~conn'.tx => sqlTx = "claimed" /\ ctxDone /\ ~call.pins
    OBVIOUS
  <2> USE KindFacts DEF Closed
  <2>1. "deadline" \notin defers' /\ conn \in Connection
    BY DEF Inv, Matched, TypeOK
  <2>2. CASE Method
    <3> USE <2>1 DEF SucceedsInTime, Succeeds, Fails, Return, Bound, Connection
    <3>1. CASE BindConnectionDeadline
      BY <3>1 DEF BindConnectionDeadline
    <3>2. CASE Inspect \/ Plan \/ RowsClose
      BY <3>2 DEF Inspect, Plan, RowsClose
    <3>3. CASE SetAggregateUTCSession \/ Begin \/ Query
      BY <3>3 DEF SetAggregateUTCSession, Begin, Query, Inv, Due
    <3>4. CASE Collect
      BY <3>4 DEF Collect, AbortKeysetRows, Inv, Due
    <3>5. CASE Commit \/ Restore
      BY <3>5 DEF Commit, CommitRefused, Restore, Inv, Due, Path
    <3>6. CASE ClearDeadline
      BY <3>6 DEF ClearDeadline
    <3> QED
      BY <2>2, <3>1, <3>2, <3>3, <3>4, <3>5, <3>6 DEF Method
  <2>3. CASE Unwind
    <3> USE <2>1 DEF Undo, Connection
    <3>1. CASE UnwindRows
      BY <3>1 DEF UnwindRows, Inv, Due, Matched
    <3>2. CASE UnwindTransaction
      BY <3>2 DEF UnwindTransaction, RollbackReturns, Inv, Due
    <3>3. CASE UnwindZone
      BY <3>3 DEF UnwindZone, Inv, Due
    <3>4. CASE UnwindDeadline \/ Close
      BY <3>4 DEF UnwindDeadline, Close
    <3> QED
      BY <2>3, <3>1, <3>2, <3>3, <3>4 DEF Unwind
  <2>4. CASE ContextDone \/ TxAwaitDone
    BY <2>4 DEF ContextDone, TxAwaitDone
  <2>5. CASE RowsAwaitDone
    BY <2>1, <2>5 DEF RowsAwaitDone, method, Inv, Matched, Connection
  <2>6. CASE TxRollback
    BY <2>1, <2>6 DEF TxRollback, method, Inv, Due, Owned, Connection
  <2>7. CASE Checkout
    BY <2>7 DEF Checkout
  <2> QED
    BY <2>2, <2>3, <2>4, <2>5, <2>6, <2>7 DEF Next, DatabaseSQL
<1> QED
  BY <1>1, Invariance, PTL DEF Spec, CleanupIsBounded
=============================================================================
