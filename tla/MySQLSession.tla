---------------------------- MODULE MySQLSession ----------------------------
(***************************************************************************)
(* The mysql8 adapter's use of one pooled MySQL connection.  An adapter    *)
(* method takes the connection out of the pool, binds its deadline to the  *)
(* socket, may pin the session time zone, runs a read-only transaction,    *)
(* reads rows, and undoes all that in its success path or in its deferred  *)
(* calls, which run last in, first out.  Every statement can be rejected   *)
(* by the server, and the connection can be lost in every step: the client *)
(* goes away, the deadline passes, a packet is too large.  COMMIT and      *)
(* ROLLBACK end a read-only transaction or the connection is lost.         *)
(*                                                                         *)
(* The request's context can be done at any time.  database/sql watches it *)
(* with goroutines of its own: one closes the rows that are being read,    *)
(* one rolls back the transaction that BeginTx returned (Tx.awaitDone).    *)
(* They race the method and its deferred calls.                            *)
(***************************************************************************)
CONSTANT Kinds   \* the adapter methods that are called

AllKinds == {"validate", "list_objects", "describe_object", "explain_select", "select",
             "aggregate", "select_keyset", "describe_object_statistics"}

ASSUME KindsAssumption == Kinds \subseteq AllKinds

VARIABLES
  conn,    \* the physical connection: socket, session and protocol state
  call,    \* the method that holds the connection
  pc,      \* where it is; "pooled" when nobody holds the connection
  defers,  \* the deferred calls that still have something to undo
  saved,   \* originalTimezone
  err,     \* resultErr # nil
  ctxDone, \* the context of the request is done
  sqlTx    \* the driver's Tx: nobody has ended it yet, or Tx.awaitDone will

vars == <<conn, call, pc, defers, saved, err, ctxDone, sqlTx>>

\* What a step of the method leaves alone, whatever it does.
request == <<call, ctxDone>>

Connection == [open : BOOLEAN,                        \* the socket
               zone : {"original", "utc"},            \* @@session.time_zone
               tx : BOOLEAN,                          \* a transaction is open
               unread : BOOLEAN,                      \* rows are left in the stream
               deadline : {"none", "query", "cleanup"}]

Fresh == [open |-> TRUE, zone |-> "original", tx |-> FALSE, unread |-> FALSE, deadline |-> "none"]

States == {"pooled", "bind", "inspect", "pin", "begin", "plan", "query", "collect",
           "rows_close", "commit", "restore", "clear", "unwind"}
Deferred == {"rows", "transaction", "zone", "deadline"}
TxStates == {"none", "live", "claimed"}

\* How the methods differ.
BindsDeadline(k) == k \notin {"validate", "list_objects", "describe_object"}
UsesDriverTx(k) == k \in {"explain_select", "select"}
UsesStatementTx(k) == k \in {"aggregate", "select_keyset"}
\* source_text fields and time buckets pin the zone, keyset pages always do.
Pins(k) == IF k = "select_keyset" THEN {TRUE}
           ELSE IF k \in {"explain_select", "select", "aggregate"} THEN BOOLEAN
           ELSE {FALSE}

Calls == {c \in [kind : Kinds, pins : BOOLEAN] : c.pins \in Pins(c.kind)}

Init ==
  /\ conn = Fresh
  /\ call \in Calls
  /\ pc = "pooled"
  /\ defers = {}
  /\ saved = ""
  /\ err = FALSE
  /\ ctxDone = FALSE
  /\ sqlTx = "none"

-----------------------------------------------------------------------------
(* Steps of a method. *)

\* The connection after it was lost or discarded: the server ends its session.
Closed(c) == [c EXCEPT !.open = FALSE]

\* The method returns an error: from here on only deferred calls run.
Return == pc' = "unwind" /\ err' = TRUE

\* A statement that fails: rejected by the server, or the connection is lost.
Fails == Return /\ conn' \in {conn, Closed(conn)}

\* A statement that succeeds, with its effect on the connection.
Succeeds(effect, next) ==
  /\ conn.open
  /\ conn' = effect
  /\ pc' = next
  /\ UNCHANGED err

\* A statement that takes the request's context is not sent once it is done.
SucceedsInTime(effect, next) == ~ctxDone /\ Succeeds(effect, next)

\* db.Conn: the pooled connection if it is still good, or a new one.
Checkout ==
  /\ pc = "pooled"
  /\ \E c \in Calls : call' = c /\ pc' = IF BindsDeadline(c.kind) THEN "bind" ELSE "inspect"
  /\ conn' \in {Fresh} \cup (IF conn.open THEN {conn} ELSE {})
  /\ saved' = ""
  /\ err' = FALSE
  /\ ctxDone' = FALSE
  /\ UNCHANGED <<defers, sqlTx>>

\* bindConnectionDeadline
BindConnectionDeadline ==
  /\ pc = "bind"
  /\ \/ /\ Succeeds([conn EXCEPT !.deadline = "query"], "inspect")
        /\ defers' = defers \cup {"deadline"}
     \/ /\ conn' = Closed(conn)
        /\ Return
        /\ UNCHANGED defers
  /\ UNCHANGED <<request, saved, sqlTx>>

\* Variant: source_text fields of a legacy query do not pin the zone.
InspectSkipsPin ==
  /\ pc = "inspect"
  /\ \/ SucceedsInTime(conn,
          IF call.kind = "validate" THEN "unwind"
          ELSE IF call.kind = "select_keyset" THEN "pin"
          ELSE IF UsesDriverTx(call.kind) \/ UsesStatementTx(call.kind) THEN "begin"
          ELSE "query")
     \/ Fails
  /\ UNCHANGED <<request, defers, saved, sqlTx>>

\* readServerInfo, the semantics check and the reads that validate the source.
Inspect ==
  /\ pc = "inspect"
  /\ \/ SucceedsInTime(conn,
          IF call.kind = "validate" THEN "unwind"
          ELSE IF call.pins THEN "pin"
          ELSE IF UsesDriverTx(call.kind) \/ UsesStatementTx(call.kind) THEN "begin"
          ELSE "query")
     \/ Fails
  /\ UNCHANGED <<request, defers, saved, sqlTx>>

\* Variant: a failed SET or verification leaves the connection in the pool.
SetUTCKeepsConnection ==
  /\ pc = "pin"
  /\ \/ /\ SucceedsInTime([conn EXCEPT !.zone = "utc"], "begin")
        /\ saved' = conn.zone
        /\ defers' = defers \cup {"zone"}
     \/ /\ Return
        /\ conn' \in {conn, [conn EXCEPT !.zone = "utc"], Closed(conn)}
        /\ UNCHANGED <<saved, defers>>
  /\ UNCHANGED <<request, sqlTx>>

\* setAggregateUTCSession: the old zone is read, UTC is set and verified; once
\* SET was tried, every failure discards the connection.
SetAggregateUTCSession ==
  /\ pc = "pin"
  /\ \/ /\ SucceedsInTime([conn EXCEPT !.zone = "utc"], "begin")
        /\ saved' = conn.zone
        /\ defers' = defers \cup {"zone"}
     \/ /\ Fails
        /\ UNCHANGED <<saved, defers>>
  /\ UNCHANGED <<request, sqlTx>>

\* BeginTx, or startAggregateTransaction, which discards the connection when
\* START TRANSACTION fails.
Begin ==
  /\ pc = "begin"
  /\ \/ /\ SucceedsInTime([conn EXCEPT !.tx = TRUE],
                          IF UsesStatementTx(call.kind) THEN "plan" ELSE "query")
        /\ defers' = defers \cup {"transaction"}
        /\ sqlTx' = IF UsesDriverTx(call.kind) THEN "live" ELSE "none"
     \/ /\ Fails
        /\ UNCHANGED <<defers, sqlTx>>
  /\ UNCHANGED <<request, saved>>

\* readAggregatePlan and validateAggregatePlan
Plan ==
  /\ pc = "plan"
  /\ SucceedsInTime(conn, "query") \/ Fails
  /\ UNCHANGED <<request, defers, saved, sqlTx>>

\* QueryContext; only the keyset method does not defer a drain.
Query ==
  /\ pc = "query"
  /\ \/ /\ SucceedsInTime([conn EXCEPT !.unread = TRUE], "collect")
        /\ defers' = IF call.kind = "select_keyset" THEN defers ELSE defers \cup {"rows"}
     \/ /\ Fails
        /\ UNCHANGED defers
  /\ UNCHANGED <<request, saved, sqlTx>>

\* abortKeysetRows closes the socket; nothing is left to undo.
AbortKeysetRows ==
  /\ conn' = Closed(conn)
  /\ defers' = {}

\* The rows are consumed, or the method stops before the last one: with an
\* error (rows that database/sql has closed report one), or with a full keyset
\* page.
Collect ==
  /\ pc = "collect"
  /\ \/ /\ conn.unread
        /\ Succeeds([conn EXCEPT !.unread = FALSE], "rows_close")
        /\ UNCHANGED defers
     \/ /\ call.kind = "select_keyset"
        /\ AbortKeysetRows
        /\ pc' = "unwind"
        /\ err' \in BOOLEAN
     \/ /\ call.kind # "select_keyset"
        /\ Fails
        /\ UNCHANGED defers
  /\ UNCHANGED <<request, saved, sqlTx>>

\* rows.Close after the last row
RowsClose ==
  /\ pc = "rows_close"
  /\ \/ Succeeds(conn, IF UsesDriverTx(call.kind) \/ UsesStatementTx(call.kind) THEN "commit"
                       ELSE IF BindsDeadline(call.kind) THEN "clear" ELSE "unwind")
     \/ Return /\ conn' = Closed(conn)
  /\ UNCHANGED <<request, defers, saved, sqlTx>>

\* The deadline that bounds the end of a transaction: its own one second for
\* finalizeAggregateTransaction, the query's for the driver's Tx.
EndDeadline == IF UsesStatementTx(call.kind) THEN "cleanup" ELSE conn.deadline

\* tx.Commit returns an error and does nothing when the context is done.
CommitRefused ==
  /\ UsesDriverTx(call.kind) /\ ctxDone
  /\ Return
  /\ UNCHANGED <<conn, defers, sqlTx>>

\* finalizeAggregateTransaction with COMMIT has a context of its own; tx.Commit
\* ends the Tx, whether COMMIT succeeds or loses the connection.
Commit ==
  /\ pc = "commit"
  /\ \/ /\ UsesStatementTx(call.kind) \/ ~ctxDone
        /\ \/ /\ Succeeds([conn EXCEPT !.tx = FALSE, !.deadline = EndDeadline],
                          IF call.pins THEN "restore" ELSE "clear")
              /\ defers' = defers \ {"transaction"}
           \/ /\ Return
              /\ conn' = Closed(conn)
              /\ UNCHANGED defers
        /\ sqlTx' = "none"
     \/ CommitRefused
  /\ UNCHANGED <<request, saved>>

\* restoreAggregateSessionTimezone under a deadline of its own: a zone that
\* cannot be restored and verified discards the connection.
Restore ==
  /\ pc = "restore"
  /\ \/ /\ Succeeds([conn EXCEPT !.zone = saved, !.deadline = "cleanup"], "clear")
        /\ defers' = defers \ {"zone"}
     \/ /\ Return
        /\ conn' = Closed(conn)
        /\ UNCHANGED defers
  /\ UNCHANGED <<request, saved, sqlTx>>

\* clearDeadline in the success path
ClearDeadline ==
  /\ pc = "clear"
  /\ \/ /\ Succeeds([conn EXCEPT !.deadline = "none"], "unwind")
        /\ defers' = defers \ {"deadline"}
     \/ /\ Return
        /\ conn' = Closed(conn)
        /\ UNCHANGED defers
  /\ UNCHANGED <<request, saved, sqlTx>>

-----------------------------------------------------------------------------
(* The deferred calls, last in, first out. *)

Undo(d) == defers' = defers \ {d} /\ UNCHANGED <<request, pc, saved, err>>

\* drainAndCloseRows
UnwindRows ==
  /\ pc = "unwind" /\ "rows" \in defers
  /\ conn' \in {[conn EXCEPT !.unread = FALSE], Closed(conn)}
  /\ Undo("rows")
  /\ UNCHANGED sqlTx

\* The Tx is committed or claimed by Tx.awaitDone: tx.Rollback returns at once.
RollbackReturns == UsesDriverTx(call.kind) /\ sqlTx # "live"

\* finalizeAggregateTransaction with ROLLBACK, or tx.Rollback
UnwindTransaction ==
  /\ pc = "unwind" /\ "rows" \notin defers /\ "transaction" \in defers
  /\ IF RollbackReturns
     THEN UNCHANGED <<conn, sqlTx>>
     ELSE /\ conn' \in {[conn EXCEPT !.tx = FALSE, !.deadline = EndDeadline], Closed(conn)}
          /\ sqlTx' = "none"
  /\ Undo("transaction")

\* sql.Conn is closed or discarded only after its Tx was released.
TxReleased == sqlTx # "claimed"

\* A pinned session that ends with an error is discarded, any other is
\* restored (restoreAggregateSessionTimezone) or discarded.
UnwindZone ==
  /\ pc = "unwind" /\ defers \cap {"rows", "transaction"} = {} /\ "zone" \in defers
  /\ TxReleased
  /\ conn' \in {Closed(conn)} \cup
        (IF err THEN {} ELSE {[conn EXCEPT !.zone = saved, !.deadline = "cleanup"]})
  /\ err' = (err \/ ~conn'.open)
  /\ defers' = defers \ {"zone"}
  /\ UNCHANGED <<request, pc, saved, sqlTx>>

\* Variant: the deadline is cleared before the transaction is ended.
UnwindDeadlineFirst ==
  /\ pc = "unwind" /\ "deadline" \in defers
  /\ conn' = [conn EXCEPT !.deadline = "none"]
  /\ Undo("deadline")
  /\ UNCHANGED sqlTx

\* clearDeadline, unless the success path has called it; it waits for nobody.
UnwindDeadline ==
  /\ pc = "unwind" /\ defers = {"deadline"}
  /\ conn' = [conn EXCEPT !.deadline = "none"]
  /\ Undo("deadline")
  /\ UNCHANGED sqlTx

\* conn.Close: an open connection goes back to the pool.
Close ==
  /\ pc = "unwind" /\ defers = {} /\ TxReleased
  /\ pc' = "pooled"
  /\ UNCHANGED <<conn, request, defers, saved, err, sqlTx>>

-----------------------------------------------------------------------------
(* The client and database/sql's goroutines. *)

method == <<call, pc, defers, saved, err>>

\* The client goes away or the context's own deadline passes.
ContextDone ==
  /\ pc # "pooled" /\ ~ctxDone
  /\ ctxDone' = TRUE
  /\ UNCHANGED <<conn, method, sqlTx>>

\* Rows.awaitDone closes the rows: they are drained or the socket is closed.
RowsAwaitDone ==
  /\ ctxDone /\ conn.open /\ conn.unread
  /\ conn' \in {[conn EXCEPT !.unread = FALSE], Closed(conn)}
  /\ UNCHANGED <<method, ctxDone, sqlTx>>

\* Tx.awaitDone takes the Tx, unless Commit or Rollback has.
TxAwaitDone ==
  /\ ctxDone /\ sqlTx = "live"
  /\ sqlTx' = "claimed"
  /\ UNCHANGED <<conn, method, ctxDone>>

\* Its ROLLBACK waits for the rows, and is then sent under whatever deadline
\* the socket has.
TxRollback ==
  /\ sqlTx = "claimed"
  /\ conn.open => ~conn.unread
  /\ conn' \in {[conn EXCEPT !.tx = FALSE], Closed(conn)}
  /\ sqlTx' = "none"
  /\ UNCHANGED <<method, ctxDone>>

Method ==
  \/ BindConnectionDeadline
  \/ Inspect
  \/ SetAggregateUTCSession
  \/ Begin
  \/ Plan
  \/ Query
  \/ Collect
  \/ RowsClose
  \/ Commit
  \/ Restore
  \/ ClearDeadline

Unwind ==
  \/ UnwindRows
  \/ UnwindTransaction
  \/ UnwindZone
  \/ UnwindDeadline
  \/ Close

DatabaseSQL ==
  \/ RowsAwaitDone
  \/ TxAwaitDone
  \/ TxRollback

Next == Checkout \/ Method \/ Unwind \/ ContextDone \/ DatabaseSQL

Spec == Init /\ [][Next]_vars

-----------------------------------------------------------------------------
(* Properties. *)

TypeOK ==
  /\ conn \in Connection
  /\ call \in Calls
  /\ pc \in States
  /\ defers \in SUBSET Deferred
  /\ saved \in {"", "original", "utc"}
  /\ err \in BOOLEAN
  /\ ctxDone \in BOOLEAN
  /\ sqlTx \in TxStates

\* A connection in the pool has the session it was opened with, no
\* transaction, no unread rows and no deadline, whichever statements failed in
\* whichever method before: otherwise it was closed.
PooledIsClean == pc = "pooled" /\ conn.open => conn = Fresh

\* Rows in the stream belong to the transaction the method started and, if the
\* method renders temporal values, to a session pinned to UTC, also while the
\* deferred calls and database/sql's goroutines undo what the method did.
ReadsArePinned ==
  conn.unread /\ conn.open =>
    /\ call.pins <=> conn.zone = "utc"
    /\ (UsesDriverTx(call.kind) \/ UsesStatementTx(call.kind)) <=> conn.tx

\* Commit and Rollback take no context: transactions are ended, rows drained
\* and zones restored while a deadline bounds the socket, as
\* docs/operations.md says (201-202).  The one exception is the ROLLBACK of
\* Tx.awaitDone after the context of a method without a pinned session was
\* done: the deferred clearDeadline does not wait for it.
CleanupIsBounded ==
  [][BindsDeadline(call.kind) /\ pc # "pooled" /\ conn'.open /\ conn'.deadline = "none"
     => /\ conn.unread => conn'.unread
        /\ conn'.zone = conn.zone
        /\ conn.tx /\ ~conn'.tx => sqlTx = "claimed" /\ ctxDone /\ ~call.pins]_vars
=============================================================================
