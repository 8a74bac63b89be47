---------------------------- MODULE MCAuditSink -----------------------------
(***************************************************************************)
(* Three calls: d and c model a decision event (cancellable by the client) *)
(* and a completion event (not cancellable), x one that does not encode.   *)
(***************************************************************************)
EXTENDS AuditSink

CONSTANTS d, c, x

MCEvents == {d, c, x}
MCCancellable == {d}
MCUnencodable == {x}
=============================================================================
