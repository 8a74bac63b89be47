--------------------------- MODULE MCMySQLSession ---------------------------
(***************************************************************************)
(* All methods, one after the other, on one pooled connection.             *)
(***************************************************************************)
EXTENDS MySQLSession
=============================================================================
