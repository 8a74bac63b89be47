------------------------------ MODULE AuditLog ------------------------------
(***************************************************************************)
(* What the audit sink (internal/audit) promises to the query service: a   *)
(* fail-stop, append-only log of lines, written one at a time.  A call of  *)
(* Write names one event.  A call that returns nil has its whole line in   *)
(* the log; a call that returns an error either closed the sink for good   *)
(* or was given up by its own client; once the sink is closed no new line  *)
(* is begun, so at most the one being written still arrives and a torn     *)
(* line can only be the last one.  AuditSink implements this module.       *)
(***************************************************************************)
EXTENDS Naturals, Sequences

CONSTANTS Events,       \* the calls of Sink.Write, one event each
          Cancellable,  \* the calls whose context the client can cancel
          None          \* no event

ASSUME LogAssumption == Cancellable \subseteq Events /\ None \notin Events

VARIABLES log,      \* the lines in the file: [event, whole]
          open,     \* Sink.Ready(): no line is begun once this is FALSE
          writing,  \* the event whose line is being written, or None
          status    \* of each call: idle, pending, acked or failed

logVars == <<log, open, writing, status>>

Line == [event : Events, whole : BOOLEAN]

Logged(e) == \E i \in 1..Len(log) : log[i].event = e
Durable(e) == \E i \in 1..Len(log) : log[i].event = e /\ log[i].whole

LogTypeOK ==
  /\ log \in Seq(Line)
  /\ open \in BOOLEAN
  /\ writing \in Events \cup {None}
  /\ status \in [Events -> {"idle", "pending", "acked", "failed"}]

LogInit ==
  /\ log = <<>>
  /\ open = TRUE
  /\ writing = None
  /\ status = [e \in Events |-> "idle"]

\* A goroutine calls Write.
Call(e) ==
  /\ status[e] = "idle"
  /\ status' = [status EXCEPT ![e] = "pending"]
  /\ UNCHANGED <<log, open, writing>>

\* The writer is handed the line of a call.  The caller may have given up on
\* it already, so a failed call can still be logged, but never twice.
BeginLine(e) ==
  /\ open
  /\ writing = None
  /\ status[e] \in {"pending", "failed"}
  /\ ~Logged(e)
  /\ writing' = e
  /\ UNCHANGED <<log, open, status>>

\* The whole line is in the file.
EndLine(e) ==
  /\ writing = e
  /\ writing' = None
  /\ log' = Append(log, [event |-> e, whole |-> TRUE])
  /\ UNCHANGED <<open, status>>

\* The writer fails: nothing, a part of the line or all of it is in the file,
\* and the sink is closed in the same step.
FailLine(e) ==
  /\ writing = e
  /\ writing' = None
  /\ \/ log' = log
     \/ \E whole \in BOOLEAN : log' = Append(log, [event |-> e, whole |-> whole])
  /\ open' = FALSE
  /\ UNCHANGED status

\* Write returns nil: only with the whole line in the file.
Ack(e) ==
  /\ status[e] = "pending"
  /\ Durable(e)
  /\ status' = [status EXCEPT ![e] = "acked"]
  /\ UNCHANGED <<log, open, writing>>

\* Write returns an error: the sink is closed from here on, unless the
\* client cancelled the call.
Fail(e) ==
  /\ status[e] = "pending"
  /\ \/ open' = FALSE
     \/ e \in Cancellable /\ open' = open
  /\ status' = [status EXCEPT ![e] = "failed"]
  /\ UNCHANGED <<log, writing>>

LogNext ==
  \E e \in Events :
    \/ Call(e)
    \/ BeginLine(e)
    \/ EndLine(e)
    \/ FailLine(e)
    \/ Ack(e)
    \/ Fail(e)

LogSpec == LogInit /\ [][LogNext]_logVars
=============================================================================
