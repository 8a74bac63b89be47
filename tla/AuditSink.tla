----------------------------- MODULE AuditSink ------------------------------
(***************************************************************************)
(* audit.JSONSink: any number of goroutines call Write; one worker         *)
(* goroutine (run) owns the writer.  They share a channel of capacity one, *)
(* an atomic ready flag that is only ever cleared, and one buffered result *)
(* channel per call.  Every select is a choice among its ready cases, the  *)
(* timer of a call can fire at any time once it is armed, the client can   *)
(* cancel at any time, and the writer may block, fail or write only a part *)
(* of a line.                                                              *)
(***************************************************************************)
EXTENDS Naturals, Sequences

CONSTANTS Events,       \* the calls of Write, one event each
          Cancellable,  \* the calls that pass a context the client can cancel
          Unencodable,  \* the events json.Marshal rejects
          None          \* no event

ASSUME SinkAssumption ==
  /\ Cancellable \subseteq Events
  /\ Unencodable \subseteq Events
  /\ None \notin Events

VARIABLES
  pc,         \* pc[e]: where the call of e is
  cancelled,  \* the calls whose own context is done
  expired,    \* the calls whose bounded context has timed out
  ready,      \* JSONSink.ready
  requests,   \* JSONSink.requests: one slot, an event or None
  worker,     \* the worker: what it does, for which event, with what result
  result,     \* result[e]: the call's result channel (capacity one)
  log,        \* the lines in the file
  prior       \* history: prior[e], the calls that had returned when e started

vars == <<pc, cancelled, expired, ready, requests, worker, result, log, prior>>

Returned == {"acked", "failed"}
CallState == {"idle", "called", "enqueue", "await", "timeout"} \cup Returned
Reply == {"empty", "ok", "error", "unavailable"}
Line == [event : Events, whole : BOOLEAN]
At(state, e, reply) == [at |-> state, event |-> e, reply |-> reply]
Idle == At("receive", None, "empty")
Worker == {Idle}
  \cup [at : {"received", "writing"}, event : Events, reply : {"empty"}]
  \cup [at : {"written"}, event : Events, reply : Reply \ {"empty"}]

\* boundedContext.Done(): the call's own context or its timer.
Done(e) == e \in cancelled \cup expired

NewJSONSink ==
  /\ pc = [e \in Events |-> "idle"]
  /\ cancelled = {}
  /\ expired = {}
  /\ ready = TRUE
  /\ requests = None
  /\ worker = Idle
  /\ result = [e \in Events |-> "empty"]
  /\ log = <<>>
  /\ prior = [e \in Events |-> {}]

-----------------------------------------------------------------------------
(* The caller. *)

Goto(e, state) == pc' = [pc EXCEPT ![e] = state]

\* A goroutine calls Write.
Write(e) ==
  /\ pc[e] = "idle"
  /\ Goto(e, "called")
  /\ prior' = [prior EXCEPT ![e] = {f \in Events : pc[f] \in Returned}]
  /\ UNCHANGED <<cancelled, expired, ready, requests, worker, result, log>>

\* Write up to its first select: the context, the ready flag, the encoding.
\* An event that does not encode closes the sink.
Admit(e) ==
  /\ pc[e] = "called"
  /\ \/ /\ e \in cancelled \/ ~ready
        /\ Goto(e, "failed")
        /\ UNCHANGED ready
     \/ /\ e \notin cancelled /\ ready /\ e \in Unencodable
        /\ Goto(e, "failed")
        /\ ready' = FALSE
     \/ /\ e \notin cancelled /\ ready /\ e \notin Unencodable
        /\ Goto(e, "enqueue")
        /\ UNCHANGED ready
  /\ UNCHANGED <<cancelled, expired, requests, worker, result, log, prior>>

\* Variant: the send runs in a goroutine that outlives its call.
LateEnqueue(e) ==
  /\ pc[e] \in {"enqueue", "failed"}
  /\ requests = None
  /\ requests' = e
  /\ Goto(e, IF pc[e] = "enqueue" THEN "await" ELSE pc[e])
  /\ UNCHANGED <<cancelled, expired, ready, worker, result, log, prior>>

\* case s.requests <- request
Enqueue(e) ==
  /\ pc[e] = "enqueue"
  /\ requests = None
  /\ requests' = e
  /\ Goto(e, "await")
  /\ UNCHANGED <<cancelled, expired, ready, worker, result, log, prior>>

\* case err := <-request.result takes the reply out of the channel.
AwaitResult(e) ==
  /\ pc[e] = "await"
  /\ result[e] # "empty"
  /\ Goto(e, IF result[e] = "ok" THEN "acked" ELSE "failed")
  /\ result' = [result EXCEPT ![e] = "empty"]
  /\ UNCHANGED <<cancelled, expired, ready, requests, worker, log, prior>>

\* Variant: a call that timed out waiting for its result is sent again.
ContextDoneRetries(e) ==
  /\ pc[e] \in {"enqueue", "await"}
  /\ Done(e)
  /\ Goto(e, IF pc[e] = "await" THEN "enqueue" ELSE "timeout")
  /\ UNCHANGED <<cancelled, expired, ready, requests, worker, result, log, prior>>

\* Variant: the second select waits for the result only.
ContextDoneEnqueueOnly(e) ==
  /\ pc[e] = "enqueue"
  /\ Done(e)
  /\ Goto(e, "timeout")
  /\ UNCHANGED <<cancelled, expired, ready, requests, worker, result, log, prior>>

\* case <-boundedContext.Done(), in either select
ContextDone(e) ==
  /\ pc[e] \in {"enqueue", "await"}
  /\ Done(e)
  /\ Goto(e, "timeout")
  /\ UNCHANGED <<cancelled, expired, ready, requests, worker, result, log, prior>>

\* Variant: a timeout is returned and the flag is left alone.
WriteTimeoutKeepsReady(e) ==
  /\ pc[e] = "timeout"
  /\ Goto(e, "failed")
  /\ UNCHANGED <<cancelled, expired, ready, requests, worker, result, log, prior>>

\* writeTimeoutError reads the caller's own context again: only a call that
\* was not cancelled closes the sink.
WriteTimeoutError(e) ==
  /\ pc[e] = "timeout"
  /\ Goto(e, "failed")
  /\ ready' = (ready /\ e \in cancelled)
  /\ UNCHANGED <<cancelled, expired, requests, worker, result, log, prior>>

-----------------------------------------------------------------------------
(* The worker. *)

\* Variant: the receive does not wait, as on a closed channel.
ReceiveWithoutRequest ==
  /\ worker.at = "receive"
  /\ worker' = At("received", requests, "empty")
  /\ requests' = None
  /\ UNCHANGED <<pc, cancelled, expired, ready, result, log, prior>>

\* for request := range s.requests
Receive ==
  /\ worker.at = "receive"
  /\ requests # None
  /\ worker' = At("received", requests, "empty")
  /\ requests' = None
  /\ UNCHANGED <<pc, cancelled, expired, ready, result, log, prior>>

\* Variant: a request that is already queued is always written.
CheckReadySkipped ==
  /\ worker.at = "received"
  /\ worker' = At("writing", worker.event, "empty")
  /\ UNCHANGED <<pc, cancelled, expired, ready, requests, result, log, prior>>

\* The ready flag is read again for every request taken from the channel.
CheckReady ==
  /\ worker.at = "received"
  /\ worker' = IF ready THEN At("writing", worker.event, "empty")
                        ELSE At("written", worker.event, "unavailable")
  /\ UNCHANGED <<pc, cancelled, expired, ready, requests, result, log, prior>>

\* Variant: a short write without an error counts as written.
ShortWriteAccepted ==
  /\ worker.at = "writing"
  /\ \E whole \in BOOLEAN :
       log' = Append(log, [event |-> worker.event, whole |-> whole])
  /\ worker' = At("written", worker.event, "ok")
  /\ UNCHANGED <<pc, cancelled, expired, ready, requests, result, prior>>

\* s.writer.Write returns: the whole line, or an error (io.ErrShortWrite
\* included) after none, a part or all of it.
WriterReturns ==
  /\ worker.at = "writing"
  /\ \/ /\ log' = Append(log, [event |-> worker.event, whole |-> TRUE])
        /\ worker' = At("written", worker.event, "ok")
     \/ /\ \/ log' = log
           \/ \E whole \in BOOLEAN :
                log' = Append(log, [event |-> worker.event, whole |-> whole])
        /\ worker' = At("written", worker.event, "error")
  /\ UNCHANGED <<pc, cancelled, expired, ready, requests, result, prior>>

\* request.result <- err waits for room in a channel of capacity one.
Put(e, reply) ==
  /\ result[e] = "empty"
  /\ result' = [result EXCEPT ![e] = reply]

\* Variant: the error is replied and the flag is left alone.
SendReplyKeepsReady ==
  /\ worker.at = "written"
  /\ Put(worker.event, worker.reply)
  /\ worker' = Idle
  /\ UNCHANGED <<pc, cancelled, expired, ready, requests, log, prior>>

\* Variant: the result channel has no buffer.
SendReplyUnbuffered ==
  /\ worker.at = "written"
  /\ pc[worker.event] = "await"
  /\ ready' = (ready /\ worker.reply # "error")
  /\ Put(worker.event, worker.reply)
  /\ worker' = Idle
  /\ UNCHANGED <<pc, cancelled, expired, requests, log, prior>>

\* The flag is cleared before the reply goes into the buffered channel.
SendReply ==
  /\ worker.at = "written"
  /\ ready' = (ready /\ worker.reply # "error")
  /\ Put(worker.event, worker.reply)
  /\ worker' = Idle
  /\ UNCHANGED <<pc, cancelled, expired, requests, log, prior>>

-----------------------------------------------------------------------------
(* The environment: clients go away, timers fire. *)

Cancel(e) ==
  /\ e \in Cancellable \ cancelled
  /\ cancelled' = cancelled \cup {e}
  /\ UNCHANGED <<pc, expired, ready, requests, worker, result, log, prior>>

Expire(e) ==
  /\ pc[e] \in {"enqueue", "await"}
  /\ e \notin expired
  /\ expired' = expired \cup {e}
  /\ UNCHANGED <<pc, cancelled, ready, requests, worker, result, log, prior>>

Caller(e) ==
  \/ Write(e)
  \/ Admit(e)
  \/ Enqueue(e)
  \/ AwaitResult(e)
  \/ ContextDone(e)
  \/ WriteTimeoutError(e)

Run ==
  \/ Receive
  \/ CheckReady
  \/ WriterReturns
  \/ SendReply

Environment(e) ==
  \/ Cancel(e)
  \/ Expire(e)

Next ==
  \/ \E e \in Events : Caller(e)
  \/ Run
  \/ \E e \in Events : Environment(e)

Spec == NewJSONSink /\ [][Next]_vars

\* Goroutines are scheduled and armed timers fire; the writer may block for
\* ever, so WriterReturns has no fairness, and nobody has to call or cancel.
Fairness ==
  /\ \A e \in Events : WF_vars(Admit(e) \/ AwaitResult(e) \/ ContextDone(e) \/ WriteTimeoutError(e))
  /\ \A e \in Events : WF_vars(Expire(e))
  /\ WF_vars(Receive \/ CheckReady \/ SendReply)

FairSpec == Spec /\ Fairness

-----------------------------------------------------------------------------
(* Properties. *)

TypeOK ==
  /\ pc \in [Events -> CallState]
  /\ cancelled \in SUBSET Cancellable
  /\ expired \in SUBSET Events
  /\ ready \in BOOLEAN
  /\ requests \in Events \cup {None}
  /\ worker \in Worker
  /\ result \in [Events -> Reply]
  /\ log \in Seq(Line)
  /\ prior \in [Events -> SUBSET Events]

Durable(e) == \E i \in 1..Len(log) : log[i].event = e /\ log[i].whole

\* A call of Write that returned nil has its whole line in the file, whatever
\* timeouts, cancellations and writer failures happened on the way.
AckedIsDurable == \A e \in Events : pc[e] = "acked" => Durable(e)

\* A part of a line is never followed by another line: after a short write
\* the worker refuses every request that was already queued behind it.
TornLineIsLast == \A i \in 1..Len(log) : ~log[i].whole => i = Len(log)

\* No event is written twice, although its call may have been given up while
\* the worker still held it.
LoggedOnce ==
  \A i, j \in 1..Len(log) : log[i].event = log[j].event => i = j

\* A call that fails has closed the sink, so that readiness reports it,
\* unless its own client cancelled it.
FailureClosesSink ==
  \A e \in Events : pc[e] = "failed" => ~ready \/ e \in cancelled

\* If the call of a had returned before the call of b began, the line of a is
\* not behind the line of b: a decision precedes its completion in the file.
LogFollowsCalls ==
  \A i, j \in 1..Len(log) : i < j => log[j].event \notin prior[log[i].event]

\* Every call returns, also when the writer blocks for ever: by its timer.
EveryCallReturns ==
  \A e \in Events : pc[e] = "called" ~> pc[e] \in Returned

\* A call that no client can cancel is answered or closes the sink: a blocked
\* writer is always reported by readiness.
StallIsReported ==
  \A e \in Events \ Cancellable :
    pc[e] = "called" ~> pc[e] = "acked" \/ ~ready

\* The worker always comes back to the channel or is inside the writer: it
\* replies at most once to each call, so the one place of the result channel
\* is free although the call may have been abandoned and never reads it.
WorkerNeverBlocks == worker.at = "written" ~> worker.at = "receive"

(***************************************************************************)
(* The sink implements the fail-stop log.  The sink is already closed for  *)
(* new lines when the writer has failed and the flag is not yet cleared.   *)
(***************************************************************************)
Status(e) ==
  IF pc[e] \in {"called", "enqueue", "await", "timeout"} THEN "pending" ELSE pc[e]

Fs == INSTANCE AuditLog WITH
        open <- ready /\ worker.reply # "error",
        writing <- IF worker.at = "writing" THEN worker.event ELSE None,
        status <- [e \in Events |-> Status(e)]

ImplementsLog == Fs!LogSpec
=============================================================================
