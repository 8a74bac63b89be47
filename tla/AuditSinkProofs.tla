-------------------------- MODULE AuditSinkProofs ---------------------------
(***************************************************************************)
(* The sink's safety properties for any number of calls, from one          *)
(* inductive invariant, and the proof that it implements AuditLog.         *)
(***************************************************************************)
EXTENDS AuditSink, SequenceTheorems, TLAPS

-----------------------------------------------------------------------------
(* The inductive invariant. *)

Sent == {"await", "timeout"} \cup Returned
Logged(e) == \E i \in 1..Len(log) : log[i].event = e
Holds(e) == worker.at \in {"received", "writing"} /\ worker.event = e

\* What a reply says is true of the file or of the flag, from the moment the
\* worker has it until the caller reads it, however late.
RepliesAreTrue ==
  /\ worker.reply = "ok" => Durable(worker.event)
  /\ worker.reply = "unavailable" => ~ready
  /\ \A e \in Events :
       /\ result[e] = "ok" => Durable(e)
       /\ result[e] \in {"error", "unavailable"} => ~ready

\* An event is at most in one place: its caller, the slot, the worker, the file.
InOnePlace ==
  /\ \A e \in Events : Logged(e) => pc[e] \in Sent
  /\ \A e \in Events : Holds(e) => pc[e] \in Sent /\ ~Logged(e)
  /\ requests # None => pc[requests] \in Sent /\ ~Logged(requests) /\ ~Holds(requests)

\* A call that had returned before another one began is ahead of it in the
\* slot, the worker and the file.
PriorIsAhead ==
  \A e \in Events : \A f \in prior[e] :
    /\ pc[f] \in Returned
    /\ requests = f => ~Logged(e) /\ ~Holds(e)
    /\ Holds(f) => ~Logged(e)

\* Behind a torn line the writer is never called again.
TornStops ==
  \A i \in 1..Len(log) :
    ~log[i].whole => /\ i = Len(log)
                     /\ worker.at # "writing"
                     /\ ready => worker.reply = "error"

Inv ==
  /\ TypeOK
  /\ RepliesAreTrue
  /\ AckedIsDurable
  /\ FailureClosesSink
  /\ TornStops
  /\ InOnePlace
  /\ LoggedOnce
  /\ PriorIsAhead
  /\ LogFollowsCalls

-----------------------------------------------------------------------------
(* What a line adds to the file. *)
LEMMA AppendLine ==
  ASSUME NEW s \in Seq(Line), NEW l \in Line
  PROVE  /\ Append(s, l) \in Seq(Line)
         /\ Len(s) \in Nat
         /\ Len(Append(s, l)) = Len(s) + 1
         /\ \A i \in 1..Len(s) : Append(s, l)[i] = s[i]
         /\ Append(s, l)[Len(s) + 1] = l
  BY AppendProperties, LenProperties

(* The shape of the state: what the channels, the worker and the file hold  *)
(* at every step of Write and run.                                          *)
LEMMA TypeInvariant == TypeOK /\ [Next]_vars => TypeOK'
<1> SUFFICES ASSUME TypeOK, [Next]_vars PROVE TypeOK'
  OBVIOUS
<1> USE SinkAssumption DEF TypeOK, Goto, CallState, Returned
<1>1. ASSUME NEW e \in Events, Write(e) PROVE TypeOK'
  BY <1>1 DEF Write
<1>2. ASSUME NEW e \in Events, Admit(e) PROVE TypeOK'
  BY <1>2 DEF Admit
<1>3. ASSUME NEW e \in Events, Enqueue(e) PROVE TypeOK'
  BY <1>3 DEF Enqueue
<1>4. ASSUME NEW e \in Events, AwaitResult(e) PROVE TypeOK'
  BY <1>4 DEF AwaitResult, Reply
<1>5. ASSUME NEW e \in Events, ContextDone(e) PROVE TypeOK'
  BY <1>5 DEF ContextDone
<1>6. ASSUME NEW e \in Events, WriteTimeoutError(e) PROVE TypeOK'
  BY <1>6 DEF WriteTimeoutError
<1>7. CASE Receive
  BY <1>7 DEF Receive, Worker, Idle, At
<1>8. CASE CheckReady
  BY <1>8 DEF CheckReady, Worker, Idle, At, Reply
<1>9. CASE WriterReturns
  <2>1. worker.event \in Events /\ worker' \in Worker
    BY <1>9 DEF WriterReturns, Worker, Idle, At, Reply
  <2>2. \A w \in BOOLEAN : [event |-> worker.event, whole |-> w] \in Line
    BY <2>1 DEF Line
  <2>3. log' \in Seq(Line)
    <3>1. \A w \in BOOLEAN : Append(log, [event |-> worker.event, whole |-> w]) \in Seq(Line)
      BY <2>2, AppendLine
    <3> QED
      BY <1>9, <3>1 DEF WriterReturns
  <2> QED
    BY <1>9, <2>1, <2>3 DEF WriterReturns
<1>10. CASE SendReply
  BY <1>10 DEF SendReply, Put, Worker, Idle, At, Reply
<1>11. ASSUME NEW e \in Events, Environment(e) PROVE TypeOK'
  BY <1>11 DEF Environment, Cancel, Expire
<1>12. CASE UNCHANGED vars
  BY <1>12 DEF vars
<1> QED
  BY <1>1, <1>2, <1>3, <1>4, <1>5, <1>6, <1>7, <1>8, <1>9, <1>10, <1>11, <1>12
  DEF Next, Caller, Run

(* Every line is the line of an event. *)
LEMMA LoggedEvents ==
  ASSUME TypeOK, NEW i \in 1..Len(log)
  PROVE  log[i].event \in Events /\ Logged(log[i].event)
<1>1. log[i] \in Line
  BY ElementOfSeq DEF TypeOK
<1> QED
  BY <1>1 DEF Line, Logged

(* Only the writer changes the file, by one line. *)
LEMMA SameLog ==
  ASSUME log' = log
  PROVE  \A e \in Events : (Durable(e)' <=> Durable(e)) /\ (Logged(e)' <=> Logged(e))
  BY DEF Durable, Logged

(* What the added line makes durable or logged; nothing else changes. *)
LEMMA LongerLog ==
  ASSUME TypeOK, NEW l \in Line, log' = Append(log, l)
  PROVE  \A e \in Events :
           /\ Durable(e)' <=> Durable(e) \/ (e = l.event /\ l.whole)
           /\ Logged(e)' <=> Logged(e) \/ e = l.event
<1>1. log \in Seq(Line)
  BY DEF TypeOK
<1>2. /\ Len(log) \in Nat /\ Len(log') = Len(log) + 1
      /\ \A i \in 1..Len(log) : log'[i] = log[i]
      /\ log'[Len(log) + 1] = l
  BY <1>1, AppendLine
<1>3. \A i \in 1..Len(log') : i \in 1..Len(log) \/ i = Len(log) + 1
  BY <1>2
<1>4. \A i \in 1..Len(log) : i \in 1..Len(log')
  BY <1>2
<1>5. Len(log) + 1 \in 1..Len(log')
  BY <1>2
<1> QED
  BY <1>2, <1>3, <1>4, <1>5 DEF Durable, Logged

(* What WriterReturns can do to the file, and what the worker then says. *)
LEMMA WriterCases ==
  ASSUME TypeOK, WriterReturns
  PROVE  /\ worker.at = "writing" /\ worker.event \in Events /\ worker.reply = "empty"
         /\ worker'.at = "written" /\ worker'.event = worker.event
         /\ \/ log' = log /\ worker'.reply = "error"
            \/ \E w \in BOOLEAN :
                 /\ [event |-> worker.event, whole |-> w] \in Line
                 /\ log' = Append(log, [event |-> worker.event, whole |-> w])
                 /\ \/ worker'.reply = "error"
                    \/ worker'.reply = "ok" /\ w
<1>1. worker.at = "writing" /\ worker.event \in Events /\ worker.reply = "empty"
  BY DEF TypeOK, WriterReturns, Worker, Idle, At
<1>2. \A w \in BOOLEAN : [event |-> worker.event, whole |-> w] \in Line
  BY <1>1 DEF Line
<1>3. CASE /\ log' = Append(log, [event |-> worker.event, whole |-> TRUE])
           /\ worker' = At("written", worker.event, "ok")
  BY <1>1, <1>2, <1>3 DEF At
<1>4. CASE /\ \/ log' = log
              \/ \E w \in BOOLEAN : log' = Append(log, [event |-> worker.event, whole |-> w])
           /\ worker' = At("written", worker.event, "error")
  BY <1>1, <1>2, <1>4 DEF At
<1> QED
  BY <1>3, <1>4 DEF WriterReturns

(* A caller touches neither the file nor the worker, never opens the sink and *)
(* puts nothing into a result channel.                                        *)
LEMMA CallerFrame ==
  ASSUME TypeOK, NEW e \in Events, Caller(e)
  PROVE  /\ log' = log /\ worker' = worker /\ cancelled' = cancelled
         /\ ready' => ready
         /\ \A f \in Events : result'[f] \in {result[f], "empty"}
<1> USE DEF Caller, Write, Admit, Enqueue, AwaitResult, ContextDone, WriteTimeoutError
<1>1. log' = log /\ worker' = worker /\ cancelled' = cancelled
  OBVIOUS
<1>2. ready' => ready
  OBVIOUS
<1>3. \A f \in Events : result'[f] \in {result[f], "empty"}
  <2>1. result' \in {result, [result EXCEPT ![e] = "empty"]}
    OBVIOUS
  <2> QED
    BY <2>1 DEF TypeOK
<1> QED
  BY <1>1, <1>2, <1>3

(* Replies are true, so that a call that returns nil is durable and one that *)
(* fails has closed the sink or was cancelled.                               *)
LEMMA RepliesStep ==
  Inv /\ [Next]_vars => RepliesAreTrue' /\ AckedIsDurable' /\ FailureClosesSink'
<1> SUFFICES ASSUME Inv, [Next]_vars
             PROVE  RepliesAreTrue' /\ AckedIsDurable' /\ FailureClosesSink'
  OBVIOUS
<1> USE DEF Inv, RepliesAreTrue, AckedIsDurable, FailureClosesSink
<1>0. TypeOK'
  BY TypeInvariant
<1>1. ASSUME NEW e \in Events, Caller(e)
      PROVE  RepliesAreTrue' /\ AckedIsDurable' /\ FailureClosesSink'
  <2>1. /\ log' = log /\ worker' = worker /\ cancelled' = cancelled
        /\ \A f \in Events : result'[f] \in {result[f], "empty"}
    BY <1>1, CallerFrame
  <2>2. ready' => ready
    BY <1>1, CallerFrame
  <2>3. worker.reply = "ok" => worker.event \in Events
    BY DEF TypeOK, Worker, Idle, At
  <2>4. RepliesAreTrue'
    BY <2>1, <2>2, <2>3, SameLog
  <2>5. AckedIsDurable'
    BY <1>1, <2>1, SameLog DEF Caller, Write, Admit, Enqueue, AwaitResult, ContextDone,
       WriteTimeoutError, Goto, TypeOK
  <2>6. FailureClosesSink'
    BY <1>1, <2>1 DEF Caller, Write, Admit, Enqueue, AwaitResult, ContextDone,
       WriteTimeoutError, Goto, TypeOK, Reply
  <2> QED
    BY <2>4, <2>5, <2>6
<1>2. CASE Receive \/ CheckReady
  <2>1. log' = log /\ result' = result /\ pc' = pc /\ cancelled' = cancelled /\ ready' = ready
    BY <1>2 DEF Receive, CheckReady
  <2>2. worker'.reply # "ok" /\ (worker'.reply = "unavailable" => ~ready)
    BY <1>2 DEF Receive, CheckReady, At
  <2> QED
    BY <2>1, <2>2, SameLog
<1>3. CASE WriterReturns
  <2>1. result' = result /\ pc' = pc /\ cancelled' = cancelled /\ ready' = ready
    BY <1>3 DEF WriterReturns
  <2>2. \A e \in Events : Durable(e) => Durable(e)'
    BY <1>3, WriterCases, SameLog, LongerLog
  <2>3. worker'.reply = "ok" => Durable(worker.event)'
    BY <1>3, WriterCases, LongerLog
  <2>4. worker'.event = worker.event /\ worker'.reply # "unavailable"
    BY <1>3, WriterCases
  <2> QED
    BY <2>1, <2>2, <2>3, <2>4
<1>4. CASE SendReply
  <2>1. log' = log /\ pc' = pc /\ cancelled' = cancelled /\ worker' = Idle
        /\ ready' = (ready /\ worker.reply # "error")
        /\ result' = [result EXCEPT ![worker.event] = worker.reply]
    BY <1>4 DEF SendReply, Put
  <2>2. worker'.reply = "empty"
    BY <2>1 DEF Idle, At
  <2> QED
    BY <2>1, <2>2, SameLog DEF TypeOK
<1>5. ASSUME NEW e \in Events, Environment(e)
      PROVE  RepliesAreTrue' /\ AckedIsDurable' /\ FailureClosesSink'
  <2>1. log' = log /\ result' = result /\ worker' = worker /\ pc' = pc /\ ready' = ready
        /\ cancelled \subseteq cancelled'
    BY <1>5 DEF Environment, Cancel, Expire
  <2>2. worker.reply = "ok" => worker.event \in Events
    BY DEF TypeOK, Worker, Idle, At
  <2> QED
    BY <2>1, <2>2, SameLog
<1>6. CASE UNCHANGED vars
  <2>1. worker.reply = "ok" => worker.event \in Events
    BY DEF TypeOK, Worker, Idle, At
  <2> QED
    BY <1>6, <2>1, SameLog DEF vars
<1> QED
  BY <1>1, <1>2, <1>3, <1>4, <1>5, <1>6 DEF Next, Run

(* A torn line stops the worker: the flag is cleared before the next request *)
(* is taken from the channel, and the flag is read again for each of them.   *)
LEMMA TornStep == Inv /\ [Next]_vars => TornStops'
<1> SUFFICES ASSUME Inv, [Next]_vars PROVE TornStops'
  OBVIOUS
<1> USE DEF Inv, TornStops
<1>1. ASSUME NEW e \in Events, Caller(e) PROVE TornStops'
  <2>1. log' = log /\ worker' = worker /\ (ready' => ready)
    BY <1>1, CallerFrame
  <2> QED
    BY <2>1
<1>2. CASE Receive
  BY <1>2 DEF Receive, TypeOK, Worker, Idle, At
<1>3. CASE CheckReady
  <2>1. worker.reply = "empty"
    BY <1>3 DEF CheckReady, TypeOK, Worker, Idle, At
  <2> QED
    BY <1>3, <2>1 DEF CheckReady, At
<1>4. CASE WriterReturns
  <2>1. ready' = ready /\ worker'.at = "written"
    BY <1>4, WriterCases DEF WriterReturns
  <2>2. \A i \in 1..Len(log) : log[i].whole
    BY <1>4, WriterCases
  <2>3. CASE log' = log
    BY <2>2, <2>3
  <2>4. ASSUME NEW w \in BOOLEAN,
               [event |-> worker.event, whole |-> w] \in Line,
               log' = Append(log, [event |-> worker.event, whole |-> w]),
               worker'.reply = "error" \/ w
        PROVE  TornStops'
    <3>1. /\ Len(log) \in Nat /\ Len(log') = Len(log) + 1
          /\ \A i \in 1..Len(log) : log'[i] = log[i]
          /\ log'[Len(log) + 1].whole = w
      BY <2>4, AppendLine DEF TypeOK
    <3>2. \A i \in 1..Len(log') : i \in 1..Len(log) \/ i = Len(log) + 1
      BY <3>1
    <3> QED
      BY <2>1, <2>2, <2>4, <3>1, <3>2
  <2> QED
    BY <1>4, <2>3, <2>4, WriterCases
<1>5. CASE SendReply
  BY <1>5 DEF SendReply, Idle, At
<1>6. ASSUME NEW e \in Events, Environment(e) PROVE TornStops'
  BY <1>6 DEF Environment, Cancel, Expire
<1>7. CASE UNCHANGED vars
  BY <1>7 DEF vars
<1> QED
  BY <1>1, <1>2, <1>3, <1>4, <1>5, <1>6, <1>7 DEF Next, Run

(* An event moves from its caller to the slot, the worker and the file, and  *)
(* is never in two of them; a caller that gave up does not send again.       *)
LEMMA PlaceStep == Inv /\ [Next]_vars => InOnePlace' /\ LoggedOnce'
<1> SUFFICES ASSUME Inv, [Next]_vars PROVE InOnePlace' /\ LoggedOnce'
  OBVIOUS
<1> USE SinkAssumption DEF Inv, InOnePlace
<1>1. ASSUME NEW e \in Events, Write(e) \/ Admit(e) \/ AwaitResult(e) \/ ContextDone(e)
                               \/ WriteTimeoutError(e) \/ Environment(e)
      PROVE  InOnePlace' /\ LoggedOnce'
  <2>1. log' = log /\ worker' = worker /\ requests' = requests
    BY <1>1 DEF Write, Admit, AwaitResult, ContextDone, WriteTimeoutError,
                Environment, Cancel, Expire
  <2>2. \A f \in Events : pc[f] \in Sent => pc'[f] \in Sent
    BY <1>1 DEF Write, Admit, AwaitResult, ContextDone, WriteTimeoutError,
                Environment, Cancel, Expire, Goto, TypeOK, Sent, Returned
  <2> QED
    BY <2>1, <2>2, SameLog DEF Holds, LoggedOnce, TypeOK
<1>2. ASSUME NEW e \in Events, Enqueue(e) PROVE InOnePlace' /\ LoggedOnce'
  <2>1. log' = log /\ worker' = worker /\ requests' = e /\ pc[e] \notin Sent
    BY <1>2 DEF Enqueue, Sent, Returned
  <2>2. \A f \in Events : pc[f] \in Sent => pc'[f] \in Sent
    BY <1>2 DEF Enqueue, Goto, TypeOK, Sent, Returned
  <2>3. pc'[e] \in Sent
    BY <1>2 DEF Enqueue, Goto, TypeOK, Sent
  <2> QED
    BY <2>1, <2>2, <2>3, SameLog DEF Holds, LoggedOnce
<1>3. CASE Receive
  <2>1. log' = log /\ pc' = pc /\ requests' = None /\ requests \in Events
        /\ worker'.at = "received" /\ worker'.event = requests
    BY <1>3 DEF Receive, At, TypeOK
  <2> QED
    BY <2>1, SameLog DEF Holds, LoggedOnce
<1>4. CASE CheckReady
  <2>1. log' = log /\ pc' = pc /\ requests' = requests
    BY <1>4 DEF CheckReady
  <2>2. \A e : Holds(e)' => Holds(e)
    BY <1>4 DEF CheckReady, At, Holds
  <2> QED
    BY <2>1, <2>2, SameLog DEF LoggedOnce, TypeOK
<1>5. CASE WriterReturns
  <2>1. pc' = pc /\ requests' = requests
    BY <1>5 DEF WriterReturns
  <2>2. worker.event \in Events /\ Holds(worker.event) /\ \A e : ~Holds(e)'
    BY <1>5, WriterCases DEF Holds
  <2>3. CASE log' = log
    BY <2>1, <2>2, <2>3, SameLog DEF LoggedOnce, TypeOK
  <2>4. ASSUME NEW w \in BOOLEAN,
               [event |-> worker.event, whole |-> w] \in Line,
               log' = Append(log, [event |-> worker.event, whole |-> w])
        PROVE  InOnePlace' /\ LoggedOnce'
    <3>1. \A e \in Events : Logged(e)' <=> Logged(e) \/ e = worker.event
      BY <2>4, LongerLog
    <3>2. InOnePlace'
      BY <2>1, <2>2, <3>1 DEF TypeOK
    <3>3. /\ Len(log) \in Nat /\ Len(log') = Len(log) + 1
          /\ \A i \in 1..Len(log) : log'[i] = log[i]
          /\ log'[Len(log) + 1].event = worker.event
      BY <2>4, AppendLine DEF TypeOK
    <3>4. \A i \in 1..Len(log') : i \in 1..Len(log) \/ i = Len(log) + 1
      BY <3>3
    <3>5. \A i \in 1..Len(log) : log[i].event # worker.event
      BY <2>2 DEF Logged
    <3>6. LoggedOnce'
      BY <3>3, <3>4, <3>5 DEF LoggedOnce
    <3> QED
      BY <3>2, <3>6
  <2> QED
    BY <1>5, <2>3, <2>4, WriterCases
<1>6. CASE SendReply
  <2>1. log' = log /\ pc' = pc /\ requests' = requests /\ \A e : ~Holds(e)'
    BY <1>6 DEF SendReply, Idle, At, Holds
  <2> QED
    BY <2>1, SameLog DEF LoggedOnce, TypeOK
<1>7. CASE UNCHANGED vars
  BY <1>7, SameLog DEF vars, Holds, LoggedOnce, TypeOK
<1> QED
  BY <1>1, <1>2, <1>3, <1>4, <1>5, <1>6, <1>7 DEF Next, Caller, Run

(* The slot and the worker keep the order of the calls: a call that has      *)
(* returned is never enqueued again, so nothing overtakes it.                *)
LEMMA OrderStep == Inv /\ [Next]_vars => PriorIsAhead' /\ LogFollowsCalls'
<1> SUFFICES ASSUME Inv, [Next]_vars PROVE PriorIsAhead' /\ LogFollowsCalls'
  OBVIOUS
<1> USE SinkAssumption DEF Inv, PriorIsAhead
<1>a. prior \in [Events -> SUBSET Events] /\ pc \in [Events -> CallState]
      /\ requests \in Events \cup {None}
  BY DEF TypeOK
<1>1. ASSUME NEW e \in Events, Write(e) PROVE PriorIsAhead' /\ LogFollowsCalls'
  <2>1. log' = log /\ worker' = worker /\ requests' = requests
        /\ \A f \in Events : pc[f] \in Returned => pc'[f] \in Returned
    BY <1>1, <1>a DEF Write, Goto, Returned
  <2>2. prior' = [prior EXCEPT ![e] = {f \in Events : pc[f] \in Returned}]
    BY <1>1 DEF Write
  <2>3. ~Logged(e) /\ ~Holds(e)
    BY <1>1 DEF Write, InOnePlace, Sent, Returned
  <2>4. \A x : Holds(x)' <=> Holds(x)
    BY <2>1 DEF Holds
  <2>5. PriorIsAhead'
    BY <1>a, <2>1, <2>2, <2>3, <2>4, SameLog
  <2>6. \A i \in 1..Len(log) : log[i].event # e
    BY <2>3 DEF Logged
  <2>7. \A i \in 1..Len(log) : log[i].event \in Events
    BY LoggedEvents
  <2>8. LogFollowsCalls'
    BY <1>a, <2>1, <2>2, <2>6, <2>7 DEF LogFollowsCalls
  <2> QED
    BY <2>5, <2>8
<1>2. ASSUME NEW e \in Events, Admit(e) \/ AwaitResult(e) \/ ContextDone(e)
                               \/ WriteTimeoutError(e) \/ Environment(e)
      PROVE  PriorIsAhead' /\ LogFollowsCalls'
  <2>1. log' = log /\ worker' = worker /\ requests' = requests /\ prior' = prior
    BY <1>2 DEF Admit, AwaitResult, ContextDone, WriteTimeoutError, Environment, Cancel, Expire
  <2>2. \A f \in Events : pc[f] \in Returned => pc'[f] \in Returned
    BY <1>2, <1>a DEF Admit, AwaitResult, ContextDone, WriteTimeoutError,
                      Environment, Cancel, Expire, Goto, Returned
  <2>3. \A x : Holds(x)' <=> Holds(x)
    BY <2>1 DEF Holds
  <2>4. PriorIsAhead'
    BY <1>a, <2>1, <2>2, <2>3, SameLog
  <2> QED
    BY <2>1, <2>4 DEF LogFollowsCalls
<1>3. ASSUME NEW e \in Events, Enqueue(e) PROVE PriorIsAhead' /\ LogFollowsCalls'
  <2>1. log' = log /\ worker' = worker /\ requests' = e /\ prior' = prior
        /\ pc[e] \notin Returned
    BY <1>3 DEF Enqueue, Returned
  <2>2. \A f \in Events : pc[f] \in Returned => pc'[f] \in Returned
    BY <1>3, <1>a DEF Enqueue, Goto, Returned
  <2>3. \A x : Holds(x)' <=> Holds(x)
    BY <2>1 DEF Holds
  <2>4. PriorIsAhead'
    BY <1>a, <2>1, <2>2, <2>3, SameLog
  <2> QED
    BY <2>1, <2>4 DEF LogFollowsCalls
<1>4. CASE Receive
  <2>1. log' = log /\ pc' = pc /\ prior' = prior /\ requests' = None /\ requests \in Events
    BY <1>4, <1>a DEF Receive
  <2>2. \A x : Holds(x)' <=> x = requests
    BY <1>4 DEF Receive, At, Holds
  <2>3. PriorIsAhead'
    BY <1>a, <2>1, <2>2, SameLog
  <2> QED
    BY <2>1, <2>3 DEF LogFollowsCalls
<1>5. CASE CheckReady \/ SendReply
  <2>1. log' = log /\ pc' = pc /\ prior' = prior /\ requests' = requests
    BY <1>5 DEF CheckReady, SendReply
  <2>2. \A x : Holds(x)' => Holds(x)
    BY <1>5 DEF CheckReady, SendReply, Idle, At, Holds
  <2>3. PriorIsAhead'
    BY <1>a, <2>1, <2>2, SameLog
  <2> QED
    BY <2>1, <2>3 DEF LogFollowsCalls
<1>6. CASE WriterReturns
  <2>1. pc' = pc /\ requests' = requests /\ prior' = prior
    BY <1>6 DEF WriterReturns
  <2>2. worker.event \in Events /\ Holds(worker.event) /\ \A x : ~Holds(x)'
    BY <1>6, WriterCases DEF Holds
  <2>3. CASE log' = log
    <3>1. PriorIsAhead'
      BY <1>a, <2>1, <2>2, <2>3, SameLog
    <3> QED
      BY <2>1, <2>3, <3>1 DEF LogFollowsCalls
  <2>4. ASSUME NEW w \in BOOLEAN,
               [event |-> worker.event, whole |-> w] \in Line,
               log' = Append(log, [event |-> worker.event, whole |-> w])
        PROVE  PriorIsAhead' /\ LogFollowsCalls'
    <3>1. \A e \in Events : Logged(e)' <=> Logged(e) \/ e = worker.event
      BY <2>4, LongerLog
    <3>2. PriorIsAhead'
      BY <1>a, <2>1, <2>2, <3>1
    <3>3. /\ Len(log) \in Nat /\ Len(log') = Len(log) + 1
          /\ \A i \in 1..Len(log) : log'[i] = log[i]
          /\ log'[Len(log) + 1].event = worker.event
      BY <2>4, AppendLine DEF TypeOK
    <3>4. \A i \in 1..Len(log) : log[i].event \in Events /\ Logged(log[i].event)
      BY LoggedEvents
    <3>5. \A i \in 1..Len(log) : worker.event \notin prior[log[i].event]
      BY <2>2, <3>4
    <3>6. \A i, j \in 1..Len(log') :
             i < j => i \in 1..Len(log) /\ (j \in 1..Len(log) \/ j = Len(log) + 1)
      BY <3>3
    <3>7. LogFollowsCalls'
      BY <2>1, <3>3, <3>5, <3>6 DEF LogFollowsCalls
    <3> QED
      BY <3>2, <3>7
  <2> QED
    BY <1>6, <2>3, <2>4, WriterCases
<1>7. CASE UNCHANGED vars
  <2>1. \A x : Holds(x)' <=> Holds(x)
    BY <1>7 DEF vars, Holds
  <2>2. PriorIsAhead'
    BY <1>7, <1>a, <2>1, SameLog DEF vars
  <2> QED
    BY <1>7, <2>2 DEF vars, LogFollowsCalls
<1> QED
  BY <1>1, <1>2, <1>3, <1>4, <1>5, <1>6, <1>7 DEF Next, Caller, Run

(* NewJSONSink starts with an empty file, no calls and an idle worker. *)
LEMMA InitInv == NewJSONSink => Inv
  BY SinkAssumption DEF NewJSONSink, Inv, TypeOK, RepliesAreTrue, AckedIsDurable,
     FailureClosesSink, TornStops, InOnePlace, LoggedOnce, PriorIsAhead, LogFollowsCalls,
     Logged, Holds, Durable, Idle, At, Worker, Reply, CallState, Returned

(* The invariant holds in every reachable state of the sink, for any number  *)
(* of callers and events.                                                    *)
THEOREM Invariant == Spec => []Inv
<1>1. Inv /\ [Next]_vars => Inv'
  BY TypeInvariant, RepliesStep, TornStep, PlaceStep, OrderStep DEF Inv
<1> QED
  BY InitInv, <1>1, PTL DEF Spec

(* The types of the sink's state, for every set of events. *)
THEOREM TypeSafety == Spec => []TypeOK
  BY Invariant, PTL DEF Inv

(* A call of Write that returned nil has its whole line in the file. *)
THEOREM AcknowledgedLinesAreDurable == Spec => []AckedIsDurable
  BY Invariant, PTL DEF Inv

(* A part of a line, left by a failed write, is the end of the file. *)
THEOREM NothingFollowsATornLine == Spec => []TornLineIsLast
<1>1. Inv => TornLineIsLast
  BY DEF Inv, TornStops, TornLineIsLast
<1> QED
  BY Invariant, <1>1, PTL

(* No event is written twice, also when its caller gave up on it. *)
THEOREM EventsAreLoggedOnce == Spec => []LoggedOnce
  BY Invariant, PTL DEF Inv

(* A failed call has closed the sink or was cancelled by its client. *)
THEOREM FailuresCloseTheSink == Spec => []FailureClosesSink
  BY Invariant, PTL DEF Inv

(* The file has the lines of successive calls in the order of the calls. *)
THEOREM LinesFollowCalls == Spec => []LogFollowsCalls
  BY Invariant, PTL DEF Inv

-----------------------------------------------------------------------------
(* The reply never waits.  The safety core of WorkerNeverBlocks: an event    *)
(* that is in the slot or with the worker has an empty result channel.       *)

WithWorker(e) == worker.at # "receive" /\ worker.event = e

\* Each call is replied to at most once.
OneReply ==
  \A e \in Events :
    /\ requests = e => ~WithWorker(e)
    /\ requests = e \/ WithWorker(e) => pc[e] \in Sent /\ result[e] = "empty"
    /\ result[e] # "empty" => pc[e] \in Sent

(* Every step keeps the request, the worker's event and the reply apart. *)
LEMMA OneReplyStep == TypeOK /\ OneReply /\ [Next]_vars => OneReply'
<1> SUFFICES ASSUME TypeOK, OneReply, [Next]_vars PROVE OneReply'
  OBVIOUS
<1> USE SinkAssumption DEF TypeOK, OneReply, WithWorker, Goto, Sent, Returned
<1>1. ASSUME NEW e \in Events, Write(e) \/ Admit(e) \/ ContextDone(e) \/ WriteTimeoutError(e)
      PROVE  OneReply'
  BY <1>1 DEF Write, Admit, ContextDone, WriteTimeoutError
<1>2. ASSUME NEW e \in Events, Enqueue(e) PROVE OneReply'
  BY <1>2 DEF Enqueue
<1>3. ASSUME NEW e \in Events, AwaitResult(e) PROVE OneReply'
  BY <1>3 DEF AwaitResult
<1>4. CASE Receive
  BY <1>4 DEF Receive, At
<1>5. CASE CheckReady \/ WriterReturns
  BY <1>5 DEF CheckReady, WriterReturns, At
<1>6. CASE SendReply
  BY <1>6 DEF SendReply, Put, Idle, At, Worker
<1>7. ASSUME NEW e \in Events, Environment(e) PROVE OneReply'
  BY <1>7 DEF Environment, Cancel, Expire
<1>8. CASE UNCHANGED vars
  BY <1>8 DEF vars
<1> QED
  BY <1>1, <1>2, <1>3, <1>4, <1>5, <1>6, <1>7, <1>8 DEF Next, Caller, Run

(* When the worker has a reply to send, the result channel of its call has   *)
(* room: the send in run never waits for a caller that may have gone away.   *)
THEOREM RepliesNeverWait == Spec => [](worker.at = "written" => result[worker.event] = "empty")
<1>1. NewJSONSink => OneReply
  <2> SUFFICES ASSUME NewJSONSink PROVE OneReply
    OBVIOUS
  <2>1. worker.at = "receive"
    BY DEF NewJSONSink, Idle, At
  <2>2. requests \notin Events
    BY SinkAssumption DEF NewJSONSink
  <2>3. \A e \in Events : result[e] = "empty"
    BY DEF NewJSONSink
  <2> QED
    BY <2>1, <2>2, <2>3 DEF OneReply, WithWorker
<1>2. TypeOK /\ OneReply => (worker.at = "written" => result[worker.event] = "empty")
  BY DEF TypeOK, OneReply, WithWorker, Worker, Idle, At
<1> QED
  BY <1>1, <1>2, OneReplyStep, TypeSafety, PTL DEF Spec

-----------------------------------------------------------------------------
(* Refinement: every step of the sink is a step of the fail-stop log or      *)
(* changes nothing the log shows.                                            *)

Open == ready /\ worker.reply # "error"
Writing == IF worker.at = "writing" THEN worker.event ELSE None
Statuses == [e \in Events |-> Status(e)]

(* A step that changes none of the four is a stutter of the log. *)
LEMMA Stutter ==
  ASSUME log' = log, Open' = Open, Writing' = Writing, Statuses' = Statuses
  PROVE  UNCHANGED Fs!logVars
  BY DEF Fs!logVars, Open, Writing, Statuses

(* All the steps inside a pending call leave its status alone. *)
LEMMA StatusStep ==
  ASSUME TypeOK, NEW e \in Events, NEW s, pc' = [pc EXCEPT ![e] = s]
  PROVE  Statuses' = [Statuses EXCEPT ![e] = IF s \in {"called", "enqueue", "await", "timeout"}
                                             THEN "pending" ELSE s]
  BY DEF TypeOK, Statuses, Status

(* A step of a goroutine in Write is a step of the abstract log or stutters. *)
LEMMA CallerRefines ==
  ASSUME Inv, NEW e \in Events, Caller(e)
  PROVE  [Fs!LogNext]_(Fs!logVars)
<1> USE DEF Inv
<1>a. log' = log /\ worker' = worker /\ Writing' = Writing
  BY CallerFrame DEF Writing
<1>b. Open' = (ready' /\ worker.reply # "error")
  BY <1>a DEF Open
<1>c. Statuses[e] = Status(e)
  BY DEF Statuses
<1>1. CASE Write(e)
  <2>1. Statuses[e] = "idle" /\ Statuses' = [Statuses EXCEPT ![e] = "pending"]
    BY <1>1, <1>c, StatusStep DEF Write, Goto, Status
  <2>2. Open' = Open
    BY <1>1, <1>b DEF Write, Open
  <2>3. Fs!Call(e)
    BY <1>a, <2>1, <2>2 DEF Fs!Call, Open, Writing, Statuses
  <2> QED
    BY <2>3 DEF Fs!LogNext
<1>2. CASE Enqueue(e) \/ ContextDone(e) \/ (Admit(e) /\ pc'[e] = "enqueue")
  <2>1. Statuses' = Statuses
    BY <1>2, StatusStep DEF Enqueue, ContextDone, Admit, Goto, TypeOK, Statuses, Status
  <2>2. Open' = Open
    BY <1>2, <1>b DEF Enqueue, ContextDone, Admit, Open, Goto, TypeOK
  <2> QED
    BY <1>a, <2>1, <2>2, Stutter
<1>3. CASE pc[e] \in {"called", "await", "timeout"} /\ pc' = [pc EXCEPT ![e] = "failed"]
           /\ (ready' = FALSE \/ (ready' = ready /\ e \in cancelled))
  <2>1. Statuses[e] = "pending" /\ Statuses' = [Statuses EXCEPT ![e] = "failed"]
    BY <1>3, <1>c, StatusStep DEF Status
  <2>2. Open' = FALSE \/ (e \in Cancellable /\ Open' = Open)
    BY <1>3, <1>b DEF Open, TypeOK
  <2>3. Fs!Fail(e)
    BY <1>a, <2>1, <2>2 DEF Fs!Fail, Open, Writing, Statuses
  <2> QED
    BY <2>3 DEF Fs!LogNext
<1>4. CASE AwaitResult(e) /\ result[e] = "ok"
  <2>1. Statuses[e] = "pending" /\ Statuses' = [Statuses EXCEPT ![e] = "acked"]
    BY <1>4, <1>c, StatusStep DEF AwaitResult, Goto, Status
  <2>2. Open' = Open
    BY <1>4, <1>b DEF AwaitResult, Open
  <2>3. Fs!Durable(e)
    BY <1>4 DEF RepliesAreTrue, Durable, Fs!Durable
  <2>4. Fs!Ack(e)
    BY <1>a, <2>1, <2>2, <2>3 DEF Fs!Ack, Open, Writing, Statuses
  <2> QED
    BY <2>4 DEF Fs!LogNext
<1>5. CASE Admit(e) /\ pc'[e] # "enqueue"
  BY <1>3, <1>5 DEF Admit, Goto, TypeOK
<1>6. CASE AwaitResult(e) /\ result[e] # "ok"
  BY <1>3, <1>6 DEF AwaitResult, Goto, TypeOK, RepliesAreTrue, Reply
<1>7. CASE WriteTimeoutError(e)
  BY <1>3, <1>7 DEF WriteTimeoutError, Goto, TypeOK
<1> QED
  BY <1>1, <1>2, <1>4, <1>5, <1>6, <1>7 DEF Caller

(* A step of the run goroutine is a step of the abstract log or stutters. *)
LEMMA WorkerRefines ==
  ASSUME Inv, Run
  PROVE  [Fs!LogNext]_(Fs!logVars)
<1> USE DEF Inv
<1>a. pc' = pc /\ Statuses' = Statuses
  BY DEF Run, Receive, CheckReady, WriterReturns, SendReply, Statuses, Status
<1>1. CASE Receive
  <2>1. log' = log /\ Writing' = Writing /\ Open' = Open
    BY <1>1 DEF Receive, At, Idle, Worker, TypeOK, Open, Writing
  <2> QED
    BY <1>a, <2>1, Stutter
<1>2. CASE CheckReady /\ ~ready
  <2>1. log' = log /\ Writing' = Writing /\ Open' = Open
    BY <1>2 DEF CheckReady, At, Open, Writing
  <2> QED
    BY <1>a, <2>1, Stutter
<1>3. CASE CheckReady /\ ready
  <2>1. worker.event \in Events /\ worker.reply = "empty" /\ Holds(worker.event)
    BY <1>3 DEF CheckReady, At, Idle, Worker, TypeOK, Holds
  <2>2. Open /\ Open' = Open /\ Writing = None /\ Writing' = worker.event /\ log' = log
    BY <1>3, <2>1 DEF CheckReady, At, Open, Writing
  <2>3. ~Fs!Logged(worker.event)
    BY <2>1 DEF InOnePlace, Logged, Fs!Logged
  <2>4. ~Durable(worker.event)
    BY <2>1 DEF InOnePlace, Logged, Durable
  <2>5. Statuses[worker.event] \in {"pending", "failed"}
    BY <2>1, <2>4 DEF InOnePlace, AckedIsDurable, Statuses, Status, Sent, Returned
  <2>6. Fs!BeginLine(worker.event)
    BY <1>a, <2>1, <2>2, <2>3, <2>5 DEF Fs!BeginLine, Open, Writing, Statuses
  <2> QED
    BY <2>1, <2>6 DEF Fs!LogNext
<1>4. CASE WriterReturns
  <2>1. worker.event \in Events /\ Writing = worker.event /\ Writing' = None
        /\ worker.reply = "empty" /\ ready' = ready
    BY <1>4, WriterCases DEF Writing, WriterReturns
  <2>2. CASE worker'.reply = "ok"
    <3>1. Open' = Open
      BY <2>1, <2>2 DEF Open
    <3>2. log' = Append(log, [event |-> worker.event, whole |-> TRUE])
      BY <1>4, <2>2 DEF WriterReturns, At
    <3>3. Fs!EndLine(worker.event)
      BY <1>a, <2>1, <3>1, <3>2 DEF Fs!EndLine, Open, Writing, Statuses
    <3> QED
      BY <2>1, <3>3 DEF Fs!LogNext
  <2>3. CASE worker'.reply = "error"
    <3>1. Open' = FALSE
      BY <2>3 DEF Open
    <3>2. \/ log' = log
          \/ \E whole \in BOOLEAN : log' = Append(log, [event |-> worker.event, whole |-> whole])
      BY <1>4 DEF WriterReturns
    <3>3. Fs!FailLine(worker.event)
      BY <1>a, <2>1, <3>1, <3>2 DEF Fs!FailLine, Open, Writing, Statuses
    <3> QED
      BY <2>1, <3>3 DEF Fs!LogNext
  <2> QED
    BY <1>4, <2>2, <2>3, WriterCases
<1>5. CASE SendReply
  <2>1. log' = log /\ Writing' = Writing /\ Open' = Open
    BY <1>5 DEF SendReply, At, Idle, Open, Writing
  <2> QED
    BY <1>a, <2>1, Stutter
<1> QED
  BY <1>1, <1>2, <1>3, <1>4, <1>5 DEF Run

(* The sink implements the fail-stop log the query service relies on, for    *)
(* every set of events, cancellable or not.                                  *)
THEOREM SinkImplementsLog == Spec => ImplementsLog
<1>1. NewJSONSink => Fs!LogInit
  BY DEF NewJSONSink, Fs!LogInit, Idle, At, Status
<1>2. ASSUME Inv, NEW e \in Events, Environment(e)
      PROVE  [Fs!LogNext]_(Fs!logVars)
  <2>1. log' = log /\ Writing' = Writing /\ Open' = Open /\ Statuses' = Statuses
    BY <1>2 DEF Environment, Cancel, Expire, Writing, Open, Statuses, Status
  <2> QED
    BY <2>1, Stutter
<1>3. ASSUME UNCHANGED vars
      PROVE  [Fs!LogNext]_(Fs!logVars)
  <2>1. log' = log /\ Writing' = Writing /\ Open' = Open /\ Statuses' = Statuses
    BY <1>3 DEF vars, Writing, Open, Statuses, Status
  <2> QED
    BY <2>1, Stutter
<1>4. Inv /\ [Next]_vars => [Fs!LogNext]_(Fs!logVars)
  BY <1>2, <1>3, CallerRefines, WorkerRefines DEF Next
<1> QED
  BY Invariant, <1>1, <1>4, PTL DEF Spec, ImplementsLog, Fs!LogSpec
=============================================================================
