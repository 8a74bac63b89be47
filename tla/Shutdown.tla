------------------------------ MODULE Shutdown ------------------------------
(***************************************************************************)
(* The start and the end of the process (cmd/quordon/main.go): the main    *)
(* goroutine, which serves until the listener is closed, the goroutine     *)
(* that waits for a signal and shuts the server down under a grace period, *)
(* and the requests that are in their handlers meanwhile.  net/http is     *)
(* external: ListenAndServe returns as soon as a shutdown begins, Shutdown *)
(* waits for the handlers, Close cuts their connections.                   *)
(***************************************************************************)
EXTENDS Naturals

CONSTANT Requests

VARIABLES
  main,             \* the main goroutine: "starting", "serve", "listening", "select", "await", "exited"
  status,           \* of the process: "none" yet, "ended" (0), "failed" (1) or "killed"
  stopper,          \* the other goroutine: "signal", "begun", "shutdown", "done"
  signalled,
  shutdownStarted,  \* the channel is closed
  shutdownDone,     \* the channel's one slot: Empty, or what Shutdown returned
  expired,          \* the grace period is over
  request           \* request -> "none", "running", "answered" or "cut"

goroutines == <<main, status, stopper>>
channels == <<shutdownStarted, shutdownDone>>
vars == <<goroutines, signalled, channels, expired, request>>

Empty == "empty"
Running == {r \in Requests : request[r] = "running"}
Cut == [r \in Requests |-> IF r \in Running THEN "cut" ELSE request[r]]
Alive == main # "exited"
ShuttingDown == stopper \in {"shutdown", "done"}

\* The process ends, its handlers with it; the pools are closed before.
Exit(code) == main' = "exited" /\ status' = code /\ request' = Cut

-----------------------------------------------------------------------------
(* The main goroutine. *)

\* startGateway, up to NotifyContext.
Start ==
  /\ main = "starting"
  /\ main' = "serve"
  /\ UNCHANGED <<status, stopper, signalled, channels, expired, request>>

\* A datasource or query-shape discovery is invalid.
StartFails ==
  /\ main = "starting"
  /\ Exit("failed")
  /\ UNCHANGED <<stopper, signalled, channels, expired>>

\* ListenAndServe: a server that is shutting down does not listen.
ListenAndServe ==
  /\ main = "serve"
  /\ main' = IF ShuttingDown THEN "select" ELSE "listening"
  /\ UNCHANGED <<status, stopper, signalled, channels, expired, request>>

\* The address is in use, or Accept fails for good: an error of its own.
ServeFails ==
  /\ main \in {"serve", "listening"} /\ ~ShuttingDown
  /\ Exit("failed")
  /\ UNCHANGED <<stopper, signalled, channels, expired>>

\* ErrServerClosed, while handlers may still run.
ServerClosed ==
  /\ main = "listening" /\ ShuttingDown
  /\ main' = "select"
  /\ UNCHANGED <<status, stopper, signalled, channels, expired, request>>

\* Variant: the end of ListenAndServe is taken for the end of the shutdown.
SelectReturns ==
  /\ main = "select"
  /\ Exit("ended")
  /\ UNCHANGED <<stopper, signalled, channels, expired>>

\* The default of the select is there for a server closed by someone else.
Select ==
  /\ main = "select"
  /\ IF shutdownStarted THEN main' = "await" /\ UNCHANGED <<status, request>>
     ELSE Exit("ended")
  /\ UNCHANGED <<stopper, signalled, channels, expired>>

\* The result of Shutdown; after an error the connections are closed.
AwaitShutdown ==
  /\ main = "await" /\ shutdownDone # Empty
  /\ shutdownDone' = Empty
  /\ Exit(IF shutdownDone = "graceful" THEN "ended" ELSE "failed")
  /\ UNCHANGED <<stopper, signalled, shutdownStarted, expired>>

-----------------------------------------------------------------------------
(* The other goroutine, which serveUntilShutdown starts. *)

BeginShutdown ==
  /\ Alive /\ main # "starting" /\ stopper = "signal" /\ signalled
  /\ shutdownStarted' = TRUE /\ stopper' = "begun"
  /\ UNCHANGED <<main, status, signalled, shutdownDone, expired, request>>

\* Shutdown is called: the listener is closed, the grace period runs.
CallShutdown ==
  /\ Alive /\ stopper = "begun"
  /\ stopper' = "shutdown"
  /\ UNCHANGED <<main, status, signalled, channels, expired, request>>

\* Shutdown returns when no handler runs, or when its context ends.
EndShutdown ==
  /\ Alive /\ stopper = "shutdown" /\ shutdownDone = Empty
  /\ \/ Running = {} /\ shutdownDone' = "graceful"
     \/ expired /\ shutdownDone' = "timeout"
  /\ stopper' = "done"
  /\ UNCHANGED <<main, status, signalled, shutdownStarted, expired, request>>

-----------------------------------------------------------------------------
(* Requests, the signal and time. *)

\* On a connection accepted before the listener was closed.
Accept(r) ==
  /\ main = "listening" /\ stopper # "done" /\ request[r] = "none"
  /\ request' = [request EXCEPT ![r] = "running"]
  /\ UNCHANGED <<goroutines, signalled, channels, expired>>

Answer(r) ==
  /\ Alive /\ request[r] = "running"
  /\ request' = [request EXCEPT ![r] = "answered"]
  /\ UNCHANGED <<goroutines, signalled, channels, expired>>

\* Before NotifyContext a signal kills the process; a second one is absorbed.
Signal ==
  /\ Alive /\ ~signalled
  /\ signalled' = TRUE
  /\ IF main = "starting" THEN Exit("killed") ELSE UNCHANGED <<main, status, request>>
  /\ UNCHANGED <<stopper, channels, expired>>

Expire ==
  /\ Alive /\ stopper = "shutdown" /\ ~expired
  /\ expired' = TRUE
  /\ UNCHANGED <<goroutines, signalled, channels, request>>

-----------------------------------------------------------------------------

Init ==
  /\ main = "starting" /\ status = "none" /\ stopper = "signal" /\ signalled = FALSE
  /\ shutdownStarted = FALSE /\ shutdownDone = Empty
  /\ expired = FALSE /\ request = [r \in Requests |-> "none"]

Ended == ~Alive /\ UNCHANGED vars

MainSteps == ListenAndServe \/ ServerClosed \/ Select \/ AwaitShutdown
StopperSteps == BeginShutdown \/ CallShutdown \/ EndShutdown

Next ==
  \/ Start \/ StartFails \/ ListenAndServe \/ ServeFails \/ ServerClosed \/ Select \/ AwaitShutdown
  \/ BeginShutdown \/ CallShutdown \/ EndShutdown \/ Signal \/ Expire \/ Ended
  \/ \E r \in Requests : Accept(r) \/ Answer(r)

\* The goroutines run and time passes.  Nothing is assumed of the handlers,
\* which may never return, of the signal, or of the start.
Spec ==
  /\ Init /\ [][Next]_vars
  /\ WF_vars(MainSteps) /\ WF_vars(StopperSteps) /\ WF_vars(Expire)

-----------------------------------------------------------------------------

\* A signal ends the process, whatever its handlers do, and the process says
\* that it ended well only if every request it had accepted was answered: main
\* does not return when ListenAndServe does, it waits for the shutdown that
\* the other goroutine began, and that waits no longer than the grace period.
SignalEndsProcess ==
  signalled ~> /\ main = "exited"
               /\ status = "ended" => \A r \in Requests : request[r] \in {"none", "answered"}
=============================================================================
