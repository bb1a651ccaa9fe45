------------------------------ MODULE GoServer ------------------------------
(***************************************************************************)
(* The server of the deployment strategies (apps/go/main.go): it serves    *)
(* until a SIGTERM or SIGINT and then shuts down gracefully.  Its metrics  *)
(* and probe servers keep no state and live as long as the process.        *)
(*                                                                         *)
(* The goroutine main and serveHTTP run side by side; the Go runtime       *)
(* passes a signal on only if somebody receives from quit at that moment,  *)
(* because the channel has no buffer.                                      *)
(***************************************************************************)
EXTENDS Naturals

CONSTANTS
  Requests,
  MaxSignals  \* bound: the signals sent

ASSUME GoServerAssumption == MaxSignals \in Nat

VARIABLES
  main,     \* where main is
  serve,    \* where serveHTTP is
  listener, \* http.Server's listener: "none", "open" or "closed"
  served,   \* history variable: the server was listening when it was shut down
  expired,  \* the five seconds of ctx are over
  pending,  \* a signal waits in the runtime; a second one is merged with it
  signals,  \* signals sent
  request   \* request[r]: "new", "running", "done", "refused" or "cut"

server == <<main, serve, listener, served>>
vars == <<server, expired, pending, signals, request>>

Init ==
  /\ main = "init"
  /\ serve = "none"
  /\ listener = "none"
  /\ served = FALSE
  /\ expired = FALSE
  /\ pending = FALSE
  /\ signals = 0
  /\ request = [r \in Requests |-> "new"]

Alive == main # "ended"
Main(from, to) == main = from /\ main' = to

\* The process is gone, and with it every request it was serving.
Die ==
  /\ main' = "ended"
  /\ listener' = "closed"
  /\ request' = [r \in Requests |-> IF request[r] = "running" THEN "cut" ELSE request[r]]

-----------------------------------------------------------------------------
(* main *)

Notify ==
  /\ Main("init", "notified")
  /\ UNCHANGED <<serve, listener, served, expired, pending, signals, request>>

\* The three servers start in goroutines of their own.
Start ==
  /\ Main("notified", "started")
  /\ serve' = "starting"
  /\ UNCHANGED <<listener, served, expired, pending, signals, request>>

\* main blocks in <-quit.
Wait ==
  /\ Main("started", "waiting")
  /\ UNCHANGED <<serve, listener, served, expired, pending, signals, request>>

\* Mutant: Shutdown only waits, and the listener goes on accepting.
BugShutdown ==
  /\ Main("quit", "shutdown")
  /\ served' = (listener = "open")
  /\ UNCHANGED <<serve, listener, expired, pending, signals, request>>

\* srv.Shutdown closes the listener, if there is one by now.
Shutdown ==
  /\ Main("quit", "shutdown")
  /\ listener' = IF listener = "open" THEN "closed" ELSE listener
  /\ served' = (listener = "open")
  /\ UNCHANGED <<serve, expired, pending, signals, request>>

\* Mutant: Shutdown waits without a time limit.
BugShutdownDone ==
  /\ Main("shutdown", "returning")
  /\ \A r \in Requests : request[r] # "running"
  /\ UNCHANGED <<serve, listener, served, expired, pending, signals, request>>

\* Shutdown returns when no request is running, or with the end of ctx.
ShutdownDone ==
  /\ Main("shutdown", "returning")
  /\ expired \/ \A r \in Requests : request[r] # "running"
  /\ UNCHANGED <<serve, listener, served, expired, pending, signals, request>>

\* main returns.
Return ==
  /\ main = "returning"
  /\ Die
  /\ UNCHANGED <<serve, served, expired, pending, signals>>

\* The timer of ctx, started when the signal was received.
Expire ==
  /\ main \in {"quit", "shutdown", "returning"}
  /\ ~expired
  /\ expired' = TRUE
  /\ UNCHANGED <<server, pending, signals, request>>

-----------------------------------------------------------------------------
(* serveHTTP *)

\* The Go release of the Dockerfile, 1.9, listens even after Shutdown was called.
Listen ==
  /\ Alive
  /\ serve = "starting"
  /\ serve' = "serving"
  /\ listener' = "open"
  /\ UNCHANGED <<main, served, expired, pending, signals, request>>

\* The address is in use: ListenAndServe returns an error.
ListenFails ==
  /\ Alive
  /\ serve = "starting"
  /\ serve' = "failing"
  /\ UNCHANGED <<main, listener, served, expired, pending, signals, request>>

\* Accept fails for good: Serve closes the listener and returns the error, or
\* ErrServerClosed when Shutdown was called before.
AcceptFails ==
  /\ Alive
  /\ serve = "serving"
  /\ listener = "open"
  /\ serve' = IF main \in {"shutdown", "returning"} THEN "returned" ELSE "failing"
  /\ listener' = "closed"
  /\ UNCHANGED <<main, served, expired, pending, signals, request>>

\* An error other than ErrServerClosed: log.Fatal ends the process.
Fatal ==
  /\ Alive
  /\ serve = "failing"
  /\ serve' = "fatal"
  /\ Die
  /\ UNCHANGED <<served, expired, pending, signals>>

\* Mutant: the error of an orderly end is fatal like any other.
BugServeReturns ==
  /\ Alive
  /\ serve = "serving"
  /\ listener = "closed"
  /\ serve' = "failing"
  /\ UNCHANGED <<main, listener, served, expired, pending, signals, request>>

\* ListenAndServe returns ErrServerClosed as soon as the listener is closed, long
\* before Shutdown is done; serveHTTP then ends and nothing else.
ServeReturns ==
  /\ Alive
  /\ serve = "serving"
  /\ listener = "closed"
  /\ serve' = "returned"
  /\ UNCHANGED <<main, listener, served, expired, pending, signals, request>>

-----------------------------------------------------------------------------
(* Clients and signals *)

Connect(r) ==
  /\ request[r] = "new"
  /\ request' = [request EXCEPT ![r] = IF listener = "open" THEN "running" ELSE "refused"]
  /\ UNCHANGED <<server, expired, pending, signals>>

\* httpHandler has written its line and the client has taken it.
Respond(r) ==
  /\ Alive
  /\ request[r] = "running"
  /\ request' = [request EXCEPT ![r] = "done"]
  /\ UNCHANGED <<server, expired, pending, signals>>

Signal ==
  /\ Alive
  /\ signals < MaxSignals
  /\ signals' = signals + 1
  /\ pending' = TRUE
  /\ UNCHANGED <<server, expired, request>>

\* Before Notify the signal ends the process; afterwards it is sent to quit
\* without waiting, so it is dropped unless main receives right then.
Deliver ==
  /\ Alive
  /\ pending
  /\ pending' = FALSE
  /\ \/ main = "init" /\ Die /\ UNCHANGED <<serve, served>>
     \/ Main("waiting", "quit") /\ UNCHANGED <<serve, listener, served, request>>
     \/ main \notin {"init", "waiting"} /\ UNCHANGED <<server, request>>
  /\ UNCHANGED <<expired, signals>>

-----------------------------------------------------------------------------
MainNext == Notify \/ Start \/ Wait \/ Shutdown \/ ShutdownDone \/ Return
ServeNext == Listen \/ ListenFails \/ Fatal \/ ServeReturns

\* Every request has its outcome and no signal comes: nothing is left to happen.
Quiet ==
  /\ \A r \in Requests : request[r] \in {"done", "refused", "cut"}
  /\ Alive => main = "waiting" /\ serve = "serving" /\ ~pending /\ signals = MaxSignals
  /\ UNCHANGED vars

Next ==
  \/ MainNext
  \/ ServeNext
  \/ AcceptFails
  \/ Expire
  \/ Signal
  \/ Deliver
  \/ \E r \in Requests : Connect(r) \/ Respond(r)
  \/ Quiet

Spec == Init /\ [][Next]_vars

\* The Go scheduler runs both goroutines, the timer fires and the runtime passes
\* signals on.  Accept need not fail, and a client may take for ever to read its
\* response.
Fairness ==
  /\ WF_vars(MainNext)
  /\ WF_vars(ServeNext)
  /\ WF_vars(Expire)
  /\ WF_vars(Deliver)

FairSpec == Spec /\ Fairness

-----------------------------------------------------------------------------
\* Every variable keeps its type.
TypeOK ==
  /\ main \in {"init", "notified", "started", "waiting", "quit", "shutdown", "returning", "ended"}
  /\ serve \in {"none", "starting", "serving", "returned", "failing", "fatal"}
  /\ listener \in {"none", "open", "closed"}
  /\ served \in BOOLEAN
  /\ expired \in BOOLEAN
  /\ pending \in BOOLEAN
  /\ signals \in 0..MaxSignals
  /\ request \in [Requests -> {"new", "running", "done", "refused", "cut"}]

\* The shutdown is graceful: a request is cut off only after the five seconds,
\* though serveHTTP returns long before them and a second signal may come.  Only a
\* server that did not listen yet, or no longer, when it was shut down cuts earlier.
Graceful == \A r \in Requests : request[r] = "cut" => expired \/ ~served

\* Nothing runs before the server listens, which it starts to do once, and nothing
\* is cut off before the process ends.
StartupOK ==
  /\ main # "ended" => \A r \in Requests : request[r] # "cut"
  /\ main \in {"init", "notified"} => serve = "none"
  /\ serve \in {"none", "starting"} =>
       /\ listener \in {"none", "closed"}
       /\ ~served
       /\ \A r \in Requests : request[r] # "running"

\* A server that was shut down accepts nothing any more, one that failed was not shut
\* down while it listened, and Shutdown has returned early only without running
\* requests.
ShutdownOK ==
  /\ served => main \in {"shutdown", "returning", "ended"} /\ listener = "closed"
  /\ serve = "failing" => ~served /\ listener # "open"
  /\ main = "returning" /\ served /\ ~expired =>
       \A r \in Requests : request[r] # "running"

\* The inductive invariant behind Graceful, with the type of every variable.
GoInv == TypeOK /\ StartupOK /\ ShutdownOK /\ Graceful

\* A signal that main received ends the process, whatever the clients do.
ShutdownEnds == main = "quit" ~> ~Alive

\* main.go, line 87: a signal after Notify starts the graceful shutdown.
SignalEnds == (signals > 0) ~> ~Alive
=============================================================================
