--------------------------- MODULE GoServerProofs ----------------------------
(***************************************************************************)
(* The shutdown is graceful for any number of requests and signals.        *)
(***************************************************************************)
EXTENDS GoServer, TLAPS

LEMMA GoInitially == Init => GoInv
<1> SUFFICES ASSUME Init
             PROVE  GoInv
  OBVIOUS
<1>1. \A r \in Requests : request[r] = "new"
  BY DEF Init
<1>2. TypeOK
  <2>1. request \in [Requests -> {"new", "running", "done", "refused", "cut"}]
    BY DEF Init
  <2>2. signals \in 0..MaxSignals
    BY GoServerAssumption DEF Init
  <2>3. served \in BOOLEAN /\ expired \in BOOLEAN /\ pending \in BOOLEAN
    BY DEF Init
  <2> QED
    BY <2>1, <2>2, <2>3 DEF Init, TypeOK
<1> QED
  BY <1>1, <1>2 DEF Init, GoInv, StartupOK, ShutdownOK, Graceful

\* The end of the process is harmless if nothing runs or the time was up.
LEMMA DieKeeps ==
  ASSUME GoInv, Die, UNCHANGED <<expired, served>>, signals' = signals, pending' \in BOOLEAN,
         serve' = serve \/ serve' = "fatal",
         expired \/ ~served \/ \A r \in Requests : request[r] # "running"
  PROVE  GoInv'
<1>1. /\ main' = "ended" /\ listener' = "closed"
      /\ request' = [r \in Requests |-> IF request[r] = "running" THEN "cut" ELSE request[r]]
  BY DEF Die
<1>2. \A r \in Requests : request'[r] = IF request[r] = "running" THEN "cut" ELSE request[r]
  BY <1>1
<1>3. TypeOK'
  BY <1>1 DEF GoInv, TypeOK
<1>4. StartupOK'
  BY <1>1, <1>2 DEF GoInv, StartupOK
<1>5. ShutdownOK'
  BY <1>1 DEF GoInv, ShutdownOK
<1>6. Graceful'
  BY <1>2 DEF GoInv, Graceful
<1> QED
  BY <1>3, <1>4, <1>5, <1>6 DEF GoInv

LEMMA MainKeeps ==
  ASSUME GoInv, MainNext
  PROVE  GoInv'
<1> USE DEF GoInv
<1>1. CASE Notify
  BY <1>1 DEF Notify, Main, TypeOK, StartupOK, ShutdownOK, Graceful
<1>2. CASE Start
  BY <1>2 DEF Start, Main, TypeOK, StartupOK, ShutdownOK, Graceful
<1>3. CASE Wait
  BY <1>3 DEF Wait, Main, TypeOK, StartupOK, ShutdownOK, Graceful
<1>4. CASE Shutdown
  <2>1. CASE listener = "open"
    <3>1. served' = TRUE /\ listener' = "closed" /\ main' = "shutdown"
          /\ UNCHANGED <<serve, expired, pending, signals, request>>
      BY <1>4, <2>1 DEF Shutdown, Main
    <3> QED
      BY <2>1, <3>1, <1>4 DEF Shutdown, Main, TypeOK, StartupOK, ShutdownOK, Graceful
  <2>2. CASE listener # "open"
    <3>1. served' = FALSE /\ listener' = listener /\ main' = "shutdown"
          /\ UNCHANGED <<serve, expired, pending, signals, request>>
      BY <1>4, <2>2 DEF Shutdown, Main
    <3> QED
      BY <2>2, <3>1, <1>4 DEF Shutdown, Main, TypeOK, StartupOK, ShutdownOK, Graceful
  <2> QED
    BY <2>1, <2>2
<1>5. CASE ShutdownDone
  BY <1>5 DEF ShutdownDone, Main, TypeOK, StartupOK, ShutdownOK, Graceful
<1>6. CASE Return
  <2>1. expired \/ ~served \/ \A r \in Requests : request[r] # "running"
    BY <1>6 DEF Return, ShutdownOK
  <2> QED
    BY <1>6, <2>1, DieKeeps DEF Return, TypeOK
<1> QED
  BY <1>1, <1>2, <1>3, <1>4, <1>5, <1>6 DEF MainNext

LEMMA ServeKeeps ==
  ASSUME GoInv, ServeNext \/ AcceptFails
  PROVE  GoInv'
<1> USE DEF GoInv
<1>1. CASE Listen
  BY <1>1 DEF Listen, Alive, TypeOK, StartupOK, ShutdownOK, Graceful
<1>2. CASE ListenFails
  BY <1>2 DEF ListenFails, Alive, TypeOK, StartupOK, ShutdownOK, Graceful
<1>3. CASE AcceptFails
  BY <1>3 DEF AcceptFails, Alive, TypeOK, StartupOK, ShutdownOK, Graceful
<1>4. CASE Fatal
  BY <1>4, DieKeeps DEF Fatal, ShutdownOK, TypeOK
<1>5. CASE ServeReturns
  BY <1>5 DEF ServeReturns, Alive, TypeOK, StartupOK, ShutdownOK, Graceful
<1> QED
  BY <1>1, <1>2, <1>3, <1>4, <1>5 DEF ServeNext

LEMMA ClientKeeps ==
  ASSUME GoInv, NEW r \in Requests, Connect(r) \/ Respond(r)
  PROVE  GoInv'
<1> USE DEF GoInv
<1>1. CASE Connect(r)
  <2>1. request'[r] = "running" => listener = "open"
    BY <1>1 DEF Connect, TypeOK
  <2>2. \A q \in Requests : q # r => request'[q] = request[q]
    BY <1>1 DEF Connect, TypeOK
  <2>3. request'[r] \in {"running", "refused"} /\ UNCHANGED <<server, expired, pending, signals>>
    BY <1>1 DEF Connect, TypeOK
  <2>4. request' \in [Requests -> {"new", "running", "done", "refused", "cut"}]
    BY <1>1 DEF Connect, TypeOK
  <2> QED
    BY <2>1, <2>2, <2>3, <2>4 DEF server, TypeOK, StartupOK, ShutdownOK, Graceful
<1>2. CASE Respond(r)
  <2>1. /\ \A q \in Requests : q # r => request'[q] = request[q]
        /\ request'[r] = "done"
        /\ UNCHANGED <<server, expired, pending, signals>>
        /\ request' \in [Requests -> {"new", "running", "done", "refused", "cut"}]
    BY <1>2 DEF Respond, TypeOK
  <2> QED
    BY <2>1 DEF server, TypeOK, StartupOK, ShutdownOK, Graceful
<1> QED
  BY <1>1, <1>2

LEMMA SignalKeeps ==
  ASSUME GoInv, Signal \/ Deliver \/ Expire
  PROVE  GoInv'
<1> USE DEF GoInv
<1>1. CASE Signal
  BY <1>1, GoServerAssumption DEF Signal, server, TypeOK, StartupOK, ShutdownOK, Graceful
<1>2. CASE Expire
  BY <1>2 DEF Expire, server, TypeOK, StartupOK, ShutdownOK, Graceful
<1>3. CASE Deliver
  <2>1. CASE main = "init" /\ Die /\ UNCHANGED <<serve, served>>
    <3>1. \A r \in Requests : request[r] # "running"
      BY <2>1 DEF StartupOK
    <3> QED
      BY <1>3, <2>1, <3>1, DieKeeps DEF Deliver
  <2>2. CASE Main("waiting", "quit") /\ UNCHANGED <<serve, listener, served, request>>
    BY <1>3, <2>2 DEF Deliver, Main, TypeOK, StartupOK, ShutdownOK, Graceful
  <2>3. CASE UNCHANGED <<server, request>>
    BY <1>3, <2>3 DEF Deliver, server, TypeOK, StartupOK, ShutdownOK, Graceful
  <2> QED
    BY <1>3, <2>1, <2>2, <2>3 DEF Deliver
<1> QED
  BY <1>1, <1>2, <1>3

\* The invariant holds of every reachable state: in particular nobody is served before
\* the listener is open, and the server is down before main ends.
THEOREM GoInvariance == Spec => []GoInv
<1>1. GoInv /\ [Next]_vars => GoInv'
  <2> SUFFICES ASSUME GoInv, [Next]_vars
               PROVE  GoInv'
    OBVIOUS
  <2>1. CASE Quiet \/ UNCHANGED vars
    BY <2>1 DEF Quiet, vars, server, GoInv, TypeOK, StartupOK, ShutdownOK, Graceful
  <2> QED
    BY <2>1, MainKeeps, ServeKeeps, ClientKeeps, SignalKeeps DEF Next
<1> QED
  BY <1>1, GoInitially, PTL DEF Spec

\* A request is cut off only after ctx's five seconds, unless the signal overtook the
\* start of the server; for any number of requests and of signals.
THEOREM ShutdownIsGraceful == Spec => []Graceful
<1>1. GoInv => Graceful
  BY DEF GoInv
<1> QED
  BY <1>1, GoInvariance, PTL
=============================================================================
