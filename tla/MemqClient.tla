----------------------------- MODULE MemqClient -----------------------------
(***************************************************************************)
(* kuard's client of the message queue server (pkg/memq/client), a network *)
(* that breaks connections, and the server as QueueService promises it.    *)
(*                                                                         *)
(* A member of Calls is one call of a client function.  http.DefaultClient *)
(* sends a PUT, DELETE or POST once: when the connection breaks, the call  *)
(* returns an error, and the server may have done what was asked, may do   *)
(* it later, or may never see the request.                                 *)
(***************************************************************************)
EXTENDS Integers, Sequences, FiniteSets

CONSTANTS
  Calls, Names, Nil,
  MaxFaults \* bound: connections that break, and what else goes wrong

ASSUME ClientAssumption == MaxFaults \in Nat /\ Nil \notin Calls

VARIABLES
  op, name, table, content, tally, bound, taken, listing, todo, report, outcome,
  wire,  \* wire[r]: "idle"; "open"; "broken" under its caller; or "returned"
         \* to the caller, while the server may still act
  faults, \* how many faults there were
  restarted \* whether the server lost its memory

Server == INSTANCE QueueService WITH Requests <- Calls

service == <<op, name, table, content, tally, bound, taken, listing, todo, report, outcome>>
trouble == <<faults, restarted>>

ClientInit ==
  /\ Server!Init
  /\ wire = [r \in Calls |-> "idle"]
  /\ faults = 0
  /\ restarted = FALSE

Wire(r, from, to) == wire[r] \in from /\ wire' = [wire EXCEPT ![r] = to]

Fault == faults < MaxFaults /\ faults' = faults + 1

-----------------------------------------------------------------------------
(* The functions of Client *)

\* http.NewRequest and http.DefaultClient.Do: the request reaches the server, or the
\* connection breaks before it does.  A URL that NewRequest refuses ends the same way.
\* net/http may send a GET of the statistics again, which the server does not notice.
Do(r, o, n) ==
  \/ /\ Wire(r, {"idle"}, "open")
     /\ op' = [op EXCEPT ![r] = o] /\ name' = [name EXCEPT ![r] = n] /\ UNCHANGED outcome
     /\ Server!Call(r)
     /\ UNCHANGED trouble
  \/ /\ Wire(r, {"idle"}, "broken")
     /\ Fault
     /\ UNCHANGED <<service, restarted>>

CreateQueue(r, n) == Do(r, "create", n)
DeleteQueue(r, n) == Do(r, "delete", n)
DrainQueue(r, n) == Do(r, "drain", n)
Enqueue(r, n) == Do(r, "enqueue", n)
Dequeue(r, n) == Do(r, "dequeue", n)
Stats(r) == Do(r, "stats", Nil)

\* Mutant: an error status passes for an answer.
BugErrorFromResponse(r) == FALSE

ErrorFromResponse(r) == outcome[r] >= 300

\* Mutant: the message is decoded into a pointer that stays nil.
BugAnswer(r) == IF ErrorFromResponse(r) THEN "error" ELSE "nil"

\* What the client makes of the response: an error, no message, or success.
Answer(r) ==
  IF ErrorFromResponse(r) THEN "error"
  ELSE IF outcome[r] = 204 THEN "nil"
  ELSE "ok"

\* The server has nothing more to do for r: it never saw it, or has answered.
Through(r) == op[r] = "none" \/ outcome[r] # 0

\* Nothing of r is left: its name can be given to another call.
Recycled(r) ==
  /\ wire' = [wire EXCEPT ![r] = "idle"]
  /\ op' = [op EXCEPT ![r] = "none"]
  /\ name' = [name EXCEPT ![r] = Nil]
  /\ bound' = [bound EXCEPT ![r] = Nil]
  /\ taken' = [taken EXCEPT ![r] = Nil]
  /\ outcome' = [outcome EXCEPT ![r] = 0]
  /\ UNCHANGED <<table, content, tally, listing, todo, report>>

\* The caller of r goes on; a call that the server may still act on keeps its name.
Leave(r) ==
  IF op[r] \in {"none", "dequeue"} /\ Through(r) THEN Recycled(r)
  ELSE /\ wire' = [wire EXCEPT ![r] = "returned"]
       /\ UNCHANGED service

\* Mutant: an Enqueue whose connection broke is sent once more.
BugReturn(r, answer) ==
  /\ UNCHANGED trouble
  /\ IF wire[r] = "broken" /\ op[r] = "enqueue"
     THEN /\ answer = "error"
          /\ Wire(r, {"broken"}, "open")
          /\ bound' = [bound EXCEPT ![r] = Nil]
          /\ outcome' = [outcome EXCEPT ![r] = 0]
          /\ UNCHANGED <<op, name, table, content, tally, taken, listing, todo, report>>
     ELSE /\ \/ wire[r] = "broken" /\ answer = "error"
             \/ wire[r] = "open" /\ outcome[r] # 0 /\ answer = Answer(r)
          /\ Leave(r)

\* The call returns: the response is there, or the connection broke before the
\* header or before the end of the body.
Return(r, answer) ==
  /\ \/ wire[r] = "broken" /\ answer = "error"
     \/ wire[r] = "open" /\ outcome[r] # 0 /\ answer = Answer(r)
  /\ Leave(r)
  /\ UNCHANGED trouble

\* The server is through with a Dequeue whose caller has left.
Forget(r) ==
  /\ wire[r] = "returned" /\ op[r] = "dequeue"
  /\ Through(r)
  /\ Recycled(r)
  /\ UNCHANGED trouble

-----------------------------------------------------------------------------
(* The network and the server *)

\* The connection breaks; the server notices nothing.
Break(r) ==
  /\ Fault
  /\ Wire(r, {"open"}, "broken")
  /\ UNCHANGED <<service, restarted>>

Serve(r) ==
  /\ \/ Server!Refuse(r) \/ Server!Create(r) \/ Server!Delete(r) \/ Server!Drain(r)
     \/ Server!Find(r) \/ Server!Put(r) \/ Server!Get(r) \/ Server!GetNothing(r)
     \/ Server!List(r) \/ Server!Visit(r) \/ Server!Report(r)
  /\ UNCHANGED <<wire, trouble>>

\* The server's process ends and starts again with no queues: what it had not
\* answered it never will, and every open connection breaks.
ServerRestarts ==
  /\ Fault
  /\ table' = [n \in Names |-> Nil]
  /\ wire' = [r \in Calls |-> IF wire[r] = "open" THEN "broken" ELSE wire[r]]
  /\ outcome' = [r \in Calls |-> IF Through(r) THEN outcome[r] ELSE 503]
  /\ listing' = {}
  /\ restarted' = TRUE
  /\ todo' = [r \in Calls |-> {}]
  /\ UNCHANGED <<op, name, content, tally, bound, taken, report>>

ClientTypeOK ==
  /\ wire \in [Calls -> {"idle", "open", "broken", "returned"}]
  /\ faults \in 0..MaxFaults
  /\ restarted \in BOOLEAN
  /\ op \in [Calls -> {"none", "create", "delete", "drain", "enqueue", "dequeue", "stats"}]
  /\ name \in [Calls -> Names \cup {Nil}]
  /\ table \in [Names -> Calls \cup {Nil}]
  /\ content \in [Calls -> Seq(Calls)]
  /\ bound \in [Calls -> Calls \cup {Nil}]
  /\ taken \in [Calls -> Calls \cup {Nil}]
  /\ outcome \in [Calls -> {0, 200, 204, 400, 500, 503}]
=============================================================================
