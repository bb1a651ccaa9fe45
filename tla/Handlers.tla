------------------------------ MODULE Handlers ------------------------------
(***************************************************************************)
(* What the handlers of kuard's requests share: net/http runs each in a    *)
(* goroutine of its own, and recovers its panics by dropping the           *)
(* connection.  A request that is over can be followed by another one.     *)
(***************************************************************************)
EXTENDS Integers, Sequences, FiniteSets

CONSTANTS Requests, Nil

ASSUME HandlersAssumption == Nil \notin Requests

VARIABLES
  pc,    \* pc[r]: where the handler of r is, "idle" when it is over
  answer \* answer[r]: "none" yet, "ok", "refused" (400), "missing" (404),
         \* "error" (500), "panic", or "cut" when the process ended

Goto(r, from, to) == pc[r] = from /\ pc' = [pc EXCEPT ![r] = to]
Begin(r, to) == Goto(r, "idle", to) /\ answer' = [answer EXCEPT ![r] = "none"]
Finish(r, from, a) == Goto(r, from, "idle") /\ answer' = [answer EXCEPT ![r] = a]
=============================================================================
