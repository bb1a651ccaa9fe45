--------------------------- MODULE MemqRefinement ---------------------------
(***************************************************************************)
(* The broker with its locks implements QueueService.  An operation takes  *)
(* effect at its first assignment to the shared state, and what its        *)
(* answer will be is known from then on.                                   *)
(***************************************************************************)
EXTENDS MemqBroker

\* A step of Put, Get or Drain that has changed Messages and not yet finished
\* its counters.
Updating(r) == pc[r] \in {"enqueued", "dequeued", "zero"}

\* 1 while some request at loc still owes queue o a count, else 0.
Owed(o, loc) == IF \E r \in Requests : pc[r] = loc /\ q[r] = o THEN 1 ELSE 0

SContent == messages
STally == [o \in Requests |-> [in |-> enqueued[o] + Owed(o, "enqueued"),
                               out |-> dequeued[o] + Owed(o, "dequeued"),
                               drained |-> drained[o]]]
SName == [r \in Requests |-> IF op[r] = "stats" THEN Nil ELSE name[r]]
SBound == [r \in Requests |-> IF op[r] \in {"enqueue", "dequeue"} THEN q[r] ELSE Nil]
STaken == [r \in Requests |-> IF op[r] = "dequeue" /\ pc[r] # "pop" THEN m[r] ELSE Nil]
SListing == {r \in Requests : pc[r] \in {"next", "read"}}
STodo == [r \in Requests |-> IF pc[r] = "read" THEN todo[r] \cup {name[r]} ELSE todo[r]]
SOutcome == [r \in Requests |-> IF Updating(r) THEN 200 ELSE status[r]]

Service == INSTANCE QueueService WITH
             name <- SName, content <- SContent, tally <- STally,
             bound <- SBound, taken <- STaken, listing <- SListing,
             todo <- STodo, report <- stat, outcome <- SOutcome

\* The broker implements the service: every behaviour of the handlers, locks
\* and counters of broker.go is one of QueueService.
ImplementsService == Service!Spec
=============================================================================
