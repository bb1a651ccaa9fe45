------------------------------ MODULE WorkQueue ------------------------------
(***************************************************************************)
(* The work queue of the jobs chapter, end to end: a script loads a queue  *)
(* of kuard's message queue server, and the pods of a Job draw on it, each *)
(* running a memQWorker (pkg/keygen/memq.go) with ExitOnComplete.          *)
(* Connections break, pods are killed and restarted, the server's pod      *)
(* loses its memory, and the script may go on to administer the queue.     *)
(*                                                                         *)
(* An item is named by the Enqueue call that brings it.                    *)
(***************************************************************************)
EXTENDS MemqClient

CONSTANTS
  Workers, \* the pods of the Job
  Queue,   \* the name of the work queue
  Scripts, \* scripts: sequences of calls with what they ask for
  Gets     \* the calls the workers make, used again when they are over

ASSUME WorkQueueAssumption ==
  /\ Queue \in Names
  /\ Gets \subseteq Calls
  /\ \A s \in Scripts : s \in Seq([call : Calls \ Gets,
       op : {"create", "enqueue", "drain", "delete", "stats"}])

Elements(s) == {s[k] : k \in 1..Len(s)}

Items == {c.call : c \in {e \in UNION {Elements(s) : s \in Scripts} : e.op = "enqueue"}}

VARIABLES
  script, \* the script that is played
  line, \* its line that runs
  wpc,  \* wpc[w]: where worker w is
  call, \* call[w]: the Dequeue that w waits for, or Nil
  item, \* item[w]: the item w works on, or Nil
  done, \* done[i]: how often item i was done
  seen  \* history: seen[w]: the items accepted before w last asked

work == <<wpc, call, item, done, seen>>
player == <<script, line>>
vars == <<service, wire, trouble, player, work>>

Init ==
  /\ ClientInit
  /\ script \in Scripts
  /\ line = 1
  /\ wpc = [w \in Workers |-> "loop"]
  /\ call = [w \in Workers |-> Nil]
  /\ item = [w \in Workers |-> Nil]
  /\ done = [i \in Items |-> 0]
  /\ seen = [w \in Workers |-> {}]

Accepted == {i \in Items : op[i] = "enqueue" /\ outcome[i] = 200}

Step(w, from, to) == wpc[w] = from /\ wpc' = [wpc EXCEPT ![w] = to]

-----------------------------------------------------------------------------
(* The script: one call after the other, whatever they return *)

Load ==
  /\ line <= Len(script)
  /\ LET r == script[line].call IN
       \/ script[line].op = "create" /\ CreateQueue(r, Queue)
       \/ script[line].op = "enqueue" /\ Enqueue(r, Queue)
       \/ script[line].op = "drain" /\ DrainQueue(r, Queue)
       \/ script[line].op = "delete" /\ DeleteQueue(r, Queue)
       \/ script[line].op = "stats" /\ Stats(r)
  /\ UNCHANGED <<player, work>>

Loaded ==
  /\ line <= Len(script)
  /\ \E answer \in {"ok", "nil", "error"} : Return(script[line].call, answer)
  /\ line' = line + 1
  /\ UNCHANGED <<script, work>>

-----------------------------------------------------------------------------
(* memQWorker.startWork *)

Ask(w) ==
  /\ Step(w, "loop", "dequeue")
  /\ \E r \in Gets : wire[r] = "idle"
  /\ LET g == CHOOSE r \in Gets : wire[r] = "idle" IN
       /\ Dequeue(g, Queue)
       /\ call' = [call EXCEPT ![w] = g]
  /\ seen' = [seen EXCEPT ![w] = Accepted]
  /\ UNCHANGED <<player, item, done>>

Returned(w, answer) ==
  /\ Return(call[w], answer)
  /\ call' = [call EXCEPT ![w] = Nil]
  /\ UNCHANGED <<player, done, seen>>

\* Dequeue has brought an item.
GetItem(w) ==
  /\ Step(w, "dequeue", "work")
  /\ Returned(w, "ok")
  /\ item' = [item EXCEPT ![w] = taken[call[w]]]

\* Mutant: no continue after an error: no message means an empty queue.
BugFails(w) ==
  /\ Step(w, "dequeue", "exited")
  /\ Returned(w, "error")
  /\ UNCHANGED item

\* Dequeue has failed: the worker pauses for a second and tries again.
Fails(w) ==
  /\ Step(w, "dequeue", "loop")
  /\ Returned(w, "error")
  /\ UNCHANGED item

\* Mutant: an empty queue is tried again, as without ExitOnComplete.
BugExit(w) ==
  /\ Step(w, "dequeue", "loop")
  /\ Returned(w, "nil")
  /\ UNCHANGED item

\* The queue was empty: ExitOnComplete ends the process with code 0.
Exit(w) ==
  /\ Step(w, "dequeue", "exited")
  /\ Returned(w, "nil")
  /\ UNCHANGED item

\* generateKey and itemDone.
Work(w) ==
  /\ Step(w, "work", "loop")
  /\ done' = [i \in Items |-> IF i = item[w] THEN done[i] + 1 ELSE done[i]]
  /\ item' = [item EXCEPT ![w] = Nil]
  /\ UNCHANGED <<service, wire, trouble, player, call, seen>>

\* The pod is killed and restarted (restartPolicy OnFailure): what it waited
\* for or worked on is forgotten.  (Between two items it has nothing to lose.)
Kill(w) ==
  /\ wpc[w] \in {"dequeue", "work"}
  /\ Fault
  /\ wpc' = [wpc EXCEPT ![w] = "loop"]
  /\ IF call[w] # Nil THEN Leave(call[w]) ELSE UNCHANGED <<service, wire>>
  /\ call' = [call EXCEPT ![w] = Nil]
  /\ item' = [item EXCEPT ![w] = Nil]
  /\ UNCHANGED <<restarted, player, done, seen>>

-----------------------------------------------------------------------------
Run(w) == Ask(w) \/ GetItem(w) \/ Fails(w) \/ Exit(w) \/ Work(w)
Handle(r) == Serve(r) \/ Forget(r)

Attend(r) == Handle(r) /\ UNCHANGED <<player, work>>

AllExited == \A w \in Workers : wpc[w] = "exited"

\* The Job and the script are over.
Ended ==
  /\ AllExited
  /\ line > Len(script)
  /\ UNCHANGED vars

Next ==
  \/ Load \/ Loaded
  \/ \E w \in Workers : Run(w) \/ Kill(w)
  \/ \E r \in Calls : Attend(r) \/ (Break(r) /\ UNCHANGED <<player, work>>)
  \/ (ServerRestarts /\ UNCHANGED <<player, work>>)
  \/ Ended

Spec == Init /\ [][Next]_vars

\* The script runs, some worker runs that can, and the server answers some
\* request that it can (the broker answers all of them: its property Answered).
\* Nothing has to break.
Fairness ==
  /\ WF_vars(Load \/ Loaded)
  /\ WF_vars(\E w \in Workers : Run(w))
  /\ WF_vars(\E r \in Calls : Attend(r))

FairSpec == Spec /\ Fairness

-----------------------------------------------------------------------------
(* Properties *)

\* Type correctness: a worker waits for one call, or works on one item.
TypeOK ==
  /\ ClientTypeOK
  /\ script \in Scripts /\ line \in 1..(Len(script) + 1)
  /\ wpc \in [Workers -> {"loop", "dequeue", "work", "exited"}]
  /\ call \in [Workers -> Gets \cup {Nil}]
  /\ item \in [Workers -> Items \cup {Nil}]
  /\ done \in [Items -> Nat]
  /\ seen \in [Workers -> SUBSET Items]
  /\ \A w \in Workers : (call[w] # Nil) = (wpc[w] = "dequeue")
  /\ \A w \in Workers : (item[w] # Nil) = (wpc[w] = "work")

\* The items in queues that a request can still reach, under the name or as the
\* queue it found before the name was taken away.
Waiting == UNION {Elements(content[o]) : o \in
             ({table[n] : n \in Names} \cup {bound[r] : r \in {g \in Calls : ~Through(g)}}) \ {Nil}}

\* The items in answers that a worker still waits for.
InTransit ==
  {taken[r] : r \in {g \in Gets : wire[g] = "open" /\ \E w \in Workers : call[w] = g}} \ {Nil}

InHand == {item[w] : w \in Workers} \ {Nil}
Done == {i \in Items : done[i] > 0}
Lost == Accepted \ (Waiting \cup InTransit \cup InHand \cup Done)

\* Somebody emptied or removed the queue, or the server lost its memory.
Removed ==
  \/ \E r \in Calls : op[r] \in {"delete", "drain"} /\ outcome[r] = 200
  \/ restarted

\* No item is worked on twice, by one worker or by two, although calls are
\* repeated and the server may still act on a call that its caller gave up.
OneWorkerPerItem ==
  /\ \A i \in Items : done[i] <= 1
  /\ \A v, w \in Workers : v # w /\ item[v] # Nil => item[v] # item[w]
  /\ InHand \cap Done = {}
  /\ Waiting \cap (InTransit \cup InHand \cup Done) = {}

\* The queue delivers at most once, and that is all it loses: unless the queue
\* was removed or drained, one fault costs one item at most.
LossBounded == ~Removed => Cardinality(Lost) <= faults

\* A worker that exits has not left work behind: what was in the queue before it
\* asked is gone when it exits.
ExitsWhenEmpty ==
  \A w \in Workers : wpc[w] = "exited" /\ ~Removed => Waiting \cap seen[w] = {}

\* The Job completes, or its queue is missing for ever and the workers go on
\* asking for it: "If there is an error it will keep retrying".
JobCompletes == <>AllExited \/ <>[](table[Queue] = Nil)
=============================================================================
