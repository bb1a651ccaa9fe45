--------------------------- MODULE MemqBrokerInv ---------------------------
(***************************************************************************)
(* The inductive invariant of MemqBroker: what its properties rest on; and *)
(* who waits for whom, from which it follows that somebody can always go   *)
(* on, and how far from its answer a request is.                           *)
(***************************************************************************)
EXTENDS MemqBroker

\* A goroutine runs the code of its handler, and is answered at the end.
ControlOK ==
  \A r \in Requests :
    /\ pc[r] = "new" => op[r] = "none"
    /\ pc[r] \in {"create", "insert"} => op[r] = "create"
    /\ pc[r] = "delete" => op[r] = "delete"
    /\ pc[r] \in {"drain", "clear", "zero"} => op[r] = "drain"
    /\ pc[r] \in {"newMessage", "append", "enqueued"} => op[r] = "enqueue"
    /\ pc[r] \in {"head", "pop", "dequeued"} => op[r] = "dequeue"
    /\ pc[r] \in {"range", "next", "read"} => op[r] = "stats"
    /\ pc[r] = "b.Lock" => op[r] \in {"create", "delete", "drain"}
    /\ pc[r] = "b.RLock" => op[r] \in {"enqueue", "dequeue", "stats"}
    /\ pc[r] = "getQueue" => op[r] \in {"enqueue", "dequeue"}
    /\ pc[r] = "q.Lock" => op[r] \in {"drain", "enqueue", "dequeue"}
    /\ (status[r] = 0) = (pc[r] # "done")

\* A goroutine knows its queue's name while it looks for it, and has found it
\* when it locks it.
HasQueue(r) == pc[r] \in {"newMessage", "q.Lock", "clear", "zero", "append", "enqueued",
                          "head", "pop", "dequeued", "read"}
StackOK ==
  \A r \in Requests :
    /\ (op[r] # "stats" /\ pc[r] \notin {"new", "done"}) \/ pc[r] = "read" => name[r] \in Names
    /\ HasQueue(r) => q[r] \in Requests
    /\ pc[r] \in {"append", "enqueued"} \/ (pc[r] = "q.Lock" /\ op[r] = "enqueue") => m[r] = r

\* Only a Queue object whose creation was answered 200 is in the table or in
\* somebody's stack; before, it is as new.
Allocated(o) == op[o] = "create" /\ status[o] = 200
TableOK == \A n \in Names : table[n] # Nil => Allocated(table[n])
PointersOK == \A r \in Requests : q[r] # Nil => Allocated(q[r])
FreshOK ==
  \A o \in Requests : ~Allocated(o) =>
    /\ depth[o] = 0 /\ enqueued[o] = 0 /\ dequeued[o] = 0 /\ drained[o] = 0
    /\ messages[o] = <<>> /\ log[o] = <<>>

\* The names that Stats has yet to visit stay in the table.
ListingOK == \A r \in Requests : pc[r] \in {"next", "read"} =>
               \A n \in todo[r] : table[n] # Nil

\* The name that CreateQueue looked up and did not find is still free when it
\* inserts its queue.
AbsentOK == \A r \in Requests : pc[r] = "insert" => table[name[r]] = Nil

\* What a goroutine has not reached yet is as it was at its arrival; the name
\* that Stats visits is one it need not visit again.
UntouchedOK ==
  \A r \in Requests :
    /\ pc[r] = "new" => name[r] = Nil /\ m[r] = Nil
    /\ pc[r] \in {"new", "b.RLock", "getQueue"} => q[r] = Nil
    /\ op[r] = "dequeue" /\ pc[r] \in {"b.RLock", "getQueue", "q.Lock", "head"} => m[r] = Nil
    /\ pc[r] = "read" => name[r] \notin todo[r]

\* Who has announced itself on, or owns, Broker.mu.
ClaimsBroker(r) == \/ pc[r] \in {"create", "insert", "delete", "drain", "clear", "zero"}
                   \/ pc[r] = "q.Lock" /\ op[r] = "drain"
OwnsBroker(r) == \/ pc[r] \in {"insert", "clear", "zero"}
                 \/ pc[r] = "q.Lock" /\ op[r] = "drain"
BrokerLockOK ==
  \A r \in Requests :
    /\ ClaimsBroker(r) => bmu.writer = r
    /\ OwnsBroker(r) => bmu.readers = {}
    /\ pc[r] \in {"next", "read"} => r \in bmu.readers

\* Who has announced itself on, or owns, the mu of its Queue object.
ClaimsQueue(r) == pc[r] \in {"clear", "zero", "append", "enqueued", "head", "pop", "dequeued"}
OwnsQueue(r) == pc[r] \in {"zero", "enqueued", "pop", "dequeued"}
QueueLockOK ==
  \A r \in Requests :
    /\ ClaimsQueue(r) => qmu[q[r]].writer = r
    /\ OwnsQueue(r) => qmu[q[r]].readers = {}

\* Where each half-done update of a queue has got to.
UpdateOK ==
  \A r \in Requests :
    LET o == q[r] IN
    /\ pc[r] = "enqueued" => /\ enqueued[o] + 1 = dequeued[o] + drained[o] + depth[o]
                             /\ depth[o] = Len(messages[o])
    /\ pc[r] = "dequeued" => /\ enqueued[o] = dequeued[o] + 1 + drained[o] + depth[o]
                             /\ depth[o] = Len(messages[o])
    /\ pc[r] = "zero" => /\ enqueued[o] = dequeued[o] + drained[o]
                         /\ messages[o] = <<>>
    /\ pc[r] = "pop" => messages[o] # <<>> /\ m[r] = Head(messages[o])

IInv == /\ TypeOK
        /\ ControlOK
        /\ StackOK
        /\ TableOK
        /\ PointersOK
        /\ FreshOK
        /\ ListingOK
        /\ AbsentOK
        /\ UntouchedOK
        /\ BrokerLockOK
        /\ QueueLockOK
        /\ UpdateOK
        /\ NamedQueue
        /\ Conservation
        /\ StatsBalanced
        /\ FIFO

-----------------------------------------------------------------------------
(* Waiting *)

\* The goroutine of r can take its next step: what it waits for, if anything,
\* is free or already its own.
Active(r) == pc[r] \notin {"new", "done"}
Ready(r) ==
  /\ Active(r)
  /\ pc[r] = "b.Lock" => MayAnnounce(bmu)
  /\ pc[r] \in {"create", "delete", "drain"} => WriteOwned(bmu, r)
  /\ pc[r] \in {"getQueue", "range"} => ReadOwned(bmu, r)
  /\ pc[r] = "q.Lock" => MayAnnounce(qmu[q[r]])
  /\ pc[r] \in {"clear", "append", "head"} => WriteOwned(qmu[q[r]], r)
  /\ pc[r] = "read" => ReadOwned(qmu[q[r]], r)

\* No deadlock: while a request is unanswered, some goroutine can go on,
\* though DrainQueue and Stats wait for queues with Broker.mu in hand.
NobodyStuck == (\E r \in Requests : Active(r)) => \E r \in Requests : Ready(r)

\* Whoever a mutex is held by, announced by or queued for is at the place in
\* its code where it holds or awaits that mutex: no lock is ever left behind.
BrokerWaitOK ==
  /\ bmu.writer # Nil => ClaimsBroker(bmu.writer)
  /\ \A r \in bmu.readers : pc[r] \in {"getQueue", "range", "next", "read"}
  /\ \A r \in bmu.queued : pc[r] \in {"getQueue", "range"} /\ r \notin bmu.readers
  /\ bmu.queued # {} => bmu.writer # Nil
  /\ \A r \in Requests : pc[r] \in {"getQueue", "range"} => r \in bmu.readers \cup bmu.queued
QueueWait(o) ==
  /\ qmu[o].writer # Nil => q[qmu[o].writer] = o /\ ClaimsQueue(qmu[o].writer)
  /\ \A r \in qmu[o].readers : q[r] = o /\ pc[r] = "read" /\ r \notin qmu[o].queued
  /\ \A r \in qmu[o].queued : q[r] = o /\ pc[r] = "read"
  /\ qmu[o].queued # {} => qmu[o].writer # Nil
  /\ \A r \in Requests : pc[r] = "read" /\ q[r] = o => r \in qmu[o].readers \cup qmu[o].queued
QueueWaitOK == \A o \in Requests : QueueWait(o)

\* How much code a goroutine has left, the loop of Stats counted once.
Left ==
  [p \in PCs |-> CASE p = "new" -> 8
                   [] p \in {"b.Lock", "b.RLock"} -> 7
                   [] p \in {"create", "delete", "drain", "getQueue", "range"} -> 6
                   [] p \in {"insert", "newMessage"} -> 5
                   [] p = "q.Lock" -> 4
                   [] p \in {"clear", "append", "head"} -> 3
                   [] p \in {"pop", "read"} -> 2
                   [] p \in {"zero", "enqueued", "dequeued", "next"} -> 1
                   [] p = "done" -> 0]

\* A step of r has less code left after it, or starts another round of the
\* loop of Stats with fewer names to visit.
Nearer(r) ==
  \/ /\ pc[r] = "next" /\ pc'[r] = "read"
     /\ todo'[r] \subseteq todo[r] /\ todo'[r] # todo[r]
  \/ Left[pc'[r]] < Left[pc[r]] /\ (todo'[r] = todo[r] \/ pc[r] = "range")

\* Every step brings one request nearer its answer and sets no other back: no
\* handler spins or tries again, whatever the others do.
NearerTheAnswer ==
  \E r \in Requests : /\ Nearer(r)
                      /\ \A s \in Requests \ {r} : pc'[s] = pc[s] /\ todo'[s] = todo[s]
=============================================================================
