----------------------------- MODULE MemqBroker -----------------------------
(***************************************************************************)
(* kuard's in-memory message queue server: the broker of                   *)
(* pkg/memq/server/broker.go behind the handlers of pkg/memq/server/api.go *)
(* at the granularity of its locks.                                        *)
(*                                                                         *)
(* net/http runs every request in a goroutine of its own.  A member of     *)
(* Requests is one request from its arrival to its answer; it arrives at   *)
(* any time, so a client that sends one request after another is two       *)
(* members, the second of which arrives after the first is answered.       *)
(* Request r also names what r allocates: the Queue object of a PUT, the   *)
(* uuid of an enqueued message.  Queue objects outlive their name: a       *)
(* goroutine that called getQueue keeps the pointer when the name is       *)
(* deleted, and created anew.                                              *)
(*                                                                         *)
(* A step is what a goroutine does between two points where another one    *)
(* can see or disturb it.  Under a lock that should exclude the others the *)
(* assignments are kept apart, so that the exclusion is part of what is    *)
(* checked.  The unlock and the answer happen in the last step of the      *)
(* critical section: answering later would only allow more.                *)
(***************************************************************************)
EXTENDS RWMutex, Integers, Sequences, FiniteSets

CONSTANT Names \* queue names

Ops == {"create", "delete", "drain", "enqueue", "dequeue", "stats"}

VARIABLES
  pc,     \* pc[r]: where the goroutine of r is
  op,     \* op[r]: the handler that serves r
  name,   \* name[r]: the :queue parameter of r's URL
  table,  \* Broker.Queues: name -> Queue object, or Nil
  depth, enqueued, dequeued, drained, messages,
          \* the fields of the Queue objects: depth[o] is o.Depth
  bmu,    \* Broker.mu
  qmu,    \* qmu[q]: the mu of Queue object q
  q,      \* q[r]: the Queue pointer in r's stack
  m,      \* m[r]: the message r created or popped
  todo,   \* todo[r]: the names that Stats has yet to visit
  stat,   \* stat[r]: the records Stats has collected
  status, \* status[r]: the HTTP status r was answered with, 0 before
  log     \* history: log[q] is every message ever appended to q, in order

handler == <<op, name>>
queue == <<depth, enqueued, dequeued, drained, messages>>
counters == <<enqueued, dequeued, drained>>
locks == <<bmu, qmu>>
stack == <<q, m, todo, stat>>
vars == <<pc, handler, table, queue, locks, stack, status, log>>

StatOf(o) == [depth |-> depth[o], enqueued |-> enqueued[o],
              dequeued |-> dequeued[o], drained |-> drained[o]]

Init ==
  /\ pc = [r \in Requests |-> "new"]
  /\ op = [r \in Requests |-> "none"]
  /\ name = [r \in Requests |-> Nil]
  /\ table = [n \in Names |-> Nil]
  /\ depth = [o \in Requests |-> 0]
  /\ enqueued = [o \in Requests |-> 0]
  /\ dequeued = [o \in Requests |-> 0]
  /\ drained = [o \in Requests |-> 0]
  /\ messages = [o \in Requests |-> <<>>]
  /\ bmu = Unlocked
  /\ qmu = [o \in Requests |-> Unlocked]
  /\ q = [r \in Requests |-> Nil]
  /\ m = [r \in Requests |-> Nil]
  /\ todo = [r \in Requests |-> {}]
  /\ stat = [r \in Requests |-> {}]
  /\ status = [r \in Requests |-> 0]
  /\ log = [o \in Requests |-> <<>>]

Goto(r, from, to) == pc[r] = from /\ pc' = [pc EXCEPT ![r] = to]

Answer(r, from, code) == /\ Goto(r, from, "done")
                         /\ status' = [status EXCEPT ![r] = code]

UnlockBroker == bmu' = Unlock(bmu)
UnlockQueue(r) == qmu' = [qmu EXCEPT ![q[r]] = Unlock(@)]

-----------------------------------------------------------------------------
(* Arrival *)

\* The router calls the handler, which calls the broker; the broker's method
\* starts by locking Broker.mu, for reading in getQueue and Stats.
Arrive(r) ==
  \E o \in Ops, n \in Names :
    /\ Goto(r, "new", IF o \in {"create", "delete", "drain"} THEN "b.Lock" ELSE "b.RLock")
    /\ op' = [op EXCEPT ![r] = o]
    /\ name' = [name EXCEPT ![r] = IF o = "stats" THEN Nil ELSE n]
    /\ UNCHANGED <<table, queue, locks, stack, status, log>>

\* The handler answers without the broker: the name is empty (400) or, in
\* Enqueue, the body cannot be read (500).
Reject(r) ==
  /\ \E o \in Ops \ {"stats"} :
       /\ op' = [op EXCEPT ![r] = o]
       /\ \/ Answer(r, "new", 400)
          \/ o = "enqueue" /\ Answer(r, "new", 500)
  /\ UNCHANGED <<name, table, queue, locks, stack, log>>

-----------------------------------------------------------------------------
(* CreateQueue, DeleteQueue, DrainQueue: under b.mu.Lock() *)

LockBroker(r) ==
  /\ Goto(r, "b.Lock", op[r])
  /\ MayAnnounce(bmu)
  /\ bmu' = Announce(bmu, r)
  /\ UNCHANGED <<handler, table, queue, qmu, stack, status, log>>

\* Mutant: CreateQueue does not look whether the name exists.
BugCreateOverwrites(r) ==
  /\ pc[r] = "create" /\ WriteOwned(bmu, r)
  /\ Goto(r, "create", "insert")
  /\ UNCHANGED <<handler, table, queue, locks, stack, status, log>>

Create(r) ==
  /\ pc[r] = "create" /\ WriteOwned(bmu, r)
  /\ \/ /\ table[name[r]] # Nil
        /\ Answer(r, "create", 400)
        /\ UnlockBroker
     \/ /\ table[name[r]] = Nil
        /\ Goto(r, "create", "insert")
        /\ UNCHANGED <<bmu, status>>
  /\ UNCHANGED <<handler, table, queue, qmu, stack, log>>

Insert(r) ==
  /\ Answer(r, "insert", 200)
  /\ depth' = [depth EXCEPT ![r] = 0]
  /\ enqueued' = [enqueued EXCEPT ![r] = 0]
  /\ dequeued' = [dequeued EXCEPT ![r] = 0]
  /\ drained' = [drained EXCEPT ![r] = 0]
  /\ messages' = [messages EXCEPT ![r] = <<>>]
  /\ table' = [table EXCEPT ![name[r]] = r]
  /\ UnlockBroker
  /\ UNCHANGED <<handler, qmu, stack, log>>

\* Mutant: DeleteQueue answers 404 for a name that does not exist.
BugDelete404(r) ==
  /\ pc[r] = "delete" /\ WriteOwned(bmu, r)
  /\ Answer(r, "delete", IF table[name[r]] = Nil THEN 404 ELSE 200)
  /\ table' = [table EXCEPT ![name[r]] = Nil]
  /\ UnlockBroker
  /\ UNCHANGED <<handler, queue, qmu, stack, log>>

Delete(r) ==
  /\ pc[r] = "delete" /\ WriteOwned(bmu, r)
  /\ \/ table[name[r]] = Nil /\ Answer(r, "delete", 400) /\ UNCHANGED table
     \/ /\ table[name[r]] # Nil
        /\ Answer(r, "delete", 200)
        /\ table' = [table EXCEPT ![name[r]] = Nil]
  /\ UnlockBroker
  /\ UNCHANGED <<handler, queue, qmu, stack, log>>

\* Mutant: DrainQueue finds its queue as PutMessage does, and lets b.mu go.
BugDrainLetsGo(r) ==
  /\ pc[r] = "drain" /\ WriteOwned(bmu, r)
  /\ \/ /\ table[name[r]] = Nil
        /\ Answer(r, "drain", 400)
        /\ UNCHANGED q
     \/ /\ table[name[r]] # Nil
        /\ Goto(r, "drain", "q.Lock")
        /\ q' = [q EXCEPT ![r] = table[name[r]]]
        /\ UNCHANGED status
  /\ UnlockBroker
  /\ UNCHANGED <<handler, table, queue, qmu, m, todo, stat, log>>

Drain(r) ==
  /\ pc[r] = "drain" /\ WriteOwned(bmu, r)
  /\ \/ /\ table[name[r]] = Nil
        /\ Answer(r, "drain", 400)
        /\ UnlockBroker
        /\ UNCHANGED q
     \/ /\ table[name[r]] # Nil
        /\ Goto(r, "drain", "q.Lock")
        /\ q' = [q EXCEPT ![r] = table[name[r]]]
        /\ UNCHANGED <<bmu, status>>
  /\ UNCHANGED <<handler, table, queue, qmu, m, todo, stat, log>>

\* q.mu.Lock(), in DrainQueue (which still holds b.mu), PutMessage and
\* GetMessage (which have released it).
LockQueue(r) ==
  /\ Goto(r, "q.Lock", IF op[r] = "drain" THEN "clear"
                    ELSE IF op[r] = "enqueue" THEN "append" ELSE "head")
  /\ MayAnnounce(qmu[q[r]])
  /\ qmu' = [qmu EXCEPT ![q[r]] = Announce(@, r)]
  /\ UNCHANGED <<handler, table, queue, bmu, stack, status, log>>

Clear(r) ==
  /\ Goto(r, "clear", "zero")
  /\ WriteOwned(qmu[q[r]], r)
  /\ messages' = [messages EXCEPT ![q[r]] = <<>>]
  /\ drained' = [drained EXCEPT ![q[r]] = @ + depth[q[r]]]
  /\ UNCHANGED <<handler, table, depth, enqueued, dequeued, locks, stack, status, log>>

\* Mutant: DrainQueue forgets Depth.
BugZeroForgets(r) ==
  /\ Answer(r, "zero", 200)
  /\ UnlockQueue(r)
  /\ UnlockBroker
  /\ UNCHANGED <<handler, table, queue, stack, log>>

Zero(r) ==
  /\ Answer(r, "zero", 200)
  /\ depth' = [depth EXCEPT ![q[r]] = 0]
  /\ UnlockQueue(r)
  /\ UnlockBroker
  /\ UNCHANGED <<handler, table, counters, messages, stack, log>>

-----------------------------------------------------------------------------
(* PutMessage and GetMessage: getQueue under b.mu.RLock(), then q.mu.Lock() *)

RLockBroker(r) ==
  /\ Goto(r, "b.RLock", IF op[r] = "stats" THEN "range" ELSE "getQueue")
  /\ bmu' = RLock(bmu, r)
  /\ UNCHANGED <<handler, table, queue, qmu, stack, status, log>>

GetQueue(r) ==
  /\ pc[r] = "getQueue" /\ ReadOwned(bmu, r)
  /\ \/ /\ table[name[r]] = Nil
        /\ Answer(r, "getQueue", 400)
        /\ UNCHANGED q
     \/ /\ table[name[r]] # Nil
        /\ Goto(r, "getQueue", IF op[r] = "enqueue" THEN "newMessage" ELSE "q.Lock")
        /\ q' = [q EXCEPT ![r] = table[name[r]]]
        /\ UNCHANGED status
  /\ bmu' = RUnlock(bmu, r)
  /\ UNCHANGED <<handler, table, queue, qmu, m, todo, stat, log>>

\* uuid() fails when the system's random source does.
NewMessage(r) ==
  /\ \/ Answer(r, "newMessage", 400) /\ UNCHANGED m
     \/ /\ Goto(r, "newMessage", "q.Lock")
        /\ m' = [m EXCEPT ![r] = r]
        /\ UNCHANGED status
  /\ UNCHANGED <<handler, table, queue, locks, q, todo, stat, log>>

AppendMessage(r) ==
  /\ Goto(r, "append", "enqueued")
  /\ WriteOwned(qmu[q[r]], r)
  /\ messages' = [messages EXCEPT ![q[r]] = Append(@, m[r])]
  /\ depth' = [depth EXCEPT ![q[r]] = @ + 1]
  /\ log' = [log EXCEPT ![q[r]] = Append(@, m[r])]
  /\ UNCHANGED <<handler, table, counters, locks, stack, status>>

CountEnqueued(r) ==
  /\ Answer(r, "enqueued", 200)
  /\ enqueued' = [enqueued EXCEPT ![q[r]] = @ + 1]
  /\ UnlockQueue(r)
  /\ UNCHANGED <<handler, table, depth, dequeued, drained, messages, bmu, stack, log>>

\* Mutant: GetMessage does not answer on an empty queue but tries again.
BugSpinOnEmpty(r) ==
  /\ pc[r] = "head" /\ WriteOwned(qmu[q[r]], r)
  /\ \/ /\ messages[q[r]] = <<>>
        /\ Goto(r, "head", "b.RLock")
        /\ UnlockQueue(r)
        /\ UNCHANGED m
     \/ /\ messages[q[r]] # <<>>
        /\ Goto(r, "head", "pop")
        /\ m' = [m EXCEPT ![r] = Head(messages[q[r]])]
        /\ UNCHANGED qmu
  /\ UNCHANGED <<handler, table, queue, bmu, q, todo, stat, status, log>>

\* An empty queue is answered 204; otherwise m is Messages[0].
ReadHead(r) ==
  /\ pc[r] = "head" /\ WriteOwned(qmu[q[r]], r)
  /\ \/ /\ messages[q[r]] = <<>>
        /\ Answer(r, "head", 204)
        /\ UnlockQueue(r)
        /\ UNCHANGED m
     \/ /\ messages[q[r]] # <<>>
        /\ Goto(r, "head", "pop")
        /\ m' = [m EXCEPT ![r] = Head(messages[q[r]])]
        /\ UNCHANGED <<qmu, status>>
  /\ UNCHANGED <<handler, table, queue, bmu, q, todo, stat, log>>

\* Mutant: GetMessage drops the newest message instead of the oldest.
BugPopNewest(r) ==
  /\ Goto(r, "pop", "dequeued")
  /\ messages' = [messages EXCEPT ![q[r]] = SubSeq(@, 1, Len(@) - 1)]
  /\ depth' = [depth EXCEPT ![q[r]] = @ - 1]
  /\ UNCHANGED <<handler, table, counters, locks, stack, status, log>>

Pop(r) ==
  /\ Goto(r, "pop", "dequeued")
  /\ messages' = [messages EXCEPT ![q[r]] = Tail(@)]
  /\ depth' = [depth EXCEPT ![q[r]] = @ - 1]
  /\ UNCHANGED <<handler, table, counters, locks, stack, status, log>>

CountDequeued(r) ==
  /\ Answer(r, "dequeued", 200)
  /\ dequeued' = [dequeued EXCEPT ![q[r]] = @ + 1]
  /\ UnlockQueue(r)
  /\ UNCHANGED <<handler, table, depth, enqueued, drained, messages, bmu, stack, log>>

-----------------------------------------------------------------------------
(* Stats: b.mu.RLock() to the end, q.mu.RLock() one queue at a time, in the *)
(* order Go's range over the map happens to take                            *)

\* Mutant: Stats lets b.mu go as soon as it has the names.
BugRangeLetsGo(r) ==
  /\ Goto(r, "range", "next")
  /\ ReadOwned(bmu, r)
  /\ todo' = [todo EXCEPT ![r] = {n \in Names : table[n] # Nil}]
  /\ bmu' = RUnlock(bmu, r)
  /\ UNCHANGED <<handler, table, queue, qmu, q, m, stat, status, log>>

RangeQueues(r) ==
  /\ Goto(r, "range", "next")
  /\ ReadOwned(bmu, r)
  /\ todo' = [todo EXCEPT ![r] = {n \in Names : table[n] # Nil}]
  /\ UNCHANGED <<handler, table, queue, locks, q, m, stat, status, log>>

RLockQueue(r) ==
  /\ Goto(r, "next", "read")
  /\ \E n \in todo[r] :
       /\ name' = [name EXCEPT ![r] = n]
       /\ q' = [q EXCEPT ![r] = table[n]]
       /\ qmu' = [qmu EXCEPT ![table[n]] = RLock(@, r)]
       /\ todo' = [todo EXCEPT ![r] = @ \ {n}]
  /\ UNCHANGED <<op, table, queue, bmu, m, stat, status, log>>

\* Mutant: Stats does not wait for the queue's mutex.
BugReadStatUnlocked(r) ==
  /\ Goto(r, "read", "next")
  /\ stat' = [stat EXCEPT ![r] = @ \cup {[name |-> name[r], stat |-> StatOf(q[r])]}]
  /\ qmu' = [qmu EXCEPT ![q[r]] = RUnlock(@, r)]
  /\ UNCHANGED <<handler, table, queue, bmu, q, m, todo, status, log>>

ReadStat(r) ==
  /\ Goto(r, "read", "next")
  /\ ReadOwned(qmu[q[r]], r)
  /\ stat' = [stat EXCEPT ![r] = @ \cup {[name |-> name[r], stat |-> StatOf(q[r])]}]
  /\ qmu' = [qmu EXCEPT ![q[r]] = RUnlock(@, r)]
  /\ UNCHANGED <<handler, table, queue, bmu, q, m, todo, status, log>>

ServeStats(r) ==
  /\ todo[r] = {}
  /\ Answer(r, "next", 200)
  /\ bmu' = RUnlock(bmu, r)
  /\ UNCHANGED <<handler, table, queue, qmu, stack, log>>

-----------------------------------------------------------------------------
(* The specification *)

\* What a goroutine does after one of its waits ended, and what it waits for.
Acquire(r) == LockBroker(r) \/ LockQueue(r)

Proceed(r) ==
  \/ Create(r) \/ Insert(r) \/ Delete(r) \/ Drain(r) \/ Clear(r) \/ Zero(r)
  \/ RLockBroker(r) \/ GetQueue(r)
  \/ NewMessage(r) \/ AppendMessage(r) \/ CountEnqueued(r)
  \/ ReadHead(r) \/ Pop(r) \/ CountDequeued(r)
  \/ RangeQueues(r) \/ RLockQueue(r) \/ ReadStat(r) \/ ServeStats(r)

Step(r) == Arrive(r) \/ Reject(r) \/ Acquire(r) \/ Proceed(r)

\* Every request was answered: the server waits for more.
Quiescent == (\A r \in Requests : pc[r] = "done") /\ UNCHANGED vars

Next == (\E r \in Requests : Step(r)) \/ Quiescent

Spec == Init /\ [][Next]_vars

\* The Go scheduler runs every runnable goroutine (WF), and a sync.Mutex, which
\* is what orders the writers of an RWMutex, hands itself to a goroutine that
\* has waited for a millisecond (SF).  No request has to arrive.
Fairness == \A r \in Requests : /\ WF_vars(Proceed(r))
                                /\ SF_vars(Acquire(r))

FairSpec == Spec /\ Fairness

-----------------------------------------------------------------------------
(* Properties *)

\* The type invariant: what each variable holds between two steps.
PCs == {"new", "b.Lock", "create", "insert", "delete", "drain", "q.Lock", "clear",
        "zero", "b.RLock", "getQueue", "newMessage", "append", "enqueued", "head",
        "pop", "dequeued", "range", "next", "read", "done"}
Counters == [depth: Int, enqueued: Int, dequeued: Int, drained: Int]

TypeOK ==
  /\ pc \in [Requests -> PCs]
  /\ op \in [Requests -> Ops \cup {"none"}]
  /\ name \in [Requests -> Names \cup {Nil}]
  /\ table \in [Names -> Requests \cup {Nil}]
  /\ depth \in [Requests -> Int] /\ enqueued \in [Requests -> Int]
  /\ dequeued \in [Requests -> Int] /\ drained \in [Requests -> Int]
  /\ messages \in [Requests -> Seq(Requests)]
  /\ bmu \in Mutexes
  /\ qmu \in [Requests -> Mutexes]
  /\ q \in [Requests -> Requests \cup {Nil}]
  /\ m \in [Requests -> Requests \cup {Nil}]
  /\ todo \in [Requests -> SUBSET Names]
  /\ stat \in [Requests -> SUBSET [name: Names, stat: Counters]]
  /\ status \in [Requests -> {0, 200, 204, 400, 500}]
  /\ log \in [Requests -> Seq(Requests)]

\* No goroutine is between its first and its last assignment to queue o.
AtRest(o) == \A r \in Requests : q[r] = o => pc[r] \notin {"enqueued", "dequeued", "zero"}

Balanced(c) == c.enqueued = c.dequeued + c.drained + c.depth

\* Whatever Put, Get and Drain do to a queue in whatever order, its counters
\* balance and Depth is the length of Messages whenever nobody is updating it.
Conservation ==
  \A o \in Requests : AtRest(o) => /\ Balanced(StatOf(o))
                                   /\ depth[o] = Len(messages[o])

\* Every record that a GET of /stats collects balances: Stats never shows a
\* queue in the middle of an update.
StatsBalanced == \A r \in Requests : \A s \in stat[r] : Balanced(s.stat)

\* Messages leave a queue at its head only: what is left is always the newest
\* part of what was ever appended, in that order.
FIFO ==
  \A o \in Requests :
    LET msgs == messages[o]
        gone == Len(log[o]) - Len(msgs)
    IN gone >= 0 /\ \A i \in 1..Len(msgs) : msgs[i] = log[o][gone + i]

\* DrainQueue and Stats hold Broker.mu while they work on a queue: it is the
\* queue its name stands for, never one that was deleted or replaced.
NamedQueue ==
  \A r \in Requests :
    \/ op[r] = "drain" /\ pc[r] \in {"q.Lock", "clear", "zero"}
    \/ pc[r] = "read"
    => q[r] = table[name[r]]

\* Every request that arrived is answered: no goroutine waits forever for the
\* broker's or a queue's mutex.
Answered == \A r \in Requests : (pc[r] # "new") ~> (pc[r] = "done")
=============================================================================
