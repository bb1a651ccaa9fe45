-------------------------- MODULE MemqBrokerProofs --------------------------
(***************************************************************************)
(* The invariants of MemqBroker hold for every set of requests and every   *)
(* set of names.  IInv is inductive; one lemma shows each of its conjuncts *)
(* to survive a step, InductiveStep puts them together.  From IInv follows *)
(* that the broker implements QueueService: every step of it is, under the *)
(* mapping of MemqRefinement, a step of the service or none.               *)
(* With the invariant of MemqLinearizabilityInv, the answers of the broker *)
(* are those of a sequential server.                                       *)
(***************************************************************************)
EXTENDS MemqLinearizabilityInv, MemqRefinement, FiniteSetTheorems, TLAPS

-----------------------------------------------------------------------------
(* What the operations of RWMutex return *)

\* Each operation of sync.RWMutex gives back a mutex.
LEMMA MutexType ==
  ASSUME NEW mu \in Mutexes, NEW r \in Requests
  PROVE  /\ Announce(mu, r) \in Mutexes
         /\ Unlock(mu) \in Mutexes
         /\ RLock(mu, r) \in Mutexes
         /\ RUnlock(mu, r) \in Mutexes
PROOF
<1>1. Announce(mu, r) \in Mutexes
  BY DEF Mutexes, Announce, Mutex
<1>2. Unlock(mu) \in Mutexes
  BY DEF Mutexes, Unlock, Mutex
<1>3. RLock(mu, r) \in Mutexes
  BY DEF Mutexes, RLock, Mutex
<1>4. RUnlock(mu, r) \in Mutexes
  BY DEF Mutexes, RUnlock, Mutex
<1> QED
  BY <1>1, <1>2, <1>3, <1>4

\* What each operation does to the writer and to the readers: only Announce
\* and Unlock change the writer, RLock admits nobody past a writer, and
\* RUnlock takes nobody else's place away.
LEMMA MutexFields ==
  ASSUME NEW mu \in Mutexes, NEW r \in Requests
  PROVE  /\ Unlocked.writer = Nil /\ Unlocked.readers = {}
         /\ Announce(mu, r).writer = r /\ Announce(mu, r).readers = mu.readers
         /\ Unlock(mu).writer = Nil /\ mu.readers \subseteq Unlock(mu).readers
         /\ RLock(mu, r).writer = mu.writer
         /\ mu.readers \subseteq RLock(mu, r).readers
         /\ mu.writer # Nil => RLock(mu, r).readers = mu.readers
         /\ RUnlock(mu, r).writer = mu.writer
         /\ RUnlock(mu, r).readers = mu.readers \ {r}
PROOF
  BY DEF Unlocked, Announce, Unlock, RLock, RUnlock, Mutex

\* A new mutex is a mutex.
LEMMA UnlockedType == Unlocked \in Mutexes
PROOF
  BY DEF Unlocked, Mutexes, Mutex

-----------------------------------------------------------------------------
(* Types, control and pointers *)

\* Every step keeps every variable in its type.
LEMMA TypeStep ==
  ASSUME TypeOK, ControlOK, StackOK, ListingOK, UpdateOK,
         [Next]_vars
  PROVE  TypeOK'
PROOF
<1> USE DEF queue, counters, handler, locks, stack
<1>pc. pc \in [Requests -> PCs]
  BY DEF TypeOK
<1>op. op \in [Requests -> Ops \cup {"none"}]
  BY DEF TypeOK
<1>name. name \in [Requests -> Names \cup {Nil}]
  BY DEF TypeOK
<1>table. table \in [Names -> Requests \cup {Nil}]
  BY DEF TypeOK
<1>depth. depth \in [Requests -> Int]
  BY DEF TypeOK
<1>enqueued. enqueued \in [Requests -> Int]
  BY DEF TypeOK
<1>dequeued. dequeued \in [Requests -> Int]
  BY DEF TypeOK
<1>drained. drained \in [Requests -> Int]
  BY DEF TypeOK
<1>messages. messages \in [Requests -> Seq(Requests)]
  BY DEF TypeOK
<1>bmu. bmu \in Mutexes
  BY DEF TypeOK
<1>qmu. qmu \in [Requests -> Mutexes]
  BY DEF TypeOK
<1>q. q \in [Requests -> Requests \cup {Nil}]
  BY DEF TypeOK
<1>m. m \in [Requests -> Requests \cup {Nil}]
  BY DEF TypeOK
<1>todo. todo \in [Requests -> SUBSET Names]
  BY DEF TypeOK
<1>stat. stat \in [Requests -> SUBSET [name: Names, stat: Counters]]
  BY DEF TypeOK
<1>status. status \in [Requests -> {0, 200, 204, 400, 500}]
  BY DEF TypeOK
<1>log. log \in [Requests -> Seq(Requests)]
  BY DEF TypeOK
<1>1. ASSUME NEW r \in Requests, Arrive(r) PROVE TypeOK'
  <2>1. pc' \in [Requests -> PCs]
    BY <1>1, <1>pc DEF Arrive, PCs, Goto, Answer
  <2>2. op' \in [Requests -> Ops \cup {"none"}]
    BY <1>1, <1>op DEF Arrive, Ops
  <2>3. name' \in [Requests -> Names \cup {Nil}]
    BY <1>1, <1>name DEF Arrive
  <2> QED
    BY <1>1, <2>1, <2>2, <2>3 DEF TypeOK, Arrive
<1>2. ASSUME NEW r \in Requests, Reject(r) PROVE TypeOK'
  <2>1. pc' \in [Requests -> PCs]
    BY <1>2, <1>pc DEF Reject, PCs, Goto, Answer
  <2>2. op' \in [Requests -> Ops \cup {"none"}]
    BY <1>2, <1>op DEF Reject, Ops
  <2>3. status' \in [Requests -> {0, 200, 204, 400, 500}]
    BY <1>2, <1>status DEF Reject, Answer, Goto
  <2> QED
    BY <1>2, <2>1, <2>2, <2>3 DEF TypeOK, Reject
<1>3. ASSUME NEW r \in Requests, LockBroker(r) PROVE TypeOK'
  <2>1. op[r] \in {"create", "delete", "drain"}
    BY <1>3, <1>pc DEF LockBroker, Goto, Answer, ControlOK
  <2>2. pc' \in [Requests -> PCs]
    BY <1>3, <1>pc, <2>1 DEF LockBroker, PCs, Goto, Answer
  <2>3. bmu' \in Mutexes
    BY <1>3, <1>bmu, <2>1, MutexType DEF LockBroker, UnlockBroker
  <2> QED
    BY <1>3, <2>2, <2>3 DEF TypeOK, LockBroker
<1>4. ASSUME NEW r \in Requests, Create(r) PROVE TypeOK'
  <2>1. pc' \in [Requests -> PCs]
    BY <1>4, <1>pc DEF Create, PCs, Goto, Answer
  <2>2. status' \in [Requests -> {0, 200, 204, 400, 500}]
    BY <1>4, <1>status DEF Create, Answer, Goto
  <2>3. bmu' \in Mutexes
    BY <1>4, <1>bmu, MutexType DEF Create, UnlockBroker
  <2> QED
    BY <1>4, <2>1, <2>2, <2>3 DEF TypeOK, Create
<1>5. ASSUME NEW r \in Requests, Insert(r) PROVE TypeOK'
  <2>1. name[r] \in Names
    BY <1>5, <1>pc DEF Insert, Goto, Answer, StackOK, ControlOK
  <2>2. pc' \in [Requests -> PCs]
    BY <1>5, <1>pc, <2>1 DEF Insert, PCs, Goto, Answer
  <2>3. status' \in [Requests -> {0, 200, 204, 400, 500}]
    BY <1>5, <1>status, <2>1 DEF Insert, Answer, Goto
  <2>4. depth' \in [Requests -> Int]
    BY <1>5, <1>depth, <2>1 DEF Insert
  <2>5. enqueued' \in [Requests -> Int]
    BY <1>5, <1>enqueued, <2>1 DEF Insert
  <2>6. dequeued' \in [Requests -> Int]
    BY <1>5, <1>dequeued, <2>1 DEF Insert
  <2>7. drained' \in [Requests -> Int]
    BY <1>5, <1>drained, <1>depth, <2>1 DEF Insert
  <2>8. messages' \in [Requests -> Seq(Requests)]
    BY <1>5, <1>messages, <1>m, <2>1 DEF Insert
  <2>9. table' \in [Names -> Requests \cup {Nil}]
    BY <1>5, <1>table, <2>1 DEF Insert
  <2>10. bmu' \in Mutexes
    BY <1>5, <1>bmu, <2>1, MutexType DEF Insert, UnlockBroker
  <2> QED
    BY <1>5, <2>2, <2>3, <2>4, <2>5, <2>6, <2>7, <2>8, <2>9, <2>10 DEF TypeOK, Insert
<1>6. ASSUME NEW r \in Requests, Delete(r) PROVE TypeOK'
  <2>1. name[r] \in Names
    BY <1>6, <1>pc DEF Delete, Goto, Answer, StackOK, ControlOK
  <2>2. pc' \in [Requests -> PCs]
    BY <1>6, <1>pc, <2>1 DEF Delete, PCs, Goto, Answer
  <2>3. status' \in [Requests -> {0, 200, 204, 400, 500}]
    BY <1>6, <1>status, <2>1 DEF Delete, Answer, Goto
  <2>4. table' \in [Names -> Requests \cup {Nil}]
    BY <1>6, <1>table, <2>1 DEF Delete
  <2>5. bmu' \in Mutexes
    BY <1>6, <1>bmu, <2>1, MutexType DEF Delete, UnlockBroker
  <2> QED
    BY <1>6, <2>2, <2>3, <2>4, <2>5 DEF TypeOK, Delete
<1>7. ASSUME NEW r \in Requests, Drain(r) PROVE TypeOK'
  <2>1. name[r] \in Names
    BY <1>7, <1>pc DEF Drain, Goto, Answer, StackOK, ControlOK
  <2>2. pc' \in [Requests -> PCs]
    BY <1>7, <1>pc, <2>1 DEF Drain, PCs, Goto, Answer
  <2>3. status' \in [Requests -> {0, 200, 204, 400, 500}]
    BY <1>7, <1>status, <2>1 DEF Drain, Answer, Goto
  <2>4. bmu' \in Mutexes
    BY <1>7, <1>bmu, <2>1, MutexType DEF Drain, UnlockBroker
  <2>5. q' \in [Requests -> Requests \cup {Nil}]
    BY <1>7, <1>q, <1>table, <2>1 DEF Drain
  <2> QED
    BY <1>7, <2>2, <2>3, <2>4, <2>5 DEF TypeOK, Drain
<1>8. ASSUME NEW r \in Requests, LockQueue(r) PROVE TypeOK'
  <2>1. q[r] \in Requests
    BY <1>8, <1>pc DEF LockQueue, Goto, Answer, StackOK, HasQueue
  <2>2. pc' \in [Requests -> PCs]
    BY <1>8, <1>pc, <2>1 DEF LockQueue, PCs, Goto, Answer
  <2>3. qmu' \in [Requests -> Mutexes]
    BY <1>8, <1>qmu, <2>1, MutexType DEF LockQueue, UnlockQueue
  <2> QED
    BY <1>8, <2>2, <2>3 DEF TypeOK, LockQueue
<1>9. ASSUME NEW r \in Requests, Clear(r) PROVE TypeOK'
  <2>1. q[r] \in Requests
    BY <1>9, <1>pc DEF Clear, Goto, Answer, StackOK, HasQueue
  <2>2. pc' \in [Requests -> PCs]
    BY <1>9, <1>pc, <2>1 DEF Clear, PCs, Goto, Answer
  <2>3. messages' \in [Requests -> Seq(Requests)]
    BY <1>9, <1>messages, <1>m, <2>1 DEF Clear
  <2>4. drained' \in [Requests -> Int]
    BY <1>9, <1>drained, <1>depth, <2>1 DEF Clear
  <2> QED
    BY <1>9, <2>2, <2>3, <2>4 DEF TypeOK, Clear
<1>10. ASSUME NEW r \in Requests, Zero(r) PROVE TypeOK'
  <2>1. q[r] \in Requests
    BY <1>10, <1>pc DEF Zero, Goto, Answer, StackOK, HasQueue
  <2>2. pc' \in [Requests -> PCs]
    BY <1>10, <1>pc, <2>1 DEF Zero, PCs, Goto, Answer
  <2>3. status' \in [Requests -> {0, 200, 204, 400, 500}]
    BY <1>10, <1>status, <2>1 DEF Zero, Answer, Goto
  <2>4. depth' \in [Requests -> Int]
    BY <1>10, <1>depth, <2>1 DEF Zero
  <2>5. qmu' \in [Requests -> Mutexes]
    BY <1>10, <1>qmu, <2>1, MutexType DEF Zero, UnlockQueue
  <2>6. bmu' \in Mutexes
    BY <1>10, <1>bmu, <2>1, MutexType DEF Zero, UnlockBroker
  <2> QED
    BY <1>10, <2>2, <2>3, <2>4, <2>5, <2>6 DEF TypeOK, Zero
<1>11. ASSUME NEW r \in Requests, RLockBroker(r) PROVE TypeOK'
  <2>1. pc' \in [Requests -> PCs]
    BY <1>11, <1>pc DEF RLockBroker, PCs, Goto, Answer
  <2>2. bmu' \in Mutexes
    BY <1>11, <1>bmu, MutexType DEF RLockBroker, UnlockBroker
  <2> QED
    BY <1>11, <2>1, <2>2 DEF TypeOK, RLockBroker
<1>12. ASSUME NEW r \in Requests, GetQueue(r) PROVE TypeOK'
  <2>1. name[r] \in Names
    BY <1>12, <1>pc DEF GetQueue, Goto, Answer, StackOK, ControlOK
  <2>2. pc' \in [Requests -> PCs]
    BY <1>12, <1>pc, <2>1 DEF GetQueue, PCs, Goto, Answer
  <2>3. status' \in [Requests -> {0, 200, 204, 400, 500}]
    BY <1>12, <1>status, <2>1 DEF GetQueue, Answer, Goto
  <2>4. q' \in [Requests -> Requests \cup {Nil}]
    BY <1>12, <1>q, <1>table, <2>1 DEF GetQueue
  <2>5. bmu' \in Mutexes
    BY <1>12, <1>bmu, <2>1, MutexType DEF GetQueue, UnlockBroker
  <2> QED
    BY <1>12, <2>2, <2>3, <2>4, <2>5 DEF TypeOK, GetQueue
<1>13. ASSUME NEW r \in Requests, NewMessage(r) PROVE TypeOK'
  <2>1. pc' \in [Requests -> PCs]
    BY <1>13, <1>pc DEF NewMessage, PCs, Goto, Answer
  <2>2. status' \in [Requests -> {0, 200, 204, 400, 500}]
    BY <1>13, <1>status DEF NewMessage, Answer, Goto
  <2>3. m' \in [Requests -> Requests \cup {Nil}]
    BY <1>13, <1>m, <1>messages DEF NewMessage
  <2> QED
    BY <1>13, <2>1, <2>2, <2>3 DEF TypeOK, NewMessage
<1>14. ASSUME NEW r \in Requests, AppendMessage(r) PROVE TypeOK'
  <2>1. q[r] \in Requests
    BY <1>14, <1>pc DEF AppendMessage, Goto, Answer, StackOK, HasQueue
  <2>2. m[r] \in Requests
    BY <1>14, <1>pc DEF AppendMessage, Goto, Answer, StackOK
  <2>3. pc' \in [Requests -> PCs]
    BY <1>14, <1>pc, <2>1, <2>2 DEF AppendMessage, PCs, Goto, Answer
  <2>4. messages' \in [Requests -> Seq(Requests)]
    BY <1>14, <1>messages, <1>m, <2>1, <2>2 DEF AppendMessage
  <2>5. depth' \in [Requests -> Int]
    BY <1>14, <1>depth, <2>1, <2>2 DEF AppendMessage
  <2>6. log' \in [Requests -> Seq(Requests)]
    BY <1>14, <1>log, <1>m, <2>1, <2>2 DEF AppendMessage
  <2> QED
    BY <1>14, <2>3, <2>4, <2>5, <2>6 DEF TypeOK, AppendMessage
<1>15. ASSUME NEW r \in Requests, CountEnqueued(r) PROVE TypeOK'
  <2>1. q[r] \in Requests
    BY <1>15, <1>pc DEF CountEnqueued, Goto, Answer, StackOK, HasQueue
  <2>2. pc' \in [Requests -> PCs]
    BY <1>15, <1>pc, <2>1 DEF CountEnqueued, PCs, Goto, Answer
  <2>3. status' \in [Requests -> {0, 200, 204, 400, 500}]
    BY <1>15, <1>status, <2>1 DEF CountEnqueued, Answer, Goto
  <2>4. enqueued' \in [Requests -> Int]
    BY <1>15, <1>enqueued, <2>1 DEF CountEnqueued
  <2>5. qmu' \in [Requests -> Mutexes]
    BY <1>15, <1>qmu, <2>1, MutexType DEF CountEnqueued, UnlockQueue
  <2> QED
    BY <1>15, <2>2, <2>3, <2>4, <2>5 DEF TypeOK, CountEnqueued
<1>16. ASSUME NEW r \in Requests, ReadHead(r) PROVE TypeOK'
  <2>1. q[r] \in Requests
    BY <1>16, <1>pc DEF ReadHead, Goto, Answer, StackOK, HasQueue
  <2>2. pc[r] = "head" /\ (messages[q[r]] # <<>> => Head(messages[q[r]]) \in Requests)
    BY <1>16, <2>1, <1>messages DEF ReadHead, Goto
  <2>3. pc' \in [Requests -> PCs]
    BY <1>16, <1>pc, <2>1, <2>2 DEF ReadHead, PCs, Goto, Answer
  <2>4. status' \in [Requests -> {0, 200, 204, 400, 500}]
    BY <1>16, <1>status, <2>1, <2>2 DEF ReadHead, Answer, Goto
  <2>5. qmu' \in [Requests -> Mutexes]
    BY <1>16, <1>qmu, <2>1, <2>2, MutexType DEF ReadHead, UnlockQueue
  <2>6. m' \in [Requests -> Requests \cup {Nil}]
    BY <1>16, <1>m, <1>messages, <2>1, <2>2 DEF ReadHead
  <2> QED
    BY <1>16, <2>3, <2>4, <2>5, <2>6 DEF TypeOK, ReadHead
<1>17. ASSUME NEW r \in Requests, Pop(r) PROVE TypeOK'
  <2>1. q[r] \in Requests
    BY <1>17, <1>pc DEF Pop, Goto, Answer, StackOK, HasQueue
  <2>2. messages[q[r]] \in Seq(Requests) /\ messages[q[r]] # <<>>
    BY <1>17, <2>1, <1>messages DEF Pop, Goto, Answer, UpdateOK
  <2>3. pc' \in [Requests -> PCs]
    BY <1>17, <1>pc, <2>1, <2>2 DEF Pop, PCs, Goto, Answer
  <2>4. messages' \in [Requests -> Seq(Requests)]
    BY <1>17, <1>messages, <1>m, <2>1, <2>2 DEF Pop
  <2>5. depth' \in [Requests -> Int]
    BY <1>17, <1>depth, <2>1, <2>2 DEF Pop
  <2> QED
    BY <1>17, <2>3, <2>4, <2>5 DEF TypeOK, Pop
<1>18. ASSUME NEW r \in Requests, CountDequeued(r) PROVE TypeOK'
  <2>1. q[r] \in Requests
    BY <1>18, <1>pc DEF CountDequeued, Goto, Answer, StackOK, HasQueue
  <2>2. pc' \in [Requests -> PCs]
    BY <1>18, <1>pc, <2>1 DEF CountDequeued, PCs, Goto, Answer
  <2>3. status' \in [Requests -> {0, 200, 204, 400, 500}]
    BY <1>18, <1>status, <2>1 DEF CountDequeued, Answer, Goto
  <2>4. dequeued' \in [Requests -> Int]
    BY <1>18, <1>dequeued, <2>1 DEF CountDequeued
  <2>5. qmu' \in [Requests -> Mutexes]
    BY <1>18, <1>qmu, <2>1, MutexType DEF CountDequeued, UnlockQueue
  <2> QED
    BY <1>18, <2>2, <2>3, <2>4, <2>5 DEF TypeOK, CountDequeued
<1>19. ASSUME NEW r \in Requests, RangeQueues(r) PROVE TypeOK'
  <2>1. pc' \in [Requests -> PCs]
    BY <1>19, <1>pc DEF RangeQueues, PCs, Goto, Answer
  <2>2. todo' \in [Requests -> SUBSET Names]
    BY <1>19, <1>todo DEF RangeQueues
  <2> QED
    BY <1>19, <2>1, <2>2 DEF TypeOK, RangeQueues
<1>20. ASSUME NEW r \in Requests, RLockQueue(r) PROVE TypeOK'
  <2>1. \A n \in todo[r] : n \in Names /\ table[n] \in Requests
    BY <1>20, <1>todo, <1>table DEF RLockQueue, Goto, Answer, ListingOK
  <2>2. PICK n \in todo[r] : /\ name' = [name EXCEPT ![r] = n]
                             /\ q' = [q EXCEPT ![r] = table[n]]
                             /\ qmu' = [qmu EXCEPT ![table[n]] = RLock(@, r)]
                             /\ todo' = [todo EXCEPT ![r] = @ \ {n}]
    BY <1>20 DEF RLockQueue
  <2>3. pc' \in [Requests -> PCs]
    BY <1>20, <1>pc, <2>1, <2>2 DEF RLockQueue, PCs, Goto, Answer
  <2>4. name' \in [Requests -> Names \cup {Nil}]
    BY <1>name, <2>1, <2>2
  <2>5. q' \in [Requests -> Requests \cup {Nil}]
    BY <1>q, <1>table, <2>1, <2>2
  <2>6. qmu' \in [Requests -> Mutexes]
    BY <1>qmu, <2>1, <2>2, MutexType
  <2>7. todo' \in [Requests -> SUBSET Names]
    BY <1>todo, <2>1, <2>2
  <2> QED
    BY <1>20, <2>2, <2>3, <2>4, <2>5, <2>6, <2>7 DEF TypeOK, RLockQueue
<1>21. ASSUME NEW r \in Requests, ReadStat(r) PROVE TypeOK'
  <2>1. q[r] \in Requests
    BY <1>21, <1>pc DEF ReadStat, Goto, Answer, StackOK, HasQueue
  <2>2. name[r] \in Names
    BY <1>21, <1>pc DEF ReadStat, Goto, Answer, StackOK
  <2>3. pc' \in [Requests -> PCs]
    BY <1>21, <1>pc, <2>1, <2>2 DEF ReadStat, PCs, Goto, Answer
  <2>4. stat' \in [Requests -> SUBSET [name: Names, stat: Counters]]
    BY <1>21, <1>stat, <1>depth, <1>enqueued, <1>dequeued, <1>drained, <2>1, <2>2 DEF ReadStat, Counters, StatOf
  <2>5. qmu' \in [Requests -> Mutexes]
    BY <1>21, <1>qmu, <2>1, <2>2, MutexType DEF ReadStat, UnlockQueue
  <2> QED
    BY <1>21, <2>3, <2>4, <2>5 DEF TypeOK, ReadStat
<1>22. ASSUME NEW r \in Requests, ServeStats(r) PROVE TypeOK'
  <2>1. pc' \in [Requests -> PCs]
    BY <1>22, <1>pc DEF ServeStats, PCs, Goto, Answer
  <2>2. status' \in [Requests -> {0, 200, 204, 400, 500}]
    BY <1>22, <1>status DEF ServeStats, Answer, Goto
  <2>3. bmu' \in Mutexes
    BY <1>22, <1>bmu, MutexType DEF ServeStats, UnlockBroker
  <2> QED
    BY <1>22, <2>1, <2>2, <2>3 DEF TypeOK, ServeStats
<1>23. CASE UNCHANGED vars
  BY <1>23 DEF TypeOK, vars
<1> QED
  BY <1>1, <1>2, <1>3, <1>4, <1>5, <1>6, <1>7, <1>8, <1>9, <1>10, <1>11,
     <1>12, <1>13, <1>14, <1>15, <1>16, <1>17, <1>18, <1>19, <1>20, <1>21, <1>22, <1>23
  DEF Next, Step, Acquire, Proceed, Quiescent

\* A goroutine stays in its handler's code, and has a status once it is done.
LEMMA ControlStep ==
  ASSUME TypeOK, ControlOK,
         [Next]_vars
  PROVE  ControlOK'
PROOF
<1> USE DEF queue, counters, handler, locks, stack
<1>pc. pc \in [Requests -> PCs]
  BY DEF TypeOK
<1>op. op \in [Requests -> Ops \cup {"none"}]
  BY DEF TypeOK
<1>status. status \in [Requests -> {0, 200, 204, 400, 500}]
  BY DEF TypeOK
<1>1. ASSUME NEW r \in Requests, Arrive(r) \/ Reject(r)
      PROVE  ControlOK'
  BY <1>1, <1>pc, <1>op, <1>status DEF ControlOK, Goto, Answer, Ops, Arrive, Reject
<1>2. ASSUME NEW r \in Requests, LockBroker(r) \/ LockQueue(r)
      PROVE  ControlOK'
  BY <1>2, <1>pc, <1>op, <1>status DEF ControlOK, Goto, Answer, Ops, LockBroker,
     LockQueue
<1>3. ASSUME NEW r \in Requests, Create(r) \/ Insert(r) \/ Delete(r) \/ Drain(r)
      PROVE  ControlOK'
  BY <1>3, <1>pc, <1>op, <1>status DEF ControlOK, Goto, Answer, Ops, Create, Insert,
     Delete, Drain
<1>4. ASSUME NEW r \in Requests, Clear(r) \/ Zero(r)
      PROVE  ControlOK'
  BY <1>4, <1>pc, <1>op, <1>status DEF ControlOK, Goto, Answer, Ops, Clear, Zero
<1>5. ASSUME NEW r \in Requests, RLockBroker(r) \/ GetQueue(r)
      PROVE  ControlOK'
  BY <1>5, <1>pc, <1>op, <1>status DEF ControlOK, Goto, Answer, Ops, RLockBroker,
     GetQueue
<1>6. ASSUME NEW r \in Requests, NewMessage(r) \/ AppendMessage(r) \/ CountEnqueued(r)
      PROVE  ControlOK'
  BY <1>6, <1>pc, <1>op, <1>status DEF ControlOK, Goto, Answer, Ops, NewMessage,
     AppendMessage, CountEnqueued
<1>7. ASSUME NEW r \in Requests, ReadHead(r) \/ Pop(r) \/ CountDequeued(r)
      PROVE  ControlOK'
  BY <1>7, <1>pc, <1>op, <1>status DEF ControlOK, Goto, Answer, Ops, ReadHead, Pop,
     CountDequeued
<1>8. ASSUME NEW r \in Requests, RangeQueues(r) \/ RLockQueue(r)
      PROVE  ControlOK'
  BY <1>8, <1>pc, <1>op, <1>status DEF ControlOK, Goto, Answer, Ops, RangeQueues,
     RLockQueue
<1>9. ASSUME NEW r \in Requests, ReadStat(r) \/ ServeStats(r)
      PROVE  ControlOK'
  BY <1>9, <1>pc, <1>op, <1>status DEF ControlOK, Goto, Answer, Ops, ReadStat,
     ServeStats
<1>10. CASE UNCHANGED vars
  BY <1>10 DEF ControlOK, Goto, Answer, Ops, vars
<1> QED
  BY <1>1, <1>2, <1>3, <1>4, <1>5, <1>6, <1>7, <1>8, <1>9, <1>10 DEF Next, Step,
     Acquire, Proceed, Quiescent


\* A goroutine keeps its queue's name and, once found, its pointer.
LEMMA StackStep ==
  ASSUME TypeOK, ControlOK, StackOK, ListingOK,
         [Next]_vars
  PROVE  StackOK'
PROOF
<1> USE DEF queue, counters, handler, locks, stack
<1>pc. pc \in [Requests -> PCs]
  BY DEF TypeOK
<1>op. op \in [Requests -> Ops \cup {"none"}]
  BY DEF TypeOK
<1>name. name \in [Requests -> Names \cup {Nil}]
  BY DEF TypeOK
<1>q. q \in [Requests -> Requests \cup {Nil}]
  BY DEF TypeOK
<1>m. m \in [Requests -> Requests \cup {Nil}]
  BY DEF TypeOK
<1>table. table \in [Names -> Requests \cup {Nil}]
  BY DEF TypeOK
<1>todo. todo \in [Requests -> SUBSET Names]
  BY DEF TypeOK
<1>1. ASSUME NEW r \in Requests, Arrive(r) \/ Reject(r)
      PROVE  StackOK'
  BY <1>1, <1>pc, <1>op, <1>name, <1>q, <1>m, <1>table, <1>todo, NilAssumption DEF
     StackOK, ControlOK, HasQueue, Goto, Answer, Ops, Arrive, Reject
<1>2. ASSUME NEW r \in Requests, LockBroker(r) \/ LockQueue(r)
      PROVE  StackOK'
  BY <1>2, <1>pc, <1>op, <1>name, <1>q, <1>m, <1>table, <1>todo, NilAssumption DEF
     StackOK, ControlOK, HasQueue, Goto, Answer, Ops, LockBroker, LockQueue
<1>3. ASSUME NEW r \in Requests, Create(r) \/ Insert(r) \/ Delete(r) \/ Drain(r)
      PROVE  StackOK'
  BY <1>3, <1>pc, <1>op, <1>name, <1>q, <1>m, <1>table, <1>todo, NilAssumption DEF
     StackOK, ControlOK, HasQueue, Goto, Answer, Ops, Create, Insert, Delete, Drain
<1>4. ASSUME NEW r \in Requests, Clear(r) \/ Zero(r)
      PROVE  StackOK'
  BY <1>4, <1>pc, <1>op, <1>name, <1>q, <1>m, <1>table, <1>todo, NilAssumption DEF
     StackOK, ControlOK, HasQueue, Goto, Answer, Ops, Clear, Zero
<1>5. ASSUME NEW r \in Requests, RLockBroker(r) \/ GetQueue(r)
      PROVE  StackOK'
  BY <1>5, <1>pc, <1>op, <1>name, <1>q, <1>m, <1>table, <1>todo, NilAssumption DEF
     StackOK, ControlOK, HasQueue, Goto, Answer, Ops, RLockBroker, GetQueue
<1>6. ASSUME NEW r \in Requests, NewMessage(r) \/ AppendMessage(r) \/ CountEnqueued(r)
      PROVE  StackOK'
  BY <1>6, <1>pc, <1>op, <1>name, <1>q, <1>m, <1>table, <1>todo, NilAssumption DEF
     StackOK, ControlOK, HasQueue, Goto, Answer, Ops, NewMessage, AppendMessage,
     CountEnqueued
<1>7. ASSUME NEW r \in Requests, ReadHead(r) \/ Pop(r) \/ CountDequeued(r)
      PROVE  StackOK'
  BY <1>7, <1>pc, <1>op, <1>name, <1>q, <1>m, <1>table, <1>todo, NilAssumption DEF
     StackOK, ControlOK, HasQueue, Goto, Answer, Ops, ReadHead, Pop, CountDequeued
<1>8. ASSUME NEW r \in Requests, RangeQueues(r) \/ RLockQueue(r)
      PROVE  StackOK'
  BY <1>8, <1>pc, <1>op, <1>name, <1>q, <1>m, <1>table, <1>todo, NilAssumption DEF
     StackOK, ControlOK, HasQueue, Goto, Answer, Ops, RangeQueues, RLockQueue,
     ListingOK
<1>9. ASSUME NEW r \in Requests, ReadStat(r) \/ ServeStats(r)
      PROVE  StackOK'
  BY <1>9, <1>pc, <1>op, <1>name, <1>q, <1>m, <1>table, <1>todo, NilAssumption DEF
     StackOK, ControlOK, HasQueue, Goto, Answer, Ops, ReadStat, ServeStats
<1>10. CASE UNCHANGED vars
  BY <1>10 DEF StackOK, ControlOK, HasQueue, Goto, Answer, Ops, vars
<1> QED
  BY <1>1, <1>2, <1>3, <1>4, <1>5, <1>6, <1>7, <1>8, <1>9, <1>10 DEF Next, Step,
     Acquire, Proceed, Quiescent


\* Broker.mu excludes: one writer, and no reader while it is written.
LEMMA BrokerLockStep ==
  ASSUME TypeOK, ControlOK, BrokerLockOK,
         [Next]_vars
  PROVE  BrokerLockOK'
PROOF
<1> USE DEF queue, counters, handler, locks, stack
<1>pc. pc \in [Requests -> PCs]
  BY DEF TypeOK
<1>op. op \in [Requests -> Ops \cup {"none"}]
  BY DEF TypeOK
<1>bmu. bmu \in Mutexes
  BY DEF TypeOK
<1>1. ASSUME NEW r \in Requests, Arrive(r) \/ Reject(r)
      PROVE  BrokerLockOK'
  BY <1>1, <1>pc, <1>op, <1>bmu, NilAssumption, MutexFields DEF BrokerLockOK,
     ClaimsBroker, OwnsBroker, UnlockBroker, Goto, Answer, ControlOK, MayAnnounce,
     WriteOwned, ReadOwned, Arrive, Reject
<1>2. ASSUME NEW r \in Requests, LockBroker(r) \/ LockQueue(r)
      PROVE  BrokerLockOK'
  BY <1>2, <1>pc, <1>op, <1>bmu, NilAssumption, MutexFields DEF BrokerLockOK,
     ClaimsBroker, OwnsBroker, UnlockBroker, Goto, Answer, ControlOK, MayAnnounce,
     WriteOwned, ReadOwned, LockBroker, LockQueue
<1>3. ASSUME NEW r \in Requests, Create(r) \/ Insert(r) \/ Delete(r) \/ Drain(r)
      PROVE  BrokerLockOK'
  BY <1>3, <1>pc, <1>op, <1>bmu, NilAssumption, MutexFields DEF BrokerLockOK,
     ClaimsBroker, OwnsBroker, UnlockBroker, Goto, Answer, ControlOK, MayAnnounce,
     WriteOwned, ReadOwned, Create, Insert, Delete, Drain
<1>4. ASSUME NEW r \in Requests, Clear(r) \/ Zero(r)
      PROVE  BrokerLockOK'
  BY <1>4, <1>pc, <1>op, <1>bmu, NilAssumption, MutexFields DEF BrokerLockOK,
     ClaimsBroker, OwnsBroker, UnlockBroker, Goto, Answer, ControlOK, MayAnnounce,
     WriteOwned, ReadOwned, Clear, Zero
<1>5. ASSUME NEW r \in Requests, RLockBroker(r) \/ GetQueue(r)
      PROVE  BrokerLockOK'
  BY <1>5, <1>pc, <1>op, <1>bmu, NilAssumption, MutexFields DEF BrokerLockOK,
     ClaimsBroker, OwnsBroker, UnlockBroker, Goto, Answer, ControlOK, MayAnnounce,
     WriteOwned, ReadOwned, RLockBroker, GetQueue
<1>6. ASSUME NEW r \in Requests, NewMessage(r) \/ AppendMessage(r) \/ CountEnqueued(r)
      PROVE  BrokerLockOK'
  BY <1>6, <1>pc, <1>op, <1>bmu, NilAssumption, MutexFields DEF BrokerLockOK,
     ClaimsBroker, OwnsBroker, UnlockBroker, Goto, Answer, ControlOK, MayAnnounce,
     WriteOwned, ReadOwned, NewMessage, AppendMessage, CountEnqueued
<1>7. ASSUME NEW r \in Requests, ReadHead(r) \/ Pop(r) \/ CountDequeued(r)
      PROVE  BrokerLockOK'
  BY <1>7, <1>pc, <1>op, <1>bmu, NilAssumption, MutexFields DEF BrokerLockOK,
     ClaimsBroker, OwnsBroker, UnlockBroker, Goto, Answer, ControlOK, MayAnnounce,
     WriteOwned, ReadOwned, ReadHead, Pop, CountDequeued
<1>8. ASSUME NEW r \in Requests, RangeQueues(r) \/ RLockQueue(r)
      PROVE  BrokerLockOK'
  BY <1>8, <1>pc, <1>op, <1>bmu, NilAssumption, MutexFields DEF BrokerLockOK,
     ClaimsBroker, OwnsBroker, UnlockBroker, Goto, Answer, ControlOK, MayAnnounce,
     WriteOwned, ReadOwned, RangeQueues, RLockQueue
<1>9. ASSUME NEW r \in Requests, ReadStat(r) \/ ServeStats(r)
      PROVE  BrokerLockOK'
  BY <1>9, <1>pc, <1>op, <1>bmu, NilAssumption, MutexFields DEF BrokerLockOK,
     ClaimsBroker, OwnsBroker, UnlockBroker, Goto, Answer, ControlOK, MayAnnounce,
     WriteOwned, ReadOwned, ReadStat, ServeStats
<1>10. CASE UNCHANGED vars
  BY <1>10 DEF BrokerLockOK, ClaimsBroker, OwnsBroker, UnlockBroker, Goto, Answer, ControlOK, MayAnnounce, WriteOwned, ReadOwned, vars
<1> QED
  BY <1>1, <1>2, <1>3, <1>4, <1>5, <1>6, <1>7, <1>8, <1>9, <1>10 DEF Next, Step,
     Acquire, Proceed, Quiescent


\* No name disappears while Stats goes through the table: it holds Broker.mu
\* for reading, and Delete needs it for writing.
LEMMA ListingStep ==
  ASSUME TypeOK, ControlOK, StackOK, BrokerLockOK, ListingOK,
         [Next]_vars
  PROVE  ListingOK'
PROOF
<1> USE DEF queue, counters, handler, locks, stack
<1>pc. pc \in [Requests -> PCs]
  BY DEF TypeOK
<1>op. op \in [Requests -> Ops \cup {"none"}]
  BY DEF TypeOK
<1>name. name \in [Requests -> Names \cup {Nil}]
  BY DEF TypeOK
<1>table. table \in [Names -> Requests \cup {Nil}]
  BY DEF TypeOK
<1>todo. todo \in [Requests -> SUBSET Names]
  BY DEF TypeOK
<1>1. ASSUME NEW r \in Requests, Arrive(r) \/ Reject(r)
      PROVE  ListingOK'
  BY <1>1, <1>pc, <1>op, <1>name, <1>table, <1>todo DEF ListingOK, ControlOK, Goto,
     Answer, Arrive, Reject
<1>2. ASSUME NEW r \in Requests, LockBroker(r) \/ LockQueue(r)
      PROVE  ListingOK'
  BY <1>2, <1>pc, <1>op, <1>name, <1>table, <1>todo DEF ListingOK, ControlOK, Goto,
     Answer, LockBroker, LockQueue
<1>3. ASSUME NEW r \in Requests, Create(r) \/ Insert(r) \/ Delete(r) \/ Drain(r)
      PROVE  ListingOK'
  BY <1>3, <1>pc, <1>op, <1>name, <1>table, <1>todo DEF ListingOK, ControlOK, Goto,
     Answer, Create, Insert, Delete, Drain, StackOK, BrokerLockOK, OwnsBroker,
     ClaimsBroker, WriteOwned
<1>4. ASSUME NEW r \in Requests, Clear(r) \/ Zero(r)
      PROVE  ListingOK'
  BY <1>4, <1>pc, <1>op, <1>name, <1>table, <1>todo DEF ListingOK, ControlOK, Goto,
     Answer, Clear, Zero
<1>5. ASSUME NEW r \in Requests, RLockBroker(r) \/ GetQueue(r)
      PROVE  ListingOK'
  BY <1>5, <1>pc, <1>op, <1>name, <1>table, <1>todo DEF ListingOK, ControlOK, Goto,
     Answer, RLockBroker, GetQueue
<1>6. ASSUME NEW r \in Requests, NewMessage(r) \/ AppendMessage(r) \/ CountEnqueued(r)
      PROVE  ListingOK'
  BY <1>6, <1>pc, <1>op, <1>name, <1>table, <1>todo DEF ListingOK, ControlOK, Goto,
     Answer, NewMessage, AppendMessage, CountEnqueued
<1>7. ASSUME NEW r \in Requests, ReadHead(r) \/ Pop(r) \/ CountDequeued(r)
      PROVE  ListingOK'
  BY <1>7, <1>pc, <1>op, <1>name, <1>table, <1>todo DEF ListingOK, ControlOK, Goto,
     Answer, ReadHead, Pop, CountDequeued
<1>8. ASSUME NEW r \in Requests, RangeQueues(r) \/ RLockQueue(r)
      PROVE  ListingOK'
  BY <1>8, <1>pc, <1>op, <1>name, <1>table, <1>todo DEF ListingOK, ControlOK, Goto,
     Answer, RangeQueues, RLockQueue
<1>9. ASSUME NEW r \in Requests, ReadStat(r) \/ ServeStats(r)
      PROVE  ListingOK'
  BY <1>9, <1>pc, <1>op, <1>name, <1>table, <1>todo DEF ListingOK, ControlOK, Goto,
     Answer, ReadStat, ServeStats
<1>10. CASE UNCHANGED vars
  BY <1>10 DEF ListingOK, ControlOK, Goto, Answer, vars
<1> QED
  BY <1>1, <1>2, <1>3, <1>4, <1>5, <1>6, <1>7, <1>8, <1>9, <1>10 DEF Next, Step,
     Acquire, Proceed, Quiescent


\* A Queue object stays allocated.
LEMMA AllocatedStep ==
  ASSUME TypeOK, ControlOK,
         [Next]_vars
  PROVE  \A o \in Requests : Allocated(o) => Allocated(o)'
PROOF
<1> USE DEF queue, counters, handler, locks, stack
<1>pc. pc \in [Requests -> PCs]
  BY DEF TypeOK
<1>op. op \in [Requests -> Ops \cup {"none"}]
  BY DEF TypeOK
<1>status. status \in [Requests -> {0, 200, 204, 400, 500}]
  BY DEF TypeOK
<1>1. ASSUME NEW r \in Requests, Arrive(r) \/ Reject(r)
      PROVE  \A o \in Requests : Allocated(o) => Allocated(o)'
  BY <1>1, <1>pc, <1>op, <1>status DEF Allocated, Goto, Answer, ControlOK, Arrive,
     Reject
<1>2. ASSUME NEW r \in Requests, LockBroker(r) \/ LockQueue(r)
      PROVE  \A o \in Requests : Allocated(o) => Allocated(o)'
  BY <1>2, <1>pc, <1>op, <1>status DEF Allocated, Goto, Answer, ControlOK, LockBroker,
     LockQueue
<1>3. ASSUME NEW r \in Requests, Create(r) \/ Insert(r) \/ Delete(r) \/ Drain(r)
      PROVE  \A o \in Requests : Allocated(o) => Allocated(o)'
  BY <1>3, <1>pc, <1>op, <1>status DEF Allocated, Goto, Answer, ControlOK, Create,
     Insert, Delete, Drain
<1>4. ASSUME NEW r \in Requests, Clear(r) \/ Zero(r)
      PROVE  \A o \in Requests : Allocated(o) => Allocated(o)'
  BY <1>4, <1>pc, <1>op, <1>status DEF Allocated, Goto, Answer, ControlOK, Clear, Zero
<1>5. ASSUME NEW r \in Requests, RLockBroker(r) \/ GetQueue(r)
      PROVE  \A o \in Requests : Allocated(o) => Allocated(o)'
  BY <1>5, <1>pc, <1>op, <1>status DEF Allocated, Goto, Answer, ControlOK,
     RLockBroker, GetQueue
<1>6. ASSUME NEW r \in Requests, NewMessage(r) \/ AppendMessage(r) \/ CountEnqueued(r)
      PROVE  \A o \in Requests : Allocated(o) => Allocated(o)'
  BY <1>6, <1>pc, <1>op, <1>status DEF Allocated, Goto, Answer, ControlOK, NewMessage,
     AppendMessage, CountEnqueued
<1>7. ASSUME NEW r \in Requests, ReadHead(r) \/ Pop(r) \/ CountDequeued(r)
      PROVE  \A o \in Requests : Allocated(o) => Allocated(o)'
  BY <1>7, <1>pc, <1>op, <1>status DEF Allocated, Goto, Answer, ControlOK, ReadHead,
     Pop, CountDequeued
<1>8. ASSUME NEW r \in Requests, RangeQueues(r) \/ RLockQueue(r)
      PROVE  \A o \in Requests : Allocated(o) => Allocated(o)'
  BY <1>8, <1>pc, <1>op, <1>status DEF Allocated, Goto, Answer, ControlOK,
     RangeQueues, RLockQueue
<1>9. ASSUME NEW r \in Requests, ReadStat(r) \/ ServeStats(r)
      PROVE  \A o \in Requests : Allocated(o) => Allocated(o)'
  BY <1>9, <1>pc, <1>op, <1>status DEF Allocated, Goto, Answer, ControlOK, ReadStat,
     ServeStats
<1>10. CASE UNCHANGED vars
  BY <1>10 DEF Allocated, Goto, Answer, ControlOK, vars
<1> QED
  BY <1>1, <1>2, <1>3, <1>4, <1>5, <1>6, <1>7, <1>8, <1>9, <1>10 DEF Next, Step,
     Acquire, Proceed, Quiescent


\* The table refers to allocated objects only.
LEMMA TableStep ==
  ASSUME TypeOK, ControlOK, StackOK, TableOK,
         [Next]_vars
  PROVE  TableOK'
PROOF
<1> USE DEF queue, counters, handler, locks, stack
<1>pc. pc \in [Requests -> PCs]
  BY DEF TypeOK
<1>op. op \in [Requests -> Ops \cup {"none"}]
  BY DEF TypeOK
<1>table. table \in [Names -> Requests \cup {Nil}]
  BY DEF TypeOK
<1>status. status \in [Requests -> {0, 200, 204, 400, 500}]
  BY DEF TypeOK
<1>1. ASSUME NEW r \in Requests, Arrive(r) \/ Reject(r)
      PROVE  TableOK'
  BY <1>1, <1>pc, <1>op, <1>table, <1>status, AllocatedStep DEF TableOK, Goto, Answer,
     Allocated, Arrive, Reject
<1>2. ASSUME NEW r \in Requests, LockBroker(r) \/ LockQueue(r)
      PROVE  TableOK'
  BY <1>2, <1>pc, <1>op, <1>table, <1>status, AllocatedStep DEF TableOK, Goto, Answer,
     Allocated, LockBroker, LockQueue
<1>3. ASSUME NEW r \in Requests, Create(r) \/ Insert(r) \/ Delete(r) \/ Drain(r)
      PROVE  TableOK'
  BY <1>3, <1>pc, <1>op, <1>table, <1>status, AllocatedStep DEF TableOK, Goto, Answer,
     Allocated, Create, Insert, Delete, Drain, ControlOK, StackOK, Allocated
<1>4. ASSUME NEW r \in Requests, Clear(r) \/ Zero(r)
      PROVE  TableOK'
  BY <1>4, <1>pc, <1>op, <1>table, <1>status, AllocatedStep DEF TableOK, Goto, Answer,
     Allocated, Clear, Zero
<1>5. ASSUME NEW r \in Requests, RLockBroker(r) \/ GetQueue(r)
      PROVE  TableOK'
  BY <1>5, <1>pc, <1>op, <1>table, <1>status, AllocatedStep DEF TableOK, Goto, Answer,
     Allocated, RLockBroker, GetQueue
<1>6. ASSUME NEW r \in Requests, NewMessage(r) \/ AppendMessage(r) \/ CountEnqueued(r)
      PROVE  TableOK'
  BY <1>6, <1>pc, <1>op, <1>table, <1>status, AllocatedStep DEF TableOK, Goto, Answer,
     Allocated, NewMessage, AppendMessage, CountEnqueued
<1>7. ASSUME NEW r \in Requests, ReadHead(r) \/ Pop(r) \/ CountDequeued(r)
      PROVE  TableOK'
  BY <1>7, <1>pc, <1>op, <1>table, <1>status, AllocatedStep DEF TableOK, Goto, Answer,
     Allocated, ReadHead, Pop, CountDequeued
<1>8. ASSUME NEW r \in Requests, RangeQueues(r) \/ RLockQueue(r)
      PROVE  TableOK'
  BY <1>8, <1>pc, <1>op, <1>table, <1>status, AllocatedStep DEF TableOK, Goto, Answer,
     Allocated, RangeQueues, RLockQueue
<1>9. ASSUME NEW r \in Requests, ReadStat(r) \/ ServeStats(r)
      PROVE  TableOK'
  BY <1>9, <1>pc, <1>op, <1>table, <1>status, AllocatedStep DEF TableOK, Goto, Answer,
     Allocated, ReadStat, ServeStats
<1>10. CASE UNCHANGED vars
  BY <1>10 DEF TableOK, Goto, Answer, Allocated, vars
<1> QED
  BY <1>1, <1>2, <1>3, <1>4, <1>5, <1>6, <1>7, <1>8, <1>9, <1>10 DEF Next, Step,
     Acquire, Proceed, Quiescent


\* So does every goroutine.
LEMMA PointersStep ==
  ASSUME TypeOK, ControlOK, StackOK, TableOK, ListingOK, PointersOK,
         [Next]_vars
  PROVE  PointersOK'
PROOF
<1> USE DEF queue, counters, handler, locks, stack
<1>pc. pc \in [Requests -> PCs]
  BY DEF TypeOK
<1>op. op \in [Requests -> Ops \cup {"none"}]
  BY DEF TypeOK
<1>table. table \in [Names -> Requests \cup {Nil}]
  BY DEF TypeOK
<1>q. q \in [Requests -> Requests \cup {Nil}]
  BY DEF TypeOK
<1>1. ASSUME NEW r \in Requests, Arrive(r) \/ Reject(r)
      PROVE  PointersOK'
  BY <1>1, <1>pc, <1>op, <1>table, <1>q, AllocatedStep DEF PointersOK, TableOK, Goto,
     Answer, Allocated, Arrive, Reject
<1>2. ASSUME NEW r \in Requests, LockBroker(r) \/ LockQueue(r)
      PROVE  PointersOK'
  BY <1>2, <1>pc, <1>op, <1>table, <1>q, AllocatedStep DEF PointersOK, TableOK, Goto,
     Answer, Allocated, LockBroker, LockQueue
<1>3. ASSUME NEW r \in Requests, Create(r) \/ Insert(r) \/ Delete(r) \/ Drain(r)
      PROVE  PointersOK'
  BY <1>3, <1>pc, <1>op, <1>table, <1>q, AllocatedStep DEF PointersOK, TableOK, Goto,
     Answer, Allocated, Create, Insert, Delete, Drain, ControlOK, StackOK
<1>4. ASSUME NEW r \in Requests, Clear(r) \/ Zero(r)
      PROVE  PointersOK'
  BY <1>4, <1>pc, <1>op, <1>table, <1>q, AllocatedStep DEF PointersOK, TableOK, Goto,
     Answer, Allocated, Clear, Zero
<1>5. ASSUME NEW r \in Requests, RLockBroker(r) \/ GetQueue(r)
      PROVE  PointersOK'
  BY <1>5, <1>pc, <1>op, <1>table, <1>q, AllocatedStep DEF PointersOK, TableOK, Goto,
     Answer, Allocated, RLockBroker, GetQueue, ControlOK, StackOK
<1>6. ASSUME NEW r \in Requests, NewMessage(r) \/ AppendMessage(r) \/ CountEnqueued(r)
      PROVE  PointersOK'
  BY <1>6, <1>pc, <1>op, <1>table, <1>q, AllocatedStep DEF PointersOK, TableOK, Goto,
     Answer, Allocated, NewMessage, AppendMessage, CountEnqueued
<1>7. ASSUME NEW r \in Requests, ReadHead(r) \/ Pop(r) \/ CountDequeued(r)
      PROVE  PointersOK'
  BY <1>7, <1>pc, <1>op, <1>table, <1>q, AllocatedStep DEF PointersOK, TableOK, Goto,
     Answer, Allocated, ReadHead, Pop, CountDequeued
<1>8. ASSUME NEW r \in Requests, RLockQueue(r)
      PROVE  PointersOK'
  <2>1. PICK n \in todo[r] : q' = [q EXCEPT ![r] = table[n]]
    BY <1>8 DEF RLockQueue
  <2>2. n \in Names
    BY <2>1 DEF TypeOK
  <2> QED
    BY <1>8, <2>1, <2>2, <1>pc, <1>op, <1>table, <1>q, AllocatedStep DEF PointersOK, TableOK, RLockQueue
<1>9. ASSUME NEW r \in Requests, RangeQueues(r)
      PROVE  PointersOK'
  BY <1>9, <1>pc, <1>op, <1>table, <1>q, AllocatedStep DEF PointersOK, TableOK, Goto,
     Answer, Allocated, RangeQueues
<1>10. ASSUME NEW r \in Requests, ReadStat(r) \/ ServeStats(r)
      PROVE  PointersOK'
  BY <1>10, <1>pc, <1>op, <1>table, <1>q, AllocatedStep DEF PointersOK, TableOK, Goto,
     Answer, Allocated, ReadStat, ServeStats
<1>11. CASE UNCHANGED vars
  BY <1>11 DEF PointersOK, TableOK, Goto, Answer, Allocated, vars
<1> QED
  BY <1>1, <1>2, <1>3, <1>4, <1>5, <1>6, <1>7, <1>8, <1>9, <1>10, <1>11 DEF Next,
     Step, Acquire, Proceed, Quiescent


\* Nobody touches a Queue object before it is allocated.
LEMMA FreshStep ==
  ASSUME TypeOK, ControlOK, StackOK, PointersOK, FreshOK,
         [Next]_vars
  PROVE  FreshOK'
PROOF
<1> USE DEF queue, counters, handler, locks, stack
<1>pc. pc \in [Requests -> PCs]
  BY DEF TypeOK
<1>q. q \in [Requests -> Requests \cup {Nil}]
  BY DEF TypeOK
<1>depth. depth \in [Requests -> Int]
  BY DEF TypeOK
<1>enqueued. enqueued \in [Requests -> Int]
  BY DEF TypeOK
<1>dequeued. dequeued \in [Requests -> Int]
  BY DEF TypeOK
<1>drained. drained \in [Requests -> Int]
  BY DEF TypeOK
<1>messages. messages \in [Requests -> Seq(Requests)]
  BY DEF TypeOK
<1>log. log \in [Requests -> Seq(Requests)]
  BY DEF TypeOK
<1>1. ASSUME NEW r \in Requests, Arrive(r) \/ Reject(r)
      PROVE  FreshOK'
  BY <1>1, <1>pc, <1>q, <1>depth, <1>enqueued, <1>dequeued, <1>drained, <1>messages,
     <1>log, AllocatedStep, NilAssumption DEF FreshOK, PointersOK, StackOK, HasQueue,
     Goto, Answer, Arrive, Reject
<1>2. ASSUME NEW r \in Requests, LockBroker(r) \/ LockQueue(r)
      PROVE  FreshOK'
  BY <1>2, <1>pc, <1>q, <1>depth, <1>enqueued, <1>dequeued, <1>drained, <1>messages,
     <1>log, AllocatedStep, NilAssumption DEF FreshOK, PointersOK, StackOK, HasQueue,
     Goto, Answer, LockBroker, LockQueue
<1>3. ASSUME NEW r \in Requests, Create(r) \/ Insert(r) \/ Delete(r) \/ Drain(r)
      PROVE  FreshOK'
  BY <1>3, <1>pc, <1>q, <1>depth, <1>enqueued, <1>dequeued, <1>drained, <1>messages,
     <1>log, AllocatedStep, NilAssumption DEF FreshOK, PointersOK, StackOK, HasQueue,
     Goto, Answer, Create, Insert, Delete, Drain
<1>4. ASSUME NEW r \in Requests, Clear(r) \/ Zero(r)
      PROVE  FreshOK'
  BY ZenonT(60), <1>4, <1>pc, <1>q, <1>depth, <1>enqueued, <1>dequeued, <1>drained, <1>messages,
     <1>log, AllocatedStep, NilAssumption DEF FreshOK, PointersOK, StackOK, HasQueue,
     Goto, Answer, Clear, Zero
<1>5. ASSUME NEW r \in Requests, RLockBroker(r) \/ GetQueue(r)
      PROVE  FreshOK'
  BY <1>5, <1>pc, <1>q, <1>depth, <1>enqueued, <1>dequeued, <1>drained, <1>messages,
     <1>log, AllocatedStep, NilAssumption DEF FreshOK, PointersOK, StackOK, HasQueue,
     Goto, Answer, RLockBroker, GetQueue
<1>6. ASSUME NEW r \in Requests, NewMessage(r) \/ AppendMessage(r) \/ CountEnqueued(r)
      PROVE  FreshOK'
  BY SMTT(30), <1>6, <1>pc, <1>q, <1>depth, <1>enqueued, <1>dequeued, <1>drained, <1>messages,
     <1>log, AllocatedStep, NilAssumption DEF FreshOK, PointersOK, StackOK, HasQueue,
     Goto, Answer, NewMessage, AppendMessage, CountEnqueued
<1>7. ASSUME NEW r \in Requests, ReadHead(r) \/ Pop(r) \/ CountDequeued(r)
      PROVE  FreshOK'
  BY <1>7, <1>pc, <1>q, <1>depth, <1>enqueued, <1>dequeued, <1>drained, <1>messages,
     <1>log, AllocatedStep, NilAssumption DEF FreshOK, PointersOK, StackOK, HasQueue,
     Goto, Answer, ReadHead, Pop, CountDequeued
<1>8. ASSUME NEW r \in Requests, RangeQueues(r) \/ RLockQueue(r)
      PROVE  FreshOK'
  BY <1>8, <1>pc, <1>q, <1>depth, <1>enqueued, <1>dequeued, <1>drained, <1>messages,
     <1>log, AllocatedStep, NilAssumption DEF FreshOK, PointersOK, StackOK, HasQueue,
     Goto, Answer, RangeQueues, RLockQueue
<1>9. ASSUME NEW r \in Requests, ReadStat(r) \/ ServeStats(r)
      PROVE  FreshOK'
  BY <1>9, <1>pc, <1>q, <1>depth, <1>enqueued, <1>dequeued, <1>drained, <1>messages,
     <1>log, AllocatedStep, NilAssumption DEF FreshOK, PointersOK, StackOK, HasQueue,
     Goto, Answer, ReadStat, ServeStats
<1>10. CASE UNCHANGED vars
  BY <1>10 DEF FreshOK, PointersOK, StackOK, HasQueue, Goto, Answer, Allocated, vars
<1> QED
  BY <1>1, <1>2, <1>3, <1>4, <1>5, <1>6, <1>7, <1>8, <1>9, <1>10 DEF Next, Step,
     Acquire, Proceed, Quiescent


\* So does the mu of every Queue object.
LEMMA QueueLockStep ==
  ASSUME TypeOK, ControlOK, StackOK, ListingOK, QueueLockOK,
         [Next]_vars
  PROVE  QueueLockOK'
PROOF
<1> USE DEF queue, counters, handler, locks, stack
<1>pc. pc \in [Requests -> PCs]
  BY DEF TypeOK
<1>op. op \in [Requests -> Ops \cup {"none"}]
  BY DEF TypeOK
<1>qmu. qmu \in [Requests -> Mutexes]
  BY DEF TypeOK
<1>q. q \in [Requests -> Requests \cup {Nil}]
  BY DEF TypeOK
<1>1. ASSUME NEW r \in Requests, Arrive(r) \/ Reject(r)
      PROVE  QueueLockOK'
  BY <1>1, <1>pc, <1>op, <1>qmu, <1>q, NilAssumption, MutexFields DEF QueueLockOK,
     ClaimsQueue, OwnsQueue, UnlockQueue, Goto, Answer, ControlOK, StackOK, HasQueue,
     MayAnnounce, WriteOwned, ReadOwned, Arrive, Reject
<1>2. ASSUME NEW r \in Requests, LockBroker(r)
      PROVE  QueueLockOK'
  BY <1>2, <1>pc, <1>op, <1>qmu, <1>q, NilAssumption, MutexFields DEF QueueLockOK,
     ClaimsQueue, OwnsQueue, UnlockQueue, Goto, Answer, ControlOK, StackOK, HasQueue,
     MayAnnounce, WriteOwned, ReadOwned, LockBroker
<1>3. ASSUME NEW r \in Requests, LockQueue(r)
      PROVE  QueueLockOK'
  BY <1>3, <1>pc, <1>op, <1>qmu, <1>q, NilAssumption, MutexFields DEF QueueLockOK,
     ClaimsQueue, OwnsQueue, UnlockQueue, Goto, Answer, ControlOK, StackOK, HasQueue,
     MayAnnounce, WriteOwned, ReadOwned, LockQueue
<1>4. ASSUME NEW r \in Requests, Create(r) \/ Insert(r) \/ Delete(r) \/ Drain(r)
      PROVE  QueueLockOK'
  BY <1>4, <1>pc, <1>op, <1>qmu, <1>q, NilAssumption, MutexFields DEF QueueLockOK,
     ClaimsQueue, OwnsQueue, UnlockQueue, Goto, Answer, ControlOK, StackOK, HasQueue,
     MayAnnounce, WriteOwned, ReadOwned, Create, Insert, Delete, Drain
<1>5. ASSUME NEW r \in Requests, Clear(r)
      PROVE  QueueLockOK'
  BY <1>5, <1>pc, <1>op, <1>qmu, <1>q, NilAssumption, MutexFields DEF QueueLockOK,
     ClaimsQueue, OwnsQueue, UnlockQueue, Goto, Answer, ControlOK, StackOK, HasQueue,
     MayAnnounce, WriteOwned, ReadOwned, Clear
<1>6. ASSUME NEW r \in Requests, Zero(r)
      PROVE  QueueLockOK'
  BY <1>6, <1>pc, <1>op, <1>qmu, <1>q, NilAssumption, MutexFields DEF QueueLockOK,
     ClaimsQueue, OwnsQueue, UnlockQueue, Goto, Answer, ControlOK, StackOK, HasQueue,
     MayAnnounce, WriteOwned, ReadOwned, Zero
<1>7. ASSUME NEW r \in Requests, RLockBroker(r) \/ GetQueue(r)
      PROVE  QueueLockOK'
  BY <1>7, <1>pc, <1>op, <1>qmu, <1>q, NilAssumption, MutexFields DEF QueueLockOK,
     ClaimsQueue, OwnsQueue, UnlockQueue, Goto, Answer, ControlOK, StackOK, HasQueue,
     MayAnnounce, WriteOwned, ReadOwned, RLockBroker, GetQueue
<1>8. ASSUME NEW r \in Requests, NewMessage(r)
      PROVE  QueueLockOK'
  BY <1>8, <1>pc, <1>op, <1>qmu, <1>q, NilAssumption, MutexFields DEF QueueLockOK,
     ClaimsQueue, OwnsQueue, UnlockQueue, Goto, Answer, ControlOK, StackOK, HasQueue,
     MayAnnounce, WriteOwned, ReadOwned, NewMessage
<1>9. ASSUME NEW r \in Requests, AppendMessage(r)
      PROVE  QueueLockOK'
  BY <1>9, <1>pc, <1>op, <1>qmu, <1>q, NilAssumption, MutexFields DEF QueueLockOK,
     ClaimsQueue, OwnsQueue, UnlockQueue, Goto, Answer, ControlOK, StackOK, HasQueue,
     MayAnnounce, WriteOwned, ReadOwned, AppendMessage
<1>10. ASSUME NEW r \in Requests, CountEnqueued(r)
      PROVE  QueueLockOK'
  BY <1>10, <1>pc, <1>op, <1>qmu, <1>q, NilAssumption, MutexFields DEF QueueLockOK,
     ClaimsQueue, OwnsQueue, UnlockQueue, Goto, Answer, ControlOK, StackOK, HasQueue,
     MayAnnounce, WriteOwned, ReadOwned, CountEnqueued
<1>11. ASSUME NEW r \in Requests, ReadHead(r) \/ Pop(r) \/ CountDequeued(r)
      PROVE  QueueLockOK'
  BY <1>11, <1>pc, <1>op, <1>qmu, <1>q, NilAssumption, MutexFields DEF QueueLockOK,
     ClaimsQueue, OwnsQueue, UnlockQueue, Goto, Answer, ControlOK, StackOK, HasQueue,
     MayAnnounce, WriteOwned, ReadOwned, ReadHead, Pop, CountDequeued
<1>12. ASSUME NEW r \in Requests, RLockQueue(r)
      PROVE  QueueLockOK'
  <2>1. PICK n \in todo[r] : /\ q' = [q EXCEPT ![r] = table[n]]
                             /\ qmu' = [qmu EXCEPT ![table[n]] = RLock(@, r)]
    BY <1>12 DEF RLockQueue
  <2>2. table[n] \in Requests
    BY <1>12, <2>1 DEF TypeOK, ListingOK, RLockQueue, Goto
  <2> SUFFICES ASSUME NEW s \in Requests, ClaimsQueue(s)'
               PROVE  /\ qmu'[q'[s]].writer = s
                      /\ OwnsQueue(s)' => qmu'[q'[s]].readers = {}
    BY DEF QueueLockOK, OwnsQueue, ClaimsQueue
  <2>3. s # r /\ pc'[s] = pc[s] /\ q'[s] = q[s]
    BY <1>12, <2>1, <1>pc, <1>q DEF RLockQueue, Goto, ClaimsQueue
  <2>4. q[s] \in Requests /\ qmu[q[s]].writer = s /\ (OwnsQueue(s) => qmu[q[s]].readers = {})
    BY <2>3 DEF ClaimsQueue, OwnsQueue, QueueLockOK, StackOK, HasQueue
  <2>5. qmu'[q[s]] = IF q[s] = table[n] THEN RLock(qmu[q[s]], r) ELSE qmu[q[s]]
    BY <2>1, <2>2, <2>4, <1>qmu
  <2>6. qmu[q[s]] \in Mutexes
    BY <2>4, <1>qmu
  <2>7. qmu'[q[s]].writer = s /\ (OwnsQueue(s) => qmu'[q[s]].readers = {})
    BY <2>4, <2>5, <2>6, NilAssumption, MutexFields
  <2> QED
    BY <2>3, <2>7 DEF OwnsQueue
<1>13. ASSUME NEW r \in Requests, RangeQueues(r)
      PROVE  QueueLockOK'
  BY <1>13, <1>pc, <1>op, <1>qmu, <1>q, NilAssumption, MutexFields DEF QueueLockOK,
     ClaimsQueue, OwnsQueue, UnlockQueue, Goto, Answer, ControlOK, StackOK, HasQueue,
     MayAnnounce, WriteOwned, ReadOwned, RangeQueues
<1>14. ASSUME NEW r \in Requests, ReadStat(r) \/ ServeStats(r)
      PROVE  QueueLockOK'
  BY <1>14, <1>pc, <1>op, <1>qmu, <1>q, NilAssumption, MutexFields DEF QueueLockOK,
     ClaimsQueue, OwnsQueue, UnlockQueue, Goto, Answer, ControlOK, StackOK, HasQueue,
     MayAnnounce, WriteOwned, ReadOwned, ReadStat, ServeStats
<1>15. CASE UNCHANGED vars
  BY <1>15 DEF QueueLockOK, ClaimsQueue, OwnsQueue, UnlockQueue, Goto, Answer, ControlOK, StackOK, HasQueue, MayAnnounce, WriteOwned, ReadOwned, vars
<1> QED
  BY <1>1, <1>2, <1>3, <1>4, <1>5, <1>6, <1>7, <1>8, <1>9, <1>10, <1>11, <1>12, <1>13,
     <1>14, <1>15 DEF Next, Step, Acquire, Proceed, Quiescent


\* A queue that is drained or read by Stats keeps its name meanwhile.
LEMMA NamedQueueStep ==
  ASSUME TypeOK, ControlOK, StackOK, BrokerLockOK, ListingOK, NamedQueue,
         [Next]_vars
  PROVE  NamedQueue'
PROOF
<1> USE DEF queue, counters, handler, locks, stack
<1>pc. pc \in [Requests -> PCs]
  BY DEF TypeOK
<1>op. op \in [Requests -> Ops \cup {"none"}]
  BY DEF TypeOK
<1>name. name \in [Requests -> Names \cup {Nil}]
  BY DEF TypeOK
<1>table. table \in [Names -> Requests \cup {Nil}]
  BY DEF TypeOK
<1>q. q \in [Requests -> Requests \cup {Nil}]
  BY DEF TypeOK
<1>1. ASSUME NEW r \in Requests, Arrive(r) \/ Reject(r)
      PROVE  NamedQueue'
  BY <1>1, <1>pc, <1>op, <1>name, <1>table, <1>q DEF NamedQueue, Goto, Answer,
     ControlOK, StackOK, Arrive, Reject
<1>2. ASSUME NEW r \in Requests, LockBroker(r) \/ LockQueue(r)
      PROVE  NamedQueue'
  BY <1>2, <1>pc, <1>op, <1>name, <1>table, <1>q DEF NamedQueue, Goto, Answer,
     ControlOK, StackOK, LockBroker, LockQueue
<1>3. ASSUME NEW r \in Requests, Create(r) \/ Insert(r) \/ Delete(r) \/ Drain(r)
      PROVE  NamedQueue'
  BY <1>3, <1>pc, <1>op, <1>name, <1>table, <1>q DEF NamedQueue, Goto, Answer,
     ControlOK, StackOK, Create, Insert, Delete, Drain, BrokerLockOK, OwnsBroker,
     ClaimsBroker, WriteOwned
<1>4. ASSUME NEW r \in Requests, Clear(r) \/ Zero(r)
      PROVE  NamedQueue'
  BY <1>4, <1>pc, <1>op, <1>name, <1>table, <1>q DEF NamedQueue, Goto, Answer,
     ControlOK, StackOK, Clear, Zero
<1>5. ASSUME NEW r \in Requests, RLockBroker(r) \/ GetQueue(r)
      PROVE  NamedQueue'
  BY <1>5, <1>pc, <1>op, <1>name, <1>table, <1>q DEF NamedQueue, Goto, Answer,
     ControlOK, StackOK, RLockBroker, GetQueue
<1>6. ASSUME NEW r \in Requests, NewMessage(r) \/ AppendMessage(r) \/ CountEnqueued(r)
      PROVE  NamedQueue'
  BY <1>6, <1>pc, <1>op, <1>name, <1>table, <1>q DEF NamedQueue, Goto, Answer,
     ControlOK, StackOK, NewMessage, AppendMessage, CountEnqueued
<1>7. ASSUME NEW r \in Requests, ReadHead(r) \/ Pop(r) \/ CountDequeued(r)
      PROVE  NamedQueue'
  BY <1>7, <1>pc, <1>op, <1>name, <1>table, <1>q DEF NamedQueue, Goto, Answer,
     ControlOK, StackOK, ReadHead, Pop, CountDequeued
<1>8. ASSUME NEW r \in Requests, RangeQueues(r) \/ RLockQueue(r)
      PROVE  NamedQueue'
  BY <1>8, <1>pc, <1>op, <1>name, <1>table, <1>q DEF NamedQueue, Goto, Answer,
     ControlOK, StackOK, RangeQueues, RLockQueue
<1>9. ASSUME NEW r \in Requests, ReadStat(r) \/ ServeStats(r)
      PROVE  NamedQueue'
  BY <1>9, <1>pc, <1>op, <1>name, <1>table, <1>q DEF NamedQueue, Goto, Answer,
     ControlOK, StackOK, ReadStat, ServeStats
<1>10. CASE UNCHANGED vars
  BY <1>10 DEF NamedQueue, Goto, Answer, ControlOK, StackOK, vars
<1> QED
  BY <1>1, <1>2, <1>3, <1>4, <1>5, <1>6, <1>7, <1>8, <1>9, <1>10 DEF Next, Step,
     Acquire, Proceed, Quiescent

\* A name that CreateQueue found free stays free while it holds b.mu.
LEMMA AbsentStep ==
  ASSUME TypeOK, ControlOK, StackOK, BrokerLockOK, AbsentOK,
         [Next]_vars
  PROVE  AbsentOK'
PROOF
<1> USE DEF queue, counters, handler, locks, stack
<1>pc. pc \in [Requests -> PCs]
  BY DEF TypeOK
<1>name. name \in [Requests -> Names \cup {Nil}]
  BY DEF TypeOK
<1>table. table \in [Names -> Requests \cup {Nil}]
  BY DEF TypeOK
<1>1. ASSUME NEW r \in Requests, Arrive(r) \/ Reject(r)
      PROVE  AbsentOK'
  BY <1>1, <1>pc, <1>name, <1>table DEF AbsentOK, StackOK, ControlOK, Goto,
     Answer, Arrive, Reject
<1>2. ASSUME NEW r \in Requests, LockBroker(r) \/ LockQueue(r)
      PROVE  AbsentOK'
  BY <1>2, <1>pc, <1>name, <1>table DEF AbsentOK, StackOK, ControlOK, Goto,
     Answer, LockBroker, LockQueue
<1>3. ASSUME NEW r \in Requests, Create(r) \/ Insert(r) \/ Delete(r) \/ Drain(r)
      PROVE  AbsentOK'
  BY <1>3, <1>pc, <1>name, <1>table DEF AbsentOK, StackOK, ControlOK, Goto,
     Answer, Create, Insert, Delete, Drain, BrokerLockOK, ClaimsBroker,
     OwnsBroker, WriteOwned
<1>4. ASSUME NEW r \in Requests, Clear(r) \/ Zero(r)
      PROVE  AbsentOK'
  BY <1>4, <1>pc, <1>name, <1>table DEF AbsentOK, StackOK, ControlOK, Goto,
     Answer, Clear, Zero
<1>5. ASSUME NEW r \in Requests, RLockBroker(r) \/ GetQueue(r)
      PROVE  AbsentOK'
  BY <1>5, <1>pc, <1>name, <1>table DEF AbsentOK, StackOK, ControlOK, Goto,
     Answer, RLockBroker, GetQueue
<1>6. ASSUME NEW r \in Requests, NewMessage(r) \/ AppendMessage(r) \/ CountEnqueued(r)
      PROVE  AbsentOK'
  BY <1>6, <1>pc, <1>name, <1>table DEF AbsentOK, StackOK, ControlOK, Goto,
     Answer, NewMessage, AppendMessage, CountEnqueued
<1>7. ASSUME NEW r \in Requests, ReadHead(r) \/ Pop(r) \/ CountDequeued(r)
      PROVE  AbsentOK'
  BY <1>7, <1>pc, <1>name, <1>table DEF AbsentOK, StackOK, ControlOK, Goto,
     Answer, ReadHead, Pop, CountDequeued
<1>8. ASSUME NEW r \in Requests, RangeQueues(r) \/ RLockQueue(r)
      PROVE  AbsentOK'
  BY <1>8, <1>pc, <1>name, <1>table DEF AbsentOK, StackOK, ControlOK, Goto,
     Answer, RangeQueues, RLockQueue
<1>9. ASSUME NEW r \in Requests, ReadStat(r) \/ ServeStats(r)
      PROVE  AbsentOK'
  BY <1>9, <1>pc, <1>name, <1>table DEF AbsentOK, StackOK, ControlOK, Goto,
     Answer, ReadStat, ServeStats
<1>10. CASE UNCHANGED vars
  BY <1>10 DEF AbsentOK, vars
<1> QED
  BY <1>1, <1>2, <1>3, <1>4, <1>5, <1>6, <1>7, <1>8, <1>9, <1>10 DEF Next, Step,
     Acquire, Proceed, Quiescent


\* Nobody writes a goroutine's stack before it gets there itself.
LEMMA UntouchedStep ==
  ASSUME TypeOK, ControlOK, UntouchedOK,
         [Next]_vars
  PROVE  UntouchedOK'
PROOF
<1> USE DEF queue, counters, handler, locks, stack
<1>pc. pc \in [Requests -> PCs]
  BY DEF TypeOK
<1>op. op \in [Requests -> Ops \cup {"none"}]
  BY DEF TypeOK
<1>name. name \in [Requests -> Names \cup {Nil}]
  BY DEF TypeOK
<1>q. q \in [Requests -> Requests \cup {Nil}]
  BY DEF TypeOK
<1>m. m \in [Requests -> Requests \cup {Nil}]
  BY DEF TypeOK
<1>todo. todo \in [Requests -> SUBSET Names]
  BY DEF TypeOK
<1>1. ASSUME NEW r \in Requests, Arrive(r) \/ Reject(r)
      PROVE  UntouchedOK'
  BY <1>1, <1>pc, <1>op, <1>name, <1>q, <1>m, <1>todo DEF UntouchedOK,
     ControlOK, Goto, Answer, Ops, Arrive, Reject
<1>2. ASSUME NEW r \in Requests, LockBroker(r) \/ LockQueue(r)
      PROVE  UntouchedOK'
  BY <1>2, <1>pc, <1>op, <1>name, <1>q, <1>m, <1>todo DEF UntouchedOK,
     ControlOK, Goto, Answer, Ops, LockBroker, LockQueue
<1>3. ASSUME NEW r \in Requests, Create(r) \/ Insert(r) \/ Delete(r) \/ Drain(r)
      PROVE  UntouchedOK'
  BY <1>3, <1>pc, <1>op, <1>name, <1>q, <1>m, <1>todo DEF UntouchedOK,
     ControlOK, Goto, Answer, Ops, Create, Insert, Delete, Drain
<1>4. ASSUME NEW r \in Requests, Clear(r) \/ Zero(r)
      PROVE  UntouchedOK'
  BY <1>4, <1>pc, <1>op, <1>name, <1>q, <1>m, <1>todo DEF UntouchedOK,
     ControlOK, Goto, Answer, Ops, Clear, Zero
<1>5. ASSUME NEW r \in Requests, RLockBroker(r) \/ GetQueue(r)
      PROVE  UntouchedOK'
  BY <1>5, <1>pc, <1>op, <1>name, <1>q, <1>m, <1>todo DEF UntouchedOK,
     ControlOK, Goto, Answer, Ops, RLockBroker, GetQueue
<1>6. ASSUME NEW r \in Requests, NewMessage(r) \/ AppendMessage(r) \/ CountEnqueued(r)
      PROVE  UntouchedOK'
  BY <1>6, <1>pc, <1>op, <1>name, <1>q, <1>m, <1>todo DEF UntouchedOK,
     ControlOK, Goto, Answer, Ops, NewMessage, AppendMessage, CountEnqueued
<1>7. ASSUME NEW r \in Requests, ReadHead(r) \/ Pop(r) \/ CountDequeued(r)
      PROVE  UntouchedOK'
  BY <1>7, <1>pc, <1>op, <1>name, <1>q, <1>m, <1>todo DEF UntouchedOK,
     ControlOK, Goto, Answer, Ops, ReadHead, Pop, CountDequeued
<1>8. ASSUME NEW r \in Requests, RangeQueues(r) \/ RLockQueue(r)
      PROVE  UntouchedOK'
  BY <1>8, <1>pc, <1>op, <1>name, <1>q, <1>m, <1>todo DEF UntouchedOK,
     ControlOK, Goto, Answer, Ops, RangeQueues, RLockQueue
<1>9. ASSUME NEW r \in Requests, ReadStat(r) \/ ServeStats(r)
      PROVE  UntouchedOK'
  BY <1>9, <1>pc, <1>op, <1>name, <1>q, <1>m, <1>todo DEF UntouchedOK,
     ControlOK, Goto, Answer, Ops, ReadStat, ServeStats
<1>10. CASE UNCHANGED vars
  BY <1>10 DEF UntouchedOK, vars
<1> QED
  BY <1>1, <1>2, <1>3, <1>4, <1>5, <1>6, <1>7, <1>8, <1>9, <1>10 DEF Next, Step,
     Acquire, Proceed, Quiescent


-----------------------------------------------------------------------------
(* Updates and counters *)

\* The fields of a Queue object.
Fields(o) == <<depth[o], enqueued[o], dequeued[o], drained[o], messages[o]>>

\* A step of one goroutine leaves the stack of every other one alone.
LEMMA OthersStep ==
  ASSUME TypeOK, NEW r \in Requests, Step(r), NEW s \in Requests, s # r
  PROVE  pc'[s] = pc[s] /\ q'[s] = q[s] /\ m'[s] = m[s] /\ op'[s] = op[s]
PROOF
<1> USE DEF handler, stack, Goto, Answer
<1>pc. pc \in [Requests -> PCs]
  BY DEF TypeOK
<1>q. q \in [Requests -> Requests \cup {Nil}]
  BY DEF TypeOK
<1>m. m \in [Requests -> Requests \cup {Nil}]
  BY DEF TypeOK
<1>op. op \in [Requests -> Ops \cup {"none"}]
  BY DEF TypeOK
<1>1. CASE Arrive(r) \/ Reject(r)
  BY <1>1, <1>pc, <1>q, <1>m, <1>op DEF Arrive, Reject
<1>2. CASE Acquire(r)
  BY <1>2, <1>pc, <1>q, <1>m, <1>op DEF Acquire, LockBroker, LockQueue
<1>3. CASE Create(r) \/ Insert(r) \/ Delete(r) \/ Drain(r) \/ Clear(r) \/ Zero(r)
  BY <1>3, <1>pc, <1>q, <1>m, <1>op DEF Create, Insert, Delete, Drain, Clear, Zero
<1>4. CASE RLockBroker(r) \/ GetQueue(r) \/ NewMessage(r) \/ AppendMessage(r) \/ CountEnqueued(r)
  BY <1>4, <1>pc, <1>q, <1>m, <1>op
  DEF RLockBroker, GetQueue, NewMessage, AppendMessage, CountEnqueued
<1>5. CASE ReadHead(r) \/ Pop(r) \/ CountDequeued(r)
  BY <1>5, <1>pc, <1>q, <1>m, <1>op DEF ReadHead, Pop, CountDequeued
<1>6. CASE RangeQueues(r) \/ RLockQueue(r) \/ ReadStat(r) \/ ServeStats(r)
  BY <1>6, <1>pc, <1>q, <1>m, <1>op DEF RangeQueues, RLockQueue, ReadStat, ServeStats
<1> QED
  BY <1>1, <1>2, <1>3, <1>4, <1>5, <1>6 DEF Step, Proceed

\* The goroutines that change a queue they have found, and own it when they do.
Writes(r) == pc[r] \in {"clear", "zero", "append", "enqueued", "pop", "dequeued"}

\* Nobody changes a Queue object but a goroutine that owns its mutex, or the
\* one that has just made it.
LEMMA OwnerWrites ==
  ASSUME TypeOK, StackOK, QueueLockOK, NEW r \in Requests, Step(r), NEW o \in Requests
  PROVE  \/ Fields(o)' = Fields(o)
         \/ Writes(r) /\ o = q[r] /\ WriteOwned(qmu[o], r)
         \/ Insert(r) /\ o = r
PROOF
<1> USE DEF queue, counters, Goto, Answer, Fields, Writes
<1>d. depth \in [Requests -> Int] /\ enqueued \in [Requests -> Int]
  BY DEF TypeOK
<1>e. dequeued \in [Requests -> Int] /\ drained \in [Requests -> Int]
  BY DEF TypeOK
<1>m. messages \in [Requests -> Seq(Requests)]
  BY DEF TypeOK
<1>1. CASE ~Writes(r) /\ pc[r] # "insert"
  <2>1. UNCHANGED queue
    BY <1>1 DEF Step, Acquire, Proceed, Arrive, Reject, LockBroker, LockQueue, Create,
       Insert, Delete, Drain, Clear, Zero, RLockBroker, GetQueue, NewMessage,
       AppendMessage, CountEnqueued, ReadHead, Pop, CountDequeued, RangeQueues,
       RLockQueue, ReadStat, ServeStats
  <2> QED
    BY <2>1
<1>2. CASE Writes(r)
  <2>1. q[r] \in Requests
    BY <1>2 DEF StackOK, HasQueue
  <2>2. WriteOwned(qmu[q[r]], r)
    <3>1. CASE OwnsQueue(r)
      BY <3>1 DEF QueueLockOK, OwnsQueue, ClaimsQueue, WriteOwned
    <3>2. CASE pc[r] \in {"clear", "append"}
      BY <3>2 DEF Step, Acquire, Proceed, Arrive, Reject, LockBroker, LockQueue, Create,
       Insert, Delete, Drain, Clear, Zero, RLockBroker, GetQueue, NewMessage,
       AppendMessage, CountEnqueued, ReadHead, Pop, CountDequeued, RangeQueues,
       RLockQueue, ReadStat, ServeStats
    <3> QED
      BY <1>2, <3>1, <3>2 DEF OwnsQueue
  <2>3. o # q[r] => Fields(o)' = Fields(o)
    <3>1. CASE Clear(r) \/ Zero(r) \/ AppendMessage(r)
      BY <3>1, <2>1, <1>d, <1>e, <1>m DEF Clear, Zero, AppendMessage
    <3>2. CASE CountEnqueued(r) \/ Pop(r) \/ CountDequeued(r)
      BY SMTT(30), <3>2, <2>1, <1>d, <1>e, <1>m DEF CountEnqueued, Pop, CountDequeued
    <3> QED
      BY <1>2, <3>1, <3>2 DEF Step, Acquire, Proceed, Arrive, Reject, LockBroker, LockQueue,
         Create, Insert, Delete, Drain, RLockBroker, GetQueue, NewMessage, ReadHead,
         RangeQueues, RLockQueue, ReadStat, ServeStats
  <2> QED
    BY <1>2, <2>2, <2>3
<1>3. CASE pc[r] = "insert"
  <2>1. Insert(r)
    BY <1>3 DEF Step, Acquire, Proceed, Arrive, Reject, LockBroker, LockQueue, Create,
       Delete, Drain, Clear, Zero, RLockBroker, GetQueue, NewMessage,
       AppendMessage, CountEnqueued, ReadHead, Pop, CountDequeued, RangeQueues,
       RLockQueue, ReadStat, ServeStats
  <2> QED
    BY <2>1, <1>d, <1>e, <1>m DEF Insert
<1> QED
  BY <1>1, <1>2, <1>3

\* At most one goroutine is in the middle of changing a queue, and nobody
\* reads it then.
LEMMA Exclusive ==
  ASSUME QueueLockOK, NEW r \in Requests, NEW s \in Requests, q[r] = q[s],
         WriteOwned(qmu[q[r]], r), ClaimsQueue(s)
  PROVE  r = s
PROOF
  BY DEF QueueLockOK, WriteOwned

\* Updating one queue object keeps the books of everybody else's update.
LEMMA UpdateStep ==
  ASSUME TypeOK, ControlOK, StackOK, PointersOK, QueueLockOK, UpdateOK, Conservation,
         [Next]_vars
  PROVE  UpdateOK'
PROOF
<1> DEFINE Upd(s, o) ==
      /\ pc[s] = "enqueued" => /\ enqueued[o] + 1 = dequeued[o] + drained[o] + depth[o]
                               /\ depth[o] = Len(messages[o])
      /\ pc[s] = "dequeued" => /\ enqueued[o] = dequeued[o] + 1 + drained[o] + depth[o]
                               /\ depth[o] = Len(messages[o])
      /\ pc[s] = "zero" => /\ enqueued[o] = dequeued[o] + drained[o]
                           /\ messages[o] = <<>>
      /\ pc[s] = "pop" => messages[o] # <<>> /\ m[s] = Head(messages[o])
<1>0. UpdateOK <=> \A s \in Requests : Upd(s, q[s])
  BY DEF UpdateOK
<1>1. ASSUME NEW r \in Requests, Step(r), NEW s \in Requests, s # r PROVE Upd(s, q[s])'
  <2>1. pc'[s] = pc[s] /\ q'[s] = q[s] /\ m'[s] = m[s]
    BY <1>1, OthersStep
  <2>2. CASE ~OwnsQueue(s)
    BY <2>1, <2>2 DEF OwnsQueue
  <2>3. CASE OwnsQueue(s)
    <3>1. q[s] \in Requests /\ ClaimsQueue(s) /\ Allocated(q[s])
      BY <2>3, NilAssumption DEF OwnsQueue, ClaimsQueue, StackOK, HasQueue, PointersOK
    <3>2. ~(Writes(r) /\ q[s] = q[r] /\ WriteOwned(qmu[q[s]], r))
      BY <1>1, <3>1, Exclusive
    <3>3. ~(Insert(r) /\ q[s] = r)
      BY <3>1 DEF Insert, Answer, Goto, ControlOK, Allocated
    <3>4. Fields(q[s])' = Fields(q[s])
      BY <1>1, <2>1, <3>1, <3>2, <3>3, OwnerWrites DEF Fields
    <3> QED
      BY <1>0, <2>1, <3>4 DEF Fields
  <2> QED
    BY <2>2, <2>3
<1>2. ASSUME NEW r \in Requests, Step(r) PROVE Upd(r, q[r])'
  <2>pc. pc \in [Requests -> PCs]
    BY DEF TypeOK
  <2>d. depth \in [Requests -> Int] /\ enqueued \in [Requests -> Int]
    BY DEF TypeOK
  <2>e. dequeued \in [Requests -> Int] /\ drained \in [Requests -> Int]
    BY DEF TypeOK
  <2>m. messages \in [Requests -> Seq(Requests)] /\ m \in [Requests -> Requests \cup {Nil}]
    BY DEF TypeOK
  <2>1. CASE pc'[r] \notin {"enqueued", "dequeued", "zero", "pop"}
    BY <2>1
  <2>2. CASE pc'[r] \in {"enqueued", "dequeued", "zero", "pop"}
    <3>1. AppendMessage(r) \/ Pop(r) \/ Clear(r) \/ (ReadHead(r) /\ pc'[r] = "pop")
      <4>1. ~(Arrive(r) \/ Reject(r) \/ Acquire(r))
        BY <2>2, <2>pc DEF ControlOK, Goto, Answer, Arrive, Reject, Acquire, LockBroker, LockQueue
      <4>2. ~(Create(r) \/ Insert(r) \/ Delete(r) \/ Drain(r) \/ Zero(r) \/ RLockBroker(r))
        BY <2>2, <2>pc DEF Goto, Answer, Create, Insert, Delete, Drain, Zero, RLockBroker
      <4>3. ~(GetQueue(r) \/ NewMessage(r) \/ CountEnqueued(r) \/ CountDequeued(r))
        BY <2>2, <2>pc DEF Goto, Answer, GetQueue, NewMessage, CountEnqueued, CountDequeued
      <4>4. ~(RangeQueues(r) \/ RLockQueue(r) \/ ReadStat(r) \/ ServeStats(r))
        BY <2>2, <2>pc DEF Goto, Answer, RangeQueues, RLockQueue, ReadStat, ServeStats
      <4>5. ReadHead(r) => pc'[r] = "pop"
        BY <2>2, <2>pc DEF Goto, Answer, ReadHead
      <4> QED
        BY <1>2, <4>1, <4>2, <4>3, <4>4, <4>5 DEF Step, Proceed
    <3>2. q[r] \in Requests /\ q' = q
      BY <3>1 DEF AppendMessage, Pop, Clear, ReadHead, Goto, Answer, stack, StackOK, HasQueue
    <3>3. pc[r] \in {"append", "clear", "pop"} => WriteOwned(qmu[q[r]], r)
      BY <3>1 DEF AppendMessage, Clear, Pop, ReadHead, Goto, Answer, QueueLockOK, ClaimsQueue,
         OwnsQueue, WriteOwned
    <3>4. pc[r] \in {"append", "clear", "pop"} =>
            /\ enqueued[q[r]] = dequeued[q[r]] + drained[q[r]] + depth[q[r]]
            /\ depth[q[r]] = Len(messages[q[r]])
      <4> SUFFICES ASSUME pc[r] \in {"append", "clear", "pop"} PROVE AtRest(q[r])
        BY <3>2 DEF Conservation, Balanced, StatOf
      <4> QED
        BY <3>3, Exclusive DEF AtRest, ClaimsQueue
    <3>5. CASE AppendMessage(r)
      <4>1. m[r] \in Requests
        BY <3>5 DEF AppendMessage, Goto, StackOK
      <4>2. Len(messages'[q[r]]) = Len(messages[q[r]]) + 1
        BY <3>2, <3>5, <4>1, <2>m DEF AppendMessage
      <4>3. /\ pc[r] = "append" /\ pc'[r] = "enqueued"
            /\ depth'[q[r]] = depth[q[r]] + 1
            /\ UNCHANGED counters
        BY <3>2, <3>5, <2>pc, <2>d DEF AppendMessage, Goto
      <4> QED
        BY SMTT(30), <3>2, <3>4, <4>2, <4>3, <2>d, <2>e DEF counters
    <3>6. CASE Pop(r)
      <4>1. messages[q[r]] # <<>>
        BY <3>6 DEF Pop, Goto, UpdateOK
      <4>2. Len(messages'[q[r]]) = Len(messages[q[r]]) - 1
        BY <3>2, <3>6, <4>1, <2>m DEF Pop
      <4>3. /\ pc[r] = "pop" /\ pc'[r] = "dequeued"
            /\ depth'[q[r]] = depth[q[r]] - 1
            /\ UNCHANGED counters
        BY <3>2, <3>6, <2>pc, <2>d DEF Pop, Goto
      <4> QED
        BY SMTT(30), <3>2, <3>4, <4>2, <4>3, <2>d, <2>e DEF counters
    <3>7. CASE Clear(r)
      BY <3>2, <3>4, <3>7, <2>pc, <2>d, <2>e, <2>m DEF Clear, Goto
    <3>8. CASE ReadHead(r) /\ pc'[r] = "pop"
      BY <3>2, <3>8, <2>pc, <2>m DEF ReadHead, Goto, Answer, queue
    <3> QED
      BY <3>1, <3>5, <3>6, <3>7, <3>8
  <2> QED
    BY <2>1, <2>2
<1>3. CASE UNCHANGED vars
  BY <1>3 DEF UpdateOK, vars, queue, stack
<1> QED
  <2>1. ASSUME NEW r \in Requests, Step(r) PROVE \A s \in Requests : Upd(s, q[s])'
    BY <1>1, <1>2, <2>1
  <2> QED
    BY <1>3, <2>1 DEF UpdateOK, Next, Quiescent

\* The counters of a queue at rest balance after every step.
LEMMA ConservationStep ==
  ASSUME TypeOK, ControlOK, StackOK, PointersOK, FreshOK, QueueLockOK, UpdateOK,
         Conservation, [Next]_vars
  PROVE  Conservation'
PROOF
<1> DEFINE Cons(o) == /\ enqueued[o] = dequeued[o] + drained[o] + depth[o]
                      /\ depth[o] = Len(messages[o])
           Mid(r) == pc[r] \in {"enqueued", "dequeued", "zero"}
<1>0. Conservation <=> \A o \in Requests : AtRest(o) => Cons(o)
  BY DEF Conservation, Balanced, StatOf
<1>1. ASSUME NEW r \in Requests, Step(r), NEW o \in Requests, AtRest(o)' PROVE Cons(o)'
  <2>pc. pc \in [Requests -> PCs]
    BY DEF TypeOK
  <2>d. depth \in [Requests -> Int] /\ enqueued \in [Requests -> Int]
    BY DEF TypeOK
  <2>e. dequeued \in [Requests -> Int] /\ drained \in [Requests -> Int]
    BY DEF TypeOK
  <2>1. \A s \in Requests \ {r} : q[s] = o => ~Mid(s)
    BY <1>1, OthersStep DEF AtRest
  <2>2. CASE Mid(r) /\ q[r] = o
    <3>1. CountEnqueued(r) \/ CountDequeued(r) \/ Zero(r)
      BY <1>1, <2>2 DEF Goto, Answer, Step, Acquire, Proceed, Arrive, Reject,
         LockBroker, LockQueue, Create, Insert, Delete, Drain, Clear, Zero, RLockBroker,
         GetQueue, NewMessage, AppendMessage, CountEnqueued, ReadHead, Pop,
         CountDequeued, RangeQueues, RLockQueue, ReadStat, ServeStats
    <3>2. CASE CountEnqueued(r)
      BY <2>2, <3>2, <2>d, <2>e DEF CountEnqueued, Answer, Goto, UpdateOK
    <3>3. CASE CountDequeued(r)
      BY <2>2, <3>3, <2>d, <2>e DEF CountDequeued, Answer, Goto, UpdateOK
    <3>4. CASE Zero(r)
      BY <2>2, <3>4, <2>d, <2>e DEF Zero, Answer, Goto, UpdateOK, counters
    <3> QED
      BY <3>1, <3>2, <3>3, <3>4
  <2>3. CASE ~(Mid(r) /\ q[r] = o)
    <3>1. Cons(o)
      BY <1>0, <2>1, <2>3 DEF AtRest
    <3>2. CASE Fields(o)' = Fields(o)
      BY <3>1, <3>2 DEF Fields
    <3>3. CASE Writes(r) /\ o = q[r]
      <4>1. Clear(r) \/ AppendMessage(r) \/ Pop(r)
        BY <1>1, <2>3, <3>3 DEF Writes, Goto, Answer, Step, Acquire, Proceed, Arrive, Reject,
           LockBroker, LockQueue, Create, Insert, Delete, Drain, Clear, Zero, RLockBroker,
           GetQueue, NewMessage, AppendMessage, CountEnqueued, ReadHead, Pop,
           CountDequeued, RangeQueues, RLockQueue, ReadStat, ServeStats
      <4>2. Mid(r)' /\ q'[r] = o
        BY <3>3, <4>1, <2>pc DEF Clear, AppendMessage, Pop, Goto, stack
      <4> QED
        BY <1>1, <4>2 DEF AtRest
    <3>4. CASE Insert(r) /\ o = r
      BY <3>4, <2>d, <2>e DEF Insert, TypeOK
    <3> QED
      BY <1>1, <3>2, <3>3, <3>4, OwnerWrites
  <2> QED
    BY <2>2, <2>3
<1>2. CASE UNCHANGED vars
  BY <1>2 DEF Conservation, AtRest, Balanced, StatOf, vars, queue, stack
<1> QED
  BY <1>1, <1>2 DEF Next, Quiescent, Conservation, Balanced, StatOf

\* Stats copies the counters of queues at rest only.
LEMMA StatsStep ==
  ASSUME TypeOK, StackOK, QueueLockOK, Conservation, StatsBalanced, [Next]_vars
  PROVE  StatsBalanced'
PROOF
<1>1. ASSUME NEW r \in Requests, ReadStat(r) PROVE StatsBalanced'
  <2>1. q[r] \in Requests /\ r \in qmu[q[r]].readers
    BY <1>1 DEF ReadStat, Goto, ReadOwned, StackOK, HasQueue
  <2>2. AtRest(q[r])
    BY <2>1 DEF AtRest, QueueLockOK, OwnsQueue
  <2>3. Balanced(StatOf(q[r]))
    BY <2>1, <2>2 DEF Conservation
  <2>4. stat' = [stat EXCEPT ![r] = @ \cup {[name |-> name[r], stat |-> StatOf(q[r])]}]
    BY <1>1 DEF ReadStat
  <2>5. stat \in [Requests -> SUBSET [name: Names, stat: Counters]]
    BY DEF TypeOK
  <2>6. SUFFICES ASSUME NEW s \in Requests, NEW x \in stat'[s], x \notin stat[s]
                 PROVE Balanced(x.stat)
    BY DEF StatsBalanced, Balanced
  <2>7. x.stat = StatOf(q[r])
    BY <2>4, <2>5, <2>6
  <2> QED
    BY <2>3, <2>7
<1>2. ASSUME NEW r \in Requests, Step(r), ~ReadStat(r) PROVE UNCHANGED stat
  BY <1>2 DEF stack, Step, Acquire, Proceed, Arrive, Reject, LockBroker, LockQueue, Create,
     Insert, Delete, Drain, Clear, Zero, RLockBroker, GetQueue, NewMessage,
     AppendMessage, CountEnqueued, ReadHead, Pop, CountDequeued, RangeQueues,
     RLockQueue, ServeStats
<1>3. CASE UNCHANGED stat
  BY <1>3 DEF StatsBalanced
<1> QED
  BY <1>1, <1>2, <1>3 DEF Next, Quiescent, vars, stack

\* What is left in a queue stays the newest part of what entered it.
LEMMA FIFOStep ==
  ASSUME TypeOK, StackOK, PointersOK, FreshOK, UpdateOK, FIFO, [Next]_vars
  PROVE  FIFO'
PROOF
<1> DEFINE Suffix(ms, l) == LET gone == Len(l) - Len(ms)
                            IN gone >= 0 /\ \A i \in 1..Len(ms) : ms[i] = l[gone + i]
<1>0. /\ FIFO <=> \A o \in Requests : Suffix(messages[o], log[o])
      /\ FIFO' <=> \A o \in Requests : Suffix(messages'[o], log'[o])
  BY DEF FIFO
<1>s. ASSUME NEW l \in Seq(Requests) PROVE Suffix(<<>>, l)
  OBVIOUS
<1> HIDE DEF Suffix
<1>m. messages \in [Requests -> Seq(Requests)] /\ log \in [Requests -> Seq(Requests)]
  BY DEF TypeOK
<1>1. ASSUME NEW r \in Requests, AppendMessage(r) PROVE FIFO'
  <2>1. q[r] \in Requests /\ m[r] \in Requests
    BY <1>1 DEF AppendMessage, Goto, StackOK, HasQueue
  <2>2. /\ messages' = [messages EXCEPT ![q[r]] = Append(@, m[r])]
        /\ log' = [log EXCEPT ![q[r]] = Append(@, m[r])]
    BY <1>1 DEF AppendMessage
  <2>3. ASSUME NEW ms \in Seq(Requests), NEW l \in Seq(Requests), NEW x \in Requests,
               Suffix(ms, l)
        PROVE Suffix(Append(ms, x), Append(l, x))
    BY SMTT(30), <2>3 DEF Suffix
  <2>4. Suffix(messages'[q[r]], log'[q[r]])
    BY <1>0, <1>m, <2>1, <2>2, <2>3
  <2> QED
    BY <1>0, <1>m, <2>1, <2>2, <2>4
<1>2. ASSUME NEW r \in Requests, Pop(r) PROVE FIFO'
  <2>1. q[r] \in Requests /\ messages[q[r]] # <<>>
    BY <1>2 DEF Pop, Goto, StackOK, HasQueue, UpdateOK
  <2>2. messages' = [messages EXCEPT ![q[r]] = Tail(@)] /\ log' = log
    BY <1>2 DEF Pop
  <2>3. ASSUME NEW ms \in Seq(Requests), NEW l \in Seq(Requests), ms # <<>>, Suffix(ms, l)
        PROVE Suffix(Tail(ms), l)
    BY <2>3 DEF Suffix
  <2>4. Suffix(messages'[q[r]], log'[q[r]])
    BY <1>0, <1>m, <2>1, <2>2, <2>3
  <2> QED
    BY <1>0, <1>m, <2>1, <2>2, <2>4
<1>3. ASSUME NEW r \in Requests, Clear(r) \/ Insert(r) PROVE FIFO'
  <2>1. PICK o \in Requests : messages' = [messages EXCEPT ![o] = <<>>]
    BY <1>3 DEF Clear, Insert, Goto, StackOK, HasQueue
  <2>2. log' = log
    BY <1>3 DEF Clear, Insert
  <2> QED
    BY <1>0, <1>m, <1>s, <2>1, <2>2
<1>4. ASSUME NEW r \in Requests, Step(r),
             ~(AppendMessage(r) \/ Pop(r) \/ Clear(r) \/ Insert(r))
      PROVE UNCHANGED <<messages, log>>
  BY <1>4 DEF queue, counters, Step, Acquire, Proceed, Arrive, Reject, LockBroker, LockQueue,
     Create, Delete, Drain, Zero, RLockBroker, GetQueue, NewMessage, CountEnqueued,
     ReadHead, CountDequeued, RangeQueues, RLockQueue, ReadStat, ServeStats
<1>5. CASE UNCHANGED <<messages, log>>
  BY <1>5 DEF FIFO
<1> QED
  BY <1>1, <1>2, <1>3, <1>4, <1>5 DEF Next, Quiescent, vars, queue

-----------------------------------------------------------------------------
(* The theorems *)

\* The first state of the broker satisfies the invariant.
LEMMA InitInv == Init => IInv
PROOF
<1> SUFFICES ASSUME Init PROVE IInv
  OBVIOUS
<1> USE DEF Init
<1>1. TypeOK
  BY UnlockedType DEF TypeOK, PCs, Ops
<1>2. ControlOK /\ StackOK /\ TableOK /\ PointersOK /\ FreshOK /\ ListingOK
  BY DEF ControlOK, StackOK, HasQueue, TableOK, PointersOK, FreshOK, ListingOK
<1>5. AbsentOK /\ UntouchedOK
  BY DEF AbsentOK, UntouchedOK
<1>3. BrokerLockOK /\ QueueLockOK /\ UpdateOK /\ NamedQueue
  BY DEF BrokerLockOK, ClaimsBroker, OwnsBroker, QueueLockOK, ClaimsQueue, OwnsQueue,
         UpdateOK, NamedQueue
<1>4. Conservation /\ StatsBalanced /\ FIFO
  BY DEF Conservation, Balanced, StatOf, StatsBalanced, FIFO
<1> QED
  BY <1>1, <1>2, <1>3, <1>4, <1>5 DEF IInv

\* Every step of the broker preserves the invariant.
LEMMA InductiveStep == IInv /\ [Next]_vars => IInv'
PROOF
  BY TypeStep, ControlStep, StackStep, TableStep, PointersStep, FreshStep, ListingStep,
     AbsentStep, UntouchedStep, BrokerLockStep, QueueLockStep, UpdateStep, NamedQueueStep, ConservationStep,
     StatsStep, FIFOStep
  DEF IInv

\* The invariant holds of every reachable state.
THEOREM Invariance == Spec => []IInv
PROOF
  BY InitInv, InductiveStep, PTL DEF Spec

\* Type correctness, for any number of concurrent requests and names.
THEOREM Typing == Spec => []TypeOK
PROOF
<1>1. IInv => TypeOK
  BY DEF IInv
<1> QED
  BY <1>1, Invariance, PTL

\* Under any interleaving of the handlers, the counters of a queue that nobody
\* is updating balance, and Depth is the length of Messages.
THEOREM CountersConserved == Spec => []Conservation
PROOF
<1>1. IInv => Conservation
  BY DEF IInv
<1> QED
  BY <1>1, Invariance, PTL

\* GET /stats never shows a queue in the middle of an update.
THEOREM StatsConsistent == Spec => []StatsBalanced
PROOF
<1>1. IInv => StatsBalanced
  BY DEF IInv
<1> QED
  BY <1>1, Invariance, PTL

\* Messages leave every queue in the order they entered it.
THEOREM FirstInFirstOut == Spec => []FIFO
PROOF
<1>1. IInv => FIFO
  BY DEF IInv
<1> QED
  BY <1>1, Invariance, PTL

\* A Drain empties, and Stats reads, the queue that has the name now.
THEOREM DrainsNamedQueue == Spec => []NamedQueue
PROOF
<1>1. IInv => NamedQueue
  BY DEF IInv
<1> QED
  BY <1>1, Invariance, PTL

-----------------------------------------------------------------------------
(* The refinement *)

\* The local variables of a request are its own: a step of another one leaves
\* them alone.
LEMMA LocalStep ==
  ASSUME TypeOK, NEW r \in Requests, Step(r), NEW s \in Requests, s # r
  PROVE  name'[s] = name[s] /\ todo'[s] = todo[s] /\ stat'[s] = stat[s] /\ status'[s] = status[s]
<1> USE DEF handler, stack, Goto, Answer
<1>name. name \in [Requests -> Names \cup {Nil}]
  BY DEF TypeOK
<1>todo. todo \in [Requests -> SUBSET Names]
  BY DEF TypeOK
<1>stat. stat \in [Requests -> SUBSET [name: Names, stat: Counters]]
  BY DEF TypeOK
<1>status. status \in [Requests -> {0, 200, 204, 400, 500}]
  BY DEF TypeOK
<1>1. CASE Arrive(r) \/ Reject(r) \/ Acquire(r)
  BY <1>1, <1>name, <1>status DEF Arrive, Reject, Acquire, LockBroker, LockQueue
<1>2. CASE Create(r) \/ Insert(r) \/ Delete(r) \/ Drain(r) \/ Clear(r) \/ Zero(r)
  BY <1>2, <1>status DEF Create, Insert, Delete, Drain, Clear, Zero
<1>3. CASE RLockBroker(r) \/ GetQueue(r) \/ NewMessage(r) \/ AppendMessage(r) \/ CountEnqueued(r)
  BY <1>3, <1>status DEF RLockBroker, GetQueue, NewMessage, AppendMessage, CountEnqueued
<1>4. CASE ReadHead(r) \/ Pop(r) \/ CountDequeued(r)
  BY <1>4, <1>status DEF ReadHead, Pop, CountDequeued
<1>5. CASE RangeQueues(r) \/ RLockQueue(r) \/ ReadStat(r) \/ ServeStats(r)
  BY <1>5, <1>name, <1>todo, <1>stat, <1>status DEF RangeQueues, RLockQueue, ReadStat, ServeStats
<1> QED
  BY <1>1, <1>2, <1>3, <1>4, <1>5 DEF Step, Proceed

\* g is f with v in r's place.
SetAt(f, g, r, v) == g = [f EXCEPT ![r] = v]

\* So a step of r changes at most r's place in what the service sees of the
\* requests.
LEMMA OwnPlace ==
  ASSUME TypeOK, TypeOK', NEW r \in Requests, Step(r)
  PROVE  /\ SetAt(op, op', r, op'[r])
         /\ SetAt(SName, SName', r, SName'[r])
         /\ SetAt(SBound, SBound', r, SBound'[r])
         /\ SetAt(STaken, STaken', r, STaken'[r])
         /\ SetAt(STodo, STodo', r, STodo'[r])
         /\ SetAt(stat, stat', r, stat'[r])
         /\ SetAt(SOutcome, SOutcome', r, SOutcome'[r])
<1> USE DEF SetAt
<1>1. \A s \in Requests : s # r =>
         /\ pc'[s] = pc[s] /\ q'[s] = q[s] /\ m'[s] = m[s] /\ op'[s] = op[s]
         /\ name'[s] = name[s] /\ todo'[s] = todo[s] /\ stat'[s] = stat[s]
         /\ status'[s] = status[s]
  BY OthersStep, LocalStep
<1>2. SetAt(op, op', r, op'[r])
  <2>1. op \in [Requests -> Ops \cup {"none"}] /\ op' \in [Requests -> Ops \cup {"none"}]
    BY DEF TypeOK
  <2> QED
    BY <1>1, <2>1
<1>3. SetAt(stat, stat', r, stat'[r])
  <2>1. /\ stat \in [Requests -> SUBSET [name: Names, stat: Counters]]
        /\ stat' \in [Requests -> SUBSET [name: Names, stat: Counters]]
    BY DEF TypeOK
  <2> QED
    BY <1>1, <2>1
<1>4. SetAt(SName, SName', r, SName'[r]) /\ SetAt(SBound, SBound', r, SBound'[r])
  BY ZenonT(60), <1>1 DEF SName, SBound
<1>5. SetAt(STaken, STaken', r, STaken'[r])
  BY ZenonT(60), <1>1 DEF STaken
<1>7. SetAt(STodo, STodo', r, STodo'[r])
  BY ZenonT(60), <1>1 DEF STodo
<1>6. SetAt(SOutcome, SOutcome', r, SOutcome'[r])
  BY ZenonT(60), <1>1 DEF SOutcome, Updating
<1> QED
  BY <1>2, <1>3, <1>4, <1>5, <1>6, <1>7

\* Nobody else is updating the queue that r owns or has announced itself on.
LEMMA AloneOnQueue ==
  ASSUME QueueLockOK, NEW r \in Requests, ClaimsQueue(r)
  PROVE  \A s \in Requests : s # r /\ q[s] = q[r] => ~ClaimsQueue(s)
  BY DEF QueueLockOK

\* The books of a queue as the service keeps them.
InTally(o) == enqueued[o] + Owed(o, "enqueued")
OutTally(o) == dequeued[o] + Owed(o, "dequeued")

\* An update moves the service's books at its first assignment only.
LEMMA BooksStep ==
  ASSUME IInv, NEW r \in Requests, Step(r), NEW o \in Requests
  PROVE  /\ InTally(o)' = IF AppendMessage(r) /\ o = q[r] THEN InTally(o) + 1 ELSE InTally(o)
         /\ OutTally(o)' = IF Pop(r) /\ o = q[r] THEN OutTally(o) + 1 ELSE OutTally(o)
         /\ drained'[o] = IF Clear(r) /\ o = q[r] THEN drained[o] + depth[o] ELSE drained[o]
<1> USE DEF Goto, Answer
<1>pc. pc \in [Requests -> PCs]
  BY DEF IInv, TypeOK
<1>q. q \in [Requests -> Requests \cup {Nil}]
  BY DEF IInv, TypeOK
<1>c. /\ enqueued \in [Requests -> Int] /\ dequeued \in [Requests -> Int]
      /\ drained \in [Requests -> Int]
  BY DEF IInv, TypeOK
<1>1. \A s \in Requests : s # r => pc'[s] = pc[s] /\ q'[s] = q[s]
  BY OthersStep DEF IInv
<1>2. ClaimsQueue(r) => q[r] \in Requests
  BY DEF IInv, StackOK, HasQueue, ClaimsQueue
<1>3. ClaimsQueue(r) => \A s \in Requests : s # r /\ q[s] = q[r] => ~ClaimsQueue(s)
  BY AloneOnQueue DEF IInv
<1>4. ASSUME NEW loc \in {"enqueued", "dequeued"}
      PROVE  /\ pc[r] # loc /\ pc'[r] # loc => Owed(o, loc)' = Owed(o, loc)
             /\ q'[r] = q[r] /\ q[r] # o => Owed(o, loc)' = Owed(o, loc)
             /\ ClaimsQueue(r) /\ pc[r] # loc /\ q[r] = o => Owed(o, loc) = 0
             /\ pc[r] = loc /\ q[r] = o => Owed(o, loc) = 1
             /\ pc[r] = loc /\ q[r] = o /\ pc'[r] # loc => Owed(o, loc)' = 0
             /\ pc'[r] = loc /\ q'[r] = o => Owed(o, loc)' = 1
  BY <1>1, <1>3 DEF Owed, ClaimsQueue
<1>4a. Owed(o, "enqueued") \in Nat /\ Owed(o, "dequeued") \in Nat
  BY DEF Owed
<1>5. CASE AppendMessage(r)
  <2>1. /\ pc[r] = "append" /\ pc'[r] = "enqueued" /\ q' = q /\ ClaimsQueue(r)
        /\ UNCHANGED <<enqueued, dequeued, drained>>
    BY <1>5, <1>pc DEF AppendMessage, ClaimsQueue, counters, stack
  <2>2. ~Pop(r) /\ ~Clear(r)
    BY <2>1 DEF Pop, Clear
  <2> QED
    BY <1>c, <1>4, <1>4a, <1>5, <2>1, <2>2 DEF InTally, OutTally
<1>6. CASE Pop(r)
  <2>1. /\ pc[r] = "pop" /\ pc'[r] = "dequeued" /\ q' = q /\ ClaimsQueue(r)
        /\ UNCHANGED <<enqueued, dequeued, drained>>
    BY <1>6, <1>pc DEF Pop, ClaimsQueue, counters, stack
  <2>2. ~AppendMessage(r) /\ ~Clear(r)
    BY <2>1 DEF AppendMessage, Clear
  <2> QED
    BY <1>c, <1>4, <1>4a, <1>6, <2>1, <2>2 DEF InTally, OutTally
<1>7. CASE CountEnqueued(r)
  <2>1. /\ pc[r] = "enqueued" /\ pc'[r] = "done" /\ q' = q /\ ClaimsQueue(r)
        /\ enqueued' = [enqueued EXCEPT ![q[r]] = @ + 1]
        /\ UNCHANGED <<dequeued, drained>>
    BY <1>7, <1>pc DEF CountEnqueued, ClaimsQueue, stack
  <2>2. ~AppendMessage(r) /\ ~Clear(r) /\ ~Pop(r)
    BY <2>1 DEF AppendMessage, Clear, Pop
  <2> QED
    BY <1>c, <1>2, <1>4, <1>4a, <2>1, <2>2 DEF InTally, OutTally
<1>8. CASE CountDequeued(r)
  <2>1. /\ pc[r] = "dequeued" /\ pc'[r] = "done" /\ q' = q /\ ClaimsQueue(r)
        /\ dequeued' = [dequeued EXCEPT ![q[r]] = @ + 1]
        /\ UNCHANGED <<enqueued, drained>>
    BY <1>8, <1>pc DEF CountDequeued, ClaimsQueue, stack
  <2>2. ~AppendMessage(r) /\ ~Clear(r) /\ ~Pop(r)
    BY <2>1 DEF AppendMessage, Clear, Pop
  <2> QED
    BY <1>c, <1>2, <1>4, <1>4a, <2>1, <2>2 DEF InTally, OutTally
<1>9. CASE Clear(r)
  <2>1. /\ pc[r] = "clear" /\ pc'[r] = "zero" /\ q[r] \in Requests
        /\ drained' = [drained EXCEPT ![q[r]] = @ + depth[q[r]]]
        /\ UNCHANGED <<enqueued, dequeued>>
    BY <1>9, <1>pc, <1>2 DEF Clear, ClaimsQueue
  <2>2. ~AppendMessage(r) /\ ~Pop(r)
    BY <2>1 DEF AppendMessage, Pop
  <2> QED
    BY <1>c, <1>4, <1>9, <2>1, <2>2 DEF InTally, OutTally
<1>10. CASE Insert(r)
  <2>1. /\ pc[r] = "insert" /\ pc'[r] = "done"
        /\ enqueued' = [enqueued EXCEPT ![r] = 0]
        /\ dequeued' = [dequeued EXCEPT ![r] = 0]
        /\ drained' = [drained EXCEPT ![r] = 0]
    BY <1>10, <1>pc DEF Insert
  <2>2. enqueued[r] = 0 /\ dequeued[r] = 0 /\ drained[r] = 0
    BY <2>1 DEF IInv, FreshOK, Allocated, ControlOK
  <2>3. ~AppendMessage(r) /\ ~Pop(r) /\ ~Clear(r)
    BY <2>1 DEF AppendMessage, Pop, Clear
  <2> QED
    BY <1>c, <1>4, <2>1, <2>2, <2>3 DEF InTally, OutTally
<1>11. CASE ~(\/ AppendMessage(r) \/ Pop(r) \/ CountEnqueued(r) \/ CountDequeued(r)
             \/ Clear(r) \/ Insert(r))
  <2>1. /\ UNCHANGED counters
        /\ pc[r] \notin {"enqueued", "dequeued"} /\ pc'[r] \notin {"enqueued", "dequeued"}
    BY <1>11, <1>pc
    DEF IInv, ControlOK, Ops, queue, counters, Step, Acquire, Proceed, Arrive, Reject, LockBroker,
        LockQueue, Create, Delete, Drain, Zero, RLockBroker, GetQueue, NewMessage, ReadHead,
        RangeQueues, RLockQueue, ReadStat, ServeStats
  <2> QED
    BY <1>4, <1>11, <2>1 DEF InTally, OutTally, counters
<1> QED
  BY <1>5, <1>6, <1>7, <1>8, <1>9, <1>10, <1>11

\* The same as the service sees it.
LEMMA TallyStep ==
  ASSUME IInv, NEW r \in Requests, Step(r)
  PROVE  /\ AppendMessage(r) => STally' = [STally EXCEPT ![q[r]].in = @ + 1]
         /\ Pop(r) => STally' = [STally EXCEPT ![q[r]].out = @ + 1]
         /\ Clear(r) => STally' = [STally EXCEPT ![q[r]].drained = @ + depth[q[r]]]
         /\ ~(AppendMessage(r) \/ Pop(r) \/ Clear(r)) => STally' = STally
<1>1. STally = [o \in Requests |-> [in |-> InTally(o), out |-> OutTally(o), drained |-> drained[o]]]
  BY DEF STally, InTally, OutTally
<1>2. STally' = [o \in Requests |-> [in |-> InTally(o)', out |-> OutTally(o)', drained |-> drained'[o]]]
  BY DEF STally, InTally, OutTally
<1>3. \A o \in Requests :
        /\ InTally(o)' = IF AppendMessage(r) /\ o = q[r] THEN InTally(o) + 1 ELSE InTally(o)
        /\ OutTally(o)' = IF Pop(r) /\ o = q[r] THEN OutTally(o) + 1 ELSE OutTally(o)
        /\ drained'[o] = IF Clear(r) /\ o = q[r] THEN drained[o] + depth[o] ELSE drained[o]
  BY BooksStep
<1>4. AppendMessage(r) => ~Pop(r) /\ ~Clear(r)
  BY DEF AppendMessage, Pop, Clear, Goto
<1>5. Pop(r) => ~Clear(r)
  BY DEF Pop, Clear, Goto
<1>6. ASSUME AppendMessage(r)
      PROVE  STally' = [STally EXCEPT ![q[r]].in = @ + 1]
  BY <1>1, <1>2, <1>3, <1>4, <1>6
<1>7. ASSUME Pop(r)
      PROVE  STally' = [STally EXCEPT ![q[r]].out = @ + 1]
  BY <1>1, <1>2, <1>3, <1>4, <1>5, <1>7
<1>8. ASSUME Clear(r)
      PROVE  STally' = [STally EXCEPT ![q[r]].drained = @ + depth[q[r]]]
  BY <1>1, <1>2, <1>3, <1>4, <1>5, <1>8
<1>9. ASSUME ~(AppendMessage(r) \/ Pop(r) \/ Clear(r))
      PROVE  STally' = STally
  BY <1>1, <1>2, <1>3, <1>9
<1> QED
  BY <1>6, <1>7, <1>8, <1>9

\* Which parts of the service's state a step of r leaves alone, by what it does
\* to r's own part.
LEMMA PartsStep ==
  ASSUME IInv, IInv', NEW r \in Requests, Step(r)
  PROVE  /\ op'[r] = op[r] => op' = op
         /\ SName'[r] = SName[r] => SName' = SName
         /\ SBound'[r] = SBound[r] => SBound' = SBound
         /\ STaken'[r] = STaken[r] => STaken' = STaken
         /\ STodo'[r] = STodo[r] => STodo' = STodo
         /\ stat'[r] = stat[r] => stat' = stat
         /\ SOutcome'[r] = SOutcome[r] => SOutcome' = SOutcome
         /\ (r \in SListing') = (r \in SListing) => SListing' = SListing
         /\ r \in SListing' => SListing' = SListing \cup {r}
         /\ r \notin SListing' => SListing' = SListing \ {r}
<1>1. /\ SetAt(op, op', r, op'[r])
      /\ SetAt(SName, SName', r, SName'[r])
      /\ SetAt(SBound, SBound', r, SBound'[r])
      /\ SetAt(STaken, STaken', r, STaken'[r])
      /\ SetAt(STodo, STodo', r, STodo'[r])
      /\ SetAt(stat, stat', r, stat'[r])
      /\ SetAt(SOutcome, SOutcome', r, SOutcome'[r])
  BY OwnPlace DEF IInv
<1>2. ASSUME NEW D, NEW f, NEW g, f = [x \in D |-> f[x]], r \in D, SetAt(f, g, r, g[r]), g[r] = f[r]
      PROVE  g = f
  BY <1>2 DEF SetAt
<1>3. op = [x \in Requests |-> op[x]] /\ stat = [x \in Requests |-> stat[x]]
  BY DEF IInv, TypeOK
<1>4. /\ SName = [x \in Requests |-> SName[x]]
      /\ SBound = [x \in Requests |-> SBound[x]]
      /\ STaken = [x \in Requests |-> STaken[x]]
      /\ STodo = [x \in Requests |-> STodo[x]]
      /\ SOutcome = [x \in Requests |-> SOutcome[x]]
  BY DEF SName, SBound, STaken, STodo, SOutcome
<1>5. \A s \in Requests : s # r => pc'[s] = pc[s]
  BY OthersStep DEF IInv
<1>6. /\ (r \in SListing') = (r \in SListing) => SListing' = SListing
      /\ r \in SListing' => SListing' = SListing \cup {r}
      /\ r \notin SListing' => SListing' = SListing \ {r}
  BY <1>5 DEF SListing
<1>7. op'[r] = op[r] => op' = op
  BY <1>1, <1>2, <1>3
<1>8. stat'[r] = stat[r] => stat' = stat
  BY <1>1, <1>2, <1>3
<1>9. SName'[r] = SName[r] => SName' = SName
  BY <1>1, <1>2, <1>4
<1>10. SBound'[r] = SBound[r] => SBound' = SBound
  BY <1>1, <1>2, <1>4
<1>11. STaken'[r] = STaken[r] => STaken' = STaken
  BY <1>1, <1>2, <1>4
<1>12. STodo'[r] = STodo[r] => STodo' = STodo
  BY <1>1, <1>2, <1>4
<1>13. SOutcome'[r] = SOutcome[r] => SOutcome' = SOutcome
  BY <1>1, <1>2, <1>4
<1> QED
  BY <1>6, <1>7, <1>8, <1>9, <1>10, <1>11, <1>12, <1>13

\* A step that leaves queues, names and lists alone changes at most the outcome
\* of its request.
LEMMA OnlyAnswers ==
  ASSUME IInv, IInv', NEW r \in Requests, Step(r), pc[r] \notin {"append", "pop", "clear"},
         UNCHANGED <<op, name, table, messages, todo, stat>>,
         SBound'[r] = SBound[r], STaken'[r] = STaken[r],
         pc[r] \notin {"next", "read"}, pc'[r] \notin {"next", "read"}
  PROVE  /\ UNCHANGED <<op, SName, table, SContent, STally, SBound, STaken, SListing, STodo, stat>>
         /\ SOutcome' = [SOutcome EXCEPT ![r] = SOutcome'[r]]
         /\ SOutcome'[r] = SOutcome[r] => SOutcome' = SOutcome
<1>1. SName' = SName /\ SContent' = SContent
  BY DEF SName, SContent
<1>2. STally' = STally
  BY TallyStep DEF AppendMessage, Pop, Clear, Goto
<1>3. STodo' = STodo
  <2>1. STodo'[r] = STodo[r]
    BY DEF STodo
  <2> QED
    BY <2>1, PartsStep
<1>4. SListing' = SListing
  <2>1. (r \in SListing') = (r \in SListing)
    BY DEF SListing
  <2> QED
    BY <2>1, PartsStep
<1>5. SBound' = SBound /\ STaken' = STaken /\ (SOutcome'[r] = SOutcome[r] => SOutcome' = SOutcome)
  BY PartsStep
<1>6. SOutcome' = [SOutcome EXCEPT ![r] = SOutcome'[r]]
  BY OwnPlace DEF IInv, SetAt
<1> QED
  BY <1>1, <1>2, <1>3, <1>4, <1>5, <1>6

\* What the service calls pending, and when nobody lists the names.
LEMMA NotDecided ==
  ASSUME IInv, NEW r \in Requests, pc[r] \notin {"done", "enqueued", "dequeued", "zero"}
  PROVE  SOutcome[r] = 0
  BY DEF SOutcome, Updating, IInv, ControlOK

\* Stats lists the names under the broker's read lock: none lists while it is free.
LEMMA NobodyLists ==
  ASSUME IInv, bmu.readers = {}
  PROVE  SListing = {}
  BY DEF SListing, IInv, BrokerLockOK

\* The steps that the service does not see.
LEMMA HiddenSteps ==
  ASSUME IInv, IInv', NEW r \in Requests,
         \/ LockBroker(r) \/ LockQueue(r) \/ RLockBroker(r) \/ RLockQueue(r)
         \/ Zero(r) \/ CountEnqueued(r) \/ CountDequeued(r)
  PROVE  UNCHANGED Service!vars
<1> USE DEF Goto, Answer, queue, counters, handler, locks, stack
<1>s. Step(r)
  BY DEF Step, Acquire, Proceed
<1>pc. pc \in [Requests -> PCs] /\ status \in [Requests -> {0, 200, 204, 400, 500}]
  BY DEF IInv, TypeOK
<1>op. op[r] \in Ops \cup {"none"}
  BY DEF IInv, TypeOK
<1>1. CASE ~RLockQueue(r)
  <2>1. /\ UNCHANGED <<op, name, table, messages, q, m, todo, stat>>
        /\ pc[r] \notin {"append", "pop", "clear", "next", "read"}
        /\ pc'[r] \notin {"next", "read", "pop"}
    BY <1>1, <1>pc DEF LockBroker, LockQueue, RLockBroker, Zero, CountEnqueued, CountDequeued,
       IInv, ControlOK
  <2>2. SBound'[r] = SBound[r] /\ STaken'[r] = STaken[r]
    BY <2>1 DEF SBound, STaken
  <2>3. SOutcome'[r] = SOutcome[r]
    <3>1. CASE Zero(r) \/ CountEnqueued(r) \/ CountDequeued(r)
      BY <1>pc, <3>1 DEF SOutcome, Updating, Zero, CountEnqueued, CountDequeued
    <3>2. CASE LockBroker(r) \/ LockQueue(r) \/ RLockBroker(r)
      BY <1>pc, <3>2 DEF SOutcome, Updating, LockBroker, LockQueue, RLockBroker, IInv, ControlOK
    <3> QED
      BY <1>1, <3>1, <3>2
  <2> QED
    BY <1>s, <2>1, <2>2, <2>3, OnlyAnswers DEF Service!vars, Service!asked, Service!stats
<1>2. CASE RLockQueue(r)
  <2>1. /\ UNCHANGED <<op, table, messages, m, stat, status>>
        /\ pc[r] = "next" /\ pc'[r] = "read" /\ op[r] = "stats"
    BY <1>2, <1>pc DEF RLockQueue, IInv, ControlOK
  <2>2. STodo'[r] = STodo[r]
    <3>1. PICK n \in todo[r] : name'[r] = n /\ todo'[r] = todo[r] \ {n}
      BY <1>2 DEF RLockQueue, IInv, TypeOK
    <3> QED
      BY <2>1, <3>1 DEF STodo
  <2>3. /\ SName'[r] = SName[r] /\ SBound'[r] = SBound[r] /\ STaken'[r] = STaken[r]
        /\ SOutcome'[r] = SOutcome[r] /\ (r \in SListing') = (r \in SListing)
    BY <2>1 DEF SName, SBound, STaken, SOutcome, Updating, SListing
  <2>4. STally' = STally
    BY <1>s, <2>1, TallyStep DEF AppendMessage, Pop, Clear
  <2> QED
    BY <1>s, <2>1, <2>2, <2>3, <2>4, PartsStep DEF Service!vars, Service!asked, Service!stats, SContent
<1> QED
  BY <1>1, <1>2

\* A request arrives.
LEMMA CallSteps ==
  ASSUME IInv, IInv', NEW r \in Requests, Arrive(r) \/ Reject(r)
  PROVE  Service!Call(r)
<1> USE DEF Goto, Answer, queue, counters, handler, locks, stack
<1>s. Step(r)
  BY DEF Step
<1>ty. /\ pc \in [Requests -> PCs] /\ status \in [Requests -> {0, 200, 204, 400, 500}]
       /\ op \in [Requests -> Ops \cup {"none"}] /\ name \in [Requests -> Names \cup {Nil}]
  BY DEF IInv, TypeOK
<1>1. /\ pc[r] = "new" /\ pc'[r] \in {"b.Lock", "b.RLock", "done"}
      /\ UNCHANGED <<table, messages, q, m, todo, stat>>
      /\ op[r] = "none" /\ q[r] = Nil /\ m[r] = Nil /\ name[r] = Nil
  BY <1>ty DEF Arrive, Reject, IInv, ControlOK, UntouchedOK
<1>2. /\ SBound' = SBound /\ STaken' = STaken /\ STodo' = STodo /\ SListing' = SListing
  <2>1. /\ SBound'[r] = SBound[r] /\ STaken'[r] = STaken[r] /\ STodo'[r] = STodo[r]
        /\ (r \in SListing') = (r \in SListing)
    BY <1>1 DEF SBound, STaken, STodo, SListing
  <2> QED
    BY <1>s, <2>1, PartsStep
<1>3. STally' = STally
  BY <1>s, <1>1, TallyStep DEF AppendMessage, Pop, Clear
<1>4. /\ \A v : op'[r] = v => op' = [op EXCEPT ![r] = v]
      /\ \A v : SName'[r] = v => SName' = [SName EXCEPT ![r] = v]
      /\ \A v : SOutcome'[r] = v => SOutcome' = [SOutcome EXCEPT ![r] = v]
  BY <1>s, OwnPlace DEF IInv, SetAt
<1> USE DEF Service!Call, Service!Decide, Service!stats, SContent
<1>5. CASE Reject(r)
  <2>1. PICK o \in Ops \ {"stats"} : op'[r] = o
    BY <1>5, <1>ty DEF Reject
  <2>2. o \in {"create", "delete", "drain", "enqueue", "dequeue"}
    BY DEF Ops
  <2>3. SName'[r] = SName[r]
    BY <1>1, <1>5, <2>1 DEF SName, Reject
  <2>4. SName' = SName
    BY <1>s, <2>3, PartsStep
  <2>5. SOutcome'[r] = 400 \/ SOutcome'[r] = 500
    BY <1>5, <1>ty DEF Reject, SOutcome, Updating
  <2> QED
    BY <1>1, <1>2, <1>3, <1>4, <2>1, <2>2, <2>4, <2>5
<1>6. CASE Arrive(r)
  <2>1. SOutcome' = SOutcome
    <3>1. SOutcome'[r] = SOutcome[r]
      BY <1>1, <1>6, <1>ty DEF Arrive, SOutcome, Updating, Ops
    <3> QED
      BY <1>s, <3>1, PartsStep
  <2>2. PICK o \in Ops, n \in Names :
             /\ op'[r] = o
             /\ name'[r] = IF o = "stats" THEN Nil ELSE n
    BY <1>6, <1>ty DEF Arrive
  <2>3. CASE o = "stats"
    <3>1. SName' = SName
      <4>1. SName'[r] = SName[r]
        BY <1>1, <2>2, <2>3 DEF SName
      <4> QED
        BY <1>s, <4>1, PartsStep
    <3>2. op' = [op EXCEPT ![r] = "stats"]
      BY <1>4, <2>2, <2>3
    <3> QED
      BY <1>1, <1>2, <1>3, <2>1, <3>1, <3>2
  <2>4. CASE o # "stats"
    <3>1. o \in {"create", "delete", "drain", "enqueue", "dequeue"}
      BY <2>4 DEF Ops
    <3>2. SName'[r] = n
      BY <2>2, <2>4 DEF SName
    <3>3. op' = [op EXCEPT ![r] = o] /\ SName' = [SName EXCEPT ![r] = n]
      BY <1>4, <2>2, <3>2
    <3> QED
      BY <1>1, <1>2, <1>3, <2>1, <3>1, <3>3
  <2> QED
    BY <2>3, <2>4
<1> QED
  BY <1>5, <1>6

\* The steps that look a name up: the service refuses the request, or sees
\* nothing yet.
LEMMA LookupSteps ==
  ASSUME IInv, IInv', NEW r \in Requests, Create(r) \/ Drain(r) \/ NewMessage(r)
  PROVE  Service!Refuse(r) \/ UNCHANGED Service!vars
<1> USE DEF Goto, Answer, queue, counters, handler, locks, stack
<1>s. Step(r)
  BY DEF Step, Proceed
<1>pc. pc \in [Requests -> PCs] /\ status \in [Requests -> {0, 200, 204, 400, 500}]
  BY DEF IInv, TypeOK
<1>1. /\ UNCHANGED <<op, name, table, messages, todo, stat>>
      /\ pc[r] \in {"create", "drain", "newMessage"}
      /\ op[r] = IF pc[r] = "newMessage" THEN "enqueue" ELSE pc[r]
      /\ pc'[r] \in {"insert", "q.Lock", "done"}
  BY <1>pc DEF Create, Drain, NewMessage, IInv, ControlOK
<1>2. SBound'[r] = SBound[r] /\ STaken'[r] = STaken[r]
  BY <1>1 DEF SBound, STaken, Create, Drain, NewMessage
<1>3. SOutcome[r] = 0
  BY <1>1, NotDecided
<1>4. /\ UNCHANGED <<op, SName, table, SContent, STally, SBound, STaken, SListing, STodo, stat>>
      /\ SOutcome' = [SOutcome EXCEPT ![r] = SOutcome'[r]]
      /\ SOutcome'[r] = SOutcome[r] => SOutcome' = SOutcome
  BY <1>s, <1>1, <1>2, OnlyAnswers
<1>5. CASE pc'[r] # "done"
  <2>1. SOutcome'[r] = SOutcome[r]
    BY <1>1, <1>5, <1>3, NotDecided DEF SOutcome, Updating, IInv, ControlOK
  <2> QED
    BY <1>4, <2>1 DEF Service!vars, Service!asked, Service!stats
<1>6. CASE pc'[r] = "done"
  <2>1. SOutcome'[r] = 400
    BY <1>1, <1>6, <1>pc DEF SOutcome, Updating, Create, Drain, NewMessage
  <2>2. /\ pc[r] = "create" => table[SName[r]] # Nil
        /\ pc[r] = "drain" => table[SName[r]] = Nil /\ SBound[r] = Nil
        /\ pc[r] = "newMessage" => SBound[r] # Nil
    BY <1>1, <1>6, <1>pc, NilAssumption DEF SName, SBound, Create, Drain, NewMessage, IInv, StackOK, HasQueue
  <2> QED
    BY <1>1, <1>3, <1>4, <2>1, <2>2
    DEF Service!Refuse, Service!Pending, Service!Decide, Service!asked, Service!stats
<1> QED
  BY <1>5, <1>6

\* CreateQueue and DeleteQueue change the table while nobody lists it.
LEMMA TableSteps ==
  ASSUME IInv, IInv', NEW r \in Requests, Insert(r) \/ Delete(r)
  PROVE  Service!Create(r) \/ Service!Delete(r) \/ Service!Refuse(r)
<1> USE DEF Goto, Answer, queue, counters, handler, locks, stack
<1>s. Step(r)
  BY DEF Step, Proceed
<1>pc. pc \in [Requests -> PCs] /\ status \in [Requests -> {0, 200, 204, 400, 500}]
  BY DEF IInv, TypeOK
<1>1. /\ UNCHANGED <<op, name, q, m, todo, stat>>
      /\ pc[r] \in {"insert", "delete"} /\ pc'[r] = "done"
      /\ op[r] = IF pc[r] = "insert" THEN "create" ELSE "delete"
      /\ name[r] \in Names
  BY <1>pc DEF Insert, Delete, IInv, ControlOK, StackOK
<1>2. SListing = {}
  <2>1. bmu.readers = {}
    BY <1>1 DEF Insert, Delete, WriteOwned, IInv, BrokerLockOK, OwnsBroker
  <2> QED
    BY <2>1, NobodyLists
<1>3. SOutcome[r] = 0
  BY <1>1, NotDecided
<1>4. UNCHANGED <<op, SName, SBound, STaken, STodo, SListing, stat, STally>>
  <2>1. /\ SName'[r] = SName[r] /\ SBound'[r] = SBound[r] /\ STaken'[r] = STaken[r]
        /\ STodo'[r] = STodo[r] /\ (r \in SListing') = (r \in SListing)
    BY <1>1 DEF SName, SBound, STaken, STodo, SListing
  <2>2. STally' = STally
    BY <1>s, <1>1, TallyStep DEF AppendMessage, Pop, Clear
  <2> QED
    BY <1>s, <1>1, <2>1, <2>2, PartsStep
<1>5. \A v : SOutcome'[r] = v => SOutcome' = [SOutcome EXCEPT ![r] = v]
  BY <1>s, OwnPlace DEF IInv, SetAt
<1>6. SName[r] = name[r] /\ SBound[r] = Nil
  BY <1>1 DEF SName, SBound
<1> USE DEF Service!Pending, Service!Decide, Service!asked, Service!stats, SContent
<1>7. CASE Insert(r)
  <2>1. messages' = messages
    <3>1. messages[r] = <<>> /\ messages \in [Requests -> Seq(Requests)]
      <4>1. ~Allocated(r)
        BY <1>1 DEF Allocated, IInv, ControlOK
      <4> QED
        BY <4>1 DEF IInv, FreshOK, TypeOK
    <3> QED
      BY <1>7, <3>1 DEF Insert
  <2>2. table[name[r]] = Nil /\ table' = [table EXCEPT ![name[r]] = r]
    BY <1>1, <1>7 DEF Insert, IInv, AbsentOK
  <2>3. SOutcome'[r] = 200 /\ op[r] = "create"
    BY <1>1, <1>7, <1>pc DEF SOutcome, Updating, Insert
  <2> QED
    BY <1>2, <1>3, <1>4, <1>5, <1>6, <2>1, <2>2, <2>3 DEF Service!Create
<1>8. CASE Delete(r)
  <2>1. messages' = messages /\ op[r] = "delete"
    BY <1>1, <1>8 DEF Delete
  <2>2. CASE table[name[r]] = Nil
    <3>1. table' = table /\ SOutcome'[r] = 400
      BY <1>8, <2>2, <1>pc DEF SOutcome, Updating, Delete
    <3> QED
      BY <1>3, <1>4, <1>5, <1>6, <2>1, <2>2, <3>1 DEF Service!Refuse
  <2>3. CASE table[name[r]] # Nil
    <3>1. table' = [table EXCEPT ![name[r]] = Nil] /\ SOutcome'[r] = 200
      BY <1>8, <2>3, <1>pc DEF SOutcome, Updating, Delete
    <3> QED
      BY <1>2, <1>3, <1>4, <1>5, <1>6, <2>1, <2>3, <3>1 DEF Service!Delete
  <2> QED
    BY <2>2, <2>3
<1> QED
  BY <1>7, <1>8

\* PutMessage and GetMessage look their queue up.
LEMMA FindSteps ==
  ASSUME IInv, IInv', NEW r \in Requests, GetQueue(r)
  PROVE  Service!Find(r) \/ Service!Refuse(r)
<1> USE DEF Goto, Answer, queue, counters, handler, locks, stack
<1>s. Step(r)
  BY DEF Step, Proceed
<1>ty. /\ pc \in [Requests -> PCs] /\ status \in [Requests -> {0, 200, 204, 400, 500}]
       /\ q \in [Requests -> Requests \cup {Nil}]
  BY DEF IInv, TypeOK
<1>1. /\ UNCHANGED <<op, name, table, messages, m, todo, stat>>
      /\ pc[r] = "getQueue" /\ pc'[r] \in {"newMessage", "q.Lock", "done"}
      /\ op[r] \in {"enqueue", "dequeue"}
      /\ q[r] = Nil
  BY <1>ty DEF GetQueue, IInv, ControlOK, UntouchedOK
<1>2. SOutcome[r] = 0
  BY <1>1, NotDecided
<1>3. SName[r] = name[r] /\ SBound[r] = Nil /\ STaken'[r] = STaken[r]
  BY <1>1 DEF SName, SBound, STaken
<1> USE DEF Service!Pending, Service!Decide, Service!asked, Service!stats
<1>4. CASE table[name[r]] = Nil
  <2>1. SOutcome'[r] = 400 /\ SBound'[r] = SBound[r]
    BY <1>4, <1>1, <1>ty DEF GetQueue, SOutcome, Updating, SBound
  <2>2. /\ UNCHANGED <<op, SName, table, SContent, STally, SBound, STaken, SListing, STodo, stat>>
        /\ SOutcome' = [SOutcome EXCEPT ![r] = SOutcome'[r]]
    BY <1>s, <1>1, <1>3, <2>1, OnlyAnswers
  <2> QED
    BY <1>1, <1>2, <1>3, <1>4, <2>1, <2>2 DEF Service!Refuse
<1>5. CASE table[name[r]] # Nil
  <2>1. SBound'[r] = table[name[r]] /\ SOutcome'[r] = SOutcome[r]
    BY <1>5, <1>1, <1>ty DEF GetQueue, SOutcome, Updating, SBound
  <2>2. SBound' = [SBound EXCEPT ![r] = table[name[r]]]
    BY <1>s, <2>1, OwnPlace DEF IInv, SetAt
  <2>3. UNCHANGED <<SName, STaken, STodo, SListing, SOutcome, STally, SContent>>
    <3>1. SName'[r] = SName[r] /\ STodo'[r] = STodo[r] /\ (r \in SListing') = (r \in SListing)
      BY <1>1 DEF SName, STodo, SListing
    <3>2. STally' = STally
      BY <1>s, <1>1, TallyStep DEF AppendMessage, Pop, Clear
    <3> QED
      BY <1>s, <1>1, <1>3, <2>1, <3>1, <3>2, PartsStep DEF SContent
  <2> QED
    BY <1>1, <1>2, <1>3, <1>5, <2>2, <2>3 DEF Service!Find
<1> QED
  BY <1>4, <1>5

\* The steps that change Messages: each is its operation's only effect.
LEMMA EffectSteps ==
  ASSUME IInv, IInv', NEW r \in Requests, AppendMessage(r) \/ Pop(r) \/ Clear(r)
  PROVE  Service!Put(r) \/ Service!Get(r) \/ Service!Drain(r)
<1> USE DEF Goto, Answer, queue, counters, handler, locks, stack
<1>s. Step(r)
  BY DEF Step, Proceed
<1>ty. /\ pc \in [Requests -> PCs] /\ status \in [Requests -> {0, 200, 204, 400, 500}]
       /\ q \in [Requests -> Requests \cup {Nil}]
  BY DEF IInv, TypeOK
<1>1. /\ UNCHANGED <<op, name, table, q, m, todo, stat>>
      /\ pc[r] \in {"append", "pop", "clear"} /\ pc'[r] \in {"enqueued", "dequeued", "zero"}
      /\ op[r] = IF pc[r] = "append" THEN "enqueue"
                 ELSE IF pc[r] = "pop" THEN "dequeue" ELSE "drain"
      /\ q[r] \in Requests
  BY <1>ty DEF AppendMessage, Pop, Clear, IInv, ControlOK, StackOK, HasQueue
<1>2. SOutcome[r] = 0
  BY <1>1, NotDecided
<1>3. SOutcome' = [SOutcome EXCEPT ![r] = 200]
  <2>1. SOutcome'[r] = 200
    BY <1>1 DEF SOutcome, Updating
  <2> QED
    BY <1>s, <2>1, OwnPlace DEF IInv, SetAt
<1>4. UNCHANGED <<op, SName, table, SBound, SListing, STodo, stat>>
  <2>1. /\ SName'[r] = SName[r] /\ SBound'[r] = SBound[r] /\ STodo'[r] = STodo[r]
        /\ (r \in SListing') = (r \in SListing)
    BY <1>1 DEF SName, SBound, STodo, SListing
  <2> QED
    BY <1>s, <1>1, <2>1, PartsStep
<1> USE DEF Service!Pending, Service!Decide, Service!asked, Service!stats, SContent
<1>5. CASE AppendMessage(r)
  <2>1. m[r] = r /\ SBound[r] = q[r] /\ op[r] = "enqueue"
    BY <1>1, <1>5 DEF AppendMessage, IInv, StackOK, SBound
  <2>2. messages' = [messages EXCEPT ![q[r]] = Append(@, r)]
    BY <1>5, <2>1 DEF AppendMessage
  <2>3. STally' = [STally EXCEPT ![q[r]].in = @ + 1]
    BY <1>s, <1>5, TallyStep
  <2>4. STaken' = STaken
    <3>1. STaken'[r] = STaken[r]
      BY <1>1, <2>1 DEF STaken
    <3> QED
      BY <1>s, <3>1, PartsStep
  <2>5. SBound[r] # Nil
    BY <1>1, <2>1, NilAssumption
  <2> QED
    BY <1>2, <1>3, <1>4, <2>1, <2>2, <2>3, <2>4, <2>5 DEF Service!Put
<1>6. CASE Pop(r)
  <2>1. /\ messages[q[r]] # <<>> /\ m[r] = Head(messages[q[r]])
        /\ SBound[r] = q[r] /\ op[r] = "dequeue" /\ SBound[r] # Nil
    BY <1>1, <1>6, NilAssumption DEF Pop, IInv, UpdateOK, SBound
  <2>2. messages' = [messages EXCEPT ![q[r]] = Tail(@)]
    BY <1>6 DEF Pop
  <2>3. STally' = [STally EXCEPT ![q[r]].out = @ + 1]
    BY <1>s, <1>6, TallyStep
  <2>4. STaken' = [STaken EXCEPT ![r] = Head(messages[q[r]])]
    <3>1. STaken'[r] = Head(messages[q[r]])
      BY <1>1, <2>1 DEF STaken
    <3> QED
      BY <1>s, <3>1, OwnPlace DEF IInv, SetAt
  <2> QED
    BY <1>2, <1>3, <1>4, <2>1, <2>2, <2>3, <2>4 DEF Service!Get
<1>7. CASE Clear(r)
  <2>1. /\ q[r] = table[SName[r]] /\ op[r] = "drain" /\ q[r] # Nil
    BY <1>1, <1>7, NilAssumption DEF Clear, IInv, NamedQueue, SName
  <2>2. messages' = [messages EXCEPT ![q[r]] = <<>>]
    BY <1>7 DEF Clear
  <2>3. depth[q[r]] = Len(messages[q[r]])
    <3>1. ClaimsQueue(r) /\ pc[r] = "clear"
      BY <1>7 DEF Clear, ClaimsQueue
    <3>2. AtRest(q[r])
      BY <3>1, AloneOnQueue DEF IInv, AtRest, ClaimsQueue
    <3> QED
      BY <1>1, <3>2 DEF IInv, Conservation
  <2>4. STally' = [STally EXCEPT ![q[r]].drained = @ + Len(messages[q[r]])]
    BY <1>s, <1>7, <2>3, TallyStep
  <2>5. STaken' = STaken
    <3>1. STaken'[r] = STaken[r]
      BY <1>1, <2>1 DEF STaken
    <3> QED
      BY <1>s, <3>1, PartsStep
  <2>6. SListing = {}
    <3>1. bmu.readers = {}
      BY <1>7 DEF Clear, IInv, BrokerLockOK, OwnsBroker
    <3> QED
      BY <3>1, NobodyLists
  <2> QED
    BY <1>2, <1>3, <1>4, <2>1, <2>2, <2>4, <2>5, <2>6 DEF Service!Drain
<1> QED
  BY <1>5, <1>6, <1>7

\* GetMessage finds its queue empty, or its oldest message.
LEMMA HeadSteps ==
  ASSUME IInv, IInv', NEW r \in Requests, ReadHead(r)
  PROVE  Service!GetNothing(r) \/ UNCHANGED Service!vars
<1> USE DEF Goto, Answer, queue, counters, handler, locks, stack
<1>s. Step(r)
  BY DEF Step, Proceed
<1>ty. /\ pc \in [Requests -> PCs] /\ status \in [Requests -> {0, 200, 204, 400, 500}]
       /\ m \in [Requests -> Requests \cup {Nil}]
  BY DEF IInv, TypeOK
<1>1. /\ UNCHANGED <<op, name, table, messages, q, todo, stat>>
      /\ pc[r] = "head" /\ pc'[r] \in {"pop", "done"}
      /\ op[r] = "dequeue" /\ q[r] \in Requests /\ m[r] = Nil
  BY <1>ty DEF ReadHead, IInv, ControlOK, StackOK, HasQueue, UntouchedOK
<1>2. SOutcome[r] = 0 /\ SBound[r] = q[r] /\ SBound'[r] = SBound[r]
  BY <1>1, NotDecided DEF SBound
<1>3. STaken'[r] = STaken[r]
  BY <1>1, <1>ty DEF STaken, ReadHead
<1>4. /\ UNCHANGED <<op, SName, table, SContent, STally, SBound, STaken, SListing, STodo, stat>>
      /\ SOutcome' = [SOutcome EXCEPT ![r] = SOutcome'[r]]
      /\ SOutcome'[r] = SOutcome[r] => SOutcome' = SOutcome
  BY <1>s, <1>1, <1>2, <1>3, OnlyAnswers
<1>5. CASE messages[q[r]] = <<>>
  <2>1. SOutcome'[r] = 204
    BY <1>1, <1>5, <1>ty DEF ReadHead, SOutcome, Updating
  <2> QED
    BY <1>1, <1>2, <1>4, <1>5, <2>1, NilAssumption
    DEF Service!GetNothing, Service!Pending, Service!Decide, Service!asked, Service!stats, SContent
<1>6. CASE messages[q[r]] # <<>>
  <2>1. SOutcome'[r] = SOutcome[r]
    BY <1>1, <1>6, <1>ty DEF ReadHead, SOutcome, Updating
  <2> QED
    BY <1>4, <2>1 DEF Service!vars, Service!asked, Service!stats
<1> QED
  BY <1>5, <1>6

\* Stats lists the names, visits each queue between two updates of it, and
\* answers.
LEMMA StatsSteps ==
  ASSUME IInv, IInv', NEW r \in Requests, RangeQueues(r) \/ ReadStat(r) \/ ServeStats(r)
  PROVE  Service!List(r) \/ Service!Visit(r) \/ Service!Report(r)
<1> USE DEF Goto, Answer, queue, counters, handler, locks, stack
<1>s. Step(r)
  BY DEF Step, Proceed
<1>ty. /\ pc \in [Requests -> PCs] /\ status \in [Requests -> {0, 200, 204, 400, 500}]
       /\ todo \in [Requests -> SUBSET Names]
       /\ stat \in [Requests -> SUBSET [name: Names, stat: Counters]]
  BY DEF IInv, TypeOK
<1>1. /\ UNCHANGED <<op, name, table, messages, q, m>>
      /\ pc[r] \in {"range", "read", "next"} /\ pc'[r] \in {"next", "done"}
      /\ op[r] = "stats"
  BY <1>ty DEF RangeQueues, ReadStat, ServeStats, IInv, ControlOK
<1>2. SOutcome[r] = 0
  BY <1>1, NotDecided
<1>3. UNCHANGED <<op, SName, table, SBound, STaken, SContent, STally>>
  <2>1. SName'[r] = SName[r] /\ SBound'[r] = SBound[r] /\ STaken'[r] = STaken[r]
    BY <1>1 DEF SName, SBound, STaken
  <2>2. STally' = STally
    BY <1>s, <1>1, TallyStep DEF AppendMessage, Pop, Clear
  <2> QED
    BY <1>s, <1>1, <2>1, <2>2, PartsStep DEF SContent
<1> USE DEF Service!Pending, Service!Decide, Service!asked
<1>4. CASE RangeQueues(r)
  <2>1. pc[r] = "range" /\ pc'[r] = "next" /\ stat' = stat /\ status' = status
    BY <1>4, <1>ty DEF RangeQueues
  <2>2. STodo' = [STodo EXCEPT ![r] = {n \in Names : table[n] # Nil}]
    <3>1. STodo'[r] = {n \in Names : table[n] # Nil}
      BY <1>4, <1>ty, <2>1 DEF RangeQueues, STodo
    <3> QED
      BY <1>s, <3>1, OwnPlace DEF IInv, SetAt
  <2>3. r \notin SListing /\ SListing' = SListing \cup {r}
    <3>1. r \notin SListing /\ r \in SListing'
      BY <2>1 DEF SListing
    <3> QED
      BY <1>s, <3>1, PartsStep
  <2>4. SOutcome' = SOutcome
    <3>1. SOutcome'[r] = SOutcome[r]
      BY <2>1 DEF SOutcome, Updating
    <3> QED
      BY <1>s, <3>1, PartsStep
  <2> QED
    BY <1>1, <1>2, <1>3, <2>1, <2>2, <2>3, <2>4 DEF Service!List
<1>5. CASE ReadStat(r)
  <2>1. /\ pc[r] = "read" /\ pc'[r] = "next" /\ todo' = todo /\ status' = status
        /\ name[r] \in Names /\ q[r] = table[name[r]] /\ q[r] \in Requests
        /\ name[r] \notin todo[r]
    BY <1>5, <1>ty DEF ReadStat, IInv, StackOK, HasQueue, NamedQueue, UntouchedOK
  <2>2. StatOf(q[r]) = Service!Seen(q[r])
    <3>1. \A s \in Requests : q[s] = q[r] => ~OwnsQueue(s)
      BY <1>5 DEF ReadStat, ReadOwned, IInv, QueueLockOK
    <3>2. AtRest(q[r]) /\ Owed(q[r], "enqueued") = 0 /\ Owed(q[r], "dequeued") = 0
      BY <3>1 DEF AtRest, Owed, OwnsQueue
    <3>3. depth[q[r]] = Len(messages[q[r]])
      BY <2>1, <3>2 DEF IInv, Conservation
    <3>4. enqueued[q[r]] \in Int /\ dequeued[q[r]] \in Int
      BY <2>1 DEF IInv, TypeOK
    <3> QED
      BY <2>1, <3>2, <3>3, <3>4 DEF StatOf, Service!Seen, SContent, STally
  <2>3. stat' = [stat EXCEPT ![r] = @ \cup {[name |-> name[r], stat |-> Service!Seen(table[name[r]])]}]
    BY <1>5, <2>1, <2>2 DEF ReadStat
  <2>4. name[r] \in STodo[r] /\ STodo' = [STodo EXCEPT ![r] = @ \ {name[r]}]
    <3>1. name[r] \in STodo[r] /\ STodo'[r] = STodo[r] \ {name[r]}
      BY <2>1 DEF STodo
    <3> QED
      BY <1>s, <3>1, OwnPlace DEF IInv, SetAt
  <2>5. r \in SListing /\ SListing' = SListing
    <3>1. r \in SListing /\ r \in SListing'
      BY <2>1 DEF SListing
    <3> QED
      BY <1>s, <3>1, PartsStep
  <2>6. SOutcome' = SOutcome
    <3>1. SOutcome'[r] = SOutcome[r]
      BY <2>1 DEF SOutcome, Updating
    <3> QED
      BY <1>s, <3>1, PartsStep
  <2> QED
    BY <1>3, <2>3, <2>4, <2>5, <2>6 DEF Service!Visit
<1>6. CASE ServeStats(r)
  <2>1. pc[r] = "next" /\ pc'[r] = "done" /\ todo' = todo /\ stat' = stat /\ todo[r] = {}
    BY <1>6, <1>ty DEF ServeStats
  <2>2. STodo[r] = {} /\ STodo' = STodo
    <3>1. STodo[r] = {} /\ STodo'[r] = STodo[r]
      BY <2>1 DEF STodo
    <3> QED
      BY <1>s, <3>1, PartsStep
  <2>3. r \in SListing /\ SListing' = SListing \ {r}
    <3>1. r \in SListing /\ r \notin SListing'
      BY <2>1 DEF SListing
    <3> QED
      BY <1>s, <3>1, PartsStep
  <2>4. SOutcome' = [SOutcome EXCEPT ![r] = 200]
    <3>1. SOutcome'[r] = 200
      BY <1>6, <1>ty DEF ServeStats, SOutcome, Updating
    <3> QED
      BY <1>s, <3>1, OwnPlace DEF IInv, SetAt
  <2> QED
    BY <1>3, <2>1, <2>2, <2>3, <2>4 DEF Service!Report
<1> QED
  BY <1>4, <1>5, <1>6

\* A new broker is a new service.
LEMMA InitMaps == Init => Service!Init
  BY DEF Init, Service!Init, SContent, STally, Owed, SName, SBound, STaken, SListing, STodo,
     SOutcome, Updating

\* Every step of the broker is a step of the service, or none.
LEMMA StepMaps == IInv /\ IInv' /\ [Next]_vars => [Service!Next]_(Service!vars)
<1> SUFFICES ASSUME IInv, IInv', [Next]_vars
             PROVE  Service!Next \/ UNCHANGED Service!vars
  OBVIOUS
<1>1. ASSUME NEW r \in Requests, Step(r)
      PROVE  Service!Next \/ UNCHANGED Service!vars
  <2>1. CASE Arrive(r) \/ Reject(r)
    BY <2>1, CallSteps DEF Service!Next
  <2>2. CASE Acquire(r)
    BY <2>2, HiddenSteps DEF Acquire
  <2>3. CASE \/ Zero(r) \/ CountEnqueued(r) \/ CountDequeued(r)
             \/ RLockBroker(r) \/ RLockQueue(r)
    BY <2>3, HiddenSteps
  <2>4. CASE Create(r) \/ Drain(r) \/ NewMessage(r)
    BY <2>4, LookupSteps DEF Service!Next
  <2>5. CASE Insert(r) \/ Delete(r)
    BY <2>5, TableSteps DEF Service!Next
  <2>6. CASE GetQueue(r)
    BY <2>6, FindSteps DEF Service!Next
  <2>7. CASE AppendMessage(r) \/ Pop(r) \/ Clear(r)
    BY <2>7, EffectSteps DEF Service!Next
  <2>8. CASE ReadHead(r)
    BY <2>8, HeadSteps DEF Service!Next
  <2>9. CASE RangeQueues(r) \/ ReadStat(r) \/ ServeStats(r)
    BY <2>9, StatsSteps DEF Service!Next
  <2> QED
    BY <1>1, <2>1, <2>2, <2>3, <2>4, <2>5, <2>6, <2>7, <2>8, <2>9 DEF Step, Proceed
<1>2. CASE UNCHANGED vars
  BY <1>2 DEF vars, handler, queue, locks, stack, Service!vars, Service!asked, Service!stats,
     SContent, STally, Owed, SName, SBound, STaken, SListing, STodo, SOutcome, Updating
<1> QED
  BY <1>1, <1>2 DEF Next, Quiescent

\* The handlers, locks and counters of broker.go implement the service.
THEOREM BrokerImplementsService == Spec => ImplementsService
<1>1. Init => Service!Init
  BY InitMaps
<1>2. IInv /\ IInv' /\ [Next]_vars => [Service!Next]_(Service!vars)
  BY StepMaps
<1>3. Spec => []IInv
  BY Invariance
<1> QED
  BY <1>1, <1>2, <1>3, PTL DEF Spec, ImplementsService, Service!Spec

-----------------------------------------------------------------------------
(* What the observer can reach: sets of numbers, runs and chains *)

\* A set of numbers that has 0 and every successor has them all.
LEMMA NatSets ==
  ASSUME NEW T, 0 \in T, \A n \in Nat : n \in T => n + 1 \in T
  PROVE  \A n \in Nat : n \in T
<1> SUFFICES ASSUME NEW n0 \in Nat, n0 \notin T PROVE FALSE
  OBVIOUS
<1> DEFINE M == {n \in Nat : n \notin T}
           L == OpToRel(<, Nat)
<1>1. M # {} /\ M \subseteq Nat
  OBVIOUS
<1>2. IsWellFoundedOn(L, Nat)
  BY NatLessThanWellFounded
<1>3. \E x \in M : \A y \in M : ~ (<<y, x>> \in L)
  <2> HIDE DEF M, L
  <2> QED
    BY <1>1, <1>2, WFMin
<1>4. \A x, y \in Nat : x < y => <<x, y>> \in L
  BY DEF OpToRel
<1> HIDE DEF L
<1>5. PICK x \in M : \A y \in M : ~ (<<y, x>> \in L)
  BY <1>3
<1>6. x # 0 /\ x - 1 \in Nat /\ x - 1 < x /\ x \in Nat
  BY <1>5
<1>7. x - 1 \in M
  BY <1>4, <1>5, <1>6
<1> QED
  BY <1>4, <1>5, <1>6, <1>7

\* Running more and more of the waiting requests is well defined.
RunsTo(g, n) == g = [i \in 0..n |-> IF i = 0 THEN worlds ELSE Grown(g[i - 1])]

\* There is such a function for every number: the recursion of Reachable unfolds.
LEMMA RunsExist == \A n \in Nat : \E g : RunsTo(g, n)
<1> DEFINE T == {n \in Nat : \E g : RunsTo(g, n)}
<1>1. 0 \in T
  <2>1. RunsTo([i \in 0..0 |-> worlds], 0)
    BY DEF RunsTo
  <2> QED
    BY <2>1
<1>2. ASSUME NEW n \in Nat, n \in T PROVE n + 1 \in T
  <2>1. PICK g : RunsTo(g, n)
    BY <1>2
  <2> DEFINE h == [i \in 0..(n + 1) |-> IF i = n + 1 THEN Grown(g[n]) ELSE g[i]]
  <2>2. ASSUME NEW i \in 0..(n + 1) PROVE h[i] = IF i = 0 THEN worlds ELSE Grown(h[i - 1])
    <3>1. CASE i = n + 1
      BY <1>2, <2>1, <3>1
    <3>2. CASE i # n + 1
      BY <1>2, <2>1, <3>2 DEF RunsTo
    <3> QED
      BY <3>1, <3>2
  <2>3. RunsTo(h, n + 1)
    BY <2>2 DEF RunsTo
  <2> QED
    BY <2>3
<1> HIDE DEF T
<1>3. \A n \in Nat : n \in T
  BY <1>1, <1>2, NatSets
<1> QED
  BY <1>3 DEF T

\* Reachable is the last set of such a run.
LEMMA ReachableRuns ==
  ASSUME IsFiniteSet(Waiting)
  PROVE  \E g : RunsTo(g, Cardinality(Waiting)) /\ Reachable = g[Cardinality(Waiting)]
<1> DEFINE N == Cardinality(Waiting)
<1>1. N \in Nat
  BY FS_CardinalityType
<1> DEFINE ran[i \in 0..N] == IF i = 0 THEN worlds ELSE Grown(ran[i - 1])
<1>2. Reachable = ran[N]
  BY DEF Reachable
<1>3. RunsTo(ran, N)
  <2> HIDE DEF N
  <2>1. \E g : RunsTo(g, N)
    BY <1>1, RunsExist
  <2>2. ran = CHOOSE g : g = [i \in 0..N |-> IF i = 0 THEN worlds ELSE Grown(g[i - 1])]
    BY DEF ran
  <2> QED
    BY <2>1, <2>2 DEF RunsTo
<1> QED
  BY <1>2, <1>3

\* Each set of such a run is part of the next.
LEMMA RunsGrow ==
  ASSUME NEW N \in Nat, NEW g, RunsTo(g, N), NEW k \in 0..N
  PROVE  \A i \in 0..k : g[i] \subseteq g[k]
<1> DEFINE T == {n \in Nat : n <= N => \A i \in 0..n : g[i] \subseteq g[n]}
<1>1. 0 \in T
  OBVIOUS
<1>2. ASSUME NEW n \in Nat, n \in T PROVE n + 1 \in T
  <2> SUFFICES ASSUME n + 1 <= N PROVE \A i \in 0..(n + 1) : g[i] \subseteq g[n + 1]
    OBVIOUS
  <2>1. g[n + 1] = Grown(g[n])
    BY DEF RunsTo
  <2>2. g[n] \subseteq g[n + 1]
    BY <2>1 DEF Grown
  <2>3. \A i \in 0..n : g[i] \subseteq g[n]
    BY <1>2
  <2> QED
    BY <2>2, <2>3
<1> HIDE DEF T
<1>3. \A n \in Nat : n \in T
  BY <1>1, <1>2, NatSets
<1> QED
  BY <1>3 DEF T

\* Running different waiting requests one after another, each at a moment when
\* it is undecided, leads to a reachable world.
Chain(k, s, f) ==
  /\ s \in [1..k -> Waiting]
  /\ \A i, j \in 1..k : s[i] = s[j] => i = j
  /\ f[0] \in worlds
  /\ \A i \in 1..k : f[i - 1].answers[s[i]] = Undecided /\ f[i] \in Sequential(f[i - 1], s[i])

\* Running some waiting requests one after another stays within what the observer
\* considers, which runs as many as there are waiting.
LEMMA ChainReaches ==
  ASSUME IsFiniteSet(Waiting), NEW k \in Nat, NEW s, NEW f, Chain(k, s, f)
  PROVE  f[k] \in Reachable
<1> DEFINE N == Cardinality(Waiting)
<1>1. N \in Nat
  BY FS_CardinalityType
<1>2. k <= N
  <2>1. s \in Injection(1..k, Waiting)
    BY DEF Chain, Injection, IsInjective
  <2>2. Cardinality(1..k) <= N
    BY <2>1, FS_Injection
  <2>3. Cardinality(1..k) = k
    BY FS_Interval
  <2> QED
    BY <2>2, <2>3
<1>3. PICK g : RunsTo(g, N) /\ Reachable = g[N]
  BY ReachableRuns
<1> HIDE DEF N
<1> DEFINE T == {n \in Nat : n <= k => f[n] \in g[n]}
<1>4. 0 \in T
  BY <1>1, <1>3 DEF RunsTo, Chain
<1>5. ASSUME NEW n \in Nat, n \in T PROVE n + 1 \in T
  <2> SUFFICES ASSUME n + 1 <= k PROVE f[n + 1] \in g[n + 1]
    OBVIOUS
  <2>1. g[n + 1] = Grown(g[n])
    BY <1>1, <1>2, <1>3 DEF RunsTo
  <2>2. f[n] \in g[n]
    BY <1>5
  <2>3. /\ s[n + 1] \in Waiting /\ f[n].answers[s[n + 1]] = Undecided
        /\ f[n + 1] \in Sequential(f[n], s[n + 1])
    <3>1. n + 1 \in 1..k /\ (n + 1) - 1 = n
      OBVIOUS
    <3> QED
      BY <3>1 DEF Chain
  <2>4. <<f[n], s[n + 1]>> \in {y \in g[n] \X Waiting : y[1].answers[y[2]] = Undecided}
    BY <2>2, <2>3
  <2> QED
    BY <2>1, <2>3, <2>4 DEF Grown
<1>6. f[k] \in g[k]
  <2> HIDE DEF T
  <2>1. \A n \in Nat : n \in T
    BY <1>4, <1>5, NatSets
  <2> QED
    BY <2>1 DEF T
<1>7. g[k] \subseteq g[N]
  BY <1>1, <1>2, <1>3, RunsGrow
<1> QED
  BY <1>3, <1>6, <1>7

\* In particular, running none, and one.
LEMMA ReachableNow ==
  ASSUME IsFiniteSet(Waiting)
  PROVE  /\ worlds \subseteq Reachable
         /\ \A w \in worlds, r \in Waiting : w.answers[r] = Undecided => Sequential(w, r) \subseteq Reachable
<1>1. ASSUME NEW w \in worlds PROVE w \in Reachable
  <2> DEFINE f == [i \in {0} |-> w]
  <2>1. Chain(0, <<>>, f)
    BY DEF Chain
  <2>2. f[0] \in Reachable
    <3> HIDE DEF f
    <3> QED
      BY <2>1, ChainReaches
  <2> QED
    BY <2>2
<1>2. ASSUME NEW w \in worlds, NEW r \in Waiting, w.answers[r] = Undecided, NEW v \in Sequential(w, r)
      PROVE  v \in Reachable
  <2> DEFINE f == [i \in 0..1 |-> IF i = 0 THEN w ELSE v]
             s == [i \in 1..1 |-> r]
  <2>1. Chain(1, s, f)
    BY <1>2 DEF Chain
  <2>2. f[1] \in Reachable
    <3> HIDE DEF f, s
    <3> QED
      BY <2>1, ChainReaches
  <2> QED
    BY <2>2
<1> QED
  BY <1>1, <1>2

-----------------------------------------------------------------------------
(* Steps, names, and what Stats has listed *)

\* What a step may do to its request and to the table.
LEMMA OwnStep ==
  ASSUME IInv, NEW r \in Requests, Step(r)
  PROVE  /\ pc[r] # "done" /\ pc'[r] # "new"
         /\ pc[r] # "new" => op'[r] = op[r]
         /\ pc[r] = "new" => q'[r] = Nil /\ table' = table
         /\ pc[r] # "new" /\ op[r] # "stats" => name'[r] = name[r]
         /\ \/ q'[r] = q[r]
            \/ op[r] = "stats"
            \/ /\ pc[r] \in {"drain", "getQueue"} /\ pc'[r] # "done" /\ table' = table
               /\ q'[r] = table[name[r]] /\ q'[r] # Nil /\ name[r] \in Names
         /\ \/ table' = table
            \/ Insert(r)
            \/ Delete(r) /\ table[name[r]] # Nil
<1> USE DEF handler, stack, Goto, Answer
<1>t. TypeOK /\ ControlOK /\ StackOK /\ UntouchedOK
  BY DEF IInv
<1>pc. pc \in [Requests -> PCs]
  BY <1>t DEF TypeOK
<1>op. op \in [Requests -> Ops \cup {"none"}]
  BY <1>t DEF TypeOK
<1>q. q \in [Requests -> Requests \cup {Nil}]
  BY <1>t DEF TypeOK
<1>1. CASE Arrive(r) \/ Reject(r)
  BY <1>1, <1>t, <1>pc, <1>op, <1>q DEF Arrive, Reject, ControlOK, UntouchedOK
<1>2. CASE Acquire(r)
  BY <1>2, <1>t, <1>pc, <1>op DEF Acquire, LockBroker, LockQueue, Ops, ControlOK
<1>3. CASE Create(r) \/ Insert(r) \/ Delete(r) \/ Clear(r) \/ Zero(r)
  BY <1>3, <1>pc DEF Create, Insert, Delete, Clear, Zero
<1>4. CASE Drain(r)
  BY <1>4, <1>t, <1>pc, <1>q DEF Drain, StackOK, ControlOK
<1>5. CASE GetQueue(r)
  BY <1>5, <1>t, <1>pc, <1>q DEF GetQueue, StackOK, ControlOK
<1>6. CASE RLockBroker(r) \/ NewMessage(r) \/ AppendMessage(r) \/ CountEnqueued(r)
  BY <1>6, <1>pc DEF RLockBroker, NewMessage, AppendMessage, CountEnqueued
<1>7. CASE ReadHead(r) \/ Pop(r) \/ CountDequeued(r)
  BY <1>7, <1>pc DEF ReadHead, Pop, CountDequeued
<1>8. CASE RangeQueues(r) \/ RLockQueue(r) \/ ReadStat(r) \/ ServeStats(r)
  BY <1>8, <1>t, <1>pc DEF RangeQueues, RLockQueue, ReadStat, ServeStats, ControlOK
<1> QED
  BY <1>1, <1>2, <1>3, <1>4, <1>5, <1>6, <1>7, <1>8 DEF Step, Proceed

\* The table gives a name to a queue once, under the name it was created with.
LEMMA NamesStep ==
  ASSUME IInv, NamesOK, NEW r \in Requests, Step(r)
  PROVE  NamesOK'
<1>1. TypeOK /\ ControlOK /\ StackOK /\ TableOK /\ PointersOK
  BY DEF IInv
<1>2. \A s \in Requests : s # r => q'[s] = q[s] /\ op'[s] = op[s] /\ name'[s] = name[s]
  BY <1>1, OthersStep, LocalStep
<1>3. \A o \in Requests : Allocated(o) => name'[o] = name[o]
  BY <1>1, <1>2, OwnStep DEF Allocated, ControlOK
<1>4. ASSUME NEW n \in Names, table'[n] # Nil PROVE name'[table'[n]] = n
  <2>1. CASE table' = table
    BY <1>1, <1>3, <1>4, <2>1 DEF NamesOK, TableOK, TypeOK
  <2>2. CASE Insert(r)
    <3>1. table' = [table EXCEPT ![name[r]] = r] /\ name' = name
      BY <2>2 DEF Insert, handler
    <3> QED
      BY <1>1, <1>4, <3>1 DEF NamesOK, TypeOK
  <2>3. CASE Delete(r)
    <3>1. (table' = [table EXCEPT ![name[r]] = Nil] /\ name' = name) \/ table' = table
      BY <2>3 DEF Delete, handler
    <3> QED
      BY ZenonT(60), <1>1, <1>4, <2>1, <3>1 DEF NamesOK, TypeOK
  <2> QED
    BY <2>1, <2>2, <2>3, OwnStep
<1>5. ASSUME NEW s \in Requests, op'[s] # "stats", q'[s] # Nil PROVE name'[q'[s]] = name'[s]
  <2>1. CASE s # r
    <3>1. Allocated(q[s]) /\ q[s] \in Requests
      BY <1>1, <1>2, <1>5, <2>1 DEF PointersOK, TypeOK
    <3> QED
      BY <1>2, <1>3, <1>5, <2>1, <3>1 DEF NamesOK
  <2>2. CASE s = r
    <3>1. pc[r] # "new" /\ op[r] # "stats" /\ name'[r] = name[r]
      BY <1>5, <2>2, OwnStep
    <3>2. CASE q'[r] = q[r]
      <4>1. Allocated(q[r]) /\ q[r] \in Requests
        BY <1>1, <1>5, <2>2, <3>2 DEF PointersOK, TypeOK
      <4> QED
        BY <1>3, <1>5, <2>2, <3>1, <3>2, <4>1 DEF NamesOK
    <3>3. CASE q'[r] = table[name[r]] /\ name[r] \in Names
      <4>1. Allocated(q'[r]) /\ q'[r] \in Requests
        BY <1>1, <1>5, <2>2, <3>3 DEF TableOK, TypeOK
      <4> QED
        BY <1>3, <1>5, <2>2, <3>1, <3>3, <4>1 DEF NamesOK
    <3> QED
      BY <3>1, <3>2, <3>3, OwnStep
  <2> QED
    BY <2>1, <2>2
<1> QED
  BY <1>4, <1>5 DEF NamesOK

\* Stats holds Broker.mu from its listing to its answer, so the names in the table
\* stay those it has listed.
LEMMA ScanStep ==
  ASSUME IInv, ScanOK, NEW r \in Requests, Step(r)
  PROVE  ScanOK'
<1>t. TypeOK /\ ControlOK /\ StackOK /\ ListingOK /\ BrokerLockOK
  BY DEF IInv
<1>pc. pc \in [Requests -> PCs] /\ stat \in [Requests -> SUBSET [name: Names, stat: Counters]]
  BY <1>t DEF TypeOK
<1>todo. todo \in [Requests -> SUBSET Names] /\ name \in [Requests -> Names \cup {Nil}]
  BY <1>t DEF TypeOK
<1>1. ASSUME NEW s \in Requests, pc'[s] \in {"next", "read"}, pc[s] \in {"next", "read"} PROVE table' = table
  <2>1. s \in bmu.readers
    BY <1>1, <1>t DEF BrokerLockOK
  <2>2. ~Insert(r) /\ ~Delete(r)
    BY <2>1, <1>t DEF BrokerLockOK, OwnsBroker, Insert, Answer, Goto, Delete, WriteOwned
  <2> QED
    BY <2>2, OwnStep
<1>2. ASSUME NEW s \in Requests, s # r
      PROVE  /\ pc'[s] \in {"new", "b.RLock", "range"} => stat'[s] = {}
             /\ pc'[s] \in {"next", "read"} => InTable' = Listed(s)' \cup Visiting(s)'
  <2>1. /\ pc'[s] = pc[s] /\ name'[s] = name[s] /\ todo'[s] = todo[s] /\ stat'[s] = stat[s]
    BY <1>2, <1>t, OthersStep, LocalStep
  <2> QED
    BY <1>1, <2>1 DEF ScanOK, InTable, Listed, Visiting
<1>3. pc'[r] \in {"new", "b.RLock", "range"} => stat'[r] = {}
  <2>1. pc'[r] \in {"new", "b.RLock", "range"} => Arrive(r) \/ RLockBroker(r)
    <3> SUFFICES ASSUME pc'[r] \in {"new", "b.RLock", "range"} PROVE Arrive(r) \/ RLockBroker(r)
      OBVIOUS
    <3>1. ~(Reject(r) \/ Acquire(r))
      BY <1>pc, <1>t DEF Goto, Answer, Reject, Acquire, LockBroker, LockQueue, ControlOK
    <3>2. ~(Create(r) \/ Insert(r) \/ Delete(r) \/ Drain(r) \/ Clear(r) \/ Zero(r))
      BY <1>pc DEF Goto, Answer, Create, Insert, Delete, Drain, Clear, Zero
    <3>3. ~(\/ GetQueue(r) \/ NewMessage(r) \/ AppendMessage(r) \/ CountEnqueued(r) \/ ReadHead(r)
            \/ Pop(r) \/ CountDequeued(r))
      BY <1>pc DEF Goto, Answer, GetQueue, NewMessage, AppendMessage, CountEnqueued, ReadHead, Pop, CountDequeued
    <3>4. ~(RangeQueues(r) \/ RLockQueue(r) \/ ReadStat(r) \/ ServeStats(r))
      BY <1>pc DEF Goto, Answer, RangeQueues, RLockQueue, ReadStat, ServeStats
    <3> QED
      BY <3>1, <3>2, <3>3, <3>4 DEF Step, Proceed
  <2>2. Arrive(r) \/ RLockBroker(r) => stat' = stat /\ pc[r] \in {"new", "b.RLock"}
    BY DEF Arrive, RLockBroker, Goto, stack
  <2> QED
    BY <2>1, <2>2 DEF ScanOK
<1>4. ASSUME pc'[r] \in {"next", "read"} PROVE InTable' = Listed(r)' \cup Visiting(r)'
  <2>1. RangeQueues(r) \/ RLockQueue(r) \/ ReadStat(r)
    BY ZenonT(60), <1>4, <1>pc, <1>t DEF Step, Acquire, Proceed, Goto, Answer, Arrive, Reject, LockBroker, LockQueue,
       Create, Insert, Delete, Drain, Clear, Zero, RLockBroker, GetQueue, NewMessage, AppendMessage,
       CountEnqueued, ReadHead, Pop, CountDequeued, ServeStats, ControlOK, Ops
  <2>2. CASE RangeQueues(r)
    <3>1. /\ pc[r] = "range" /\ pc'[r] = "next" /\ table' = table /\ stat'[r] = {}
          /\ todo'[r] = InTable
      BY <2>2, <1>pc, <1>todo DEF RangeQueues, Goto, ScanOK, InTable
    <3> QED
      BY <3>1 DEF InTable, Listed, Visiting
  <2>3. CASE RLockQueue(r)
    <3>1. PICK n \in todo[r] : name' = [name EXCEPT ![r] = n] /\ todo' = [todo EXCEPT ![r] = @ \ {n}]
      BY <2>3 DEF RLockQueue
    <3>2. pc[r] = "next" /\ pc'[r] = "read" /\ table' = table /\ stat' = stat
      BY <2>3, <1>pc DEF RLockQueue, Goto
    <3>3. name'[r] = n /\ todo'[r] = todo[r] \ {n}
      BY <3>1, <1>todo
    <3>4. InTable = todo[r] \cup {s.name : s \in stat[r]}
      BY <3>2 DEF ScanOK, Listed, Visiting
    <3> QED
      BY <3>2, <3>3, <3>4 DEF InTable, Listed, Visiting
  <2>4. CASE ReadStat(r)
    <3>1. /\ pc[r] = "read" /\ pc'[r] = "next" /\ table' = table /\ todo' = todo
          /\ stat'[r] = stat[r] \cup {[name |-> name[r], stat |-> StatOf(q[r])]}
      BY <2>4, <1>pc DEF ReadStat, Goto, TypeOK
    <3>2. InTable = todo[r] \cup {s.name : s \in stat[r]} \cup {name[r]}
      BY <3>1 DEF ScanOK, Listed, Visiting
    <3>3. {s.name : s \in stat'[r]} = {s.name : s \in stat[r]} \cup {name[r]}
      <4> DEFINE rec == [name |-> name[r], stat |-> StatOf(q[r])]
      <4>1. rec.name = name[r] /\ stat'[r] = stat[r] \cup {rec}
        BY <3>1
      <4> HIDE DEF rec
      <4> QED
        BY <4>1
    <3> QED
      BY <3>1, <3>2, <3>3 DEF InTable, Listed, Visiting
  <2> QED
    BY <2>1, <2>2, <2>3, <2>4
<1> QED
  BY <1>2, <1>3, <1>4 DEF ScanOK

\* Finitely many requests are waiting at any time.
LEMMA WaitingStep ==
  ASSUME IInv, NEW r \in Requests, Step(r)
  PROVE  /\ Waiting' \subseteq Waiting \cup {r}
         /\ IsFiniteSet(Waiting) => IsFiniteSet(Waiting')
<1>1. \A s \in Requests : s # r => pc'[s] = pc[s] /\ op'[s] = op[s]
  BY OthersStep DEF IInv
<1>2. Waiting' \subseteq Waiting \cup {r}
  BY <1>1 DEF Waiting
<1>3. ASSUME IsFiniteSet(Waiting) PROVE IsFiniteSet(Waiting')
  <2>1. IsFiniteSet(Waiting \cup {r})
    BY <1>3, FS_AddElement
  <2> QED
    BY <1>2, <2>1, FS_Subset
<1> QED
  BY <1>2, <1>3

-----------------------------------------------------------------------------
(* What a sequential server holds while a queue is updated *)

\* A step that neither changes the queue nor begins or ends an update of it
\* leaves it fitting.
LEMMA FitsAlone ==
  ASSUME IInv, NEW r \in Requests, Step(r), NEW o \in Requests, NEW c, Fits(o, c),
         Fields(o)' = Fields(o), q[r] = o => ~Updating(r), q'[r] = o => ~Updating(r)'
  PROVE  Fits(o, c)'
<1>1. \A s \in Requests : s # r => pc'[s] = pc[s] /\ q'[s] = q[s] /\ m'[s] = m[s]
  BY OthersStep DEF IInv
<1>2. Now(o)' = Now(o)
  BY DEF Now, Fields
<1>3. CASE AtRest(o) /\ c = Now(o)
  BY <1>1, <1>2, <1>3 DEF Fits, AtRest, Updating
<1>4. CASE ~(AtRest(o) /\ c = Now(o))
  <2>1. PICK s \in Requests :
       /\ q[s] = o
       /\ \/ /\ pc[s] = "enqueued"
             /\ Now(o) = Holding(Append(c.messages, s), c.enqueued, c.dequeued, c.drained)
          \/ /\ pc[s] = "dequeued"
             /\ c.messages # <<>> /\ m[s] = Head(c.messages)
             /\ Now(o) = Holding(Tail(c.messages), c.enqueued, c.dequeued, c.drained)
          \/ /\ pc[s] = "zero"
             /\ Now(o) = Holding(<<>>, c.enqueued, c.dequeued, c.drained + Len(c.messages))
    BY <1>4 DEF Fits
  <2>2. s # r
    BY <2>1 DEF Updating
  <2>3. q'[s] = q[s] /\ pc'[s] = pc[s] /\ m'[s] = m[s]
    BY <1>1, <2>2
  <2> QED
    BY <1>2, <2>1, <2>3 DEF Fits
<1> QED
  BY <1>3, <1>4

\* Who owns a queue without having begun to update it finds it at rest.
LEMMA OwnerFindsRest ==
  ASSUME IInv, NEW r \in Requests, WriteOwned(qmu[q[r]], r), ~Updating(r)
  PROVE  AtRest(q[r])
BY Exclusive DEF IInv, AtRest, ClaimsQueue, Updating

\* The first assignments of an update are not seen yet.
LEMMA FitsStep ==
  ASSUME IInv, NEW r \in Requests, Step(r), ~Updating(r),
         NEW o \in Requests, NEW c \in SequentialQueues, Fits(o, c)
  PROVE  Fits(o, c)'
<1>t. TypeOK /\ ControlOK /\ StackOK /\ FreshOK /\ QueueLockOK /\ UpdateOK /\ Conservation
  BY DEF IInv
<1>pc. pc \in [Requests -> PCs]
  BY <1>t DEF TypeOK
<1>f. /\ depth \in [Requests -> Int] /\ enqueued \in [Requests -> Int]
      /\ dequeued \in [Requests -> Int] /\ drained \in [Requests -> Int]
      /\ messages \in [Requests -> Seq(Requests)]
  BY <1>t DEF TypeOK
<1>1. CASE Updating(r)' /\ q[r] = o
  <2>1. AppendMessage(r) \/ Pop(r) \/ Clear(r)
    BY <1>1, <1>pc, <1>t DEF Updating, Goto, Answer, Step, Acquire, Proceed, Arrive, Reject,
       LockBroker, LockQueue, Create, Insert, Delete, Drain, Zero, RLockBroker, GetQueue, NewMessage,
       CountEnqueued, ReadHead, CountDequeued, RangeQueues, RLockQueue, ReadStat, ServeStats,
       ControlOK, Ops
  <2>2. WriteOwned(qmu[q[r]], r)
    BY <2>1 DEF AppendMessage, Pop, Clear, Goto, IInv, QueueLockOK, ClaimsQueue, OwnsQueue, WriteOwned
  <2>3. AtRest(o)
    BY <1>1, <2>2, OwnerFindsRest
  <2>4. c = Now(o)
    BY <2>3 DEF Fits, AtRest
  <2>4a. /\ c.messages = messages[o] /\ c.enqueued = enqueued[o]
         /\ c.dequeued = dequeued[o] /\ c.drained = drained[o]
    BY <2>4 DEF Now, Holding
  <2>5. q' = q
    BY <2>1 DEF AppendMessage, Pop, Clear, stack
  <2>6. CASE AppendMessage(r)
    <3>1. m[r] = r
      BY <2>6, <1>t DEF AppendMessage, Goto, StackOK
    <3>2. /\ messages'[o] = Append(messages[o], r) /\ pc'[r] = "enqueued"
          /\ enqueued' = enqueued /\ dequeued' = dequeued /\ drained' = drained
      BY <1>1, <1>pc, <1>f, <2>6, <3>1 DEF AppendMessage, Goto, counters
    <3>3. Now(o)' = Holding(Append(c.messages, r), c.enqueued, c.dequeued, c.drained)
      BY <2>4a, <3>2 DEF Now
    <3> QED
      BY <1>1, <2>5, <3>2, <3>3 DEF Fits
  <2>7. CASE Pop(r)
    <3>1. pc[r] = "pop" /\ messages[o] # <<>> /\ m[r] = Head(messages[o])
      BY <1>1, <1>t, <2>7 DEF Pop, Goto, UpdateOK
    <3>2. /\ messages'[o] = Tail(messages[o]) /\ pc'[r] = "dequeued" /\ m' = m
          /\ enqueued' = enqueued /\ dequeued' = dequeued /\ drained' = drained
      BY <1>1, <1>pc, <1>f, <2>7 DEF Pop, Goto, counters, stack
    <3>3. Now(o)' = Holding(Tail(c.messages), c.enqueued, c.dequeued, c.drained)
      BY <2>4a, <3>2 DEF Now
    <3> QED
      BY <1>1, <2>5, <3>1, <3>2, <3>3, <2>4a DEF Fits
  <2>8. CASE Clear(r)
    <3>1. depth[o] = Len(messages[o])
      BY <1>t, <2>3 DEF Conservation
    <3>2. /\ messages'[o] = <<>> /\ drained'[o] = drained[o] + depth[o] /\ pc'[r] = "zero"
          /\ enqueued' = enqueued /\ dequeued' = dequeued
      BY <1>1, <1>pc, <1>f, <2>8 DEF Clear, Goto
    <3>3. Now(o)' = Holding(<<>>, c.enqueued, c.dequeued, c.drained + Len(c.messages))
      BY <2>4a, <3>1, <3>2 DEF Now
    <3> QED
      BY <1>1, <2>5, <3>2, <3>3 DEF Fits
  <2> QED
    BY <2>1, <2>6, <2>7, <2>8
<1>2. CASE ~(Updating(r)' /\ q[r] = o)
  <2>1. Updating(r)' => q'[r] = q[r]
    BY <1>pc, <1>t DEF Updating, Goto, Answer, Step, Acquire, Proceed, Arrive, Reject, LockBroker,
       LockQueue, Create, Insert, Delete, Drain, Clear, Zero, RLockBroker, GetQueue, NewMessage,
       AppendMessage, CountEnqueued, ReadHead, Pop, CountDequeued, RangeQueues, RLockQueue, ReadStat,
       ServeStats, ControlOK, Ops, stack
  <2>2. Fields(o)' = Fields(o)
    <3>1. CASE Insert(r) /\ o = r
      <4>1. ~Allocated(r)
        BY <1>t, <3>1 DEF Insert, Answer, Goto, ControlOK, Allocated
      <4> QED
        BY <1>t, <1>f, <3>1, <4>1 DEF FreshOK, Insert, Fields
    <3>2. CASE Writes(r) /\ o = q[r]
      BY <1>2, <1>pc, <3>2 DEF Writes, Updating, Goto, Answer, Step, Acquire, Proceed, Arrive, Reject,
       LockBroker, LockQueue, Create, Insert, Delete, Drain, Clear, Zero, RLockBroker, GetQueue,
       NewMessage, AppendMessage, CountEnqueued, ReadHead, Pop, CountDequeued, RangeQueues, RLockQueue,
       ReadStat, ServeStats
    <3> QED
      BY <1>t, <3>1, <3>2, OwnerWrites
  <2> QED
    BY <1>2, <2>1, <2>2, FitsAlone
<1> QED
  BY <1>1, <1>2

\* What a queue in the middle of an update is to become.
LEMMA UpdaterFits ==
  ASSUME IInv, NEW r \in Requests, Updating(r), NEW c, Fits(q[r], c)
  PROVE  /\ pc[r] = "enqueued" =>
              Now(q[r]) = Holding(Append(c.messages, r), c.enqueued, c.dequeued, c.drained)
         /\ pc[r] = "dequeued" =>
              /\ c.messages # <<>> /\ m[r] = Head(c.messages)
              /\ Now(q[r]) = Holding(Tail(c.messages), c.enqueued, c.dequeued, c.drained)
         /\ pc[r] = "zero" =>
              Now(q[r]) = Holding(<<>>, c.enqueued, c.dequeued, c.drained + Len(c.messages))
<1>1. ~AtRest(q[r])
  BY DEF AtRest, Updating
<1>2. ClaimsQueue(r) /\ QueueLockOK
  BY DEF IInv, Updating, ClaimsQueue
<1>3. \A s \in Requests : q[s] = q[r] /\ pc[s] \in {"enqueued", "dequeued", "zero"} => s = r
  BY <1>2, AloneOnQueue DEF ClaimsQueue
<1> QED
  BY <1>1, <1>3 DEF Fits

\* The answer that ends an update leaves the queue at rest.
LEMMA UpdateEnds ==
  ASSUME IInv, NEW r \in Requests, Step(r), Updating(r)
  PROVE  /\ Zero(r) \/ CountEnqueued(r) \/ CountDequeued(r)
         /\ q[r] \in Requests /\ q' = q /\ m' = m /\ table' = table /\ op' = op
         /\ pc'[r] = "done" /\ status'[r] = 200
         /\ AtRest(q[r])'
         /\ \A o \in Requests : \A d : o # q[r] /\ Fits(o, d) => Fits(o, d)'
<1>t. TypeOK /\ StackOK /\ QueueLockOK
  BY DEF IInv
<1>pc. pc \in [Requests -> PCs] /\ status \in [Requests -> {0, 200, 204, 400, 500}]
  BY <1>t DEF TypeOK
<1>1. Zero(r) \/ CountEnqueued(r) \/ CountDequeued(r)
  BY DEF Updating, Goto, Answer, Step, Acquire, Proceed, Arrive, Reject, LockBroker, LockQueue, Create,
     Insert, Delete, Drain, Clear, RLockBroker, GetQueue, NewMessage, AppendMessage, ReadHead, Pop,
     RangeQueues, RLockQueue, ReadStat, ServeStats
<1>2. /\ q[r] \in Requests /\ q' = q /\ m' = m /\ table' = table /\ op' = op
      /\ pc'[r] = "done" /\ status'[r] = 200
  BY <1>1, <1>t, <1>pc DEF Updating, HasQueue, StackOK, Zero, CountEnqueued, CountDequeued, Answer, Goto,
     stack, handler
<1>3. \A s \in Requests : s # r => pc'[s] = pc[s]
  BY <1>t, OthersStep
<1>4. \A s \in Requests : s # r /\ q[s] = q[r] => ~ClaimsQueue(s)
  BY <1>t, AloneOnQueue DEF Updating, ClaimsQueue
<1>5. AtRest(q[r])'
  BY <1>2, <1>3, <1>4 DEF AtRest, ClaimsQueue
<1>6. ASSUME NEW o \in Requests, NEW d, o # q[r], Fits(o, d) PROVE Fits(o, d)'
  <2>1. Fields(o)' = Fields(o)
    BY <1>1, <1>t, <1>6, OwnerWrites DEF Insert, Answer, Goto, Updating
  <2> QED
    BY <1>2, <1>6, <2>1, FitsAlone
<1> QED
  BY <1>1, <1>2, <1>5, <1>6

\* The request has a queue, found for it by Broker.mu's holder.
Uses(r, o) == q[r] = o /\ op[r] \in {"enqueue", "dequeue", "drain"} /\ HasQueue(r)

\* An answer to a request that has found its queue is what running it on that
\* queue gives, and the other queues go on fitting.
LEMMA QueueAnswer ==
  ASSUME IInv, IInv', NEW r \in Requests, Step(r), pc'[r] = "done", NEW o \in Requests, Uses(r, o),
         NEW c \in SequentialQueues, Fits(o, c)
  PROVE  \E c2 \in SequentialQueues : <<c2, Received(r)>> \in Outcomes(r, c) /\ Fits(o, c2)'
<1>t. TypeOK /\ ControlOK /\ QueueLockOK /\ TypeOK' /\ StackOK
  BY DEF IInv
<1>pc. pc \in [Requests -> PCs] /\ status \in [Requests -> {0, 200, 204, 400, 500}]
  BY <1>t DEF TypeOK
<1>n. c # Nil
  BY NilIsNoQueue
<1>c. /\ c.messages \in Seq(Requests) /\ c.enqueued \in Int /\ c.dequeued \in Int /\ c.drained \in Int
  BY DEF SequentialQueues
<1>1. CASE ~Updating(r)
  <2>1. (NewMessage(r) /\ status'[r] = 400) \/ (ReadHead(r) /\ messages[o] = <<>> /\ status'[r] = 204)
    BY SMTT(30), <1>1, <1>pc, <1>t DEF Uses, HasQueue, Updating, Goto, Answer, Step, Acquire, Proceed, Arrive, Reject,
       LockBroker, LockQueue, Create, Insert, Delete, Drain, Clear, Zero, RLockBroker, GetQueue,
       NewMessage, AppendMessage, CountEnqueued, ReadHead, Pop, CountDequeued, RangeQueues, RLockQueue,
       ReadStat, ServeStats, ControlOK, Ops
  <2>2. Fits(o, c)'
    BY <1>1, FitsStep
  <2>3. CASE NewMessage(r) /\ status'[r] = 400
    <3>1. op[r] = "enqueue" /\ Received(r) = Code(400)
      BY <2>3, <1>t DEF NewMessage, Answer, Goto, ControlOK, Received
    <3>2. <<c, Code(400)>> \in Outcomes(r, c)
      BY <1>n, <3>1 DEF Outcomes
    <3> QED
      BY <2>2, <3>1, <3>2
  <2>4. CASE ReadHead(r) /\ messages[o] = <<>> /\ status'[r] = 204
    <3>1. op[r] = "dequeue" /\ Received(r) = Code(204)
      BY <2>4, <1>t DEF ReadHead, ControlOK, Received
    <3>2. AtRest(o)
      BY <1>1, <2>4, OwnerFindsRest DEF ReadHead, Uses
    <3>3. c.messages = <<>>
      <4>1. c = Now(o)
        BY <3>2 DEF Fits, AtRest
      <4> QED
        BY <2>4, <4>1 DEF Now, Holding
    <3>4. <<c, Code(204)>> \in Outcomes(r, c)
      BY <1>n, <3>1, <3>3 DEF Outcomes
    <3> QED
      BY <2>2, <3>1, <3>4
  <2> QED
    BY <2>1, <2>3, <2>4
<1>2. CASE Updating(r)
  <2>1. /\ Zero(r) \/ CountEnqueued(r) \/ CountDequeued(r)
        /\ q[r] = o /\ m' = m /\ op' = op /\ status'[r] = 200 /\ AtRest(o)'
    BY <1>2, UpdateEnds DEF Uses
  <2>f. /\ enqueued \in [Requests -> Int] /\ dequeued \in [Requests -> Int]
        /\ drained \in [Requests -> Int] /\ messages \in [Requests -> Seq(Requests)]
    BY <1>t DEF TypeOK
  <2>0. PICK c2 : c2 = Now(o)'
    OBVIOUS
  <2>2. Fits(o, c2)'
    BY <2>0, <2>1 DEF Fits
  <2>3. c2 \in SequentialQueues
    BY <2>0, <1>t DEF TypeOK, Now, Holding, SequentialQueues
  <2>4. CASE CountEnqueued(r)
    <3>1. pc[r] = "enqueued" /\ op[r] = "enqueue" /\ m[r] = r
      BY <2>4, <1>t DEF CountEnqueued, Answer, Goto, ControlOK, StackOK
    <3>2. Now(o) = Holding(Append(c.messages, r), c.enqueued, c.dequeued, c.drained)
      BY <1>2, <2>1, <3>1, UpdaterFits
    <3>3. Now(o)' = Holding(Append(c.messages, r), c.enqueued + 1, c.dequeued, c.drained)
      BY <2>1, <2>4, <2>f, <3>2 DEF CountEnqueued, Now, Holding
    <3>4. Received(r) = Message(r)
      BY <2>1, <3>1 DEF Received
    <3>5. <<c2, Received(r)>> \in Outcomes(r, c)
      BY <1>n, <2>0, <3>1, <3>3, <3>4 DEF Outcomes
    <3> QED
      BY <2>2, <2>3, <3>5
  <2>5. CASE CountDequeued(r)
    <3>1. pc[r] = "dequeued" /\ op[r] = "dequeue"
      BY <2>5, <1>t DEF CountDequeued, Answer, Goto, ControlOK
    <3>2. /\ c.messages # <<>> /\ m[r] = Head(c.messages)
          /\ Now(o) = Holding(Tail(c.messages), c.enqueued, c.dequeued, c.drained)
      BY <1>2, <2>1, <3>1, UpdaterFits
    <3>3. Now(o)' = Holding(Tail(c.messages), c.enqueued, c.dequeued + 1, c.drained)
      BY <2>1, <2>5, <2>f, <3>2 DEF CountDequeued, Now, Holding
    <3>4. Received(r) = Message(Head(c.messages))
      BY <2>1, <3>1, <3>2 DEF Received
    <3>5. <<c2, Received(r)>> \in Outcomes(r, c)
      BY <1>n, <2>0, <3>1, <3>2, <3>3, <3>4 DEF Outcomes
    <3> QED
      BY <2>2, <2>3, <3>5
  <2>6. CASE Zero(r)
    <3>1. pc[r] = "zero" /\ op[r] = "drain"
      BY <2>6, <1>t DEF Zero, Answer, Goto, ControlOK
    <3>2. Now(o) = Holding(<<>>, c.enqueued, c.dequeued, c.drained + Len(c.messages))
      BY <1>2, <2>1, <3>1, UpdaterFits
    <3>3. Now(o)' = Now(o)
      BY <2>6 DEF Zero, Now, counters
    <3>4. Received(r) = Code(200)
      BY <2>1, <3>1 DEF Received
    <3>5. <<c2, Received(r)>> \in Outcomes(r, c)
      BY <1>n, <2>0, <3>1, <3>2, <3>3, <3>4 DEF Outcomes
    <3> QED
      BY <2>2, <2>3, <3>5
  <2> QED
    BY <2>1, <2>4, <2>5, <2>6
<1> QED
  BY <1>1, <1>2

-----------------------------------------------------------------------------
(* Late requests and their futures *)

\* A queue's users come and go; the objects are allocated.
LEMMA UsersHaveQueue ==
  ASSUME IInv, NEW o \in Requests, NEW x \in Using(o)
  PROVE  /\ x \in Requests /\ q[x] = o /\ pc[x] \notin {"new", "done"}
         /\ HasQueue(x) /\ Allocated(o) /\ op[x] # "stats" /\ Uses(x, o) /\ x \in Waiting
<1>1. TypeOK /\ ControlOK /\ PointersOK /\ UntouchedOK
  BY DEF IInv
<1>2. x \in Requests /\ q[x] = o /\ op[x] \in {"enqueue", "dequeue"} /\ pc[x] # "done" /\ q[x] # Nil
  BY NilAssumption DEF Using
<1>3. Allocated(o)
  BY <1>1, <1>2 DEF PointersOK
<1>4. pc[x] \notin {"new", "b.RLock", "getQueue"}
  BY <1>1, <1>2 DEF UntouchedOK
<1>5. pc[x] \in PCs
  BY <1>1, <1>2 DEF TypeOK
<1>6. HasQueue(x)
  BY <1>1, <1>2, <1>4, <1>5 DEF ControlOK, PCs, HasQueue
<1> QED
  BY <1>2, <1>3, <1>4, <1>6 DEF Uses, Waiting

\* Only Delete takes a queue's name away.
LEMMA LiveStep ==
  ASSUME IInv, NEW r \in Requests, Step(r)
  PROVE  /\ table' = table \/ Insert(r) => \A o \in Requests : Live(o) => Live(o)'
         /\ \A o \in Requests : Live(o)' => Live(o) \/ o = r
<1>1. TypeOK /\ AbsentOK
  BY DEF IInv
<1>2. Insert(r) => table' = [table EXCEPT ![name[r]] = r] /\ table[name[r]] = Nil
  BY <1>1 DEF Insert, Answer, Goto, AbsentOK
<1>3. Delete(r) => table' = [table EXCEPT ![name[r]] = Nil] \/ table' = table
  BY DEF Delete
<1>4. table \in [Names -> Requests \cup {Nil}]
  BY <1>1 DEF TypeOK
<1> QED
  BY <1>2, <1>3, <1>4, OwnStep, NilAssumption DEF Live

\* An outcome is an answer.
LEMMA OutcomeType ==
  ASSUME IInv, NEW r \in Requests, op[r] # "none", op[r] # "stats", NEW c \in SequentialQueues \cup {Nil},
         NEW y \in Outcomes(r, c)
  PROVE  /\ y = <<y[1], y[2]>> /\ y[1] \in SequentialQueues \cup {Nil}
         /\ y[2] \in Answers /\ y[2] # Undecided
<1>1. \A x : Code(x) # Undecided <=> x # 0
  BY DEF Undecided, Code
<1>2. \A x : Message(x) # Undecided
  <2>1. \A x : Message(x).status = 200 /\ Undecided.status = 0
    BY DEF Undecided, Message
  <2> QED
    BY <2>1
<1>3. /\ \A x \in {200, 204, 400, 500} : Code(x) \in Answers /\ Code(x) # Undecided
      /\ \A x \in Requests : Message(x) \in Answers /\ Message(x) # Undecided
  BY <1>1, <1>2 DEF Answers
<1>4. \A ms \in Seq(Requests), a, b, d \in Int : Holding(ms, a, b, d) \in SequentialQueues
  BY DEF Holding, SequentialQueues
<1>5. CASE c = Nil
  <2>1. y = <<EmptyQueue, Code(200)>> \/ y = <<Nil, Code(400)>>
    BY <1>5 DEF Outcomes
  <2>2. EmptyQueue \in SequentialQueues
    BY DEF EmptyQueue, Holding, SequentialQueues
  <2> QED
    BY <1>3, <2>1, <2>2
<1>6. CASE c # Nil
  <2>1. c \in SequentialQueues
    BY <1>6
  <2>2. /\ c.messages \in Seq(Requests) /\ c.enqueued \in Int /\ c.dequeued \in Int /\ c.drained \in Int
    BY <2>1 DEF SequentialQueues
  <2>3. CASE op[r] \in {"create", "delete"}
    <3>1. y = <<c, Code(400)>> \/ y = <<Nil, Code(200)>>
      BY <1>6, <2>3 DEF Outcomes
    <3> QED
      BY <1>3, <2>1, <3>1
  <2>4. CASE op[r] = "drain"
    <3>1. y = <<Holding(<<>>, c.enqueued, c.dequeued, c.drained + Len(c.messages)), Code(200)>>
      BY <1>6, <2>4 DEF Outcomes
    <3>2. <<>> \in Seq(Requests) /\ c.drained + Len(c.messages) \in Int
      BY <2>2
    <3>3. Holding(<<>>, c.enqueued, c.dequeued, c.drained + Len(c.messages)) \in SequentialQueues
      BY <1>4, <2>2, <3>2
    <3> QED
      BY <1>3, <3>1, <3>3
  <2>5. CASE op[r] = "enqueue"
    <3>1. \/ y = <<c, Code(400)>>
          \/ y = <<Holding(Append(c.messages, r), c.enqueued + 1, c.dequeued, c.drained), Message(r)>>
      BY <1>6, <2>5 DEF Outcomes
    <3>2. Append(c.messages, r) \in Seq(Requests) /\ c.enqueued + 1 \in Int
      BY <2>2
    <3>3. Holding(Append(c.messages, r), c.enqueued + 1, c.dequeued, c.drained) \in SequentialQueues
      BY <1>4, <2>2, <3>2
    <3> QED
      BY <1>3, <2>1, <3>1, <3>3
  <2>6. CASE op[r] = "dequeue"
    <3>1. \/ y = <<c, Code(204)>>
          \/ /\ c.messages # <<>>
             /\ y = <<Holding(Tail(c.messages), c.enqueued, c.dequeued + 1, c.drained),
                       Message(Head(c.messages))>>
      BY <1>6, <2>6 DEF Outcomes
    <3>2. /\ c.messages # <<>> => Tail(c.messages) \in Seq(Requests) /\ Head(c.messages) \in Requests
          /\ c.dequeued + 1 \in Int
      BY <2>2
    <3>3. c.messages # <<>> =>
            Holding(Tail(c.messages), c.enqueued, c.dequeued + 1, c.drained) \in SequentialQueues
      BY <1>4, <2>2, <3>2
    <3> QED
      BY <1>3, <2>1, <3>1, <3>2, <3>3
  <2>7. op[r] \in {"create", "delete", "drain", "enqueue", "dequeue"}
    BY DEF IInv, TypeOK, Ops
  <2> QED
    BY <2>3, <2>4, <2>5, <2>6, <2>7
<1> QED
  BY <1>5, <1>6

\* Nothing need be scheduled for a queue that nobody uses.
LEMMA NothingScheduled ==
  ASSUME NEW o, NEW c \in SequentialQueues, NEW F, Using(o) = {}
  PROVE  Schedule(o, c, F)
<1>1. Scheduled(o, c, F, 0, <<>>, [i \in 0..0 |-> c])
  BY DEF Scheduled
<1> QED
  BY <1>1 DEF Schedule

\* A step of a request that is not late, and takes no name away, leaves the
\* late ones the futures they had.
LEMMA FutureBack ==
  ASSUME IInv, NEW r \in Requests, Step(r), ~Late(r), table' = table \/ Insert(r),
         NEW C \in [Requests -> SequentialQueues], NEW C2 \in [Requests -> SequentialQueues],
         \A o \in Requests : ~Live(o) /\ Using(o) # {} => C2[o] = C[o],
         NEW F, Future(C2, F)'
  PROVE  Future(C, F)
<1>1. \A s \in Requests : s # r => pc'[s] = pc[s] /\ q'[s] = q[s] /\ op'[s] = op[s]
  BY OthersStep DEF IInv
<1>l. \A o \in Requests : ~Live(o)' => ~Live(o)
  BY LiveStep
<1>q. q \in [Requests -> Requests \cup {Nil}] /\ table \in [Names -> Requests \cup {Nil}]
  BY DEF IInv, TypeOK
<1>2. ~Late(r)'
  <2> SUFFICES ASSUME q'[r] # Nil, ~Live(q[r])', r \in Using(q[r])' PROVE FALSE
    BY DEF Late
  <2>1. op'[r] \in {"enqueue", "dequeue"} /\ pc[r] # "new" /\ op'[r] = op[r] /\ pc[r] # "done"
    BY OwnStep DEF Using
  <2>2. CASE q'[r] = q[r]
    <3>1. q[r] \in Requests
      BY <1>q, <2>2
    <3>2. ~Live(q[r]) /\ r \in Using(q[r])
      BY <1>l, <2>1, <2>2, <3>1 DEF Live, Using
    <3> QED
      BY <2>2, <3>2 DEF Late
  <2>3. CASE q'[r] = table[name[r]] /\ table' = table /\ name[r] \in Names
    BY <2>3 DEF Live
  <2> QED
    BY <2>1, <2>2, <2>3, OwnStep
<1>3. ASSUME NEW x \in Requests, Late(x)' PROVE Late(x)
  <2>1. x # r
    BY <1>2, <1>3
  <2>2. q'[x] = q[x] /\ op'[x] = op[x] /\ pc'[x] = pc[x]
    BY <1>1, <2>1
  <2>3. q[x] \in Requests
    BY <1>3, <1>q, <2>2 DEF Late
  <2> QED
    BY <1>3, <1>l, <2>2, <2>3 DEF Late, Using, Live
<1>4. ASSUME NEW o \in Requests, ~Live(o), Using(o) # {}
      PROVE  ~Live(o)' /\ Using(o)' = Using(o)
  <2>1. Allocated(o)
    BY <1>4, UsersHaveQueue
  <2>2. o # r
    BY <2>1, OwnStep DEF Allocated, IInv, ControlOK
  <2>3. ~Live(o)'
    BY <1>4, <2>2, LiveStep
  <2>4. r \notin Using(o)
    BY <1>4, NilAssumption DEF Late, Using
  <2>5. r \notin Using(o)'
    BY <1>2, <2>3, NilAssumption DEF Late, Using, Live
  <2>6. \A x \in Requests : x # r => (x \in Using(o)' <=> x \in Using(o))
    BY <1>1 DEF Using
  <2>7. Using(o) \subseteq Requests /\ Using(o)' \subseteq Requests
    BY DEF Using
  <2> QED
    BY <2>3, <2>4, <2>5, <2>6, <2>7
<1>5. ASSUME NEW x \in Requests, ~Late(x) PROVE F[x] = Undecided
  BY <1>3, <1>5 DEF Future
<1>6. ASSUME NEW o \in Requests, ~Live(o) PROVE Schedule(o, C[o], F)
  <2>1. CASE Using(o) = {}
    BY <2>1, NothingScheduled
  <2>2. CASE Using(o) # {}
    <3>1. ~Live(o)' /\ Using(o)' = Using(o) /\ C2[o] = C[o]
      BY <1>4, <1>6, <2>2
    <3>k. PICK k \in Nat : \E s, g : Scheduled(o, C2[o], F, k, s, g)'
      BY <3>1 DEF Future, Schedule
    <3>2. PICK s, g : Scheduled(o, C2[o], F, k, s, g)'
      BY <3>k
    <3>3. \A x \in Using(o) : op'[x] = op[x]
      <4>1. \A x \in Using(o) : x \in Requests /\ x # r
        BY <1>6, NilAssumption DEF Late, Using
      <4> QED
        BY <1>1, <4>1
    <3>4. ASSUME NEW x \in Using(o), NEW c PROVE Outcomes(x, c)' = Outcomes(x, c)
      <4>1. op'[x] = op[x]
        BY <3>3
      <4> QED
        BY <4>1 DEF Outcomes
    <3>5. Scheduled(o, C[o], F, k, s, g)
      BY <3>1, <3>2, <3>4 DEF Scheduled
    <3> QED
      BY <3>5 DEF Schedule
  <2> QED
    BY <2>1, <2>2
<1> QED
  BY <1>5, <1>6 DEF Future

\* What a request would be answered is a matter of its handler and the queue.
LEMMA OutcomesStep ==
  ASSUME IInv, NEW r \in Requests, Step(r), NEW x \in Requests, pc[x] # "new", NEW c
  PROVE  Outcomes(x, c)' = Outcomes(x, c)
<1>1. op'[x] = op[x]
  BY OwnStep, OthersStep DEF IInv
<1> QED
  BY <1>1 DEF Outcomes

\* Who is answered leaves its queue's users, the others stay.
LEMMA LateAnswered ==
  ASSUME IInv, NEW r \in Requests, Step(r), Late(r), pc'[r] = "done"
  PROVE  /\ q[r] \in Requests /\ ~Live(q[r]) /\ r \in Using(q[r]) /\ table' = table
         /\ \A o \in Requests : Live(o)' = Live(o)
         /\ \A o \in Requests : Using(o)' = Using(o) \ {r}
         /\ ~Late(r)' /\ \A x \in Requests : x # r => (Late(x)' <=> Late(x))
<1>t. TypeOK /\ ControlOK
  BY DEF IInv
<1>1. /\ q[r] \in Requests /\ ~Live(q[r]) /\ r \in Using(q[r])
      /\ op[r] \in {"enqueue", "dequeue"} /\ pc[r] # "done"
  BY <1>t DEF Late, Using, TypeOK
<1>2. table' = table
  BY <1>1, <1>t, OwnStep DEF Insert, Delete, Answer, Goto, ControlOK
<1>3. \A s \in Requests : s # r => pc'[s] = pc[s] /\ q'[s] = q[s] /\ op'[s] = op[s]
  BY <1>t, OthersStep
<1>4. q'[r] = q[r]
  BY <1>1, OwnStep, UsersHaveQueue
<1>5. \A o \in Requests : Live(o)' = Live(o)
  BY <1>2 DEF Live
<1>6. ASSUME NEW o \in Requests PROVE Using(o)' = Using(o) \ {r}
  <2>1. r \notin Using(o)'
    BY DEF Using
  <2>2. \A x \in Requests : x # r => (x \in Using(o)' <=> x \in Using(o))
    BY <1>3 DEF Using
  <2>3. Using(o) \subseteq Requests /\ Using(o)' \subseteq Requests
    BY DEF Using
  <2> QED
    BY <2>1, <2>2, <2>3
<1>7. ~Late(r)'
  BY DEF Late, Using
<1>8. ASSUME NEW x \in Requests, x # r PROVE Late(x)' <=> Late(x)
  <2>1. q'[x] = q[x] /\ pc'[x] = pc[x] /\ op'[x] = op[x]
    BY <1>3, <1>8
  <2>2. Live(q[x])' = Live(q[x])
    BY <1>2, <2>1 DEF Live
  <2> QED
    BY <2>1, <2>2 DEF Late, Using, Live
<1> QED
  BY <1>1, <1>2, <1>5, <1>6, <1>7, <1>8

\* Before a late request is answered, its answer was the first of the future.
LEMMA LateBack ==
  ASSUME IInv, NEW r \in Requests, Step(r), Late(r), pc'[r] = "done",
         NEW C \in [Requests -> SequentialQueues], NEW c2 \in SequentialQueues,
         NEW a, <<c2, a>> \in Outcomes(r, C[q[r]]),
         NEW F \in [Requests -> Answers], Future([C EXCEPT ![q[r]] = c2], F)'
  PROVE  F[r] = Undecided /\ Future(C, [F EXCEPT ![r] = a])
<1> DEFINE o == q[r]
           D == [C EXCEPT ![q[r]] = c2]
           E == [F EXCEPT ![r] = a]
<1>1. /\ o \in Requests /\ ~Live(o) /\ r \in Using(o)
      /\ \A p \in Requests : Live(p)' = Live(p)
      /\ \A p \in Requests : Using(p)' = Using(p) \ {r}
      /\ ~Late(r)' /\ \A x \in Requests : x # r => (Late(x)' <=> Late(x))
  BY LateAnswered
<1>2. PICK C2 : C2 = D
  OBVIOUS
<1>2a. q'[r] = q[r]
  BY <1>1, OwnStep, UsersHaveQueue
<1>3. PICK E2 : E2 = E
  OBVIOUS
<1>4. Future(C2, F)'
  BY <1>2, <1>2a
<1>5. C2[o] = c2 /\ \A p \in Requests : p # o => C2[p] = C[p]
  BY <1>1, <1>2
<1>6. E2[r] = a /\ \A x \in Requests : x # r => E2[x] = F[x]
  BY <1>3
<1>7. F[r] = Undecided
  BY <1>1, <1>4 DEF Future
<1>8. ASSUME NEW x \in Requests, ~Late(x) PROVE E2[x] = Undecided
  BY <1>1, <1>4, <1>6, <1>8 DEF Future
<1>9. \A x \in Requests : pc[x] # "new" => \A c : Outcomes(x, c)' = Outcomes(x, c)
  BY OutcomesStep
<1>10. \A p \in Requests : \A x \in Using(p) : pc[x] # "new" /\ x \in Requests
  BY UsersHaveQueue
<1>11. ASSUME NEW p \in Requests, ~Live(p) PROVE Schedule(p, C[p], E2)
  <2>k. PICK k \in Nat : \E s, g : Scheduled(p, C2[p], F, k, s, g)'
    BY <1>1, <1>4, <1>11 DEF Future, Schedule
  <2>1. PICK s, g : Scheduled(p, C2[p], F, k, s, g)'
    BY <2>k
  <2>2. /\ s \in [1..k -> Using(p) \ {r}] /\ \A i, j \in 1..k : s[i] = s[j] => i = j
        /\ g \in [0..k -> SequentialQueues] /\ g[0] = C2[p]
        /\ \A i \in 1..k : <<g[i], F[s[i]]>> \in Outcomes(s[i], g[i - 1])
        /\ \A x \in Using(p) \ {r} : F[x] # Undecided => \E i \in 1..k : s[i] = x
    BY <1>1, <1>9, <1>10, <2>1 DEF Scheduled
  <2>3. \A i \in 1..k : E2[s[i]] = F[s[i]]
    BY <1>6, <1>10, <2>2
  <2>4. CASE p # o
    <3>1. r \notin Using(p)
      BY <2>4 DEF Using
    <3>2. Scheduled(p, C[p], E2, k, s, g)
      BY <1>5, <1>6, <1>10, <2>2, <2>3, <2>4, <3>1 DEF Scheduled
    <3> QED
      BY <3>2 DEF Schedule
  <2>5. CASE p = o
    <3> DEFINE s2 == [i \in 1..(k + 1) |-> IF i = 1 THEN r ELSE s[i - 1]]
               g2 == [i \in 0..(k + 1) |-> IF i = 0 THEN C[o] ELSE g[i - 1]]
    <3>1. s2 \in [1..(k + 1) -> Using(o)]
      BY <1>1, <2>2, <2>5
    <3>2. \A i, j \in 1..(k + 1) : s2[i] = s2[j] => i = j
      <4>1. \A i \in 1..(k + 1) : i # 1 => i - 1 \in 1..k /\ s2[i] = s[i - 1] /\ s2[i] # r
        BY <2>2
      <4> QED
        BY <2>2, <4>1
    <3>3. g2 \in [0..(k + 1) -> SequentialQueues] /\ g2[0] = C[o]
      BY <1>1, <2>2
    <3>4. ASSUME NEW i \in 1..(k + 1) PROVE <<g2[i], E2[s2[i]]>> \in Outcomes(s2[i], g2[i - 1])
      <4>1. CASE i = 1
        <5>1. g2[i] = c2 /\ s2[i] = r /\ g2[i - 1] = C[q[r]] /\ E2[r] = a
          BY <1>5, <1>6, <2>2, <2>5, <4>1
        <5> HIDE DEF s2, g2
        <5> QED
          BY <1>6, <4>1, <5>1
      <4>2. CASE i # 1
        <5>1. i - 1 \in 1..k /\ s2[i] = s[i - 1] /\ g2[i] = g[i - 1] /\ g2[i - 1] = g[(i - 1) - 1]
          BY <4>2
        <5> QED
          BY ZenonT(60), <2>2, <2>3, <5>1
      <4> QED
        BY <4>1, <4>2
    <3>5. ASSUME NEW x \in Using(o), E2[x] # Undecided PROVE \E i \in 1..(k + 1) : s2[i] = x
      <4>1. CASE x = r
        BY <4>1
      <4>2. CASE x # r
        <5>1. PICK i \in 1..k : s[i] = x
          BY <1>6, <1>10, <2>2, <2>5, <3>5, <4>2
        <5>2. i + 1 \in 1..(k + 1) /\ s2[i + 1] = s[i]
          OBVIOUS
        <5> QED
          BY <5>1, <5>2
      <4> QED
        BY <4>1, <4>2
    <3> HIDE DEF s2, g2
    <3>6. Scheduled(o, C[o], E2, k + 1, s2, g2)
      BY <3>1, <3>2, <3>3, <3>4, <3>5 DEF Scheduled
    <3> QED
      BY <2>5, <3>6 DEF Schedule
  <2> QED
    BY <2>4, <2>5
<1> QED
  BY <1>3, <1>7, <1>8, <1>11 DEF Future

\* What Delete does when the name exists: it leaves the queue to its users.
LEMMA DeleteOrphans ==
  ASSUME IInv, NamesOK, NEW r \in Requests, Delete(r), NEW o \in Requests, table[name[r]] = o
  PROVE  /\ r \in Waiting /\ op[r] = "delete" /\ name[r] \in Names
         /\ table' = [table EXCEPT ![name[r]] = Nil] /\ pc'[r] = "done" /\ status'[r] = 200
         /\ ~Live(o)' /\ ~Late(r)'
         /\ \A p \in Requests : p # o => Live(p)' = Live(p)
         /\ \A p \in Requests : Using(p)' = Using(p) /\ r \notin Using(p)
         /\ \A x \in Requests : Late(x)' => Late(x) \/ x \in Using(o)
         /\ \A x \in Using(o) : name[x] = name[r]
<1>t. TypeOK /\ ControlOK /\ StackOK
  BY DEF IInv
<1>n. table[name[r]] # Nil
  BY NilAssumption
<1>1. /\ pc[r] = "delete" /\ op[r] = "delete" /\ name[r] \in Names
      /\ table' = [table EXCEPT ![name[r]] = Nil] /\ op' = op /\ q' = q
      /\ pc' = [pc EXCEPT ![r] = "done"] /\ status' = [status EXCEPT ![r] = 200]
  <2>1. /\ pc[r] = "delete" /\ pc' = [pc EXCEPT ![r] = "done"] /\ op' = op /\ q' = q
        /\ table' = [table EXCEPT ![name[r]] = Nil] /\ status' = [status EXCEPT ![r] = 200]
    BY <1>n DEF Delete, Answer, Goto, handler, stack
  <2> QED
    BY <1>t, <2>1 DEF ControlOK, StackOK
<1>2. /\ table \in [Names -> Requests \cup {Nil}] /\ q \in [Requests -> Requests \cup {Nil}]
      /\ pc \in [Requests -> PCs] /\ status \in [Requests -> {0, 200, 204, 400, 500}]
  BY <1>t DEF TypeOK
<1> DEFINE n == name[r]
<1>3. r \in Waiting /\ o \in Requests /\ pc'[r] = "done" /\ status'[r] = 200
  BY <1>1, <1>2 DEF Waiting
<1>4. \A p \in Names : table[p] = o => p = n
  BY <1>1, <1>3, NilAssumption DEF NamesOK
<1>5. ~Live(o)'
  <2>1. \A p \in Names : table'[p] # o
    BY <1>1, <1>2, <1>3, <1>4, NilAssumption
  <2> QED
    BY <2>1 DEF Live
<1>6. ASSUME NEW p \in Requests, p # o PROVE Live(p)' = Live(p)
  <2>1. \A x \in Names : table'[x] = p <=> table[x] = p
    BY <1>1, <1>2, <1>6, NilAssumption
  <2> QED
    BY <2>1 DEF Live
<1>7. ASSUME NEW p \in Requests PROVE Using(p)' = Using(p) /\ r \notin Using(p)
  <2>1. r \notin Using(p) /\ r \notin Using(p)'
    BY <1>1, <1>3 DEF Using
  <2>2. \A x \in Requests : x # r => (x \in Using(p)' <=> x \in Using(p))
    BY <1>1, <1>2 DEF Using
  <2>3. Using(p) \subseteq Requests /\ Using(p)' \subseteq Requests
    BY DEF Using
  <2> QED
    BY <2>1, <2>2, <2>3
<1>8. ASSUME NEW x \in Requests, Late(x)' PROVE Late(x) \/ x \in Using(o)
  <2>1. q'[x] = q[x] /\ q[x] \in Requests
    BY <1>1, <1>2, <1>8 DEF Late
  <2>2. x \in Using(q[x])
    BY <1>7, <1>8, <2>1 DEF Late, Using
  <2>3. CASE q[x] # o
    <3>1. ~Live(q[x])'
      BY <1>1, <1>8, <2>1 DEF Late, Live
    <3>2. ~Live(q[x])
      <4>1. \A p \in Names : table'[p] # q[x]
        BY <1>1, <3>1 DEF Live
      <4>2. \A p \in Names : table[p] # q[x]
        BY <1>1, <1>2, <2>3, <4>1
      <4> QED
        BY <4>2 DEF Live
    <3> QED
      BY <2>1, <2>2, <3>2, NilAssumption DEF Late
  <2> QED
    BY <2>2, <2>3
<1>9. ~Late(r)'
  BY <1>3 DEF Late, Using
<1>10. ASSUME NEW x \in Using(o) PROVE name[x] = n
  <2>1. x \in Requests /\ q[x] = o /\ op[x] # "stats"
    BY DEF Using
  <2> QED
    BY <1>1, <1>3, <2>1, NilAssumption DEF NamesOK
<1> QED
  BY <1>1, <1>3, <1>5, <1>6, <1>7, <1>8, <1>9, <1>10

\* The futures of before a Delete in which its queue's users are undecided.
LEMMA DeleteFuture ==
  ASSUME IInv, NamesOK, NEW r \in Requests, Step(r), Delete(r),
         NEW o \in Requests, table[name[r]] = o,
         NEW C \in [Requests -> SequentialQueues], NEW F \in [Requests -> Answers], Future(C, F)',
         NEW F0, F0 = [x \in Requests |-> IF x \in Using(o) THEN Undecided ELSE F[x]]
  PROVE  F0 \in [Requests -> Answers] /\ Future(C, F0)
<1>1. /\ \A p \in Requests : p # o => Live(p)' = Live(p)
      /\ \A p \in Requests : Using(p)' = Using(p)
      /\ \A x \in Requests : Late(x)' => Late(x) \/ x \in Using(o)
  BY DeleteOrphans
<1>2. \A x \in Requests : ~Late(x)' => F[x] = Undecided
  BY DEF Future
<1>3. \A x \in Requests : ~Late(x) => F0[x] = Undecided
  BY <1>1, <1>2
<1>4. name[r] \in Names
  BY DeleteOrphans
<1>5. ASSUME NEW p \in Requests, ~Live(p) PROVE Schedule(p, C[p], F0)
  <2>1. p # o
    BY <1>4, <1>5 DEF Live
  <2>k. PICK k \in Nat : \E s, g : Scheduled(p, C[p], F, k, s, g)'
    BY <1>1, <1>5, <2>1 DEF Future, Schedule
  <2>2. PICK s, g : Scheduled(p, C[p], F, k, s, g)'
    BY <2>k
  <2>3. \A x \in Using(p) : x \in Requests /\ pc[x] # "new"
    BY UsersHaveQueue
  <2>4. \A x \in Using(p) : \A c : Outcomes(x, c)' = Outcomes(x, c)
    BY <2>3, OutcomesStep
  <2>5. \A x \in Using(p) : F0[x] = F[x]
    BY <2>1, <2>3 DEF Using
  <2>6. s \in [1..k -> Using(p)]
    BY <1>1, <2>2 DEF Scheduled
  <2>7. \A i \in 1..k : F0[s[i]] = F[s[i]] /\ \A c : Outcomes(s[i], c)' = Outcomes(s[i], c)
    BY <2>4, <2>5, <2>6
  <2>8. ASSUME NEW i \in 1..k PROVE <<g[i], F0[s[i]]>> \in Outcomes(s[i], g[i - 1])
    <3>1. <<g[i], F[s[i]]>> \in Outcomes(s[i], g[i - 1])'
      BY <2>2 DEF Scheduled
    <3>2. F0[s[i]] = F[s[i]] /\ Outcomes(s[i], g[i - 1])' = Outcomes(s[i], g[i - 1])
      BY <2>7
    <3> QED
      BY <3>1, <3>2
  <2>9. \A x \in Using(p) : F0[x] # Undecided => \E i \in 1..k : s[i] = x
    BY <1>1, <2>2, <2>5 DEF Scheduled
  <2>10. Scheduled(p, C[p], F0, k, s, g)
    BY <2>2, <2>6, <2>8, <2>9 DEF Scheduled
  <2> QED
    BY <2>10 DEF Schedule
<1>6. F0 \in [Requests -> Answers]
  BY DEF Answers
<1> QED
  BY <1>3, <1>5, <1>6 DEF Future

\* Whatever late requests there are after a Delete, they and it can be run
\* just before it is answered.
LEMMA DeleteBack ==
  ASSUME IInv, NamesOK, IsFiniteSet(Waiting), NEW r \in Requests, Step(r), Delete(r),
         NEW o \in Requests, table[name[r]] = o,
         NEW C \in [Requests -> SequentialQueues],
         \A F \in [Requests -> Answers] : Future(C, F) => World(Named(C), F) \in worlds,
         NEW G \in [Requests -> Answers], Future(C, G)'
  PROVE  G[r] = Undecided /\ World(Named(C)', [G EXCEPT ![r] = Code(200)]) \in Reachable
<1> DEFINE n == name[r]
           F0 == [x \in Requests |-> IF x \in Using(o) THEN Undecided ELSE G[x]]
           Q == Named(C)
<1>1. /\ r \in Waiting /\ op[r] = "delete" /\ n \in Names /\ table[n] = o
      /\ table' = [table EXCEPT ![n] = Nil] /\ ~Live(o)' /\ ~Late(r)'
      /\ Using(o)' = Using(o) /\ r \notin Using(o)
      /\ \A x \in Using(o) : name[x] = n
  BY DeleteOrphans
<1>2. World(Q, F0) \in worlds
  BY DeleteFuture
<1>3. G[r] = Undecided
  BY <1>1 DEF Future
<1>4. Q \in [Names -> SequentialQueues \cup {Nil}] /\ Q[n] = C[o]
  BY <1>1, NilAssumption DEF Named, IInv, TypeOK
<1>5. Named(C)' = [Q EXCEPT ![n] = Nil]
  <2>1. \A x \in Names : Named(C)'[x] = IF x = n THEN Nil ELSE Q[x]
    BY <1>1 DEF Named, IInv, TypeOK
  <2>2. Named(C)' = [x \in Names |-> Named(C)'[x]]
    BY DEF Named
  <2> QED
    BY <1>4, <2>1, <2>2
<1>6. \A x \in Using(o) : x \in Requests /\ pc[x] # "new" /\ x \in Waiting
  BY <1>1, UsersHaveQueue
<1>7. \A x \in Using(o) : \A c : Outcomes(x, c)' = Outcomes(x, c)
  BY <1>6, OutcomesStep
<1>k. PICK k \in Nat : \E s, g : Scheduled(o, C[o], G, k, s, g)'
  BY <1>1 DEF Future, Schedule
<1>8. PICK s, g : Scheduled(o, C[o], G, k, s, g)'
  BY <1>k
<1>s. s \in [1..k -> Using(o)]
  BY <1>1, <1>8 DEF Scheduled
<1>o. \A i \in 1..k : \A c : Outcomes(s[i], c)' = Outcomes(s[i], c)
  BY <1>7, <1>s
<1>g. ASSUME NEW i \in 1..k PROVE <<g[i], G[s[i]]>> \in Outcomes(s[i], g[i - 1])
  <2>1. <<g[i], G[s[i]]>> \in Outcomes(s[i], g[i - 1])'
    BY <1>8 DEF Scheduled
  <2>2. Outcomes(s[i], g[i - 1])' = Outcomes(s[i], g[i - 1])
    BY <1>o
  <2> QED
    BY <2>1, <2>2
<1>u. \A x \in Using(o) : G[x] # Undecided => \E i \in 1..k : s[i] = x
  BY <1>1, <1>8 DEF Scheduled
<1>9. /\ s \in [1..k -> Using(o)] /\ \A i, j \in 1..k : s[i] = s[j] => i = j
      /\ g \in [0..k -> SequentialQueues] /\ g[0] = C[o]
      /\ \A i \in 1..k : <<g[i], G[s[i]]>> \in Outcomes(s[i], g[i - 1])
      /\ \A x \in Using(o) : G[x] # Undecided => \E i \in 1..k : s[i] = x
  BY <1>s, <1>g, <1>u, <1>8 DEF Scheduled
<1> DEFINE A(i) == [x \in Requests |-> IF \E j \in 1..i : s[j] = x THEN G[x] ELSE F0[x]]
           f == [i \in 0..(k + 1) |-> IF i = k + 1 THEN World(Named(C)', [G EXCEPT ![r] = Code(200)])
                                                   ELSE World([Q EXCEPT ![n] = g[i]], A(i))]
           s2 == [i \in 1..(k + 1) |-> IF i = k + 1 THEN r ELSE s[i]]
<1>10. s2 \in [1..(k + 1) -> Waiting] /\ \A i, j \in 1..(k + 1) : s2[i] = s2[j] => i = j
  <2>1. \A i \in 1..(k + 1) : i # k + 1 => i \in 1..k /\ s2[i] = s[i] /\ s2[i] \in Waiting /\ s2[i] # r
    BY <1>1, <1>6, <1>9
  <2> QED
    BY <1>1, <1>9, <2>1
<1>11. f[0] \in worlds
  <2>1. f[0] = World([Q EXCEPT ![n] = g[0]], A(0))
    OBVIOUS
  <2>2. [Q EXCEPT ![n] = g[0]] = Q
    BY <1>4, <1>9
  <2>3. A(0) = F0
    OBVIOUS
  <2> QED
    BY <1>2, <2>1, <2>2, <2>3
<1>12. ASSUME NEW i \in 1..k
       PROVE  f[i - 1].answers[s2[i]] = Undecided /\ f[i] \in Sequential(f[i - 1], s2[i])
  <2>1. /\ i - 1 \in 0..k /\ f[i - 1] = World([Q EXCEPT ![n] = g[i - 1]], A(i - 1))
        /\ f[i] = World([Q EXCEPT ![n] = g[i]], A(i)) /\ s2[i] = s[i]
    OBVIOUS
  <2>2. s[i] \in Using(o) /\ s[i] \in Requests /\ name[s[i]] = n
    BY <1>1, <1>6, <1>9
  <2>3. A(i - 1)[s[i]] = Undecided
    <3>1. \A j \in 1..(i - 1) : j \in 1..k /\ s[j] # s[i]
      BY <1>9
    <3> QED
      BY <2>2, <3>1
  <2>4. A(i) = [A(i - 1) EXCEPT ![s[i]] = G[s[i]]]
    <3>1. \A j \in 1..i : j \in 1..(i - 1) \/ j = i
      OBVIOUS
    <3>2. 1..(i - 1) \subseteq 1..i /\ i \in 1..i
      OBVIOUS
    <3>3. ASSUME NEW x \in Requests
          PROVE  A(i)[x] = IF x = s[i] THEN G[s[i]] ELSE A(i - 1)[x]
      BY <3>1, <3>2
    <3> QED
      BY <3>3
  <2>5. [Q EXCEPT ![n] = g[i]] = [[Q EXCEPT ![n] = g[i - 1]] EXCEPT ![n] = g[i]]
    BY <1>4
  <2>6. [Q EXCEPT ![n] = g[i - 1]][n] = g[i - 1]
    BY <1>1, <1>4
  <2>7. <<g[i], G[s[i]]>> \in Outcomes(s[i], g[i - 1])
    BY <1>9
  <2> HIDE DEF A, f, s2, Q, n
  <2>8. f[i - 1].answers = A(i - 1) /\ f[i - 1].queues = [Q EXCEPT ![n] = g[i - 1]]
    BY <2>1 DEF World
  <2> DEFINE y == <<g[i], G[s[i]]>>
  <2>9. y \in Outcomes(s[i], f[i - 1].queues[name[s[i]]]) /\ y[1] = g[i] /\ y[2] = G[s[i]]
    BY <2>2, <2>6, <2>7, <2>8
  <2>10. f[i] = World([f[i - 1].queues EXCEPT ![name[s[i]]] = y[1]], [f[i - 1].answers EXCEPT ![s[i]] = y[2]])
    BY <2>1, <2>2, <2>4, <2>5, <2>8, <2>9
  <2> HIDE DEF y
  <2> QED
    BY <2>1, <2>3, <2>8, <2>9, <2>10 DEF Sequential
<1>13. f[k].answers[r] = Undecided /\ f[k + 1] \in Sequential(f[k], r)
  <2>1. f[k] = World([Q EXCEPT ![n] = g[k]], A(k)) /\ f[k + 1] = World(Named(C)', [G EXCEPT ![r] = Code(200)])
    OBVIOUS
  <2>2. A(k) = G
    <3>1. ASSUME NEW x \in Requests PROVE A(k)[x] = G[x]
      BY <1>9
    <3> QED
      BY <3>1
  <2>3. [Q EXCEPT ![n] = Nil] = [[Q EXCEPT ![n] = g[k]] EXCEPT ![n] = Nil]
    BY <1>4
  <2>4. [Q EXCEPT ![n] = g[k]][n] = g[k]
    BY <1>1, <1>4
  <2>5. <<Nil, Code(200)>> \in Outcomes(r, g[k])
    <3>1. g[k] \in SequentialQueues
      BY <1>9
    <3> QED
      BY <1>1, <3>1, NilIsNoQueue DEF Outcomes
  <2> HIDE DEF A, f, s2, Q
  <2>6. f[k].answers = G /\ f[k].queues = [Q EXCEPT ![n] = g[k]]
    BY <2>1, <2>2 DEF World
  <2> DEFINE y == <<Nil, Code(200)>>
  <2>7. y \in Outcomes(r, f[k].queues[name[r]]) /\ y[1] = Nil /\ y[2] = Code(200)
    BY <2>4, <2>5, <2>6
  <2>8. f[k + 1] = World([f[k].queues EXCEPT ![name[r]] = y[1]], [f[k].answers EXCEPT ![r] = y[2]])
    BY <1>5, <2>1, <2>3, <2>6, <2>7
  <2> HIDE DEF y
  <2> QED
    BY <1>3, <2>6, <2>7, <2>8 DEF Sequential
<1>14. Chain(k + 1, s2, f)
  <2>1. \A i \in 1..(k + 1) : f[i - 1].answers[s2[i]] = Undecided /\ f[i] \in Sequential(f[i - 1], s2[i])
    <3>1. s2[k + 1] = r
      OBVIOUS
    <3> HIDE DEF f, s2
    <3> SUFFICES ASSUME NEW i \in 1..(k + 1)
                 PROVE  f[i - 1].answers[s2[i]] = Undecided /\ f[i] \in Sequential(f[i - 1], s2[i])
      OBVIOUS
    <3>2. CASE i = k + 1
      BY <1>13, <3>1, <3>2
    <3>3. CASE i # k + 1
      <4>1. i \in 1..k
        BY <3>3
      <4> QED
        BY <1>12, <4>1
    <3> QED
      BY <3>2, <3>3
  <2> HIDE DEF f, s2
  <2> QED
    BY <1>10, <1>11, <2>1 DEF Chain
<1>15. f[k + 1] \in Reachable
  <2> HIDE DEF f, s2
  <2> QED
    BY <1>14, ChainReaches
<1> QED
  BY <1>3, <1>15

-----------------------------------------------------------------------------
(* The answers are linearizable *)

\* The worlds left after an answer are those that have given it.
LEMMA AnswerSeen ==
  ASSUME Observe, NEW r \in Waiting, pc'[r] = "done", NEW w \in Reachable, w.answers[r] = Received(r)
  PROVE  World(w.queues, [w.answers EXCEPT ![r] = Undecided]) \in worlds'
<1>1. r \in Answering
  BY DEF Answering
<1>2. worlds' = UNION {Explain(x) : x \in Answering}
  BY <1>1 DEF Observe
<1>3. World(w.queues, [w.answers EXCEPT ![r] = Undecided]) \in Explain(r)
  BY DEF Explain
<1> QED
  BY <1>1, <1>2, <1>3

\* A request that nobody expected an answer of can be run when it is answered.
LEMMA RunNow ==
  ASSUME IInv, IsFiniteSet(Waiting), Observe, NEW r \in Waiting, pc'[r] = "done",
         NEW C \in [Requests -> SequentialQueues], Explains(C),
         NEW n \in Names, name[r] = n,
         NEW c2, NEW a, a = Received(r), <<c2, a>> \in Outcomes(r, Named(C)[n]),
         NEW F \in [Requests -> Answers], Future(C, F), F[r] = Undecided
  PROVE  World([Named(C) EXCEPT ![n] = c2], F) \in worlds'
<1> DEFINE w == World(Named(C), F)
           y == <<c2, a>>
           v == World([Named(C) EXCEPT ![n] = c2], [F EXCEPT ![r] = a])
<1>1. w \in worlds
  BY DEF Explains
<1>2. w.queues = Named(C) /\ w.answers = F
  BY DEF World
<1>3. v \in Sequential(w, r)
  <2>1. y \in Outcomes(r, w.queues[name[r]]) /\ y[1] = c2 /\ y[2] = a
    BY <1>2
  <2>2. v = World([w.queues EXCEPT ![name[r]] = y[1]], [w.answers EXCEPT ![r] = y[2]])
    BY <1>2
  <2> HIDE DEF w, y, v
  <2> QED
    BY <2>1, <2>2 DEF Sequential
<1>4. v \in Reachable
  <2> HIDE DEF w, v
  <2> QED
    BY <1>1, <1>2, <1>3, ReachableNow
<1>5. v.queues = [Named(C) EXCEPT ![n] = c2] /\ v.answers = [F EXCEPT ![r] = a]
  BY DEF World
<1>6. r \in Requests
  BY DEF Waiting
<1>7. v.answers[r] = Received(r) /\ [v.answers EXCEPT ![r] = Undecided] = F
  BY <1>5, <1>6
<1>8. World(v.queues, [v.answers EXCEPT ![r] = Undecided]) \in worlds'
  <2> HIDE DEF v
  <2> QED
    BY <1>4, <1>7, AnswerSeen
<1> QED
  BY <1>5, <1>7, <1>8

\* A request whose queue has its name still is run on it.
LEMMA NamedAnswer ==
  ASSUME IInv, IInv', NamesOK, IsFiniteSet(Waiting), NEW r \in Requests, Step(r), Observe,
         pc'[r] = "done", NEW o \in Requests, Uses(r, o), ~Late(r),
         NEW C \in [Requests -> SequentialQueues], \A p \in Requests : Fits(p, C[p]), Explains(C)
  PROVE  Explained'
<1>t. TypeOK /\ StackOK /\ NamedQueue
  BY DEF IInv
<1>1. /\ r \in Waiting /\ name[r] \in Names /\ q[r] = o /\ pc[r] \notin {"new", "done"}
  BY <1>t DEF Uses, HasQueue, Waiting, StackOK
<1>2. table[name[r]] = o
  <2>1. CASE op[r] = "drain"
    BY <1>1, <1>t, <2>1 DEF NamedQueue, Uses, HasQueue, IInv, ControlOK
  <2>2. CASE op[r] # "drain"
    <3>1. r \in Using(o)
      BY <1>1, <2>2 DEF Using, Uses
    <3>2. PICK n \in Names : table[n] = o
      BY <1>1, <3>1, NilAssumption DEF Late, Live
    <3>3. name[o] = n /\ name[o] = name[r]
      BY <1>1, <2>2, <3>2, NilAssumption DEF NamesOK, Uses
    <3> QED
      BY <3>2, <3>3
  <2> QED
    BY <2>1, <2>2
<1>3. PICK n \in Names : n = name[r]
  BY <1>1
<1>4. PICK a : a = Received(r)
  OBVIOUS
<1>5. PICK c2 \in SequentialQueues : <<c2, a>> \in Outcomes(r, C[o]) /\ Fits(o, c2)'
  BY <1>4, QueueAnswer
<1>6. PICK D \in [Requests -> SequentialQueues] : D = [C EXCEPT ![o] = c2]
  OBVIOUS
<1>6a. D[o] = c2 /\ \A p \in Requests : p # o => D[p] = C[p]
  BY <1>6
<1>7. ASSUME NEW p \in Requests PROVE Fits(p, D[p])'
  <2>1. CASE p = o
    BY <1>5, <1>6a, <2>1
  <2>2. CASE p # o /\ Updating(r)
    BY <1>1, <1>6a, <2>2, UpdateEnds
  <2>3. CASE p # o /\ ~Updating(r)
    BY <1>6a, <2>3, FitsStep
  <2> QED
    BY <2>1, <2>2, <2>3
<1>8. table' = table
  BY <1>1, <1>t, OwnStep DEF Uses, Insert, Delete, Answer, Goto, IInv, ControlOK
<1>9. Named(D)' = [Named(C) EXCEPT ![n] = c2]
  <2>1. ASSUME NEW x \in Names PROVE Named(D)'[x] = IF x = n THEN c2 ELSE Named(C)[x]
    <3>1. Named(D)'[x] = IF table[x] = Nil THEN Nil ELSE D[table[x]]
      BY <1>8 DEF Named
    <3>2. Named(C)[x] = IF table[x] = Nil THEN Nil ELSE C[table[x]]
      BY DEF Named
    <3>3. CASE x = n
      BY <1>2, <1>3, <1>6a, <3>1, <3>3, NilAssumption
    <3>4. CASE x # n
      <4>1. table[x] # o
        BY <1>2, <1>3, <3>4, NilAssumption DEF NamesOK
      <4>2. table[x] \in Requests \cup {Nil}
        BY <1>t DEF TypeOK
      <4> QED
        BY <1>6a, <3>1, <3>2, <3>4, <4>1, <4>2
    <3> QED
      BY <3>3, <3>4
  <2>2. Named(D)' = [x \in Names |-> Named(D)'[x]] /\ Named(C) = [x \in Names |-> Named(C)[x]]
    BY DEF Named
  <2> QED
    BY <2>1, <2>2
<1>10. Named(C)[n] = C[o]
  BY <1>2, <1>3, NilAssumption DEF Named
<1>11. ASSUME NEW F \in [Requests -> Answers], Future(D, F)' PROVE World(Named(D), F)' \in worlds'
  <2>1. Live(o)
    BY <1>1, <1>2 DEF Live
  <2>2. Future(C, F)
    BY <1>6a, <1>8, <1>11, <2>1, FutureBack
  <2>3. F[r] = Undecided
    BY <2>2 DEF Future
  <2>4. World([Named(C) EXCEPT ![n] = c2], F) \in worlds'
    BY <1>1, <1>3, <1>4, <1>5, <1>10, <2>2, <2>3, RunNow
  <2>5. World(Named(D), F)' = World(Named(D)', F)
    BY DEF World
  <2> QED
    BY <1>9, <2>4, <2>5
<1> QED
  BY <1>7, <1>11 DEF Explained, Explains

\* A request whose queue has lost its name is run as its future said.
LEMMA LateAnswer ==
  ASSUME IInv, IInv', NamesOK, IsFiniteSet(Waiting), NEW r \in Requests, Step(r), Observe,
         pc'[r] = "done", Late(r),
         NEW C \in [Requests -> SequentialQueues], \A p \in Requests : Fits(p, C[p]), Explains(C)
  PROVE  Explained'
<1>1. PICK o \in Requests : o = q[r]
  BY LateAnswered
<1>2. ~Live(o) /\ r \in Using(o) /\ table' = table
  BY <1>1, LateAnswered
<1>3. Uses(r, o) /\ r \in Waiting /\ op[r] # "none" /\ op[r] # "stats"
  BY <1>2, UsersHaveQueue DEF Using
<1>4. PICK a : a = Received(r)
  OBVIOUS
<1>5. PICK c2 \in SequentialQueues : <<c2, a>> \in Outcomes(r, C[o]) /\ Fits(o, c2)'
  BY <1>3, <1>4, QueueAnswer
<1>6. PICK D \in [Requests -> SequentialQueues] : D = [C EXCEPT ![o] = c2]
  OBVIOUS
<1>6a. D[o] = c2 /\ \A p \in Requests : p # o => D[p] = C[p]
  BY <1>6
<1>7. ASSUME NEW p \in Requests PROVE Fits(p, D[p])'
  <2>1. CASE p = o
    BY <1>5, <1>6a, <2>1
  <2>2. CASE p # o /\ Updating(r)
    BY <1>1, <1>6a, <2>2, UpdateEnds
  <2>3. CASE p # o /\ ~Updating(r)
    BY <1>6a, <2>3, FitsStep
  <2> QED
    BY <2>1, <2>2, <2>3
<1>8. a \in Answers
  <2> DEFINE y == <<c2, a>>
  <2>1. y[2] = a /\ y \in Outcomes(r, C[o])
    BY <1>5
  <2> HIDE DEF y
  <2> QED
    BY <1>3, <2>1, OutcomeType
<1>9. Named(D)' = Named(C)
  <2>1. ASSUME NEW x \in Names
        PROVE  (IF table[x] = Nil THEN Nil ELSE D[table[x]]) = IF table[x] = Nil THEN Nil ELSE C[table[x]]
    <3>1. table[x] # o /\ table[x] \in Requests \cup {Nil}
      BY <1>2 DEF Live, IInv, TypeOK
    <3> QED
      BY <1>6a, <3>1
  <2> QED
    BY <1>2, <2>1 DEF Named
<1>10. ASSUME NEW F \in [Requests -> Answers], Future(D, F)' PROVE World(Named(D), F)' \in worlds'
  <2>0. D = [C EXCEPT ![q[r]] = c2]
    BY <1>1, <1>6
  <2>1. q'[r] = q[r]
    BY <1>3, OwnStep
  <2>2. Future([C EXCEPT ![q[r]] = c2], F)'
    BY <1>10, <2>0, <2>1
  <2>3. F[r] = Undecided /\ Future(C, [F EXCEPT ![r] = a])
    BY <1>1, <1>5, <2>2, LateBack
  <2> DEFINE E == [F EXCEPT ![r] = a]
             w == World(Named(C), E)
  <2>4. E \in [Requests -> Answers] /\ E[r] = a /\ [E EXCEPT ![r] = Undecided] = F
    BY <1>8, <2>3
  <2>5. w \in worlds
    BY <2>3, <2>4 DEF Explains
  <2>6. w.queues = Named(C) /\ w.answers = E
    BY DEF World
  <2>7. w \in Reachable
    BY <2>5, ReachableNow
  <2>8. World(w.queues, [w.answers EXCEPT ![r] = Undecided]) \in worlds'
    <3> HIDE DEF w, E
    <3> QED
      BY <1>3, <1>4, <2>4, <2>6, <2>7, AnswerSeen
  <2>9. World(Named(C), F) \in worlds'
    BY <2>4, <2>6, <2>8
  <2> QED
    BY <1>9, <2>9 DEF World
<1> QED
  BY <1>7, <1>10 DEF Explained, Explains

\* Deleting a queue leaves those who use it every future that they had.
LEMMA DeleteAnswer ==
  ASSUME IInv, NamesOK, IsFiniteSet(Waiting), NEW r \in Requests, Step(r), Observe,
         Delete(r), table[name[r]] # Nil,
         NEW C \in [Requests -> SequentialQueues], \A p \in Requests : Fits(p, C[p]), Explains(C)
  PROVE  Explained'
<1>1. PICK o \in Requests : table[name[r]] = o
  <2>1. name[r] \in Names
    BY DEF Delete, Answer, Goto, IInv, ControlOK, StackOK
  <2> QED
    BY <2>1 DEF IInv, TypeOK
<1>2. r \in Waiting /\ op[r] = "delete" /\ pc'[r] = "done" /\ status'[r] = 200
  BY <1>1, DeleteOrphans
<1>3. Received(r) = Code(200)
  BY <1>2 DEF Received
<1>4. \A p \in Requests : Fits(p, C[p])'
  <2>1. ~Updating(r)
    BY DEF Updating, Delete
  <2> QED
    BY <2>1, FitsStep
<1>5. ASSUME NEW F \in [Requests -> Answers], Future(C, F)' PROVE World(Named(C), F)' \in worlds'
  <2>1. F[r] = Undecided /\ World(Named(C)', [F EXCEPT ![r] = Code(200)]) \in Reachable
    BY <1>1, <1>5, DeleteBack DEF Explains
  <2>2. PICK qs : qs = Named(C)'
    OBVIOUS
  <2> DEFINE w == World(qs, [F EXCEPT ![r] = Code(200)])
  <2>3. w.queues = qs /\ w.answers = [F EXCEPT ![r] = Code(200)]
    BY DEF World
  <2>4. w.answers[r] = Received(r) /\ [w.answers EXCEPT ![r] = Undecided] = F
    <3> HIDE DEF w
    <3>1. F[r] = Undecided
      BY <2>1
    <3>2. [F EXCEPT ![r] = Code(200)][r] = Code(200)
      OBVIOUS
    <3>3. [[F EXCEPT ![r] = Code(200)] EXCEPT ![r] = Undecided] = F
      BY <3>1
    <3> QED
      BY <1>3, <2>3, <3>2, <3>3
  <2>5. w \in Reachable
    BY <2>1, <2>2
  <2>6. World(w.queues, [w.answers EXCEPT ![r] = Undecided]) \in worlds'
    <3> HIDE DEF w
    <3> QED
      BY <1>2, <2>4, <2>5, AnswerSeen
  <2>7. World(qs, F) \in worlds'
    BY <2>3, <2>4, <2>6
  <2> QED
    BY <2>2, <2>7 DEF World
<1> QED
  BY <1>4, <1>5 DEF Explained, Explains

\* A queue is as new until it is created.
LEMMA InsertAnswer ==
  ASSUME IInv, NamesOK, IsFiniteSet(Waiting), NEW r \in Requests, Step(r), Observe, Insert(r),
         NEW C \in [Requests -> SequentialQueues], \A p \in Requests : Fits(p, C[p]), Explains(C)
  PROVE  Explained'
<1>t. TypeOK /\ ControlOK /\ StackOK /\ AbsentOK /\ FreshOK /\ PointersOK
  BY DEF IInv
<1>1. pc[r] = "insert" /\ op[r] = "create" /\ name[r] \in Names /\ r \in Waiting
  BY <1>t DEF Insert, Answer, Goto, ControlOK, StackOK, Waiting
<1>2. /\ pc'[r] = "done" /\ status'[r] = 200 /\ table[name[r]] = Nil
      /\ table' = [table EXCEPT ![name[r]] = r]
  BY <1>1, <1>t DEF Insert, Answer, Goto, TypeOK, AbsentOK
<1>3. ~Allocated(r)
  BY <1>1, <1>t DEF Allocated, ControlOK
<1>4. AtRest(r)
  BY <1>3, <1>t, NilAssumption DEF AtRest, PointersOK
<1>5. C[r] = EmptyQueue
  <2>1. C[r] = Now(r)
    BY <1>4 DEF Fits, AtRest
  <2> QED
    BY <1>3, <1>t, <2>1 DEF Now, EmptyQueue, FreshOK
<1>6. \A p \in Requests : Fits(p, C[p])'
  <2>1. ~Updating(r)
    BY <1>1 DEF Updating
  <2> QED
    BY <2>1, FitsStep
<1>7. PICK n \in Names : n = name[r]
  BY <1>1
<1>8. Named(C)' = [Named(C) EXCEPT ![n] = EmptyQueue]
  <2>1. ASSUME NEW x \in Names PROVE Named(C)'[x] = IF x = n THEN EmptyQueue ELSE Named(C)[x]
    BY <1>2, <1>5, <1>7, <1>t, NilAssumption DEF Named, TypeOK
  <2>2. Named(C)' = [x \in Names |-> Named(C)'[x]] /\ Named(C) = [x \in Names |-> Named(C)[x]]
    BY DEF Named
  <2> QED
    BY <2>1, <2>2
<1>9. PICK a : a = Received(r)
  OBVIOUS
<1>10. <<EmptyQueue, a>> \in Outcomes(r, Named(C)[n])
  <2>1. a = Code(200)
    BY <1>1, <1>2, <1>9 DEF Received
  <2>2. Named(C)[n] = Nil
    BY <1>2, <1>7 DEF Named
  <2> QED
    BY <1>1, <2>1, <2>2 DEF Outcomes
<1>11. ~Late(r)
  BY <1>1 DEF Late, Using
<1>12. ASSUME NEW F \in [Requests -> Answers], Future(C, F)' PROVE World(Named(C), F)' \in worlds'
  <2>1. Future(C, F)
    BY <1>11, <1>12, FutureBack
  <2>2. F[r] = Undecided
    BY <1>11, <2>1 DEF Future
  <2>3. World([Named(C) EXCEPT ![n] = EmptyQueue], F) \in worlds'
    BY <1>1, <1>2, <1>7, <1>9, <1>10, <2>1, <2>2, RunNow
  <2> QED
    BY <1>8, <2>3 DEF World
<1> QED
  BY <1>6, <1>12 DEF Explained, Explains

\* A name that is taken, or one that has no queue, is refused.
LEMMA RefusalAnswer ==
  ASSUME IInv, NamesOK, IsFiniteSet(Waiting), NEW r \in Requests, Step(r), Observe, pc'[r] = "done",
         \/ Create(r)
         \/ (Delete(r) \/ Drain(r) \/ GetQueue(r)) /\ table[name[r]] = Nil,
         NEW C \in [Requests -> SequentialQueues], \A p \in Requests : Fits(p, C[p]), Explains(C)
  PROVE  Explained'
<1>t. TypeOK /\ ControlOK /\ StackOK /\ UntouchedOK
  BY DEF IInv
<1>pc. pc \in [Requests -> PCs] /\ status \in [Requests -> {0, 200, 204, 400, 500}]
  BY <1>t DEF TypeOK
<1>1. /\ pc[r] \in {"create", "delete", "drain", "getQueue"} /\ status'[r] = 400 /\ table' = table
      /\ pc[r] = "create" <=> table[name[r]] # Nil
  BY <1>pc DEF Create, Delete, Drain, GetQueue, Answer, Goto
<1>2. /\ op[r] \in {"create", "delete", "drain", "enqueue", "dequeue"}
      /\ op[r] = "create" <=> table[name[r]] # Nil
  BY <1>1, <1>t DEF ControlOK
<1>3. name[r] \in Names /\ r \in Waiting
  BY <1>1, <1>2, <1>t DEF StackOK, Waiting
<1>4. PICK n \in Names : n = name[r]
  BY <1>3
<1>5. PICK a : a = Received(r)
  OBVIOUS
<1>6. PICK c : c = Named(C)[n]
  OBVIOUS
<1>7. <<c, a>> \in Outcomes(r, c)
  <2>1. a = Code(400)
    BY <1>1, <1>5 DEF Received
  <2>2. c = Nil <=> table[n] = Nil
    BY <1>6, <1>t, NilIsNoQueue, NilAssumption DEF Named, TypeOK
  <2> QED
    BY <1>2, <1>4, <2>1, <2>2 DEF Outcomes
<1>8. [Named(C) EXCEPT ![n] = c] = Named(C) /\ Named(C)' = Named(C)
  BY <1>1, <1>6 DEF Named
<1>9. ~Late(r)
  <2>1. q[r] = Nil \/ op[r] \in {"create", "delete", "drain"}
    BY <1>1, <1>t DEF UntouchedOK, ControlOK
  <2> QED
    BY <2>1 DEF Late, Using
<1>10. \A p \in Requests : Fits(p, C[p])'
  <2>1. ~Updating(r)
    BY <1>1 DEF Updating
  <2> QED
    BY <2>1, FitsStep
<1>11. ASSUME NEW F \in [Requests -> Answers], Future(C, F)' PROVE World(Named(C), F)' \in worlds'
  <2>1. Future(C, F)
    BY <1>1, <1>9, <1>11, FutureBack
  <2>2. F[r] = Undecided
    BY <1>9, <2>1 DEF Future
  <2>3. World([Named(C) EXCEPT ![n] = c], F) \in worlds'
    BY <1>3, <1>4, <1>5, <1>6, <1>7, <2>1, <2>2, RunNow
  <2> QED
    BY <1>8, <2>3 DEF World
<1> QED
  BY <1>10, <1>11 DEF Explained, Explains

\* A late request keeps its futures until it is answered.
LEMMA LateGoesOn ==
  ASSUME IInv, NEW r \in Requests, Step(r), Late(r), pc'[r] # "done",
         NEW C \in [Requests -> SequentialQueues], NEW F, Future(C, F)'
  PROVE  table' = table /\ Future(C, F)
<1>t. TypeOK /\ ControlOK
  BY DEF IInv
<1>1. q[r] \in Requests /\ op[r] \in {"enqueue", "dequeue"} /\ pc[r] # "done" /\ r \in Using(q[r])
  BY <1>t DEF Late, Using, TypeOK
<1>2. table' = table
  BY <1>1, <1>t, OwnStep DEF Insert, Delete, Answer, Goto, ControlOK
<1>3. \A s \in Requests : s # r => pc'[s] = pc[s] /\ q'[s] = q[s] /\ op'[s] = op[s]
  BY <1>t, OthersStep
<1>4. pc[r] # "new" /\ q[r] # Nil /\ pc[r] \notin {"drain", "getQueue"}
  BY <1>1, <1>t, UsersHaveQueue DEF HasQueue, Late
<1>5. q'[r] = q[r] /\ op'[r] = op[r]
  BY <1>1, <1>4, OwnStep
<1>6. \A s \in Requests : q'[s] = q[s] /\ op'[s] = op[s] /\ (pc'[s] # "done" <=> pc[s] # "done")
  BY <1>1, <1>3, <1>5
<1>7. \A o \in Requests : Live(o)' = Live(o)
  BY <1>2 DEF Live
<1>8. ASSUME NEW o \in Requests PROVE Using(o)' = Using(o)
  <2>1. \A x \in Requests : (x \in Using(o)' <=> x \in Using(o))
    BY <1>6 DEF Using
  <2> QED
    BY <2>1 DEF Using
<1>9. ASSUME NEW x \in Requests, ~Late(x) PROVE F[x] = Undecided
  <2>1. ~Late(x)'
    BY <1>2, <1>6, <1>9 DEF Late, Live, Using
  <2> QED
    BY <2>1 DEF Future
<1>10. ASSUME NEW o \in Requests, ~Live(o) PROVE Schedule(o, C[o], F)
  <2>k. PICK k \in Nat : \E s, g : Scheduled(o, C[o], F, k, s, g)'
    BY <1>7, <1>10 DEF Future, Schedule
  <2>1. PICK s, g : Scheduled(o, C[o], F, k, s, g)'
    BY <2>k
  <2>2. s \in [1..k -> Using(o)]
    BY <1>8, <2>1 DEF Scheduled
  <2>3. \A x \in Using(o) : x \in Requests /\ pc[x] # "new"
    BY UsersHaveQueue
  <2>4. ASSUME NEW i \in 1..k PROVE <<g[i], F[s[i]]>> \in Outcomes(s[i], g[i - 1])
    <3>1. <<g[i], F[s[i]]>> \in Outcomes(s[i], g[i - 1])'
      BY <2>1 DEF Scheduled
    <3>2. Outcomes(s[i], g[i - 1])' = Outcomes(s[i], g[i - 1])
      BY <2>2, <2>3, OutcomesStep
    <3> QED
      BY <3>1, <3>2
  <2>5. \A x \in Using(o) : F[x] # Undecided => \E i \in 1..k : s[i] = x
    BY <1>8, <2>1 DEF Scheduled
  <2>6. Scheduled(o, C[o], F, k, s, g)
    BY <2>1, <2>2, <2>4, <2>5 DEF Scheduled
  <2> QED
    BY <2>6 DEF Schedule
<1> QED
  BY <1>2, <1>9, <1>10 DEF Future

\* A step that answers no waiting request changes neither the queues that
\* clients could see nor the futures.
LEMMA QuietStep ==
  ASSUME IInv, NEW r \in Requests, Step(r), ~(r \in Waiting /\ pc'[r] = "done"),
         NEW C \in [Requests -> SequentialQueues], \A p \in Requests : Fits(p, C[p])
  PROVE  /\ Answering = {} /\ table' = table
         /\ \A p \in Requests : Fits(p, C[p])'
         /\ \A F : Future(C, F)' => Future(C, F)
<1>t. TypeOK /\ ControlOK
  BY DEF IInv
<1>1. \A s \in Requests : s # r => pc'[s] = pc[s]
  BY <1>t, OthersStep
<1>2. Answering = {}
  BY <1>1 DEF Answering, Waiting
<1>3. ~Updating(r)
  <2> SUFFICES ASSUME Updating(r) PROVE FALSE
    OBVIOUS
  <2>1. pc'[r] = "done"
    BY UpdateEnds
  <2>2. r \in Waiting
    BY <1>t DEF Updating, Waiting, ControlOK
  <2> QED
    BY <2>1, <2>2
<1>4. table' = table
  <2>1. ASSUME Insert(r) \/ Delete(r) PROVE r \in Waiting /\ pc'[r] = "done"
    BY <1>t, <2>1 DEF Insert, Delete, Answer, Goto, Waiting, ControlOK, TypeOK
  <2> QED
    BY <2>1, OwnStep
<1>5. ASSUME NEW F, Future(C, F)' PROVE Future(C, F)
  <2>1. CASE Late(r)
    <3>1. r \in Waiting
      BY <2>1, <1>t, UsersHaveQueue DEF Late, TypeOK
    <3> QED
      BY <1>5, <2>1, <3>1, LateGoesOn
  <2>2. CASE ~Late(r)
    BY <1>4, <1>5, <2>2, FutureBack
  <2> QED
    BY <2>1, <2>2
<1> QED
  BY <1>2, <1>3, <1>4, <1>5, FitsStep

\* Stats sees the queues that explain the answers.
LEMMA ScanSees ==
  ASSUME IInv, ScanOK, ScanOK', NEW r \in Requests, Step(r), r \in Scanning, table' = table,
         NEW C \in [Requests -> SequentialQueues], \A p \in Requests : Fits(p, C[p]),
         NEW F, World(Named(C), F) \in Reachable
  PROVE  World(Named(C), F) \in Seen(r)
<1>t. TypeOK /\ ControlOK /\ StackOK /\ NamedQueue /\ QueueLockOK /\ Conservation
  BY DEF IInv
<1>pc. pc \in [Requests -> PCs] /\ stat \in [Requests -> SUBSET [name: Names, stat: Counters]]
  BY <1>t DEF TypeOK
<1> DEFINE w == World(Named(C), F)
<1>1. w.queues = Named(C)
  BY DEF World
<1>2. {n \in Names : w.queues[n] # Nil} = InTable
  <2>1. ASSUME NEW n \in Names PROVE w.queues[n] # Nil <=> table[n] # Nil
    <3>1. w.queues[n] = IF table[n] = Nil THEN Nil ELSE C[table[n]]
      BY <1>1 DEF Named
    <3>2. table[n] # Nil => C[table[n]] \in SequentialQueues
      BY <1>t DEF TypeOK
    <3> HIDE DEF w
    <3> QED
      BY <3>1, <3>2, NilIsNoQueue
  <2> HIDE DEF w
  <2> QED
    BY <2>1 DEF InTable
<1>3. Listed(r)' = InTable
  <2>1. CASE pc'[r] = "next"
    BY <2>1 DEF ScanOK, Visiting, InTable
  <2>2. CASE pc'[r] # "next"
    <3>1. pc[r] = "next" /\ pc'[r] = "done"
      BY <2>2 DEF Scanning
    <3>2. ServeStats(r)
      BY <3>1, <1>pc, <1>t DEF Step, Acquire, Proceed, Goto, Answer, Arrive, Reject, LockBroker, LockQueue,
         Create, Insert, Delete, Drain, Clear, Zero, RLockBroker, GetQueue, NewMessage, AppendMessage,
         CountEnqueued, ReadHead, Pop, CountDequeued, RangeQueues, RLockQueue, ReadStat, ControlOK, Ops
    <3>3. Listed(r)' = Listed(r)
      BY <3>2 DEF ServeStats, Listed, stack
    <3> QED
      BY <3>1, <3>3 DEF ScanOK, Visiting
  <2> QED
    BY <2>1, <2>2
<1>4. ASSUME pc[r] = "read" PROVE RecordIn(w, name[r]) \in stat'[r]
  <2>1. ReadStat(r)
    BY <1>4, <1>pc, <1>t DEF Step, Acquire, Proceed, Goto, Answer, Arrive, Reject, LockBroker, LockQueue,
       Create, Insert, Delete, Drain, Clear, Zero, RLockBroker, GetQueue, NewMessage, AppendMessage,
       CountEnqueued, ReadHead, Pop, CountDequeued, RangeQueues, RLockQueue, ServeStats, ControlOK, Ops
  <2>2. [name |-> name[r], stat |-> StatOf(q[r])] \in stat'[r]
    BY <2>1, <1>pc DEF ReadStat
  <2>3. PICK o \in Requests : o = q[r]
    BY <1>4, <1>t DEF StackOK, HasQueue
  <2>4. name[r] \in Names /\ table[name[r]] = o
    BY <1>4, <1>t, <2>3 DEF StackOK, NamedQueue
  <2>5. AtRest(o)
    <3>1. r \in qmu[o].readers
      BY <2>1, <2>3 DEF ReadStat, ReadOwned
    <3> QED
      BY <3>1, <1>t DEF QueueLockOK, OwnsQueue, AtRest
  <2>6. w.queues[name[r]] = Now(o)
    <3>1. C[o] = Now(o)
      BY <2>5 DEF Fits, AtRest
    <3> QED
      BY <1>1, <2>4, <3>1, NilAssumption DEF Named
  <2>7. depth[o] = Len(messages[o])
    BY <1>t, <2>5 DEF Conservation
  <2>8. RecordIn(w, name[r]) = [name |-> name[r], stat |-> StatOf(q[r])]
    <3> HIDE DEF w
    <3> QED
      BY <2>3, <2>6, <2>7 DEF RecordIn, Now, Holding, StatOf
  <2> QED
    BY <2>2, <2>8
<1> HIDE DEF w
<1>5. w \in Seen(r)
  BY <1>2, <1>3, <1>4 DEF Seen, w
<1> QED
  BY <1>5 DEF w

\* A step that answers nobody (or answers Stats) leaves the answers explained: every
\* future it leaves was a future before, and a record of Stats is of the moment.
LEMMA QuietExplained ==
  ASSUME IInv, ScanOK, ScanOK', IsFiniteSet(Waiting), NEW r \in Requests, Step(r), Observe,
         ~(r \in Waiting /\ pc'[r] = "done"), Explained
  PROVE  Explained'
<1>1. PICK C \in [Requests -> SequentialQueues] : (\A p \in Requests : Fits(p, C[p])) /\ Explains(C)
  BY DEF Explained
<1>2. /\ Answering = {} /\ table' = table
      /\ \A p \in Requests : Fits(p, C[p])'
      /\ \A F : Future(C, F)' => Future(C, F)
  BY <1>1, QuietStep
<1>3. \A s \in Requests : s # r => pc'[s] = pc[s]
  BY OthersStep DEF IInv
<1>4. Scanning \subseteq {r}
  BY <1>3 DEF Scanning
<1>5. ASSUME NEW F \in [Requests -> Answers], Future(C, F)' PROVE World(Named(C), F)' \in worlds'
  <2>1. World(Named(C), F) \in worlds
    BY <1>1, <1>2, <1>5 DEF Explains
  <2>2. World(Named(C), F)' = World(Named(C), F)
    BY <1>2 DEF World, Named
  <2>3. CASE Scanning = {}
    BY <1>2, <2>1, <2>2, <2>3 DEF Observe
  <2>4. CASE Scanning # {}
    <3>1. r \in Scanning
      BY <1>4, <2>4
    <3>2. World(Named(C), F) \in Seen(r)
      BY <1>1, <1>2, <2>1, <3>1, ReachableNow, ScanSees
    <3>3. worlds' = UNION {Seen(x) : x \in Scanning}
      BY <1>2, <2>4 DEF Observe
    <3> QED
      BY <2>2, <3>1, <3>2, <3>3
  <2> QED
    BY <2>3, <2>4
<1> QED
  BY <1>2, <1>5 DEF Explained, Explains

\* A waiting request that is answered has been refused, has changed the table,
\* or has used its queue.
LEMMA AnswersExplained ==
  ASSUME IInv, IInv', NamesOK, IsFiniteSet(Waiting), NEW r \in Requests, Step(r), Observe,
         r \in Waiting, pc'[r] = "done", Explained
  PROVE  Explained'
<1>t. TypeOK /\ ControlOK /\ StackOK
  BY DEF IInv
<1>pc. pc \in [Requests -> PCs]
  BY <1>t DEF TypeOK
<1>1. PICK C \in [Requests -> SequentialQueues] : (\A p \in Requests : Fits(p, C[p])) /\ Explains(C)
  BY DEF Explained
<1>2. CASE \E o \in Requests : Uses(r, o)
  BY <1>1, <1>2, LateAnswer, NamedAnswer
<1>3. CASE Insert(r)
  BY <1>1, <1>3, InsertAnswer
<1>4. CASE Create(r)
  BY <1>1, <1>4, RefusalAnswer
<1>5. CASE Delete(r)
  BY <1>1, <1>5, DeleteAnswer, RefusalAnswer
<1>6. CASE Drain(r) \/ GetQueue(r)
  <2>1. table[name[r]] = Nil
    BY <1>6, <1>pc DEF Drain, GetQueue, Goto
  <2> QED
    BY <1>1, <1>6, <2>1, RefusalAnswer
<1>7. CASE ~(\E o \in Requests : Uses(r, o))
  <2>1. ~(HasQueue(r) /\ op[r] # "stats")
    <3> SUFFICES ASSUME HasQueue(r), op[r] # "stats" PROVE FALSE
      OBVIOUS
    <3>1. q[r] \in Requests
      BY <1>t DEF StackOK
    <3>2. op[r] \in {"enqueue", "dequeue", "drain"}
      BY <1>t DEF HasQueue, ControlOK
    <3> QED
      BY <1>7, <3>1, <3>2 DEF Uses
  <2>2. Insert(r) \/ Create(r) \/ Delete(r) \/ Drain(r) \/ GetQueue(r)
    BY <2>1, <1>pc, <1>t DEF Waiting, HasQueue, Step, Acquire, Proceed, Goto, Answer, Arrive, Reject,
       LockBroker, LockQueue, Clear, Zero, RLockBroker, NewMessage, AppendMessage, CountEnqueued, ReadHead,
       Pop, CountDequeued, RangeQueues, RLockQueue, ReadStat, ServeStats, ControlOK, Ops
  <2> QED
    BY <1>3, <1>4, <1>5, <1>6, <2>2
<1> QED
  BY <1>2, <1>7

\* Everything undecided is a possible future.
LEMMA ExplainedHasWorlds == Explained => Linearizable
<1> SUFFICES ASSUME Explained PROVE worlds # {}
  BY DEF Linearizable
<1>1. PICK C \in [Requests -> SequentialQueues] : Explains(C)
  BY DEF Explained
<1> DEFINE F == [x \in Requests |-> Undecided]
<1>2. F \in [Requests -> Answers]
  BY DEF Answers
<1>3. \A x \in Requests : F[x] = Undecided
  OBVIOUS
<1> HIDE DEF F
<1>4. ASSUME NEW o \in Requests PROVE Schedule(o, C[o], F)
  <2>1. \A x \in Using(o) : F[x] = Undecided
    BY <1>3 DEF Using
  <2>2. Scheduled(o, C[o], F, 0, <<>>, [i \in 0..0 |-> C[o]])
    BY <2>1 DEF Scheduled
  <2> QED
    BY <2>2 DEF Schedule
<1>5. Future(C, F)
  BY <1>3, <1>4 DEF Future
<1> QED
  BY <1>1, <1>2, <1>5 DEF Explains

\* At the start the blank server explains the answers: there are none.
LEMMA LInitInv == LInit => LInv
<1> SUFFICES ASSUME Init, worlds = {Blank} PROVE LInv
  BY DEF LInit
<1>1. IInv
  BY InitInv
<1>2. NamesOK /\ ScanOK
  BY NilAssumption DEF Init, NamesOK, ScanOK
<1>3. IsFiniteSet(Waiting)
  <2>1. Waiting = {}
    BY DEF Init, Waiting
  <2> QED
    BY <2>1, FS_EmptySet
<1>4. EmptyQueue \in SequentialQueues
  BY DEF EmptyQueue, Holding, SequentialQueues
<1>5. PICK C \in [Requests -> SequentialQueues] : C = [o \in Requests |-> EmptyQueue]
  BY <1>4
<1>6. ASSUME NEW o \in Requests PROVE Fits(o, C[o])
  <2>1. AtRest(o)
    BY NilAssumption DEF Init, AtRest
  <2>2. Now(o) = EmptyQueue
    BY DEF Init, Now, EmptyQueue
  <2> QED
    BY <1>5, <2>1, <2>2 DEF Fits
<1>7. ASSUME NEW F \in [Requests -> Answers], Future(C, F) PROVE World(Named(C), F) \in worlds
  <2>1. \A x \in Requests : F[x] = Undecided
    BY <1>7 DEF Init, Future, Late
  <2>2. F = [x \in Requests |-> Undecided]
    BY <2>1
  <2>3. Named(C) = [n \in Names |-> Nil]
    BY DEF Init, Named
  <2> QED
    BY <2>2, <2>3 DEF Blank
<1> QED
  BY <1>1, <1>2, <1>3, <1>6, <1>7 DEF LInv, Explained, Explains

\* A step of the broker keeps the observer's invariant, whether it answers or not.
LEMMA LInductiveStep == LInv /\ [LNext]_<<vars, worlds>> => LInv'
<1> SUFFICES ASSUME LInv, [LNext]_<<vars, worlds>> PROVE LInv'
  OBVIOUS
<1>1. [Next]_vars
  BY DEF LNext
<1>2. IInv /\ IInv'
  BY <1>1, InductiveStep DEF LInv
<1>3. CASE UNCHANGED vars /\ worlds' = worlds
  <2> USE <1>3 DEF vars, handler, queue, locks, stack
  <2>1. NamesOK' /\ ScanOK' /\ IsFiniteSet(Waiting)'
    BY DEF LInv, NamesOK, ScanOK, Waiting, InTable, Listed, Visiting
  <2>2. \A o, c : Fits(o, c)' = Fits(o, c)
    BY DEF Fits, AtRest, Now
  <2>3. \A C : Named(C)' = Named(C)
    BY DEF Named
  <2>4. \A C, F : Future(C, F)' = Future(C, F)
    <3>1. \A x : Late(x)' = Late(x)
      BY DEF Late, Live, Using
    <3>2. \A o, c, F : Schedule(o, c, F)' = Schedule(o, c, F)
      BY DEF Schedule, Scheduled, Using, Outcomes
    <3>3. \A o : Live(o)' = Live(o)
      BY DEF Live
    <3> QED
      BY <3>1, <3>2, <3>3 DEF Future
  <2>5. Explained'
    BY <2>2, <2>3, <2>4 DEF LInv, Explained, Explains, World
  <2> QED
    BY <1>2, <2>1, <2>5 DEF LInv
<1>4. ASSUME NEW r \in Requests, Step(r), Observe PROVE LInv'
  <2>1. NamesOK' /\ ScanOK' /\ IsFiniteSet(Waiting)'
    BY <1>2, <1>4, NamesStep, ScanStep, WaitingStep DEF LInv
  <2>2. Explained'
    BY <1>2, <1>4, <2>1, QuietExplained, AnswersExplained DEF LInv
  <2> QED
    BY <1>2, <2>1, <2>2 DEF LInv
<1>5. ASSUME UNCHANGED vars, Observe PROVE worlds' = worlds
  <2>1. Answering = {} /\ Scanning = {}
    BY <1>5 DEF Answering, Scanning, Waiting, vars
  <2> QED
    BY <1>5, <2>1 DEF Observe
<1> QED
  BY <1>3, <1>4, <1>5 DEF LNext, Next, Quiescent

\* In every reachable state of the broker with its observer, some contents of the
\* queues explain the answers given with every future of the late requests.
THEOREM ObserverInvariance == LSpec => []LInv
<1>1. LInit => LInv
  BY LInitInv
<1>2. LInv /\ [LNext]_<<vars, worlds>> => LInv'
  BY LInductiveStep
<1> QED
  BY <1>1, <1>2, PTL DEF LSpec

\* The answers of PUT, DELETE, drain, enqueue and dequeue are those of a server that
\* runs one request at a time, for any number of requests and names; each record of
\* Stats is of one instant of that server.
THEOREM AnswersAreLinearizable == LSpec => []Linearizable
<1>1. LInv => Linearizable
  BY ExplainedHasWorlds DEF LInv
<1> QED
  BY <1>1, ObserverInvariance, PTL

-----------------------------------------------------------------------------
(* Nobody waits for ever for a lock, and no handler goes back *)

\* A step keeps who holds and awaits Broker.mu where the mutex says they are.
LEMMA BrokerWaitStep ==
  ASSUME TypeOK, ControlOK, BrokerLockOK, BrokerWaitOK, NEW r \in Requests, Step(r)
  PROVE  BrokerWaitOK'
PROOF
<1> USE DEF queue, counters, handler, locks, stack, BrokerWaitOK, ClaimsBroker, Goto, Answer
<1>pc. pc \in [Requests -> PCs]
  BY DEF TypeOK
<1>op. op \in [Requests -> Ops \cup {"none"}]
  BY DEF TypeOK
<1>bmu. bmu \in Mutexes
  BY DEF TypeOK
<1>w. bmu.writer \in Requests \cup {Nil} /\ bmu.readers \subseteq Requests /\ bmu.queued \subseteq Requests
  BY <1>bmu DEF Mutexes
<1>o. \A s \in Requests : s # r => pc'[s] = pc[s] /\ op'[s] = op[s]
  BY OthersStep
<1>1. CASE Arrive(r) \/ Reject(r)
  BY <1>1, <1>pc, <1>op, <1>w, NilAssumption DEF ControlOK, Arrive, Reject
<1>2. CASE LockBroker(r)
  <2>1. bmu.writer = Nil /\ bmu' = Mutex(r, bmu.readers, bmu.queued)
    BY <1>2 DEF LockBroker, MayAnnounce, Announce
  <2>2. bmu'.writer = r /\ bmu'.readers = bmu.readers /\ bmu'.queued = bmu.queued
    BY <2>1 DEF Mutex
  <2> QED
    BY <1>2, <2>1, <2>2, <1>pc, <1>op, <1>w, NilAssumption DEF ControlOK, LockBroker
<1>3. CASE /\ bmu' = bmu
           /\ \/ LockQueue(r) \/ Create(r) \/ Drain(r) \/ Clear(r) \/ NewMessage(r)
              \/ AppendMessage(r) \/ CountEnqueued(r) \/ ReadHead(r) \/ Pop(r) \/ CountDequeued(r)
              \/ RangeQueues(r) \/ RLockQueue(r) \/ ReadStat(r)
  <2>1. /\ pc'[r] \notin {"getQueue", "range"} /\ pc[r] # "getQueue"
        /\ pc[r] \in {"next", "read", "range"} => pc'[r] \in {"next", "read"} /\ r \notin bmu.queued
    BY <1>3, <1>pc, <1>op DEF ControlOK, LockQueue, Create, Drain, Clear, NewMessage, ReadOwned,
       AppendMessage, CountEnqueued, ReadHead, Pop, CountDequeued, RangeQueues, RLockQueue, ReadStat
  <2>2. ClaimsBroker(r) => ClaimsBroker(r)'
    BY <1>3, <1>pc, <1>op, NilAssumption DEF ControlOK, LockQueue, Create, Drain, Clear, NewMessage,
       AppendMessage, CountEnqueued, ReadHead, Pop, CountDequeued, RangeQueues, RLockQueue, ReadStat, Unlock,
       Mutex, UnlockBroker, BrokerLockOK
  <2> QED
    BY <1>3, <2>1, <2>2, <1>o, <1>w DEF ClaimsBroker
<1>4. CASE /\ bmu' = Unlock(bmu)
           /\ Create(r) \/ Insert(r) \/ Delete(r) \/ Drain(r) \/ Zero(r)
  <2>1. bmu'.writer = Nil /\ bmu'.readers = bmu.readers \cup bmu.queued /\ bmu'.queued = {}
    BY <1>4 DEF Unlock, Mutex
  <2> QED
    BY <1>4, <2>1, <1>pc, <1>op, <1>w, NilAssumption DEF ControlOK, Create, Insert, Delete, Drain, Zero
<1>5. CASE RLockBroker(r)
  <2>1. pc[r] = "b.RLock" /\ r \notin bmu.readers /\ r \notin bmu.queued
    BY <1>5 DEF RLockBroker
  <2>2. \/ /\ bmu.writer = Nil /\ bmu'.writer = Nil
           /\ bmu'.readers = bmu.readers \cup {r} /\ bmu'.queued = bmu.queued
        \/ /\ bmu.writer # Nil /\ bmu'.writer = bmu.writer
           /\ bmu'.readers = bmu.readers /\ bmu'.queued = bmu.queued \cup {r}
    BY <1>5 DEF RLockBroker, RLock, Mutex
  <2> QED
    BY <1>5, <2>1, <2>2, <1>pc, <1>op, <1>w, NilAssumption DEF ControlOK, RLockBroker
<1>6. CASE GetQueue(r) \/ ServeStats(r)
  <2>1. /\ bmu'.writer = bmu.writer /\ bmu'.readers = bmu.readers \ {r} /\ bmu'.queued = bmu.queued
    BY <1>6 DEF GetQueue, ServeStats, RUnlock, Mutex
  <2>2. r \in bmu.readers /\ bmu.writer # r
    BY <1>6, <1>pc, NilAssumption DEF GetQueue, ServeStats, ReadOwned, BrokerLockOK
  <2> QED
    BY <1>6, <2>1, <2>2, <1>pc, <1>op, <1>w, NilAssumption DEF ControlOK, GetQueue, ServeStats
<1> QED
  BY <1>1, <1>2, <1>3, <1>4, <1>5, <1>6 DEF Step, Acquire, Proceed, Create, Insert, Delete, Drain, Zero,
     LockQueue, Clear, NewMessage, AppendMessage, CountEnqueued, ReadHead, Pop, CountDequeued, RangeQueues,
     RLockQueue, ReadStat, UnlockBroker

\* A step keeps who holds and awaits a queue's mu where the mutex says they are.
LEMMA QueueWaitStep ==
  ASSUME TypeOK, ControlOK, StackOK, ListingOK, UntouchedOK, QueueLockOK, QueueWaitOK,
         NEW r \in Requests, Step(r)
  PROVE  QueueWaitOK'
PROOF
<1> USE DEF queue, counters, handler, locks, stack, Goto, Answer
<1>pc. pc \in [Requests -> PCs] /\ op \in [Requests -> Ops \cup {"none"}]
  BY DEF TypeOK
<1>q. q \in [Requests -> Requests \cup {Nil}]
  BY DEF TypeOK
<1>qmu. qmu \in [Requests -> Mutexes]
  BY DEF TypeOK
<1>w. \A o \in Requests : /\ qmu[o].writer \in Requests \cup {Nil}
                          /\ qmu[o].readers \subseteq Requests /\ qmu[o].queued \subseteq Requests
  BY <1>qmu DEF Mutexes
<1>o. \A s \in Requests : s # r => pc'[s] = pc[s] /\ q'[s] = q[s]
  BY OthersStep
<1>1. CASE /\ qmu' = qmu
           /\ pc[r] # "read"
           /\ ~ClaimsQueue(r) \/ (ClaimsQueue(r)' /\ q'[r] = q[r])
           /\ pc'[r] # "read"
  BY <1>1, <1>w, <1>o, NilAssumption DEF QueueWaitOK, QueueWait, ClaimsQueue
<1>2. CASE LockQueue(r)
  <2>1. /\ pc[r] = "q.Lock" /\ q[r] \in Requests /\ q' = q /\ qmu[q[r]].writer = Nil
        /\ qmu' = [qmu EXCEPT ![q[r]] = Mutex(r, @.readers, @.queued)]
    BY <1>2 DEF LockQueue, MayAnnounce, Announce, StackOK, HasQueue
  <2>2. pc'[r] \in {"clear", "append", "head"}
    BY <1>2, <1>pc DEF LockQueue
  <2>3. /\ qmu'[q[r]].writer = r /\ qmu'[q[r]].readers = qmu[q[r]].readers
        /\ qmu'[q[r]].queued = qmu[q[r]].queued
        /\ \A o \in Requests : o # q[r] => qmu'[o] = qmu[o]
    BY <2>1, <1>qmu DEF Mutex
  <2> SUFFICES ASSUME NEW o \in Requests
               PROVE  QueueWait(o)'
    BY DEF QueueWaitOK
  <2>4. CASE o # q[r]
    BY <2>4, <2>1, <2>2, <2>3, <1>w, <1>o, NilAssumption DEF QueueWaitOK, QueueWait, ClaimsQueue
  <2>5. CASE o = q[r]
    BY SMTT(30), <2>5, <2>1, <2>2, <2>3, <1>w, <1>o, NilAssumption DEF QueueWaitOK, QueueWait, ClaimsQueue
  <2> QED
    BY <2>4, <2>5
<1>3. CASE UnlockQueue(r) /\ (Zero(r) \/ CountEnqueued(r) \/ CountDequeued(r) \/ ReadHead(r))
  <2>1. /\ ClaimsQueue(r) /\ q[r] \in Requests /\ q' = q /\ pc'[r] # "read"
        /\ qmu' = [qmu EXCEPT ![q[r]] = Mutex(Nil, @.readers \cup @.queued, {})]
    BY <1>3, <1>pc DEF UnlockQueue, Unlock, Zero, CountEnqueued, CountDequeued, ReadHead, ClaimsQueue,
       StackOK, HasQueue
  <2>2. /\ qmu'[q[r]].writer = Nil /\ qmu'[q[r]].readers = qmu[q[r]].readers \cup qmu[q[r]].queued
        /\ qmu'[q[r]].queued = {}
        /\ \A o \in Requests : o # q[r] => qmu'[o] = qmu[o]
    BY <2>1, <1>qmu DEF Mutex
  <2>3. qmu[q[r]].writer = r
    BY <2>1 DEF QueueLockOK
  <2> SUFFICES ASSUME NEW o \in Requests
               PROVE  QueueWait(o)'
    BY DEF QueueWaitOK
  <2>4. CASE o # q[r]
    BY <2>4, <2>1, <2>2, <2>3, <1>w, <1>o, NilAssumption DEF QueueWaitOK, QueueWait, ClaimsQueue
  <2>5. CASE o = q[r]
    <3>1. \A s \in qmu[o].readers \cup qmu[o].queued : s \in Requests /\ q[s] = o /\ pc[s] = "read"
      BY <1>w DEF QueueWaitOK, QueueWait
    <3>2. pc[r] # "read"
      BY <2>1 DEF ClaimsQueue
    <3>3. \A s \in Requests : pc'[s] = "read" /\ q'[s] = o => s \in qmu[o].readers \cup qmu[o].queued
      BY <2>1, <1>o DEF QueueWaitOK, QueueWait
    <3>4. \A s \in qmu'[o].readers : q'[s] = o /\ pc'[s] = "read"
      BY <3>1, <3>2, <2>5, <2>2, <1>o
    <3> QED
      BY <3>3, <3>4, <2>5, <2>2 DEF QueueWait
  <2> QED
    BY <2>4, <2>5
<1>4. CASE RLockQueue(r)
  <2>1. PICK n \in todo[r] : q' = [q EXCEPT ![r] = table[n]] /\ qmu' = [qmu EXCEPT ![table[n]] = RLock(@, r)]
    BY <1>4 DEF RLockQueue
  <2>2. PICK p \in Requests : p = table[n]
    BY <1>4, <2>1 DEF RLockQueue, ListingOK, TypeOK
  <2>3. pc[r] = "next" /\ pc'[r] = "read" /\ q'[r] = p
    BY <1>4, <2>1, <2>2, <1>pc, <1>q DEF RLockQueue
  <2>4. \A o \in Requests : o # p => qmu'[o] = qmu[o]
    BY <2>1, <2>2, <1>qmu
  <2>5. qmu'[p] = RLock(qmu[p], r)
    BY <2>1, <2>2, <1>qmu
  <2>6. \/ /\ qmu[p].writer = Nil /\ qmu'[p].writer = Nil
           /\ qmu'[p].readers = qmu[p].readers \cup {r} /\ qmu'[p].queued = qmu[p].queued
        \/ /\ qmu[p].writer # Nil /\ qmu'[p].writer = qmu[p].writer
           /\ qmu'[p].readers = qmu[p].readers /\ qmu'[p].queued = qmu[p].queued \cup {r}
    BY <2>5 DEF RLock, Mutex
  <2>7. \A o \in Requests : r \notin qmu[o].readers /\ r \notin qmu[o].queued /\ r # qmu[o].writer
    BY <2>3, NilAssumption DEF QueueWaitOK, QueueWait, ClaimsQueue
  <2> QED
    BY <2>3, <2>4, <2>6, <2>7, <1>w, <1>o, NilAssumption DEF QueueWaitOK, QueueWait, ClaimsQueue
<1>5. CASE ReadStat(r)
  <2>1. /\ pc[r] = "read" /\ pc'[r] = "next" /\ q' = q /\ q[r] \in Requests /\ r \in qmu[q[r]].readers
        /\ qmu' = [qmu EXCEPT ![q[r]] = Mutex(@.writer, @.readers \ {r}, @.queued)]
    BY <1>5, <1>pc DEF ReadStat, ReadOwned, RUnlock, StackOK, HasQueue
  <2>2. /\ qmu'[q[r]].writer = qmu[q[r]].writer /\ qmu'[q[r]].readers = qmu[q[r]].readers \ {r}
        /\ qmu'[q[r]].queued = qmu[q[r]].queued
        /\ \A o \in Requests : o # q[r] => qmu'[o] = qmu[o]
    BY <2>1, <1>qmu DEF Mutex
  <2> SUFFICES ASSUME NEW o \in Requests
               PROVE  QueueWait(o)'
    BY DEF QueueWaitOK
  <2>4. CASE o # q[r]
    BY <2>4, <2>1, <2>2, <1>w, <1>o, NilAssumption DEF QueueWaitOK, QueueWait, ClaimsQueue
  <2>5. CASE o = q[r]
    <3>1. /\ r # qmu[o].writer /\ r \notin qmu[o].queued
      BY <2>5, <2>1, NilAssumption DEF QueueWaitOK, QueueWait, ClaimsQueue
    <3>2. \A s \in qmu'[o].readers \cup qmu'[o].queued : s # r /\ s \in qmu[o].readers \cup qmu[o].queued
      BY <3>1, <2>5, <2>2
    <3>3. \A s \in qmu[o].readers : s # r => s \in Requests /\ q'[s] = o /\ pc'[s] = "read" /\ s \notin qmu[o].queued
      BY <1>o, <1>w DEF QueueWaitOK, QueueWait
    <3>4. \A s \in qmu[o].queued : s \in Requests /\ s # r /\ q'[s] = o /\ pc'[s] = "read"
      BY <3>1, <1>o, <1>w DEF QueueWaitOK, QueueWait
    <3>5. \A s \in Requests : pc'[s] = "read" /\ q'[s] = o => s # r /\ s \in qmu[o].readers \cup qmu[o].queued
      BY <2>1, <1>o DEF QueueWaitOK, QueueWait
    <3>6. qmu[o].writer # Nil => /\ q'[qmu[o].writer] = o
                                /\ pc'[qmu[o].writer] = pc[qmu[o].writer] /\ ClaimsQueue(qmu[o].writer)
      BY <3>1, <1>o, <1>w DEF QueueWaitOK, QueueWait
    <3>7. qmu[o].queued # {} => qmu[o].writer # Nil
      BY DEF QueueWaitOK, QueueWait
    <3> QED
      BY <3>3, <3>4, <3>5, <3>6, <3>7, <2>5, <2>2 DEF QueueWait, ClaimsQueue
  <2> QED
    BY <2>4, <2>5
<1>6. CASE Arrive(r) \/ Reject(r) \/ LockBroker(r) \/ Create(r) \/ Insert(r) \/ Delete(r) \/ Drain(r)
  BY <1>1, <1>6, <1>pc, <1>q DEF Arrive, Reject, LockBroker, Create, Insert, Delete, Drain, ClaimsQueue,
     ControlOK, Ops
<1>7. CASE RLockBroker(r) \/ GetQueue(r) \/ NewMessage(r) \/ RangeQueues(r) \/ ServeStats(r)
  BY <1>1, <1>7, <1>pc, <1>q DEF RLockBroker, GetQueue, NewMessage, RangeQueues, ServeStats, ClaimsQueue
<1>8. CASE Clear(r) \/ AppendMessage(r) \/ Pop(r) \/ (ReadHead(r) /\ ~UnlockQueue(r))
  <2>1. qmu' = qmu /\ pc[r] # "read" /\ pc'[r] # "read" /\ ClaimsQueue(r)' /\ q'[r] = q[r]
    BY <1>8, <1>pc DEF Clear, AppendMessage, Pop, ReadHead, ClaimsQueue
  <2> QED
    BY <1>1, <2>1
<1> QED
  BY <1>2, <1>3, <1>4, <1>5, <1>6, <1>7, <1>8 DEF Step, Acquire, Proceed, Zero, CountEnqueued, CountDequeued,
     ReadHead

\* At the start no mutex is held or awaited.
LEMMA WaitInit == Init => BrokerWaitOK /\ QueueWaitOK
PROOF
  BY DEF Init, BrokerWaitOK, QueueWaitOK, QueueWait, Unlocked, Mutex

\* Together with the inductive invariant, the two facts survive every step.
LEMMA WaitStep == IInv /\ BrokerWaitOK /\ QueueWaitOK /\ [Next]_vars => (BrokerWaitOK /\ QueueWaitOK)'
PROOF
<1> SUFFICES ASSUME IInv, BrokerWaitOK, QueueWaitOK, [Next]_vars
             PROVE  (BrokerWaitOK /\ QueueWaitOK)'
  OBVIOUS
<1>1. CASE UNCHANGED vars
  BY <1>1 DEF vars, handler, queue, locks, stack, BrokerWaitOK, QueueWaitOK, QueueWait, ClaimsBroker, ClaimsQueue
<1>2. ASSUME NEW r \in Requests, Step(r)
      PROVE  (BrokerWaitOK /\ QueueWaitOK)'
  BY <1>2, BrokerWaitStep, QueueWaitStep DEF IInv
<1> QED
  BY <1>1, <1>2 DEF Next, Quiescent

\* If nobody were ready, no queue's mutex would have a reader (a reader is), so
\* no writer either, so nobody would await one; then Broker.mu would have no
\* reader and no writer, so nobody would await it: nobody would be active.
LEMMA SomebodyIsReady == IInv /\ BrokerWaitOK /\ QueueWaitOK => NobodyStuck
PROOF
<1> SUFFICES ASSUME IInv, BrokerWaitOK, QueueWaitOK, NEW a \in Requests, Active(a),
                    \A r \in Requests : ~Ready(r)
             PROVE  FALSE
  BY DEF NobodyStuck
<1>t. /\ pc \in [Requests -> PCs] /\ bmu \in Mutexes /\ qmu \in [Requests -> Mutexes]
      /\ \A r \in Requests : HasQueue(r) => q[r] \in Requests
  BY DEF IInv, TypeOK, StackOK
<1>w. /\ bmu.writer \in Requests \cup {Nil} /\ bmu.readers \subseteq Requests /\ bmu.queued \subseteq Requests
      /\ \A o \in Requests : /\ qmu[o].writer \in Requests \cup {Nil}
                             /\ qmu[o].readers \subseteq Requests
  BY <1>t DEF Mutexes
<1>1. \A r \in Requests : pc[r] \notin {"insert", "zero", "newMessage", "enqueued", "pop", "dequeued",
                                        "b.RLock", "next"}
  BY DEF Ready, Active
<1>2. \A o \in Requests : qmu[o].readers = {}
  <2> SUFFICES ASSUME NEW o \in Requests, NEW s \in qmu[o].readers
               PROVE  FALSE
    OBVIOUS
  <2>1. s \in Requests /\ q[s] = o /\ pc[s] = "read"
    BY <1>w DEF QueueWaitOK, QueueWait
  <2> QED
    BY <2>1 DEF Ready, Active, ReadOwned
<1>3. \A r \in Requests : ~ClaimsQueue(r)
  <2> SUFFICES ASSUME NEW r \in Requests, ClaimsQueue(r)
               PROVE  FALSE
    OBVIOUS
  <2>1. pc[r] \in {"clear", "append", "head"} /\ q[r] \in Requests
    BY <1>1, <1>t DEF ClaimsQueue, HasQueue
  <2>2. qmu[q[r]].writer = r
    BY DEF IInv, QueueLockOK
  <2> QED
    BY <1>2, <2>1, <2>2 DEF Ready, Active, WriteOwned
<1>4. \A o \in Requests : qmu[o].writer = Nil /\ qmu[o].queued = {}
  BY <1>3, <1>w DEF QueueWaitOK, QueueWait
<1>5. \A r \in Requests : pc[r] \notin {"q.Lock", "read"}
  <2> SUFFICES ASSUME NEW r \in Requests, pc[r] \in {"q.Lock", "read"}
               PROVE  FALSE
    OBVIOUS
  <2>1. q[r] \in Requests
    BY <1>t DEF HasQueue
  <2>2. pc[r] = "q.Lock"
    BY <2>1, <1>2, <1>4 DEF QueueWaitOK, QueueWait
  <2> QED
    BY <2>1, <2>2, <1>4 DEF Ready, Active, MayAnnounce
<1>6. bmu.readers = {}
  BY <1>1, <1>5, <1>w DEF BrokerWaitOK, Ready, Active, ReadOwned
<1>7. bmu.writer = Nil
  <2> SUFFICES ASSUME bmu.writer # Nil
               PROVE  FALSE
    OBVIOUS
  <2>1. PICK r \in Requests : r = bmu.writer /\ ClaimsBroker(r)
    BY <1>w DEF BrokerWaitOK
  <2>2. pc[r] \in {"create", "delete", "drain"}
    BY <2>1, <1>1, <1>3, <1>5 DEF ClaimsBroker, ClaimsQueue
  <2> QED
    BY <2>1, <2>2, <1>6 DEF Ready, Active, WriteOwned
<1>8. \A r \in Requests : pc[r] \notin {"b.Lock", "create", "delete", "drain", "getQueue", "range"}
  <2> SUFFICES ASSUME NEW r \in Requests,
                      pc[r] \in {"b.Lock", "create", "delete", "drain", "getQueue", "range"}
               PROVE  FALSE
    OBVIOUS
  <2>1. CASE pc[r] = "b.Lock"
    BY <2>1, <1>7 DEF Ready, Active, MayAnnounce
  <2>2. CASE pc[r] \in {"create", "delete", "drain"}
    <3>1. bmu.writer = r
      BY <2>2 DEF IInv, BrokerLockOK, ClaimsBroker
    <3> QED
      BY <3>1, <1>7, NilAssumption
  <2>3. CASE pc[r] \in {"getQueue", "range"}
    BY <2>3, <1>6, <1>7 DEF BrokerWaitOK
  <2> QED
    BY <2>1, <2>2, <2>3
<1> QED
  BY <1>1, <1>3, <1>5, <1>8, <1>t DEF Active, PCs, ClaimsQueue

\* Whatever the number of requests and queues, the handlers never all wait for
\* each other: Broker.mu is taken before a queue's mu and never after.
THEOREM NoDeadlock == Spec => []NobodyStuck
PROOF
<1>1. Init => IInv /\ BrokerWaitOK /\ QueueWaitOK
  BY InitInv, WaitInit
<1>2. (IInv /\ BrokerWaitOK /\ QueueWaitOK) /\ [Next]_vars => (IInv /\ BrokerWaitOK /\ QueueWaitOK)'
  BY InductiveStep, WaitStep
<1> QED
  BY <1>1, <1>2, SomebodyIsReady, PTL DEF Spec

\* The code left at each place.
LEMMA LeftValues ==
  /\ Left["new"] = 8 /\ Left["b.Lock"] = 7 /\ Left["b.RLock"] = 7
  /\ Left["create"] = 6 /\ Left["delete"] = 6 /\ Left["drain"] = 6 /\ Left["getQueue"] = 6 /\ Left["range"] = 6
  /\ Left["insert"] = 5 /\ Left["newMessage"] = 5 /\ Left["q.Lock"] = 4
  /\ Left["clear"] = 3 /\ Left["append"] = 3 /\ Left["head"] = 3 /\ Left["pop"] = 2 /\ Left["read"] = 2
  /\ Left["zero"] = 1 /\ Left["enqueued"] = 1 /\ Left["dequeued"] = 1 /\ Left["next"] = 1 /\ Left["done"] = 0
PROOF
  BY DEF Left, PCs

\* Each step of each handler leads forward.
LEMMA StepIsNearer ==
  ASSUME TypeOK, ControlOK, NEW r \in Requests, Step(r)
  PROVE  NearerTheAnswer
PROOF
<1> USE DEF handler, stack, Goto, Answer
<1>pc. pc \in [Requests -> PCs] /\ todo \in [Requests -> SUBSET Names]
  BY DEF TypeOK
<1>1. \A s \in Requests \ {r} : pc'[s] = pc[s] /\ todo'[s] = todo[s]
  <2>1. \A s \in Requests \ {r} : pc'[s] = pc[s]
    BY OthersStep
  <2>2. (todo' = todo \/ RangeQueues(r) \/ RLockQueue(r))
    BY DEF Step, Acquire, Proceed, Arrive, Reject, LockBroker, Create, Insert, Delete, Drain, LockQueue,
       Clear, Zero, RLockBroker, GetQueue, NewMessage, AppendMessage, CountEnqueued, ReadHead, Pop,
       CountDequeued, ReadStat, ServeStats
  <2>3. \A s \in Requests \ {r} : todo'[s] = todo[s]
    BY <2>2, <1>pc DEF RangeQueues, RLockQueue
  <2> QED
    BY <2>1, <2>3
<1>2. CASE RLockQueue(r)
  BY <1>1, <1>2, <1>pc DEF RLockQueue, NearerTheAnswer, Nearer
<1>3. ASSUME Left[pc'[r]] < Left[pc[r]], todo' = todo \/ pc[r] = "range"
      PROVE  NearerTheAnswer
  BY <1>1, <1>3 DEF NearerTheAnswer, Nearer
<1>l. /\ pc[r] \in {"new"} /\ pc'[r] \in {"b.Lock", "b.RLock", "done"} => Left[pc'[r]] < Left[pc[r]]
      /\ pc[r] = "b.Lock" /\ pc'[r] \in {"create", "delete", "drain"} => Left[pc'[r]] < Left[pc[r]]
      /\ pc[r] = "b.RLock" /\ pc'[r] \in {"getQueue", "range"} => Left[pc'[r]] < Left[pc[r]]
      /\ pc[r] \in {"create", "delete", "drain", "getQueue", "range"}
           /\ pc'[r] \in {"insert", "newMessage", "q.Lock", "next", "done"} => Left[pc'[r]] < Left[pc[r]]
      /\ pc[r] \in {"insert", "newMessage"} /\ pc'[r] \in {"q.Lock", "done"} => Left[pc'[r]] < Left[pc[r]]
      /\ pc[r] = "q.Lock" /\ pc'[r] \in {"clear", "append", "head"} => Left[pc'[r]] < Left[pc[r]]
      /\ pc[r] \in {"clear", "append", "head"} /\ pc'[r] \in {"zero", "enqueued", "pop", "done"}
           => Left[pc'[r]] < Left[pc[r]]
      /\ pc[r] \in {"pop", "read"} /\ pc'[r] \in {"dequeued", "next"} => Left[pc'[r]] < Left[pc[r]]
      /\ pc[r] \in {"zero", "enqueued", "dequeued", "next"} /\ pc'[r] = "done" => Left[pc'[r]] < Left[pc[r]]
  BY LeftValues
<1>4. CASE Arrive(r) \/ Reject(r) \/ Acquire(r)
  BY <1>3, <1>l, <1>4, <1>pc DEF Arrive, Reject, Acquire, LockBroker, LockQueue, ControlOK
<1>5. CASE Create(r) \/ Insert(r) \/ Delete(r) \/ Drain(r) \/ Clear(r) \/ Zero(r)
  BY <1>3, <1>l, <1>5, <1>pc DEF Create, Insert, Delete, Drain, Clear, Zero
<1>6. CASE RLockBroker(r) \/ GetQueue(r) \/ NewMessage(r) \/ AppendMessage(r) \/ CountEnqueued(r) \/ RangeQueues(r)
  BY <1>3, <1>l, <1>6, <1>pc DEF RLockBroker, GetQueue, NewMessage, AppendMessage, CountEnqueued, RangeQueues
<1>7. CASE ReadHead(r) \/ Pop(r) \/ CountDequeued(r) \/ ReadStat(r) \/ ServeStats(r)
  BY <1>3, <1>l, <1>7, <1>pc DEF ReadHead, Pop, CountDequeued, ReadStat, ServeStats
<1> QED
  BY <1>2, <1>4, <1>5, <1>6, <1>7 DEF Step, Proceed

\* Every step of the broker brings a request nearer its answer: with the absence
\* of deadlock, what Answered owes to the code and not to the scheduler.
THEOREM EveryStepIsNearer == Spec => [][NearerTheAnswer]_vars
PROOF
<1>1. IInv /\ [Next]_vars => [NearerTheAnswer]_vars
  BY StepIsNearer DEF IInv, Next, Quiescent
<1> QED
  BY <1>1, Invariance, PTL DEF Spec
=============================================================================
