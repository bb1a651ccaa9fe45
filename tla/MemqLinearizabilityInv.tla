---------------------- MODULE MemqLinearizabilityInv ----------------------
(***************************************************************************)
(* The inductive invariant of MemqLinearizability: why the observer always *)
(* has a world left.                                                       *)
(*                                                                         *)
(* While a queue has its name, the instant of a request that uses it is    *)
(* the answer: the mutexes let the updates of one queue end one at a time. *)
(* A Put or Get that finds its queue and then loses the name to a Delete   *)
(* is late: in a sequential server it runs just before that Delete, long   *)
(* before its answer is settled.  So the invariant speaks of futures: of   *)
(* all the answers that late requests may yet be given, every choice that  *)
(* can come true is in a world already.                                    *)
(***************************************************************************)
EXTENDS MemqLinearizability, MemqBrokerInv

\* A queue has its name for good: the table and the requests that use it know
\* it by the name it was created with.
NamesOK ==
  /\ \A n \in Names : table[n] # Nil => name[table[n]] = n
  /\ \A r \in Requests : op[r] # "stats" /\ q[r] # Nil => name[q[r]] = name[r]

\* While Stats is at work, the names it has listed, visited or not, are those
\* of the table.
InTable == {n \in Names : table[n] # Nil}
Visiting(r) == IF pc[r] = "read" THEN {name[r]} ELSE {}
ScanOK ==
  \A r \in Requests :
    /\ pc[r] \in {"new", "b.RLock", "range"} => stat[r] = {}
    /\ pc[r] \in {"next", "read"} => InTable = Listed(r) \cup Visiting(r)

\* A queue as a client could see it, had nobody half-done work on it, and how
\* it is related to what a sequential server holds: whoever is in the middle of
\* an update has not been run yet.
Now(o) == Holding(messages[o], enqueued[o], dequeued[o], drained[o])
Fits(o, c) ==
  \/ AtRest(o) /\ c = Now(o)
  \/ \E s \in Requests :
       /\ q[s] = o
       /\ \/ /\ pc[s] = "enqueued"
             /\ Now(o) = Holding(Append(c.messages, s), c.enqueued, c.dequeued, c.drained)
          \/ /\ pc[s] = "dequeued"
             /\ c.messages # <<>> /\ m[s] = Head(c.messages)
             /\ Now(o) = Holding(Tail(c.messages), c.enqueued, c.dequeued, c.drained)
          \/ /\ pc[s] = "zero"
             /\ Now(o) = Holding(<<>>, c.enqueued, c.dequeued, c.drained + Len(c.messages))

\* A queue has a name, or is used only by those who have found it before it
\* lost its name: these are late.
Live(o) == \E n \in Names : table[n] = o
Using(o) == {x \in Requests : q[x] = o /\ op[x] \in {"enqueue", "dequeue"} /\ pc[x] # "done"}
Late(x) == q[x] # Nil /\ ~Live(q[x]) /\ x \in Using(q[x])

Answers == {Undecided} \cup {Code(c) : c \in {200, 204, 400, 500}} \cup {Message(x) : x \in Requests}

\* F says what late requests will be answered.  It can come true for a queue
\* that holds c if the requests that F decides can be run on it one after
\* another, s[1] first, each to be answered so; the queue holds g[i] after i.
Scheduled(o, c, F, k, s, g) ==
  /\ s \in [1..k -> Using(o)] /\ \A i, j \in 1..k : s[i] = s[j] => i = j
  /\ g \in [0..k -> SequentialQueues] /\ g[0] = c
  /\ \A i \in 1..k : <<g[i], F[s[i]]>> \in Outcomes(s[i], g[i - 1])
  /\ \A x \in Using(o) : F[x] # Undecided => \E i \in 1..k : s[i] = x
Schedule(o, c, F) == \E k \in Nat : \E s, g : Scheduled(o, c, F, k, s, g)
Future(C, F) ==
  /\ \A x \in Requests : ~Late(x) => F[x] = Undecided
  /\ \A o \in Requests : ~Live(o) => Schedule(o, C[o], F)

\* The named queues of a sequential server, when C[o] is what queue o holds.
Named(C) == [n \in Names |-> IF table[n] = Nil THEN Nil ELSE C[table[n]]]

\* Some contents of the queues, such as clients could see them had nobody
\* half-done work on one, explain all answers with every future of the late.
Explains(C) == \A F \in [Requests -> Answers] : Future(C, F) => World(Named(C), F) \in worlds
Explained == \E C \in [Requests -> SequentialQueues] :
               (\A o \in Requests : Fits(o, C[o])) /\ Explains(C)

\* The inductive invariant of the broker with its observer.
LInv == IInv /\ NamesOK /\ ScanOK /\ IsFiniteSet(Waiting) /\ Explained
=============================================================================
