------------------------ MODULE MemqLinearizability ------------------------
(***************************************************************************)
(* The broker with an observer that sees only what clients see: requests   *)
(* arrive, answers come back.  The observer keeps every state a server     *)
(* could be in that runs each request at one instant between its arrival   *)
(* and its answer, and that has given exactly the answers seen so far.     *)
(* No such state left means that the answers have no sequential reading.   *)
(*                                                                         *)
(* Stats is the exception: it visits one queue after another while Put and *)
(* Get go on, so its records are of different instants and its answer as a *)
(* whole is of none.  The observer watches it collect them: each record    *)
(* has an instant of its own, and all the time the names are the same.     *)
(*                                                                         *)
(* This is stronger than QueueService for the clients: there a Put or Get  *)
(* finds its queue in one step and uses it in another, here in one.        *)
(***************************************************************************)
EXTENDS MemqBroker

VARIABLE worlds \* the sequential servers that explain the answers so far

\* A queue of a sequential server.  Its Nil is the name that has no queue.
SequentialQueues == [messages: Seq(Requests), enqueued: Int, dequeued: Int, drained: Int]
ASSUME NilIsNoQueue == Nil \notin SequentialQueues

Holding(ms, in, out, gone) == [messages |-> ms, enqueued |-> in, dequeued |-> out, drained |-> gone]
EmptyQueue == Holding(<<>>, 0, 0, 0)
Undecided == [status |-> 0]

\* A sequential server: its queues by name, and what it will answer to the
\* requests that it has run and that are not answered yet.
World(qs, answers) == [queues |-> qs, answers |-> answers]
Blank == World([n \in Names |-> Nil], [r \in Requests |-> Undecided])

Code(c) == [status |-> c]
Message(x) == [status |-> 200, message |-> x]

\* What running r can make of its queue c, and what r is answered then.
Outcomes(r, c) ==
  IF c = Nil
    THEN {IF op[r] = "create" THEN <<EmptyQueue, Code(200)>> ELSE <<Nil, Code(400)>>}
    ELSE CASE op[r] = "create" -> {<<c, Code(400)>>}
           [] op[r] = "delete" -> {<<Nil, Code(200)>>}
           [] op[r] = "drain" ->
                {<<Holding(<<>>, c.enqueued, c.dequeued, c.drained + Len(c.messages)), Code(200)>>}
           [] op[r] = "enqueue" ->
                {<<c, Code(400)>>,
                 <<Holding(Append(c.messages, r), c.enqueued + 1, c.dequeued, c.drained), Message(r)>>}
           [] op[r] = "dequeue" ->
                {IF c.messages = <<>> THEN <<c, Code(204)>>
                   ELSE <<Holding(Tail(c.messages), c.enqueued, c.dequeued + 1, c.drained),
                          Message(Head(c.messages))>>}

\* What the sequential server w may become by running r as a whole.
Sequential(w, r) ==
  {World([w.queues EXCEPT ![name[r]] = x[1]], [w.answers EXCEPT ![r] = x[2]]) :
     x \in Outcomes(r, w.queues[name[r]])}

Waiting == {r \in Requests : pc[r] \notin {"new", "done"} /\ op[r] # "stats"}

\* ws and the worlds that running one more waiting request leads to.
Grown(ws) == ws \cup UNION {Sequential(x[1], x[2]) :
                              x \in {y \in ws \X Waiting : y[1].answers[y[2]] = Undecided}}

\* The worlds that running some of the waiting requests, in any order, leads to.
Reachable ==
  LET ran[i \in 0..Cardinality(Waiting)] == IF i = 0 THEN worlds ELSE Grown(ran[i - 1])
  IN ran[Cardinality(Waiting)]

\* What r's client receives.
Received(r) == IF op[r] \in {"enqueue", "dequeue"} /\ status'[r] = 200 THEN Message(m'[r])
                                                                        ELSE Code(status'[r])

\* The worlds that give r this answer; once given, it need not be remembered.
Explain(r) == {World(w.queues, [w.answers EXCEPT ![r] = Undecided]) :
                 w \in {x \in Reachable : x.answers[r] = Received(r)}}

\* The record that Stats would take of queue n in w, and the names that Stats
\* has listed for r, visited or not.
RecordIn(w, n) == LET c == w.queues[n]
                  IN [name |-> n, stat |-> [depth |-> Len(c.messages), enqueued |-> c.enqueued,
                                            dequeued |-> c.dequeued, drained |-> c.drained]]
Listed(r) == todo[r] \cup {s.name : s \in stat[r]}

\* The worlds in which r's Stats can have seen what it has seen last.
Seen(r) == {w \in Reachable : /\ {n \in Names : w.queues[n] # Nil} = Listed(r)'
                              /\ pc[r] = "read" => RecordIn(w, name[r]) \in stat'[r]}

Answering == {r \in Waiting : pc'[r] = "done"}
Scanning == {r \in Requests : \/ pc[r] \in {"range", "read"} /\ pc'[r] = "next"
                              \/ pc[r] = "next" /\ pc'[r] = "done"}

Observe == worlds' = IF Answering # {} THEN UNION {Explain(r) : r \in Answering}
                     ELSE IF Scanning # {} THEN UNION {Seen(r) : r \in Scanning}
                     ELSE worlds

LInit == Init /\ worlds = {Blank}
LNext == Next /\ Observe
LSpec == LInit /\ [][LNext]_<<vars, worlds>>

\* The answers the clients have received so far are those of a server that
\* runs each request at one instant between its arrival and its answer, also
\* when Put and Get use a queue that was deleted or replaced meanwhile; and
\* each record of Stats is of one instant of it.
Linearizable == worlds # {}
=============================================================================
