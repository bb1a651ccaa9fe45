---------------------------- MODULE QueueService ----------------------------
(***************************************************************************)
(* What kuard's message queue server promises, with no locks and no        *)
(* half-done updates: every operation takes effect in one step, between    *)
(* the arrival of its request and its answer, and what it answers is       *)
(* decided in that step.  Put and Get find their queue in an earlier step: *)
(* the queue may lose its name in between, and they still act on it.       *)
(* Stats lists the names in one step, visits each queue in a step of its   *)
(* own, and no name comes or goes while it does.                           *)
(***************************************************************************)
EXTENDS Integers, Sequences

CONSTANTS Requests, Names, Nil

VARIABLES
  op,      \* op[r]: what request r asks for, "none" before it arrives
  name,    \* name[r]: the queue r names, Nil for stats
  table,   \* table[n]: the queue that has name n, or Nil
  content, \* content[o]: the messages waiting in queue o, oldest first
  tally,   \* tally[o]: how many messages entered o, left it, were drained
  bound,   \* bound[r]: the queue that r found under its name
  taken,   \* taken[r]: the message r was given
  listing, \* the stats requests that have listed the names and not answered
  todo,    \* todo[r]: the queues r has listed and not visited
  report,  \* report[r]: what r has seen
  outcome  \* outcome[r]: the status r is answered with, 0 before it is decided

asked == <<op, name>>
stats == <<listing, todo, report>>
vars == <<asked, table, content, tally, bound, taken, stats, outcome>>

Init ==
  /\ op = [r \in Requests |-> "none"]
  /\ name = [r \in Requests |-> Nil]
  /\ table = [n \in Names |-> Nil]
  /\ content = [o \in Requests |-> <<>>]
  /\ tally = [o \in Requests |-> [in |-> 0, out |-> 0, drained |-> 0]]
  /\ bound = [r \in Requests |-> Nil]
  /\ taken = [r \in Requests |-> Nil]
  /\ listing = {}
  /\ todo = [r \in Requests |-> {}]
  /\ report = [r \in Requests |-> {}]
  /\ outcome = [r \in Requests |-> 0]

Pending(r, o) == op[r] = o /\ outcome[r] = 0
Decide(r, code) == outcome' = [outcome EXCEPT ![r] = code]

Call(r) ==
  /\ op[r] = "none"
  /\ \/ /\ \E o \in {"create", "delete", "drain", "enqueue", "dequeue"}, n \in Names :
             op' = [op EXCEPT ![r] = o] /\ name' = [name EXCEPT ![r] = n]
        /\ UNCHANGED outcome
     \/ /\ op' = [op EXCEPT ![r] = "stats"]
        /\ UNCHANGED <<name, outcome>>
     \/ /\ \E o \in {"create", "delete", "drain", "enqueue", "dequeue"} :
             op' = [op EXCEPT ![r] = o]
        /\ Decide(r, 400) \/ Decide(r, 500)
        /\ UNCHANGED name
  /\ UNCHANGED <<table, content, tally, bound, taken, stats>>

\* A name that exists cannot be created; the others need one that does.
Refuse(r) ==
  /\ \/ Pending(r, "create") /\ table[name[r]] # Nil
     \/ \E o \in {"delete", "drain", "enqueue", "dequeue"} :
          Pending(r, o) /\ bound[r] = Nil /\ table[name[r]] = Nil
     \/ Pending(r, "enqueue") /\ bound[r] # Nil
  /\ Decide(r, 400)
  /\ UNCHANGED <<asked, table, content, tally, bound, taken, stats>>

Create(r) ==
  /\ Pending(r, "create")
  /\ listing = {}
  /\ table[name[r]] = Nil
  /\ table' = [table EXCEPT ![name[r]] = r]
  /\ Decide(r, 200)
  /\ UNCHANGED <<asked, content, tally, bound, taken, stats>>

Delete(r) ==
  /\ Pending(r, "delete")
  /\ listing = {}
  /\ table[name[r]] # Nil
  /\ table' = [table EXCEPT ![name[r]] = Nil]
  /\ Decide(r, 200)
  /\ UNCHANGED <<asked, content, tally, bound, taken, stats>>

Drain(r) ==
  LET o == table[name[r]]
  IN /\ Pending(r, "drain")
     /\ listing = {}
     /\ o # Nil
     /\ content' = [content EXCEPT ![o] = <<>>]
     /\ tally' = [tally EXCEPT ![o].drained = @ + Len(content[o])]
     /\ Decide(r, 200)
     /\ UNCHANGED <<asked, table, bound, taken, stats>>

Find(r) ==
  /\ Pending(r, "enqueue") \/ Pending(r, "dequeue")
  /\ bound[r] = Nil
  /\ table[name[r]] # Nil
  /\ bound' = [bound EXCEPT ![r] = table[name[r]]]
  /\ UNCHANGED <<asked, table, content, tally, taken, stats, outcome>>

Put(r) ==
  /\ Pending(r, "enqueue")
  /\ bound[r] # Nil
  /\ content' = [content EXCEPT ![bound[r]] = Append(@, r)]
  /\ tally' = [tally EXCEPT ![bound[r]].in = @ + 1]
  /\ Decide(r, 200)
  /\ UNCHANGED <<asked, table, bound, taken, stats>>

Get(r) ==
  /\ Pending(r, "dequeue")
  /\ bound[r] # Nil
  /\ content[bound[r]] # <<>>
  /\ taken' = [taken EXCEPT ![r] = Head(content[bound[r]])]
  /\ content' = [content EXCEPT ![bound[r]] = Tail(@)]
  /\ tally' = [tally EXCEPT ![bound[r]].out = @ + 1]
  /\ Decide(r, 200)
  /\ UNCHANGED <<asked, table, bound, stats>>

GetNothing(r) ==
  /\ Pending(r, "dequeue")
  /\ bound[r] # Nil
  /\ content[bound[r]] = <<>>
  /\ Decide(r, 204)
  /\ UNCHANGED <<asked, table, content, tally, bound, taken, stats>>

List(r) ==
  /\ Pending(r, "stats")
  /\ r \notin listing
  /\ listing' = listing \cup {r}
  /\ todo' = [todo EXCEPT ![r] = {n \in Names : table[n] # Nil}]
  /\ UNCHANGED <<asked, table, content, tally, bound, taken, report, outcome>>

Seen(o) == [depth |-> Len(content[o]), enqueued |-> tally[o].in,
            dequeued |-> tally[o].out, drained |-> tally[o].drained]

Visit(r) ==
  /\ r \in listing
  /\ \E n \in todo[r] :
       /\ report' = [report EXCEPT ![r] = @ \cup {[name |-> n, stat |-> Seen(table[n])]}]
       /\ todo' = [todo EXCEPT ![r] = @ \ {n}]
  /\ UNCHANGED <<asked, table, content, tally, bound, taken, listing, outcome>>

Report(r) ==
  /\ r \in listing
  /\ todo[r] = {}
  /\ listing' = listing \ {r}
  /\ Decide(r, 200)
  /\ UNCHANGED <<asked, table, content, tally, bound, taken, todo, report>>

Next == \E r \in Requests :
  \/ Call(r) \/ Refuse(r) \/ Create(r) \/ Delete(r) \/ Drain(r)
  \/ Find(r) \/ Put(r) \/ Get(r) \/ GetNothing(r)
  \/ List(r) \/ Visit(r) \/ Report(r)

Spec == Init /\ [][Next]_vars
=============================================================================
