-------------------------- MODULE WorkQueueProofs ---------------------------
(***************************************************************************)
(* No item of the work queue is worked on twice, a fault loses one item at *)
(* most, and a worker that exits leaves none behind: for any number of     *)
(* workers, calls, scripts and faults.                                     *)
(***************************************************************************)
EXTENDS WorkQueue, FiniteSetTheorems, TLAPS

\* What a call is in the middle of.
CallsOK ==
  \A r \in Calls :
    /\ op[r] = "enqueue" => r \in Items
    /\ op[r] \notin {"none", "stats"} => name[r] \in Names
    /\ r \in Gets => op[r] \in {"none", "dequeue"}
    /\ op[r] = "none" => outcome[r] = 0 /\ taken[r] = Nil
    /\ taken[r] # Nil <=> op[r] = "dequeue" /\ outcome[r] = 200
    /\ r \in listing => op[r] = "stats"

NotWaiting(i) == \A o \in Calls : \A j \in 1..Len(content[o]) : content[o][j] # i

\* An accepted item is in one place at most: in a queue once, in one answer, with
\* one worker, or done.
WaitingOK ==
  /\ \A o \in Calls : \A j \in 1..Len(content[o]) : content[o][j] \in Accepted
  /\ \A o, p \in Calls : \A j \in 1..Len(content[o]), k \in 1..Len(content[p]) :
       content[o][j] = content[p][k] => o = p /\ j = k
TakenOK ==
  \A r \in Calls : taken[r] # Nil =>
    /\ taken[r] \in Accepted /\ NotWaiting(taken[r])
    /\ \A s \in Calls : s # r => taken[s] # taken[r]
ItemOK ==
  \A w \in Workers : item[w] # Nil =>
    /\ item[w] \in Accepted /\ NotWaiting(item[w])
    /\ \A r \in Calls : taken[r] # item[w]
    /\ \A v \in Workers : v # w => item[v] # item[w]
DoneOK ==
  \A i \in Items : done[i] # 0 =>
    /\ done[i] = 1
    /\ i \in Accepted /\ NotWaiting(i)
    /\ \A r \in Calls : taken[r] # i
    /\ \A w \in Workers : item[w] # i

Places == WaitingOK /\ TakenOK /\ ItemOK /\ DoneOK

WInv == TypeOK /\ CallsOK /\ Places

LEMMA ItemsFact == Items \subseteq Calls /\ Items \cap Gets = {} /\ Nil \notin Items
<1> DEFINE Line == [call : Calls \ Gets, op : {"create", "enqueue", "drain", "delete", "stats"}]
<1> SUFFICES ASSUME NEW i \in Items
             PROVE  i \in Calls \ Gets /\ i # Nil
  OBVIOUS
<1>1. PICK s \in Scripts : \E k \in 1..Len(s) : i = s[k].call
  BY DEF Items, Elements
<1>4. PICK k \in 1..Len(s) : i = s[k].call
  BY <1>1
<1>2. s \in Seq(Line)
  BY WorkQueueAssumption
<1>3. s[k] \in Line
  <2> HIDE DEF Line
  <2> QED
    BY <1>2
<1> QED
  BY <1>4, <1>3, ClientAssumption

\* What neither moves items about nor takes back an answer keeps them in place.
LEMMA PlacesKept ==
  ASSUME TypeOK, Places, content' = content, done' = done, Accepted \subseteq Accepted',
         \A r \in Calls : taken'[r] \in {taken[r], Nil},
         \A w \in Workers : item'[w] \in {item[w], Nil}
  PROVE  Places'
<1>1. \A i : NotWaiting(i) => NotWaiting(i)'
  BY DEF NotWaiting
<1>2. WaitingOK'
  BY DEF Places, WaitingOK
<1>3. TakenOK'
  BY <1>1 DEF Places, TakenOK
<1>4. ItemOK'
  <2> SUFFICES ASSUME NEW w \in Workers, item'[w] # Nil
               PROVE  /\ item'[w] \in Accepted' /\ NotWaiting(item[w])'
                      /\ item'[w] = item[w]
                      /\ \A r \in Calls : taken'[r] # item'[w]
                      /\ \A v \in Workers : v # w => item'[v] # item'[w]
    BY DEF ItemOK
  <2>1. item'[w] = item[w] /\ item[w] # Nil
    OBVIOUS
  <2>2. item'[w] \in Accepted' /\ NotWaiting(item[w])'
    BY <2>1, <1>1 DEF Places, ItemOK
  <2>3. \A r \in Calls : taken'[r] # item'[w]
    BY <2>1 DEF Places, ItemOK
  <2>4. \A v \in Workers : v # w => item'[v] # item'[w]
    BY <2>1 DEF Places, ItemOK
  <2> QED
    BY <2>1, <2>2, <2>3, <2>4
<1>5. DoneOK'
  <2> SUFFICES ASSUME NEW i \in Items, done'[i] # 0
               PROVE  /\ done'[i] = 1
                      /\ i \in Accepted' /\ NotWaiting(i)'
                      /\ \A r \in Calls : taken'[r] # i
                      /\ \A w \in Workers : item'[w] # i
    BY DEF DoneOK
  <2>1. i # Nil
    BY ItemsFact
  <2> QED
    BY <2>1, <1>1 DEF Places, DoneOK
<1> QED
  BY <1>2, <1>3, <1>4, <1>5 DEF Places

LEMMA WInitially == Init => WInv
<1> SUFFICES ASSUME Init
             PROVE  WInv
  OBVIOUS
<1>1. ClientTypeOK
  <2>1. content \in [Calls -> Seq(Calls)]
    BY DEF Init, ClientInit, Server!Init
  <2>2. faults \in 0..MaxFaults
    BY ClientAssumption DEF Init, ClientInit
  <2>3. restarted \in BOOLEAN
    BY DEF Init, ClientInit
  <2> QED
    BY <2>1, <2>2, <2>3 DEF Init, ClientInit, Server!Init, ClientTypeOK
<1>2. script \in Scripts /\ line \in 1..(Len(script) + 1)
  BY WorkQueueAssumption DEF Init
<1>3. TypeOK
  BY <1>1, <1>2 DEF Init, TypeOK
<1>4. CallsOK
  BY DEF Init, ClientInit, Server!Init, CallsOK
<1>5. Places
  BY DEF Init, ClientInit, Server!Init, Places, WaitingOK, TakenOK, ItemOK, DoneOK
<1> QED
  BY <1>3, <1>4, <1>5 DEF WInv

-----------------------------------------------------------------------------
(* The functions of the client *)

\* A call that is sent.
LEMMA DoKeeps ==
  ASSUME WInv, NEW r \in Calls, NEW o, NEW n, Do(r, o, n),
         o \in {"create", "delete", "drain", "enqueue", "dequeue", "stats"},
         o # "stats" => n \in Names, o = "stats" => n = Nil,
         o = "enqueue" => r \in Items, r \in Gets => o = "dequeue"
  PROVE  /\ ClientTypeOK' /\ CallsOK'
         /\ content' = content /\ taken' = taken
         /\ Accepted \subseteq Accepted'
<1> USE DEF WInv, TypeOK
<1>1. CASE wire' = [wire EXCEPT ![r] = "open"] /\ Server!Call(r) /\ UNCHANGED trouble
           /\ op' = [op EXCEPT ![r] = o] /\ name' = [name EXCEPT ![r] = n] /\ UNCHANGED outcome
  <2>1. /\ op[r] = "none" /\ op'[r] = o /\ name'[r] = n
        /\ UNCHANGED <<table, content, bound, taken, outcome, listing>>
    BY <1>1 DEF Server!Call, Server!stats, ClientTypeOK
  <2>2. ClientTypeOK'
    BY <1>1, <2>1 DEF ClientTypeOK, trouble
  <2>3. CallsOK'
    BY <1>1, <2>1 DEF CallsOK, ClientTypeOK
  <2>4. Accepted \subseteq Accepted'
    BY <1>1, <2>1 DEF Accepted, ClientTypeOK
  <2> QED
    BY <2>1, <2>2, <2>3, <2>4
<1>2. CASE wire' = [wire EXCEPT ![r] = "broken"] /\ Fault /\ UNCHANGED <<service, restarted>>
  <2>1. ClientTypeOK'
    BY <1>2, ClientAssumption DEF ClientTypeOK, Fault, service
  <2> QED
    BY <1>2, <2>1 DEF CallsOK, service, Accepted
<1> QED
  BY <1>1, <1>2 DEF Do, Wire

\* A call that is over, as far as its caller is concerned: the item in its answer
\* is in no answer any more.
LEMMA LeaveKeeps ==
  ASSUME WInv, NEW r \in Calls, Leave(r), faults' \in 0..MaxFaults, restarted' = restarted
  PROVE  /\ ClientTypeOK' /\ CallsOK'
         /\ content' = content
         /\ \A s \in Calls : taken'[s] \in {taken[s], Nil}
         /\ taken'[r] = Nil
         /\ Accepted \subseteq Accepted'
<1> USE DEF WInv, TypeOK
<1>1. CASE op[r] \in {"none", "dequeue"} /\ Through(r)
  <2>1. Recycled(r)
    BY <1>1 DEF Leave
  <2>2. ClientTypeOK'
    BY <2>1 DEF Recycled, ClientTypeOK
  <2>3. CallsOK'
    <3>1. r \notin listing
      BY <1>1 DEF CallsOK
    <3> QED
      BY <2>1, <3>1 DEF Recycled, ClientTypeOK, CallsOK
  <2>4. Accepted \subseteq Accepted'
    BY <1>1, <2>1 DEF Recycled, ClientTypeOK, Accepted
  <2> QED
    BY <2>1, <2>2, <2>3, <2>4 DEF Recycled, ClientTypeOK
<1>2. CASE ~(op[r] \in {"none", "dequeue"} /\ Through(r))
  <2>1. wire' = [wire EXCEPT ![r] = "returned"] /\ UNCHANGED service
    BY <1>2 DEF Leave
  <2>2. taken[r] = Nil
    BY <1>2 DEF CallsOK, Through
  <2>3. ClientTypeOK'
    BY <2>1 DEF service, ClientTypeOK
  <2> QED
    BY <2>1, <2>2, <2>3 DEF service, CallsOK, Accepted
<1> QED
  BY <1>1, <1>2

-----------------------------------------------------------------------------
(* The server *)

LEMMA AppendFact ==
  ASSUME NEW l \in Seq(Calls), NEW r \in Calls
  PROVE  /\ Append(l, r) \in Seq(Calls)
         /\ Len(Append(l, r)) = Len(l) + 1
         /\ Len(l) \in Nat
         /\ \A j \in 1..Len(l) : Append(l, r)[j] = l[j]
         /\ Append(l, r)[Len(l) + 1] = r
OBVIOUS

LEMMA TailFact ==
  ASSUME NEW l \in Seq(Calls), l # <<>>
  PROVE  /\ Head(l) \in Calls /\ Head(l) = l[1]
         /\ Tail(l) \in Seq(Calls)
         /\ Len(l) \in Nat /\ Len(l) >= 1
         /\ Len(Tail(l)) = Len(l) - 1
         /\ \A j \in 1..Len(l) - 1 : Tail(l)[j] = l[j + 1]
OBVIOUS

\* A request is decided, a Dequeue without a message.
Settled(r) ==
  /\ outcome[r] = 0 \/ r \in listing
  /\ op[r] # "none"
  /\ \E code \in {200, 204, 400} :
       outcome' = [outcome EXCEPT ![r] = code] /\ (op[r] = "dequeue" => code # 200)

\* What only decides about a request.
LEMMA DecideKeeps ==
  ASSUME WInv, NEW r \in Calls, UNCHANGED <<wire, trouble, player, work, op, name, content, taken>>,
         table' \in [Names -> Calls \cup {Nil}], bound' \in [Calls -> Calls \cup {Nil}],
         \A s \in Calls : s \in listing' => op[s] = "stats",
         UNCHANGED outcome \/ Settled(r)
  PROVE  WInv'
<1> USE DEF WInv, TypeOK
<1>0. /\ \A s \in Calls : s # r => outcome'[s] = outcome[s]
      /\ \/ outcome'[r] = outcome[r]
         \/ /\ outcome[r] = 0 \/ op[r] = "stats"
            /\ op[r] # "none"
            /\ outcome'[r] \in {200, 204, 400}
            /\ op[r] = "dequeue" => outcome'[r] # 200 /\ outcome[r] = 0
      /\ outcome' \in [Calls -> {0, 200, 204, 400, 500, 503}]
  <2>1. CASE UNCHANGED outcome
    BY <2>1 DEF ClientTypeOK
  <2>2. CASE Settled(r)
    <3>1. PICK code \in {200, 204, 400} :
            outcome' = [outcome EXCEPT ![r] = code] /\ (op[r] = "dequeue" => code # 200)
      BY <2>2 DEF Settled
    <3>2. r \in listing => op[r] = "stats"
      BY DEF CallsOK
    <3> QED
      BY <2>2, <3>1, <3>2 DEF ClientTypeOK, Settled
  <2> QED
    BY <2>1, <2>2
<1>1. outcome' \in [Calls -> {0, 200, 204, 400, 500, 503}]
  BY <1>0
<1>2. TypeOK'
  BY <1>1 DEF ClientTypeOK, trouble, player, work
<1>3. CallsOK'
  BY <1>0 DEF CallsOK
<1>4. Accepted \subseteq Accepted'
  <2> SUFFICES ASSUME NEW i \in Items, op[i] = "enqueue", outcome[i] = 200
               PROVE  outcome'[i] = 200
    BY DEF Accepted
  <2> QED
    BY <1>0, ItemsFact
<1>5. Places'
  BY <1>4, PlacesKept DEF work
<1> QED
  BY <1>2, <1>3, <1>5

\* A queue is emptied.
LEMMA DrainKeeps ==
  ASSUME WInv, NEW r \in Calls, Server!Drain(r), UNCHANGED <<wire, trouble, player, work>>
  PROVE  WInv'
<1> DEFINE o == table[name[r]]
<1> USE DEF WInv, TypeOK
<1>1. /\ op[r] = "drain" /\ outcome[r] = 0
      /\ content' = [content EXCEPT ![o] = <<>>]
      /\ outcome' = [outcome EXCEPT ![r] = 200]
      /\ UNCHANGED <<op, name, table, bound, taken, listing>>
  BY DEF Server!Drain, Server!Pending, Server!Decide, Server!asked, Server!stats
<1>2. content' \in [Calls -> Seq(Calls)]
  <2>1. <<>> \in Seq(Calls)
    OBVIOUS
  <2> QED
    BY ZenonT(30), <1>1, <2>1 DEF ClientTypeOK
<1>3. TypeOK'
  BY <1>1, <1>2 DEF ClientTypeOK, trouble, player, work
<1>4. CallsOK'
  BY <1>1 DEF CallsOK, ClientTypeOK
<1>5. Accepted \subseteq Accepted'
  BY <1>1 DEF Accepted, ClientTypeOK
<1>6. \A p \in Calls : content'[p] = content[p] \/ content'[p] = <<>>
  BY <1>1 DEF ClientTypeOK
<1>7. \A p \in Calls : \A j \in 1..Len(content'[p]) :
        content'[p] = content[p] /\ j \in 1..Len(content[p])
  BY <1>6
<1>8. \A i : NotWaiting(i) => NotWaiting(i)'
  BY <1>7 DEF NotWaiting
<1>9. WaitingOK'
  BY SMTT(15), <1>5, <1>7 DEF Places, WaitingOK
<1>10. TakenOK' /\ ItemOK' /\ DoneOK'
  BY <1>1, <1>5, <1>8 DEF Places, TakenOK, ItemOK, DoneOK, work
<1> QED
  BY <1>3, <1>4, <1>9, <1>10 DEF Places

\* An item is accepted: it was nowhere before.
LEMMA PutKeeps ==
  ASSUME WInv, NEW r \in Calls, Server!Put(r), UNCHANGED <<wire, trouble, player, work>>
  PROVE  WInv'
<1> DEFINE o == bound[r]
<1> USE DEF WInv, TypeOK
<1>1. /\ op[r] = "enqueue" /\ outcome[r] = 0 /\ o \in Calls
      /\ content' = [content EXCEPT ![o] = Append(content[o], r)]
      /\ outcome' = [outcome EXCEPT ![r] = 200]
      /\ UNCHANGED <<op, name, table, bound, taken, listing>>
  BY DEF Server!Put, Server!Pending, Server!Decide, Server!asked, Server!stats, ClientTypeOK
<1>2. /\ content[o] \in Seq(Calls) /\ content'[o] = Append(content[o], r)
      /\ \A p \in Calls : p # o => content'[p] = content[p]
  BY <1>1 DEF ClientTypeOK
<1>3. content' \in [Calls -> Seq(Calls)]
  BY <1>1, <1>2, AppendFact DEF ClientTypeOK
<1>4. TypeOK'
  BY <1>1, <1>3 DEF ClientTypeOK, trouble, player, work
<1>5. CallsOK'
  BY <1>1 DEF CallsOK, ClientTypeOK
<1>6. Accepted \subseteq Accepted' /\ r \in Accepted' /\ r \notin Accepted
  BY <1>1 DEF Accepted, ClientTypeOK, CallsOK
<1>7. \A p \in Calls : \A j \in 1..Len(content'[p]) :
        \/ j \in 1..Len(content[p]) /\ content'[p][j] = content[p][j]
        \/ p = o /\ j = Len(content[o]) + 1 /\ content'[p][j] = r
  <2> SUFFICES ASSUME NEW p \in Calls, NEW j \in 1..Len(content'[p])
               PROVE  \/ j \in 1..Len(content[p]) /\ content'[p][j] = content[p][j]
                      \/ p = o /\ j = Len(content[o]) + 1 /\ content'[p][j] = r
    OBVIOUS
  <2>1. CASE p # o
    BY <2>1, <1>2
  <2>2. CASE p = o
    BY <2>2, <1>2, AppendFact
  <2> QED
    BY <2>1, <2>2
<1>8. \A i : i # r /\ NotWaiting(i) => NotWaiting(i)'
  BY <1>7 DEF NotWaiting
<1>9. WaitingOK'
  <2>1. \A p \in Calls : \A j \in 1..Len(content'[p]) : content'[p][j] \in Accepted'
    BY SMTT(15), <1>6, <1>7 DEF Places, WaitingOK
  <2>2. \A p \in Calls : \A j \in 1..Len(content[p]) : content[p][j] # r
    BY <1>6 DEF Places, WaitingOK
  <2>3. ASSUME NEW p \in Calls, NEW q \in Calls,
               NEW j \in 1..Len(content'[p]), NEW k \in 1..Len(content'[q]),
               content'[p][j] = content'[q][k]
        PROVE  p = q /\ j = k
    <3>1. CASE content'[p][j] = r
      BY <3>1, <2>2, <2>3, <1>7
    <3>2. CASE content'[p][j] # r
      <4>1. /\ j \in 1..Len(content[p]) /\ content'[p][j] = content[p][j]
            /\ k \in 1..Len(content[q]) /\ content'[q][k] = content[q][k]
        BY <3>2, <2>3, <1>7
      <4>2. \A x \in 1..Len(content[p]), y \in 1..Len(content[q]) :
              content[p][x] = content[q][y] => p = q /\ x = y
        BY DEF Places, WaitingOK
      <4>3. content[p][j] = content[q][k]
        BY <4>1, <2>3
      <4> QED
        BY <4>1, <4>2, <4>3
    <3> QED
      BY <3>1, <3>2
  <2> QED
    BY <2>1, <2>3 DEF WaitingOK
<1>10. TakenOK' /\ ItemOK' /\ DoneOK'
  BY <1>1, <1>6, <1>8 DEF Places, TakenOK, ItemOK, DoneOK, work
<1> QED
  BY <1>4, <1>5, <1>9, <1>10 DEF Places

\* An item leaves its queue for the answer of one Dequeue.
LEMMA GetKeeps ==
  ASSUME WInv, NEW r \in Calls, Server!Get(r), UNCHANGED <<wire, trouble, player, work>>,
         NEW o \in Calls, o = bound[r], NEW i, i = content[o][1]
  PROVE  WInv'
<1> USE DEF WInv, TypeOK
<1>1. /\ op[r] = "dequeue" /\ outcome[r] = 0 /\ o \in Calls
      /\ content[o] \in Seq(Calls) /\ content[o] # <<>>
      /\ content' = [content EXCEPT ![o] = Tail(content[o])]
      /\ outcome' = [outcome EXCEPT ![r] = 200]
      /\ taken' = [taken EXCEPT ![r] = Head(content[o])]
      /\ UNCHANGED <<op, name, table, bound, listing>>
  BY DEF Server!Get, Server!Pending, Server!Decide, Server!asked, Server!stats, ClientTypeOK
<1>2. /\ i \in Calls /\ i = Head(content[o]) /\ 1 \in 1..Len(content[o]) /\ i # Nil
      /\ Tail(content[o]) \in Seq(Calls)
  BY <1>1, TailFact, ClientAssumption
<1>3. /\ content' \in [Calls -> Seq(Calls)]
      /\ taken' \in [Calls -> Calls \cup {Nil}] /\ taken'[r] = i
      /\ \A s \in Calls : s # r => taken'[s] = taken[s]
  BY <1>1, <1>2 DEF ClientTypeOK
<1>4. TypeOK'
  BY <1>1, <1>3 DEF ClientTypeOK, trouble, player, work
<1>5. CallsOK'
  BY <1>1, <1>2, <1>3 DEF CallsOK, ClientTypeOK
<1>6. Accepted \subseteq Accepted' /\ i \in Accepted
  <2>1. Accepted \subseteq Accepted'
    BY <1>1 DEF Accepted, ClientTypeOK
  <2> QED
    BY <2>1, <1>1, <1>2 DEF Places, WaitingOK
<1>7. \A p \in Calls : \A j \in 1..Len(content'[p]) :
        \E k \in 1..Len(content[p]) :
          /\ content'[p][j] = content[p][k]
          /\ k = IF p = o THEN j + 1 ELSE j
  <2> SUFFICES ASSUME NEW p \in Calls, NEW j \in 1..Len(content'[p])
               PROVE  \E k \in 1..Len(content[p]) :
                        /\ content'[p][j] = content[p][k]
                        /\ k = IF p = o THEN j + 1 ELSE j
    OBVIOUS
  <2>1. CASE p # o
    <3>1. content'[p] = content[p]
      BY <2>1, <1>1 DEF ClientTypeOK
    <3> QED
      BY <3>1, <2>1
  <2>2. CASE p = o
    <3>1. content'[p] = Tail(content[o])
      BY <2>2, <1>1 DEF ClientTypeOK
    <3>2. j \in 1..Len(content[o]) - 1
      BY <3>1, <1>1, TailFact
    <3>3. content'[p][j] = content[o][j + 1] /\ j + 1 \in 1..Len(content[o])
      BY <3>1, <3>2, <1>1, TailFact
    <3> QED
      BY <3>3, <2>2
  <2> QED
    BY <2>1, <2>2
<1>8. \A h : NotWaiting(h) => NotWaiting(h)'
  BY <1>7 DEF NotWaiting
<1>9. NotWaiting(i)'
  <2> SUFFICES ASSUME NEW p \in Calls, NEW j \in 1..Len(content'[p]), content'[p][j] = i
               PROVE  FALSE
    BY DEF NotWaiting
  <2>1. PICK k \in 1..Len(content[p]) :
          content'[p][j] = content[p][k] /\ k = IF p = o THEN j + 1 ELSE j
    BY <1>7
  <2>2. p = o /\ k = 1
    BY <2>1, <1>1, <1>2 DEF Places, WaitingOK
  <2>3. j \in 1..Len(content'[p]) /\ j >= 1
    OBVIOUS
  <2> QED
    BY <2>1, <2>2, <2>3
<1>10. WaitingOK'
  <2>1. \A p \in Calls : \A j \in 1..Len(content'[p]) : content'[p][j] \in Accepted'
    BY SMTT(15), <1>6, <1>7 DEF Places, WaitingOK
  <2>2. ASSUME NEW p \in Calls, NEW q \in Calls,
               NEW j \in 1..Len(content'[p]), NEW k \in 1..Len(content'[q]),
               content'[p][j] = content'[q][k]
        PROVE  p = q /\ j = k
    <3>1. PICK jj \in 1..Len(content[p]) :
            content'[p][j] = content[p][jj] /\ jj = IF p = o THEN j + 1 ELSE j
      BY <1>7
    <3>2. PICK kk \in 1..Len(content[q]) :
            content'[q][k] = content[q][kk] /\ kk = IF q = o THEN k + 1 ELSE k
      BY <1>7
    <3>3. p = q /\ jj = kk
      BY <3>1, <3>2, <2>2 DEF Places, WaitingOK
    <3> QED
      BY <3>1, <3>2, <3>3
  <2> QED
    BY <2>1, <2>2 DEF WaitingOK
\* Nobody else has the item that was in the queue.
<1>11. /\ \A s \in Calls : taken[s] # i
       /\ \A w \in Workers : item[w] # i
       /\ i \in Items => done[i] = 0
  <2>1. ~NotWaiting(i)
    BY <1>1, <1>2 DEF NotWaiting
  <2> QED
    BY <2>1, <1>2 DEF Places, TakenOK, ItemOK, DoneOK
<1>12. TakenOK'
  <2> SUFFICES ASSUME NEW s \in Calls, taken'[s] # Nil
               PROVE  /\ taken'[s] \in Accepted' /\ NotWaiting(taken[s])'
                      /\ \A t \in Calls : t # s => taken'[t] # taken'[s]
    BY DEF TakenOK
  <2>1. CASE s = r
    <3>1. taken'[s] = i /\ \A t \in Calls : t # s => taken'[t] # i
      BY <2>1, <1>3, <1>11
    <3>2. NotWaiting(taken[s])'
      BY <3>1, <1>9 DEF NotWaiting
    <3> QED
      BY <3>1, <3>2, <1>6
  <2>2. CASE s # r
    <3>1. taken'[s] = taken[s] /\ taken[s] # i
      BY <2>2, <1>3, <1>11
    <3>2. /\ taken[s] \in Accepted /\ NotWaiting(taken[s])
          /\ \A t \in Calls : t # s => taken[t] # taken[s]
      BY <3>1 DEF Places, TakenOK
    <3>3. NotWaiting(taken[s])'
      <4>1. \A h : h = taken[s] => NotWaiting(h)'
        BY <3>2, <1>8
      <4> QED
        BY <3>1, <4>1 DEF NotWaiting
    <3>4. \A t \in Calls : t # s => taken'[t] # taken'[s]
      BY <3>1, <3>2, <1>3
    <3> QED
      BY <3>1, <3>2, <3>3, <3>4, <1>6
  <2> QED
    BY <2>1, <2>2
<1>13. ItemOK'
  <2> SUFFICES ASSUME NEW w \in Workers, item[w] # Nil
               PROVE  /\ item[w] \in Accepted' /\ NotWaiting(item[w])'
                      /\ \A t \in Calls : taken'[t] # item[w]
                      /\ \A v \in Workers : v # w => item[v] # item[w]
    BY DEF ItemOK, work, NotWaiting
  <2>1. /\ item[w] \in Accepted /\ NotWaiting(item[w])
        /\ \A t \in Calls : taken[t] # item[w]
        /\ \A v \in Workers : v # w => item[v] # item[w]
    BY DEF Places, ItemOK
  <2>2. \A t \in Calls : taken'[t] # item[w]
    BY <2>1, <1>3, <1>11
  <2>3. NotWaiting(item[w])'
    BY <2>1, <1>8 DEF NotWaiting, work
  <2> QED
    BY <2>1, <2>2, <2>3, <1>6
<1>14. DoneOK'
  <2> SUFFICES ASSUME NEW h \in Items, done[h] # 0
               PROVE  /\ done[h] = 1
                      /\ h \in Accepted' /\ NotWaiting(h)'
                      /\ \A t \in Calls : taken'[t] # h
                      /\ \A w \in Workers : item[w] # h
    BY DEF DoneOK, work
  <2>1. /\ done[h] = 1 /\ h \in Accepted /\ NotWaiting(h)
        /\ \A t \in Calls : taken[t] # h
        /\ \A w \in Workers : item[w] # h
    BY DEF Places, DoneOK
  <2>2. \A t \in Calls : taken'[t] # h
    BY <2>1, <1>3, <1>11
  <2> QED
    BY <2>1, <2>2, <1>6, <1>8
<1> QED
  BY <1>4, <1>5, <1>10, <1>12, <1>13, <1>14 DEF Places

\* One request, one step of the server.
LEMMA ServeKeeps ==
  ASSUME WInv, NEW r \in Calls, Serve(r), UNCHANGED <<player, work>>
  PROVE  WInv'
<1> USE DEF Server!Pending, Server!Decide, Server!asked, Server!stats
<1>0. UNCHANGED <<wire, trouble>>
  BY DEF Serve
<1>1. /\ \A s \in Calls : s \in listing => op[s] = "stats"
      /\ op[r] \notin {"none", "stats"} => name[r] \in Names
      /\ table \in [Names -> Calls \cup {Nil}] /\ bound \in [Calls -> Calls \cup {Nil}]
  BY DEF WInv, CallsOK, TypeOK, ClientTypeOK
<1>2. CASE Server!Refuse(r)
  <2>1. /\ outcome[r] = 0 /\ op[r] # "none" /\ outcome' = [outcome EXCEPT ![r] = 400]
        /\ UNCHANGED <<op, name, table, content, bound, taken, listing>>
    BY <1>2 DEF Server!Refuse
  <2>2. Settled(r)
    BY <2>1 DEF Settled
  <2>3. /\ table' \in [Names -> Calls \cup {Nil}] /\ bound' \in [Calls -> Calls \cup {Nil}]
        /\ \A s \in Calls : s \in listing' => op[s] = "stats"
    BY <2>1, <1>1
  <2> QED
    BY <1>0, <2>1, <2>2, <2>3, DecideKeeps
<1>3. CASE Server!Create(r)
  <2>1. /\ op[r] = "create" /\ outcome[r] = 0 /\ outcome' = [outcome EXCEPT ![r] = 200]
        /\ table' = [table EXCEPT ![name[r]] = r]
        /\ UNCHANGED <<op, name, content, bound, taken, listing>>
    BY <1>3 DEF Server!Create
  <2>2. Settled(r)
    BY <2>1 DEF Settled
  <2>3. /\ table' \in [Names -> Calls \cup {Nil}] /\ bound' \in [Calls -> Calls \cup {Nil}]
        /\ \A s \in Calls : s \in listing' => op[s] = "stats"
    BY <2>1, <1>1
  <2> QED
    BY <1>0, <2>1, <2>2, <2>3, DecideKeeps
<1>4. CASE Server!Delete(r)
  <2>1. /\ op[r] = "delete" /\ outcome[r] = 0 /\ outcome' = [outcome EXCEPT ![r] = 200]
        /\ table' = [table EXCEPT ![name[r]] = Nil]
        /\ UNCHANGED <<op, name, content, bound, taken, listing>>
    BY <1>4 DEF Server!Delete
  <2>2. Settled(r)
    BY <2>1 DEF Settled
  <2>3. /\ table' \in [Names -> Calls \cup {Nil}] /\ bound' \in [Calls -> Calls \cup {Nil}]
        /\ \A s \in Calls : s \in listing' => op[s] = "stats"
    BY <2>1, <1>1
  <2> QED
    BY <1>0, <2>1, <2>2, <2>3, DecideKeeps
<1>5. CASE Server!Find(r)
  <2>1. /\ op[r] \in {"enqueue", "dequeue"}
        /\ bound' = [bound EXCEPT ![r] = table[name[r]]]
        /\ UNCHANGED <<op, name, table, content, taken, listing, outcome>>
    BY <1>5 DEF Server!Find
  <2>2. bound' \in [Calls -> Calls \cup {Nil}]
    BY <2>1, <1>1
  <2> QED
    BY <1>0, <1>1, <2>1, <2>2, DecideKeeps
<1>6. CASE Server!GetNothing(r)
  <2>1. /\ op[r] = "dequeue" /\ outcome[r] = 0 /\ outcome' = [outcome EXCEPT ![r] = 204]
        /\ UNCHANGED <<op, name, table, content, bound, taken, listing>>
    BY <1>6 DEF Server!GetNothing
  <2>2. Settled(r)
    BY <2>1 DEF Settled
  <2>3. /\ table' \in [Names -> Calls \cup {Nil}] /\ bound' \in [Calls -> Calls \cup {Nil}]
        /\ \A s \in Calls : s \in listing' => op[s] = "stats"
    BY <2>1, <1>1
  <2> QED
    BY <1>0, <2>1, <2>2, <2>3, DecideKeeps
<1>7. CASE Server!List(r)
  <2>1. /\ op[r] = "stats" /\ listing' = listing \cup {r}
        /\ UNCHANGED <<op, name, table, content, bound, taken, outcome>>
    BY <1>7 DEF Server!List
  <2> QED
    BY <1>0, <1>1, <2>1, DecideKeeps
<1>8. CASE Server!Visit(r)
  <2>1. UNCHANGED <<op, name, table, content, bound, taken, listing, outcome>>
    BY <1>8 DEF Server!Visit
  <2> QED
    BY <1>0, <1>1, <2>1, DecideKeeps
<1>9. CASE Server!Report(r)
  <2>1. /\ r \in listing /\ listing' = listing \ {r}
        /\ outcome' = [outcome EXCEPT ![r] = 200]
        /\ UNCHANGED <<op, name, table, content, bound, taken>>
    BY <1>9 DEF Server!Report
  <2>2. Settled(r)
    BY <1>1, <2>1 DEF Settled
  <2>3. /\ table' \in [Names -> Calls \cup {Nil}] /\ bound' \in [Calls -> Calls \cup {Nil}]
        /\ \A s \in Calls : s \in listing' => op[s] = "stats"
    BY <2>1, <1>1
  <2> QED
    BY <1>0, <2>1, <2>2, <2>3, DecideKeeps
<1>10. CASE Server!Get(r)
  <2>1. bound[r] \in Calls
    BY <1>10, <1>1 DEF Server!Get
  <2> QED
    BY <1>0, <1>10, <2>1, GetKeeps
<1> QED
  BY <1>0, <1>2, <1>3, <1>4, <1>5, <1>6, <1>7, <1>8, <1>9, <1>10, DrainKeeps, PutKeeps DEF Serve

-----------------------------------------------------------------------------
(* The network *)

\* A connection breaks.
LEMMA BreakKeeps ==
  ASSUME WInv, NEW r \in Calls, Break(r), UNCHANGED <<player, work>>
  PROVE  WInv'
<1> USE DEF WInv, TypeOK
<1>1. ClientTypeOK'
  BY ClientAssumption DEF ClientTypeOK, Break, Fault, Wire, service
<1>2. TypeOK' /\ CallsOK' /\ Accepted' = Accepted
  BY <1>1 DEF Break, service, player, work, CallsOK, Accepted
<1>3. Places'
  BY <1>2, PlacesKept DEF Break, service, work
<1> QED
  BY <1>2, <1>3

\* What the server had not answered is lost with its memory.
LEMMA RestartKeeps ==
  ASSUME WInv, ServerRestarts, UNCHANGED <<player, work>>
  PROVE  WInv'
<1> USE DEF WInv, TypeOK
<1>1. ClientTypeOK'
  BY ClientAssumption DEF ClientTypeOK, ServerRestarts, Fault, Through
<1>2. TypeOK'
  BY <1>1 DEF player, work
<1>3. CallsOK'
  BY DEF ServerRestarts, CallsOK, Through, ClientTypeOK
<1>4. Accepted \subseteq Accepted'
  BY ItemsFact DEF ServerRestarts, Accepted, Through
<1>5. Places'
  BY <1>4, PlacesKept DEF ServerRestarts, work
<1> QED
  BY <1>2, <1>3, <1>5

\* The server forgets a Dequeue whose caller has left.
LEMMA ForgetKeeps ==
  ASSUME WInv, NEW r \in Calls, Forget(r), UNCHANGED <<player, work>>
  PROVE  WInv'
<1> USE DEF WInv, TypeOK
<1>1. Leave(r) /\ faults' \in 0..MaxFaults /\ restarted' = restarted
  BY DEF Forget, Leave, trouble, ClientTypeOK
<1>2. /\ ClientTypeOK' /\ CallsOK' /\ content' = content
      /\ \A s \in Calls : taken'[s] \in {taken[s], Nil}
      /\ Accepted \subseteq Accepted'
  BY <1>1, LeaveKeeps
<1>3. TypeOK'
  BY <1>2 DEF player, work
<1>4. Places'
  BY <1>2, PlacesKept DEF work
<1> QED
  BY <1>2, <1>3, <1>4

-----------------------------------------------------------------------------
(* The script *)

LEMMA LineFact ==
  ASSUME TypeOK, line <= Len(script)
  PROVE  /\ script[line].call \in Calls \ Gets
         /\ script[line].op = "enqueue" => script[line].call \in Items
         /\ line + 1 \in 1..(Len(script) + 1)
<1> DEFINE Line == [call : Calls \ Gets, op : {"create", "enqueue", "drain", "delete", "stats"}]
<1>1. script \in Seq(Line) /\ script \in Scripts /\ line \in 1..(Len(script) + 1)
  BY WorkQueueAssumption DEF TypeOK
<1>2. Len(script) \in Nat /\ line \in 1..Len(script) /\ line + 1 \in 1..(Len(script) + 1)
  <2> HIDE DEF Line
  <2> QED
    BY <1>1
<1>3. script[line] \in Line
  <2> HIDE DEF Line
  <2> QED
    BY <1>1, <1>2
<1>4. script[line].op = "enqueue" => script[line].call \in Items
  BY <1>1, <1>2 DEF Items, Elements
<1> QED
  BY <1>2, <1>3, <1>4

LEMMA LoadKeeps == WInv /\ Load => WInv'
<1> SUFFICES ASSUME WInv, Load
             PROVE  WInv'
  OBVIOUS
<1> DEFINE r == script[line].call
<1> USE DEF WInv, TypeOK
<1>1. r \in Calls /\ r \notin Gets /\ (script[line].op = "enqueue" => r \in Items)
  BY LineFact DEF Load
<1>2. /\ ClientTypeOK' /\ CallsOK' /\ content' = content /\ taken' = taken
      /\ Accepted \subseteq Accepted'
  <2>0. Queue \in Names
    BY WorkQueueAssumption
  <2>1. \/ Do(r, "create", Queue)
        \/ Do(r, "enqueue", Queue) /\ r \in Items
        \/ Do(r, "drain", Queue)
        \/ Do(r, "delete", Queue)
        \/ Do(r, "stats", Nil)
    BY <1>1 DEF Load, CreateQueue, Enqueue, DrainQueue, DeleteQueue, Stats
  <2> HIDE DEF r
  <2>2. CASE Do(r, "create", Queue)
    BY <1>1, <2>0, <2>2, DoKeeps
  <2>3. CASE Do(r, "enqueue", Queue) /\ r \in Items
    BY <1>1, <2>0, <2>3, DoKeeps
  <2>4. CASE Do(r, "drain", Queue)
    BY <1>1, <2>0, <2>4, DoKeeps
  <2>5. CASE Do(r, "delete", Queue)
    BY <1>1, <2>0, <2>5, DoKeeps
  <2>6. CASE Do(r, "stats", Nil)
    BY <1>1, <2>0, <2>6, DoKeeps
  <2> QED
    BY <2>1, <2>2, <2>3, <2>4, <2>5, <2>6
<1>3. UNCHANGED <<player, work>>
  BY DEF Load
<1>4. TypeOK'
  BY <1>2, <1>3 DEF player, work
<1>5. Places'
  BY <1>2, <1>3, PlacesKept DEF work
<1> QED
  BY <1>2, <1>4, <1>5

LEMMA LoadedKeeps == WInv /\ Loaded => WInv'
<1> SUFFICES ASSUME WInv, Loaded
             PROVE  WInv'
  OBVIOUS
<1> USE DEF WInv, TypeOK
<1>1. /\ script[line].call \in Calls /\ line + 1 \in 1..(Len(script) + 1)
      /\ Leave(script[line].call) /\ faults' \in 0..MaxFaults /\ restarted' = restarted
  BY LineFact DEF Loaded, Return, trouble, ClientTypeOK
<1>2. /\ ClientTypeOK' /\ CallsOK' /\ content' = content
      /\ \A s \in Calls : taken'[s] \in {taken[s], Nil}
      /\ Accepted \subseteq Accepted'
  BY <1>1, LeaveKeeps
<1>3. TypeOK'
  BY <1>1, <1>2 DEF Loaded, work
<1>4. Places'
  BY <1>2, PlacesKept DEF Loaded, work
<1> QED
  BY <1>2, <1>3, <1>4

-----------------------------------------------------------------------------
(* The workers *)

LEMMA AskKeeps == \A w \in Workers : WInv /\ Ask(w) => WInv'
<1> SUFFICES ASSUME NEW w \in Workers, WInv, Ask(w)
             PROVE  WInv'
  OBVIOUS
<1> DEFINE g == CHOOSE r \in Gets : wire[r] = "idle"
<1> USE DEF WInv, TypeOK
<1>1. g \in Gets /\ Dequeue(g, Queue) /\ call' = [call EXCEPT ![w] = g]
  BY DEF Ask
<1> HIDE DEF g
<1>2. g \in Calls /\ g # Nil /\ Queue \in Names
  BY <1>1, ClientAssumption, WorkQueueAssumption
<1>3. /\ ClientTypeOK' /\ CallsOK' /\ content' = content /\ taken' = taken
      /\ Accepted \subseteq Accepted'
  BY <1>1, <1>2, DoKeeps DEF Dequeue
<1>4. Accepted \subseteq Items
  BY DEF Accepted
<1>5. TypeOK'
  BY ZenonT(30), <1>1, <1>2, <1>3, <1>4 DEF Ask, Step, player
<1>6. Places'
  BY <1>3, PlacesKept DEF Ask
<1> QED
  BY <1>3, <1>5, <1>6

\* What every end of a worker's Dequeue keeps.
LEMMA ReturnedFact ==
  ASSUME WInv, NEW w \in Workers, wpc[w] = "dequeue", NEW answer, Returned(w, answer)
  PROVE  /\ call[w] \in Calls
         /\ ClientTypeOK' /\ CallsOK' /\ content' = content
         /\ \A s \in Calls : taken'[s] \in {taken[s], Nil}
         /\ taken'[call[w]] = Nil
         /\ Accepted \subseteq Accepted'
<1>1. call[w] \in Calls
  BY WorkQueueAssumption DEF WInv, TypeOK
<1>2. Leave(call[w]) /\ faults' \in 0..MaxFaults /\ restarted' = restarted
  BY DEF Returned, Return, trouble, WInv, TypeOK, ClientTypeOK
<1> QED
  BY <1>1, <1>2, LeaveKeeps

LEMMA EmptyHandedKeeps == \A w \in Workers : WInv /\ (Fails(w) \/ Exit(w)) => WInv'
<1> SUFFICES ASSUME NEW w \in Workers, WInv, Fails(w) \/ Exit(w)
             PROVE  WInv'
  OBVIOUS
<1> USE DEF WInv, TypeOK
<1>1. PICK answer \in {"error", "nil"}, to \in {"loop", "exited"} :
        Step(w, "dequeue", to) /\ Returned(w, answer) /\ UNCHANGED item
  BY DEF Fails, Exit
<1>2. /\ ClientTypeOK' /\ CallsOK' /\ content' = content
      /\ \A s \in Calls : taken'[s] \in {taken[s], Nil}
      /\ Accepted \subseteq Accepted'
  BY <1>1, ReturnedFact DEF Step
<1>3. TypeOK'
  BY <1>1, <1>2 DEF Step, Returned, player
<1>4. Places'
  BY <1>1, <1>2, PlacesKept DEF Returned
<1> QED
  BY <1>2, <1>3, <1>4

\* The item leaves the answer for the worker.
LEMMA GetItemKeeps == \A w \in Workers : WInv /\ GetItem(w) => WInv'
<1> SUFFICES ASSUME NEW w \in Workers, WInv, GetItem(w)
             PROVE  WInv'
  OBVIOUS
<1> USE DEF WInv, TypeOK
<1>1. PICK g \in Calls : g = call[w]
  BY ReturnedFact DEF GetItem, Step
<1>2. /\ ClientTypeOK' /\ CallsOK' /\ content' = content
      /\ \A s \in Calls : taken'[s] \in {taken[s], Nil}
      /\ taken'[g] = Nil
      /\ Accepted \subseteq Accepted'
  BY <1>1, ReturnedFact DEF GetItem, Step
<1>3. op[g] = "dequeue" /\ outcome[g] = 200
  <2>1. g \in Gets
    BY <1>1, ClientAssumption DEF GetItem, Step
  <2>2. outcome[g] # 0 /\ Answer(g) = "ok"
    BY <1>1 DEF GetItem, Returned, Return
  <2>3. outcome[g] \in {0, 200, 204, 400, 500, 503}
    BY DEF ClientTypeOK
  <2>4. outcome[g] # 204 /\ ~(outcome[g] >= 300)
    BY <2>2 DEF Answer, ErrorFromResponse
  <2>5. outcome[g] = 200
    BY <2>2, <2>3, <2>4
  <2> QED
    BY <2>1, <2>5 DEF CallsOK
<1>4. PICK i \in Items : i = taken[g]
  BY <1>3 DEF Places, TakenOK, CallsOK, Accepted
<1>5. /\ i # Nil /\ i \in Accepted /\ NotWaiting(i)
      /\ \A s \in Calls : s # g => taken[s] # i
  BY <1>3, <1>4 DEF Places, TakenOK, CallsOK
<1>6. /\ item' = [item EXCEPT ![w] = i] /\ wpc' = [wpc EXCEPT ![w] = "work"]
      /\ call' = [call EXCEPT ![w] = Nil]
      /\ UNCHANGED <<player, done, seen>>
  BY <1>1, <1>4 DEF GetItem, Step, Returned
<1>7. TypeOK'
  BY <1>2, <1>5, <1>6 DEF player
<1>8. \A h : NotWaiting(h) => NotWaiting(h)'
  BY <1>2 DEF NotWaiting
<1>9. \A s \in Calls : taken'[s] # i
  BY <1>2, <1>5
<1>10. WaitingOK' /\ TakenOK'
  BY <1>2, <1>8 DEF Places, WaitingOK, TakenOK
<1>11. \A v \in Workers : item[v] # i
  BY <1>4, <1>5 DEF Places, ItemOK
<1>12. ItemOK'
  <2> SUFFICES ASSUME NEW v \in Workers, NEW h, h = item'[v], h # Nil
               PROVE  /\ h \in Accepted' /\ NotWaiting(h)'
                      /\ \A s \in Calls : taken'[s] # h
                      /\ \A u \in Workers : u # v => item'[u] # h
    BY DEF ItemOK, NotWaiting
  <2>1. CASE v = w
    BY <2>1, <1>2, <1>5, <1>6, <1>8, <1>9, <1>11
  <2>2. CASE v # w
    <3>1. h = item[v] /\ h # i
      BY <2>2, <1>6, <1>11
    <3>2. /\ h \in Accepted /\ NotWaiting(h)
          /\ \A s \in Calls : taken[s] # h
          /\ \A u \in Workers : u # v => item[u] # h
      BY <3>1 DEF Places, ItemOK
    <3> QED
      BY <3>1, <3>2, <1>2, <1>6, <1>8
  <2> QED
    BY <2>1, <2>2
<1>13. DoneOK'
  <2> SUFFICES ASSUME NEW h \in Items, done[h] # 0
               PROVE  /\ done[h] = 1
                      /\ h \in Accepted' /\ NotWaiting(h)'
                      /\ \A s \in Calls : taken'[s] # h
                      /\ \A v \in Workers : item'[v] # h
    BY <1>6 DEF DoneOK
  <2>1. /\ done[h] = 1 /\ h \in Accepted /\ NotWaiting(h)
        /\ \A s \in Calls : taken[s] # h
        /\ \A v \in Workers : item[v] # h
    BY DEF Places, DoneOK
  <2>2. h # i /\ h # Nil
    BY <2>1, <1>4, ItemsFact
  <2> QED
    BY <2>1, <2>2, <1>2, <1>6, <1>8
<1> QED
  BY <1>2, <1>7, <1>10, <1>12, <1>13 DEF Places

\* The item is done: for the first time, because nobody else ever had it.
LEMMA WorkKeeps == \A w \in Workers : WInv /\ Work(w) => WInv'
<1> SUFFICES ASSUME NEW w \in Workers, WInv, Work(w)
             PROVE  WInv'
  OBVIOUS
<1> USE DEF WInv, TypeOK
<1>1. PICK i \in Items : i = item[w] /\ i # Nil
  BY ItemsFact DEF Work, Step
<1>2. /\ i \in Accepted /\ NotWaiting(i) /\ done[i] = 0
      /\ \A s \in Calls : taken[s] # i
      /\ \A v \in Workers : v # w => item[v] # i
  BY <1>1 DEF Places, ItemOK, DoneOK
<1>3. /\ item' = [item EXCEPT ![w] = Nil] /\ wpc' = [wpc EXCEPT ![w] = "loop"]
      /\ done'[i] = 1 /\ \A h \in Items : h # i => done'[h] = done[h]
      /\ done' \in [Items -> Nat]
      /\ UNCHANGED <<service, wire, trouble, player, call, seen>>
  <2>1. done' = [h \in Items |-> IF h = i THEN done[h] + 1 ELSE done[h]]
    BY <1>1 DEF Work
  <2> QED
    BY <1>1, <1>2, <2>1 DEF Work, Step
<1>4. TypeOK'
  BY <1>3 DEF ClientTypeOK, service, trouble, player, Work, Step
<1>5. CallsOK' /\ Accepted' = Accepted /\ WaitingOK' /\ TakenOK'
  BY <1>3 DEF service, CallsOK, Accepted, Places, WaitingOK, TakenOK, NotWaiting
<1>6. \A h : NotWaiting(h)' <=> NotWaiting(h)
  BY <1>3 DEF service, NotWaiting
<1>7. \A v \in Workers : item'[v] \in {item[v], Nil} /\ item'[v] # i
  BY <1>1, <1>2, <1>3
<1>8. ItemOK'
  <2> SUFFICES ASSUME NEW v \in Workers, NEW h, h = item'[v], h # Nil
               PROVE  /\ h \in Accepted' /\ NotWaiting(h)'
                      /\ \A s \in Calls : taken'[s] # h
                      /\ \A u \in Workers : u # v => item'[u] # h
    BY DEF ItemOK, NotWaiting
  <2>1. h = item[v]
    BY <1>7
  <2> QED
    BY <2>1, <1>3, <1>5, <1>6, <1>7 DEF Places, ItemOK, service
<1>9. DoneOK'
  <2> SUFFICES ASSUME NEW h \in Items, done'[h] # 0
               PROVE  /\ done'[h] = 1
                      /\ h \in Accepted' /\ NotWaiting(h)'
                      /\ \A s \in Calls : taken'[s] # h
                      /\ \A v \in Workers : item'[v] # h
    BY DEF DoneOK
  <2>1. taken' = taken
    BY <1>3 DEF service
  <2>2. CASE h = i
    BY <2>1, <2>2, <1>2, <1>3, <1>5, <1>6, <1>7
  <2>3. CASE h # i
    <3>1. /\ done[h] = 1 /\ h \in Accepted /\ NotWaiting(h)
          /\ \A s \in Calls : taken[s] # h
          /\ \A v \in Workers : item[v] # h
      BY <2>3, <1>3 DEF Places, DoneOK
    <3>2. h # Nil
      BY ItemsFact
    <3> QED
      BY <3>1, <3>2, <2>1, <2>3, <1>3, <1>5, <1>6, <1>7
  <2> QED
    BY <2>2, <2>3
<1> QED
  BY <1>4, <1>5, <1>8, <1>9 DEF Places

\* A pod is killed: its item is nobody's.
LEMMA KillKeeps == \A w \in Workers : WInv /\ Kill(w) => WInv'
<1> SUFFICES ASSUME NEW w \in Workers, WInv, Kill(w)
             PROVE  WInv'
  OBVIOUS
<1> USE DEF WInv, TypeOK
<1>1. faults' \in 0..MaxFaults /\ restarted' = restarted
  BY ClientAssumption DEF Kill, Fault, ClientTypeOK
<1>2. /\ ClientTypeOK' /\ CallsOK' /\ content' = content
      /\ \A s \in Calls : taken'[s] \in {taken[s], Nil}
      /\ Accepted \subseteq Accepted'
  <2>1. CASE call[w] = Nil
    BY <1>1, <2>1 DEF Kill, service, ClientTypeOK, CallsOK, Accepted
  <2>2. CASE call[w] # Nil
    <3>1. call[w] \in Calls /\ Leave(call[w])
      BY <2>2, WorkQueueAssumption DEF Kill
    <3> QED
      BY <1>1, <3>1, LeaveKeeps
  <2> QED
    BY <2>1, <2>2
<1>3. TypeOK'
  BY <1>2 DEF Kill, player
<1>4. Places'
  BY <1>2, PlacesKept DEF Kill
<1> QED
  BY <1>2, <1>3, <1>4

-----------------------------------------------------------------------------
(* Theorems *)

\* A step that leaves the variables alone keeps the invariant.
LEMMA WStutter == WInv /\ UNCHANGED vars => WInv'
<1> SUFFICES ASSUME WInv, UNCHANGED vars
             PROVE  WInv'
  OBVIOUS
<1>1. UNCHANGED <<service, wire, trouble, player, work>>
  BY DEF vars
<1>2. TypeOK' /\ CallsOK' /\ Accepted' = Accepted
  BY <1>1 DEF WInv, TypeOK, ClientTypeOK, CallsOK, Accepted, service, trouble, player, work
<1>3. Places'
  BY <1>1, <1>2, PlacesKept DEF WInv, service, work
<1> QED
  BY <1>2, <1>3 DEF WInv

LEMMA WStep == WInv /\ [Next]_vars => WInv'
<1> SUFFICES ASSUME WInv, [Next]_vars
             PROVE  WInv'
  OBVIOUS
<1>1. CASE Load \/ Loaded
  BY <1>1, LoadKeeps, LoadedKeeps
<1>2. ASSUME NEW w \in Workers, Run(w) \/ Kill(w)
      PROVE  WInv'
  BY <1>2, AskKeeps, GetItemKeeps, EmptyHandedKeeps, WorkKeeps, KillKeeps DEF Run
<1>3. ASSUME NEW r \in Calls, Attend(r) \/ (Break(r) /\ UNCHANGED <<player, work>>)
      PROVE  WInv'
  BY <1>3, ServeKeeps, ForgetKeeps, BreakKeeps DEF Attend, Handle
<1>4. CASE ServerRestarts /\ UNCHANGED <<player, work>>
  BY <1>4, RestartKeeps
<1>5. CASE UNCHANGED vars
  BY <1>5, WStutter
<1> QED
  BY <1>1, <1>2, <1>3, <1>4, <1>5 DEF Next, Ended

\* WInv is an invariant of the work queue.
THEOREM WInvariance == Spec => []WInv
<1>1. Init => WInv
  BY WInitially
<1>2. WInv /\ [Next]_vars => WInv'
  BY WStep
<1> QED
  BY <1>1, <1>2, PTL DEF Spec

\* The variables of the work queue keep their types, and a worker waits for one
\* call or works on one item.
THEOREM Typing == Spec => []TypeOK
<1>1. WInv => TypeOK
  BY DEF WInv
<1> QED
  BY <1>1, WInvariance, PTL

\* No item is worked on twice or by two workers, and none that somebody was given
\* still waits in a queue, whatever connections break and whatever restarts.
THEOREM WorkedOnOnce == Spec => []OneWorkerPerItem
<1>1. WInv => OneWorkerPerItem
  <2> SUFFICES ASSUME WInv
               PROVE  OneWorkerPerItem
    OBVIOUS
  <2> USE DEF WInv, TypeOK
  <2>1. \A i \in Items : done[i] <= 1
    BY DEF Places, DoneOK
  <2>2. \A v, w \in Workers : v # w /\ item[v] # Nil => item[v] # item[w]
    BY DEF Places, ItemOK
  <2>3. InHand \cap Done = {}
    BY DEF InHand, Done, Places, DoneOK
  <2>4. ASSUME NEW i \in Waiting
        PROVE  i \notin InTransit \cup InHand \cup Done
    <3>1. PICK o \in Calls : i \in Elements(content[o])
      BY DEF Waiting, ClientTypeOK
    <3>2. ~NotWaiting(i)
      BY <3>1 DEF Elements, NotWaiting
    <3>3. i \notin InTransit
      BY <3>2, WorkQueueAssumption DEF InTransit, Places, TakenOK
    <3>4. i \notin InHand
      BY <3>2 DEF InHand, Places, ItemOK
    <3>5. i \notin Done
      BY <3>2 DEF Done, Places, DoneOK
    <3> QED
      BY <3>3, <3>4, <3>5
  <2> QED
    BY <2>1, <2>2, <2>3, <2>4 DEF OneWorkerPerItem
<1> QED
  BY <1>1, WInvariance, PTL

-----------------------------------------------------------------------------
(* What can be lost, and what a worker leaves behind *)

\* Which calls there are, and what a worker has seen.
LinkOK ==
  /\ \A r \in Calls :
       /\ op[r] = "dequeue" => r \in Gets
       /\ op[r] \notin {"none", "stats"} => name[r] = Queue
       /\ wire[r] = "idle" => op[r] = "none"
  /\ \A w \in Workers : seen[w] \subseteq Accepted

\* Until the queue is removed there is one, and every message is in it.
OneQueue ==
  ~Removed =>
    /\ \A o \in Calls : content[o] # <<>> => o = table[Queue]
    /\ \A r \in Calls : bound[r] # Nil => bound[r] = table[Queue]

\* A worker that is told of an empty queue has nothing left of what it saw.
ToldEmpty(w) == wpc[w] = "exited" \/ (call[w] # Nil /\ outcome[call[w]] = 204)
ExitOK ==
  ~Removed => \A w \in Workers : ToldEmpty(w) => \A i \in seen[w] : NotWaiting(i)

\* Some worker waits for the answer to g, and will get it.
Awaited(g) == wire[g] = "open" /\ \E w \in Workers : call[w] = g

\* Item i waits, is on its way to a worker, with one, or done.
Safe(i) ==
  \/ ~NotWaiting(i)
  \/ \E g \in Gets : Awaited(g) /\ taken[g] = i
  \/ \E w \in Workers : item[w] = i
  \/ done[i] # 0
Gone == {i \in Accepted : ~Safe(i)}

\* A Dequeue that nobody waits for and the server has still to serve: it will
\* take an item from the queue, if there is one, and the item will be lost.
AtRisk == {g \in Gets : op[g] = "dequeue" /\ outcome[g] = 0 /\ ~Awaited(g)}

\* Every item that is lost, or will be, has a fault of its own.
Doomed == Gone \cup AtRisk
Bounded(S, n) == IsFiniteSet(S) /\ Cardinality(S) <= n
LossOK == ~Removed => Bounded(Doomed, faults)

LInv == WInv /\ LinkOK /\ OneQueue /\ ExitOK /\ LossOK

LEMMA BoundedSame ==
  ASSUME NEW S, NEW T, NEW m \in Nat, NEW n \in Nat, Bounded(S, m), T \subseteq S, m <= n
  PROVE  Bounded(T, n)
<1>1. IsFiniteSet(T) /\ Cardinality(T) <= Cardinality(S)
  BY FS_Subset DEF Bounded
<1>2. Cardinality(S) \in Nat /\ Cardinality(T) \in Nat
  BY <1>1, FS_CardinalityType DEF Bounded
<1> QED
  BY <1>1, <1>2 DEF Bounded

LEMMA BoundedOneMore ==
  ASSUME NEW S, NEW T, NEW n \in Nat, NEW x, Bounded(S, n), T \subseteq S \cup {x}
  PROVE  Bounded(T, n + 1)
<1>0. IsFiniteSet(S) /\ Cardinality(S) \in Nat
  BY FS_CardinalityType DEF Bounded
<1>1. IsFiniteSet(S \cup {x}) /\ Cardinality(S \cup {x}) <= Cardinality(S) + 1
  <2>1. /\ IsFiniteSet(S \cup {x})
        /\ Cardinality(S \cup {x}) = IF x \in S THEN Cardinality(S) ELSE Cardinality(S) + 1
    BY <1>0, FS_AddElement
  <2> QED
    BY <1>0, <2>1
<1>2. Cardinality(S) \in Nat /\ Cardinality(S \cup {x}) \in Nat
  BY <1>1, FS_CardinalityType DEF Bounded
<1>3. Bounded(S \cup {x}, n + 1)
  BY <1>1, <1>2 DEF Bounded
<1> QED
  BY <1>3, BoundedSame

LEMMA BoundedSwap ==
  ASSUME NEW S, NEW T, NEW n \in Nat, NEW x, NEW r \in S, Bounded(S, n),
         T \subseteq (S \ {r}) \cup {x}
  PROVE  Bounded(T, n)
<1>1. IsFiniteSet(S \ {r}) /\ Cardinality(S \ {r}) = Cardinality(S) - 1
  BY FS_RemoveElement DEF Bounded
<1>2. Cardinality(S) \in Nat /\ Cardinality(S \ {r}) \in Nat
  BY <1>1, FS_CardinalityType DEF Bounded
<1>3. n - 1 \in Nat /\ Bounded(S \ {r}, n - 1)
  BY <1>1, <1>2 DEF Bounded
<1>4. Bounded(T, (n - 1) + 1)
  BY <1>3, BoundedOneMore
<1> QED
  BY <1>4

LEMMA RemovedStays ==
  ASSUME \A s \in Calls : op[s] \in {"delete", "drain"} /\ outcome[s] = 200 =>
           op'[s] = op[s] /\ outcome'[s] = 200,
         restarted => restarted'
  PROVE  Removed => Removed'
BY DEF Removed

\* What leaves the queues alone keeps them where they are.
LEMMA QueuesRest ==
  ASSUME OneQueue, Removed => Removed', content' = content, table' = table,
         \A s \in Calls : bound'[s] \in {bound[s], Nil}
  PROVE  OneQueue'
BY DEF OneQueue

LEMMA ExitRest ==
  ASSUME ExitOK, Removed => Removed', content' = content,
         \A w \in Workers : ToldEmpty(w)' => ToldEmpty(w) /\ seen'[w] = seen[w]
  PROVE  ExitOK'
BY DEF ExitOK, NotWaiting

\* How the doomed may change without a fault, with one, and with an item that is
\* lost in the place of the call that took it.
LEMMA LossSame ==
  ASSUME LossOK, Removed => Removed', Doomed' \subseteq Doomed,
         faults \in Nat, faults' \in Nat, faults <= faults'
  PROVE  LossOK'
BY BoundedSame DEF LossOK, Bounded

LEMMA LossFault ==
  ASSUME LossOK, Removed => Removed', NEW x, Doomed' \subseteq Doomed \cup {x},
         faults \in Nat, faults' = faults + 1
  PROVE  LossOK'
<1> SUFFICES ASSUME ~Removed'
             PROVE  Bounded(Doomed', faults')
  BY DEF LossOK, Bounded
<1>1. Bounded(Doomed, faults)
  BY DEF LossOK
<1>2. Bounded(Doomed', faults + 1)
  BY <1>1, BoundedOneMore
<1> QED
  BY <1>2

LEMMA LossSwap ==
  ASSUME LossOK, Removed => Removed', NEW x, NEW r \in Doomed,
         Doomed' \subseteq (Doomed \ {r}) \cup {x},
         faults \in Nat, faults' = faults
  PROVE  LossOK'
<1> SUFFICES ASSUME ~Removed'
             PROVE  Bounded(Doomed', faults')
  BY DEF LossOK, Bounded
<1>1. Bounded(Doomed, faults)
  BY DEF LossOK
<1>2. Bounded(Doomed', faults)
  BY <1>1, BoundedSwap
<1> QED
  BY <1>2

LEMMA FaultsFact == TypeOK => faults \in Nat
BY ClientAssumption DEF TypeOK, ClientTypeOK

-----------------------------------------------------------------------------
(* The calls, part by part *)

\* A call that is sent, or never arrives.
LEMMA DoParts ==
  ASSUME TypeOK, LinkOK, NEW r \in Calls, NEW o, NEW n, Do(r, o, n)
  PROVE  /\ UNCHANGED <<table, content, bound, taken, outcome, restarted>>
         /\ \A s \in Calls : s # r => op'[s] = op[s] /\ name'[s] = name[s] /\ wire'[s] = wire[s]
         /\ wire[r] = "idle" /\ op[r] = "none"
         /\ \/ op'[r] = o /\ name'[r] = n /\ wire'[r] = "open" /\ faults' = faults
            \/ op'[r] = "none" /\ wire'[r] = "broken" /\ faults' = faults + 1
<1> USE DEF TypeOK, ClientTypeOK
<1>1. wire[r] = "idle" /\ op[r] = "none"
  BY DEF Do, Wire, LinkOK
<1>2. CASE wire' = [wire EXCEPT ![r] = "open"] /\ Server!Call(r) /\ UNCHANGED trouble
           /\ op' = [op EXCEPT ![r] = o] /\ name' = [name EXCEPT ![r] = n] /\ UNCHANGED outcome
  BY <1>1, <1>2 DEF Server!Call, trouble
<1>3. CASE wire' = [wire EXCEPT ![r] = "broken"] /\ Fault /\ UNCHANGED <<service, restarted>>
  BY <1>1, <1>3 DEF Fault, service
<1> QED
  BY <1>2, <1>3 DEF Do, Wire

\* A call whose caller goes on.
LEMMA LeaveParts ==
  ASSUME TypeOK, NEW r \in Calls, Leave(r)
  PROVE  /\ content' = content /\ table' = table
         /\ \A s \in Calls : s # r =>
              /\ op'[s] = op[s] /\ name'[s] = name[s] /\ wire'[s] = wire[s]
              /\ bound'[s] = bound[s] /\ taken'[s] = taken[s] /\ outcome'[s] = outcome[s]
         /\ \/ /\ op[r] \in {"none", "dequeue"} /\ Through(r)
               /\ op'[r] = "none" /\ wire'[r] = "idle"
               /\ bound'[r] = Nil /\ taken'[r] = Nil /\ outcome'[r] = 0
            \/ /\ ~(op[r] \in {"none", "dequeue"} /\ Through(r))
               /\ op'[r] = op[r] /\ name'[r] = name[r] /\ wire'[r] = "returned"
               /\ bound'[r] = bound[r] /\ taken'[r] = taken[r] /\ outcome'[r] = outcome[r]
<1> USE DEF TypeOK, ClientTypeOK
<1>1. CASE op[r] \in {"none", "dequeue"} /\ Through(r)
  BY <1>1 DEF Leave, Recycled
<1>2. CASE ~(op[r] \in {"none", "dequeue"} /\ Through(r))
  BY <1>2 DEF Leave, service
<1> QED
  BY <1>1, <1>2

\* What a call that is over leaves as it was.
LEMMA LeaveLinks ==
  ASSUME WInv, LinkOK, OneQueue, NEW r \in Calls, Leave(r),
         restarted' = restarted, seen' = seen
  PROVE  /\ Accepted' = Accepted
         /\ Removed => Removed'
         /\ LinkOK' /\ OneQueue'
<1> USE DEF WInv, TypeOK
<1>1. /\ content' = content /\ table' = table
      /\ \A s \in Calls :
           /\ \/ op'[s] = op[s] /\ outcome'[s] = outcome[s]
              \/ op[s] \in {"none", "dequeue"} /\ op'[s] = "none"
           /\ bound'[s] \in {bound[s], Nil}
           /\ op'[s] # "none" => name'[s] = name[s]
           /\ wire'[s] = "idle" => op'[s] = "none" \/ (wire[s] = "idle" /\ op'[s] = op[s])
  BY LeaveParts
<1>2. Accepted' = Accepted
  BY <1>1, ItemsFact DEF Accepted
<1>3. Removed => Removed'
  BY <1>1, RemovedStays
<1>4. LinkOK'
  BY <1>1, <1>2 DEF LinkOK
<1> QED
  BY <1>1, <1>2, <1>3, <1>4, QueuesRest

-----------------------------------------------------------------------------
(* The script *)

\* What a call of the script leaves of the items and the workers.
LEMMA ScriptLoss ==
  ASSUME LInv, Removed => Removed', Accepted' = Accepted,
         content' = content, item' = item, done' = done, call' = call, wpc' = wpc, seen' = seen,
         \A g \in Gets : /\ op'[g] = op[g] /\ outcome'[g] = outcome[g]
                         /\ taken'[g] = taken[g] /\ wire'[g] = wire[g],
         faults' \in Nat, faults <= faults'
  PROVE  ExitOK' /\ LossOK'
<1> USE DEF LInv, WInv
<1>1. \A w \in Workers : ToldEmpty(w)' <=> ToldEmpty(w)
  BY DEF ToldEmpty, TypeOK
<1>2. ExitOK'
  BY <1>1, ExitRest
<1>3. \A g \in Gets : Awaited(g)' <=> Awaited(g)
  BY DEF Awaited
<1>4. \A i : Safe(i) => Safe(i)'
  BY <1>3 DEF Safe, NotWaiting
<1>5. Doomed' \subseteq Doomed
  BY <1>3, <1>4 DEF Doomed, Gone, AtRisk
<1> QED
  BY <1>2, <1>5, LossSame, FaultsFact

LEMMA LoadLoses == LInv /\ Load => LInv'
<1> SUFFICES ASSUME LInv, Load
             PROVE  LInv'
  OBVIOUS
<1> USE DEF LInv
<1>1. PICK r \in Calls \ Gets : r = script[line].call
  BY LineFact DEF Load, WInv
<1>2. PICK o \in {"create", "delete", "drain", "enqueue", "stats"}, n \in {Queue, Nil} :
        Do(r, o, n) /\ (o # "stats" => n = Queue)
  BY <1>1 DEF Load, CreateQueue, Enqueue, DrainQueue, DeleteQueue, Stats
<1>3. /\ UNCHANGED <<table, content, bound, taken, outcome, restarted>>
      /\ \A s \in Calls : s # r => op'[s] = op[s] /\ name'[s] = name[s] /\ wire'[s] = wire[s]
      /\ wire[r] = "idle" /\ op[r] = "none"
      /\ \/ op'[r] = o /\ name'[r] = n /\ wire'[r] = "open" /\ faults' = faults
         \/ op'[r] = "none" /\ wire'[r] = "broken" /\ faults' = faults + 1
  BY <1>2, DoParts DEF WInv
<1>4. UNCHANGED <<player, work>>
  BY DEF Load
<1>5. WInv'
  BY LoadKeeps
<1>6. outcome[r] = 0
  BY <1>3 DEF WInv, CallsOK
<1>7. Accepted' = Accepted
  BY <1>3, <1>6, ItemsFact DEF Accepted
<1>8. Removed => Removed'
  BY <1>3, RemovedStays
<1>9. LinkOK'
  BY <1>2, <1>3, <1>4, <1>7 DEF LinkOK, work
<1>10. OneQueue'
  BY <1>3, <1>8, QueuesRest
<1>11. faults \in Nat
  BY FaultsFact DEF WInv
<1>12. faults' \in Nat /\ faults <= faults'
  BY <1>3, <1>11
<1>13. \A g \in Gets : /\ op'[g] = op[g] /\ outcome'[g] = outcome[g]
                       /\ taken'[g] = taken[g] /\ wire'[g] = wire[g]
  BY <1>3, WorkQueueAssumption
<1>14. ExitOK' /\ LossOK'
  BY <1>3, <1>4, <1>7, <1>8, <1>12, <1>13, ScriptLoss DEF work
<1> QED
  BY <1>5, <1>9, <1>10, <1>14

LEMMA LoadedLoses == LInv /\ Loaded => LInv'
<1> SUFFICES ASSUME LInv, Loaded
             PROVE  LInv'
  OBVIOUS
<1> USE DEF LInv
<1>1. PICK r \in Calls \ Gets : r = script[line].call
  BY LineFact DEF Loaded, WInv
<1>2. Leave(r) /\ UNCHANGED trouble /\ UNCHANGED work
  BY <1>1 DEF Loaded, Return
<1>3. /\ content' = content
      /\ \A s \in Calls : s # r =>
           /\ op'[s] = op[s] /\ wire'[s] = wire[s]
           /\ taken'[s] = taken[s] /\ outcome'[s] = outcome[s]
  BY <1>2, LeaveParts DEF WInv
<1>4. Accepted' = Accepted /\ (Removed => Removed') /\ LinkOK' /\ OneQueue'
  BY <1>2, LeaveLinks DEF trouble, work
<1>5. WInv'
  BY LoadedKeeps
<1>6. faults' \in Nat /\ faults <= faults'
  BY <1>2, FaultsFact DEF WInv, trouble
<1>7. \A g \in Gets : /\ op'[g] = op[g] /\ outcome'[g] = outcome[g]
                      /\ taken'[g] = taken[g] /\ wire'[g] = wire[g]
  BY <1>3, WorkQueueAssumption
<1>8. ExitOK' /\ LossOK'
  BY <1>2, <1>3, <1>4, <1>6, <1>7, ScriptLoss DEF work
<1> QED
  BY <1>4, <1>5, <1>8

-----------------------------------------------------------------------------
(* The workers *)

LEMMA AskLoses == \A w \in Workers : LInv /\ Ask(w) => LInv'
<1> SUFFICES ASSUME NEW w \in Workers, LInv, Ask(w)
             PROVE  LInv'
  OBVIOUS
<1> USE DEF LInv
<1>1. PICK g \in Gets : Do(g, "dequeue", Queue) /\ call' = [call EXCEPT ![w] = g]
  BY DEF Ask, Dequeue
<1>2. g \in Calls /\ g # Nil
  BY <1>1, ClientAssumption, WorkQueueAssumption
<1>3. /\ UNCHANGED <<table, content, bound, taken, outcome, restarted>>
      /\ \A s \in Calls : s # g => op'[s] = op[s] /\ name'[s] = name[s] /\ wire'[s] = wire[s]
      /\ wire[g] = "idle" /\ op[g] = "none"
      /\ \/ op'[g] = "dequeue" /\ name'[g] = Queue /\ wire'[g] = "open" /\ faults' = faults
         \/ op'[g] = "none" /\ wire'[g] = "broken" /\ faults' = faults + 1
  BY <1>1, <1>2, DoParts DEF WInv
<1>4. /\ wpc[w] = "loop" /\ call[w] = Nil
      /\ wpc'[w] = "dequeue" /\ call'[w] = g /\ seen'[w] = Accepted
      /\ \A v \in Workers : v # w =>
           wpc'[v] = wpc[v] /\ call'[v] = call[v] /\ seen'[v] = seen[v]
      /\ UNCHANGED <<item, done>>
  BY <1>1 DEF Ask, Step, WInv, TypeOK
<1>5. WInv'
  BY AskKeeps
<1>6. outcome[g] = 0 /\ taken[g] = Nil
  BY <1>2, <1>3 DEF WInv, CallsOK
<1>7. Accepted' = Accepted
  BY <1>3, <1>6, ItemsFact DEF Accepted
<1>8. Removed => Removed'
  BY <1>3, RemovedStays
<1>9. LinkOK'
  BY <1>1, <1>3, <1>4, <1>7 DEF LinkOK
<1>10. OneQueue'
  BY <1>3, <1>8, QueuesRest
<1>11. \A v \in Workers : ToldEmpty(v)' => ToldEmpty(v) /\ seen'[v] = seen[v]
  BY <1>3, <1>4, <1>6 DEF ToldEmpty
<1>12. ExitOK'
  BY <1>3, <1>8, <1>11, ExitRest
<1>13. ASSUME NEW h \in Gets, Awaited(h)
       PROVE  Awaited(h)' /\ h # g
  <2>1. wire[h] = "open" /\ h # g /\ h # Nil
    BY <1>3, <1>13, ClientAssumption, WorkQueueAssumption DEF Awaited
  <2>2. PICK v \in Workers : call[v] = h
    BY <1>13 DEF Awaited
  <2>3. wire'[h] = "open" /\ call'[v] = h
    BY <1>3, <1>4, <2>1, <2>2, WorkQueueAssumption
  <2> QED
    BY <2>1, <2>3 DEF Awaited
<1>14. \A i : Safe(i) => Safe(i)'
  BY <1>3, <1>4, <1>13 DEF Safe, NotWaiting
<1>15. op'[g] = "dequeue" => Awaited(g)'
  BY <1>3, <1>4 DEF Awaited
<1>16. Doomed' \subseteq Doomed
  <2>1. \A h \in AtRisk' : h \in AtRisk
    BY <1>3, <1>13, <1>15, WorkQueueAssumption DEF AtRisk
  <2>2. Gone' \subseteq Gone
    BY <1>7, <1>14 DEF Gone
  <2> QED
    BY <2>1, <2>2 DEF Doomed
<1>17. faults \in Nat
  BY FaultsFact DEF WInv
<1>18. LossOK'
  BY <1>3, <1>8, <1>16, <1>17, LossSame
<1> QED
  BY <1>5, <1>9, <1>10, <1>12, <1>18

\* A worker's Dequeue returns, with an item or without.
LEMMA ReturnedParts ==
  ASSUME LInv, NEW w \in Workers, wpc[w] = "dequeue", NEW answer, Returned(w, answer),
         NEW g, g = call[w]
  PROVE  /\ g \in Gets /\ g \in Calls /\ g # Nil
         /\ content' = content /\ UNCHANGED trouble
         /\ \A s \in Calls : s # g =>
              /\ op'[s] = op[s] /\ wire'[s] = wire[s]
              /\ taken'[s] = taken[s] /\ outcome'[s] = outcome[s]
         /\ op'[g] = "none" \/ (op'[g] = op[g] /\ outcome[g] = 0 /\ outcome'[g] = 0)
         /\ outcome'[g] \in {outcome[g], 0}
         /\ call'[w] = Nil /\ \A v \in Workers : v # w => call'[v] = call[v]
         /\ UNCHANGED <<player, done, seen>>
         /\ Accepted' = Accepted /\ (Removed => Removed') /\ LinkOK' /\ OneQueue'
<1> USE DEF LInv
<1>1. g \in Gets /\ g \in Calls /\ g # Nil
  BY WorkQueueAssumption DEF WInv, TypeOK
<1>2. Leave(g) /\ UNCHANGED trouble
  BY DEF Returned, Return
<1>3. op[g] \in {"none", "dequeue"}
  BY <1>1 DEF WInv, CallsOK
<1>4. /\ content' = content
      /\ \A s \in Calls : s # g =>
           /\ op'[s] = op[s] /\ wire'[s] = wire[s]
           /\ taken'[s] = taken[s] /\ outcome'[s] = outcome[s]
      /\ op'[g] = "none" \/ (op'[g] = op[g] /\ outcome[g] = 0 /\ outcome'[g] = 0)
      /\ outcome'[g] \in {outcome[g], 0}
  <2>1. /\ content' = content
        /\ \A s \in Calls : s # g =>
             /\ op'[s] = op[s] /\ wire'[s] = wire[s]
             /\ taken'[s] = taken[s] /\ outcome'[s] = outcome[s]
    BY <1>1, <1>2, LeaveParts DEF WInv
  <2>2. \/ op'[g] = "none" /\ outcome'[g] = 0
        \/ outcome[g] = 0 /\ op'[g] = op[g] /\ outcome'[g] = outcome[g]
    BY <1>1, <1>2, <1>3, LeaveParts DEF WInv, Through
  <2>3. op'[g] = "none" \/ (op'[g] = op[g] /\ outcome[g] = 0 /\ outcome'[g] = 0)
    BY <2>2
  <2>4. outcome'[g] \in {outcome[g], 0}
    BY <2>2
  <2> QED
    BY <2>1, <2>3, <2>4
<1>5. /\ call'[w] = Nil /\ \A v \in Workers : v # w => call'[v] = call[v]
      /\ UNCHANGED <<player, done, seen>>
  BY DEF Returned, WInv, TypeOK
<1>6. Accepted' = Accepted /\ (Removed => Removed') /\ LinkOK' /\ OneQueue'
  BY <1>1, <1>2, <1>5, LeaveLinks DEF trouble
<1> QED
  BY <1>1, <1>2, <1>4, <1>5, <1>6

\* Nothing is lost by a worker that gets nothing, if the answer has no item.
LEMMA EmptyHandedLoses == \A w \in Workers : LInv /\ (Fails(w) \/ Exit(w)) => LInv'
<1> SUFFICES ASSUME NEW w \in Workers, LInv, Fails(w) \/ Exit(w)
             PROVE  LInv'
  OBVIOUS
<1> USE DEF LInv
<1>1. PICK answer \in {"error", "nil"}, to \in {"loop", "exited"} :
        /\ Step(w, "dequeue", to) /\ Returned(w, answer) /\ UNCHANGED item
        /\ to = "exited" => answer = "nil"
  BY DEF Fails, Exit
<1>2. PICK g : g = call[w]
  OBVIOUS
<1>3. wpc[w] = "dequeue" /\ wpc'[w] = to /\ \A v \in Workers : v # w => wpc'[v] = wpc[v]
  BY <1>1 DEF Step, WInv, TypeOK
<1>4. /\ g \in Gets /\ g \in Calls /\ g # Nil
      /\ content' = content /\ UNCHANGED trouble
      /\ \A s \in Calls : s # g =>
           /\ op'[s] = op[s] /\ wire'[s] = wire[s]
           /\ taken'[s] = taken[s] /\ outcome'[s] = outcome[s]
      /\ op'[g] = "none" \/ (op'[g] = op[g] /\ outcome[g] = 0 /\ outcome'[g] = 0)
      /\ outcome'[g] \in {outcome[g], 0}
      /\ call'[w] = Nil /\ \A v \in Workers : v # w => call'[v] = call[v]
      /\ UNCHANGED <<player, done, seen>>
      /\ Accepted' = Accepted /\ (Removed => Removed') /\ LinkOK' /\ OneQueue'
  BY <1>1, <1>2, <1>3, ReturnedParts
<1>5. WInv'
  BY EmptyHandedKeeps
<1>6. \/ wire[g] = "broken" /\ answer = "error"
      \/ wire[g] = "open" /\ outcome[g] # 0 /\ answer = Answer(g)
  BY <1>1, <1>2 DEF Returned, Return
<1>7. answer = "nil" => outcome[g] = 204
  BY <1>6 DEF Answer
<1>8. wire[g] = "open" => taken[g] = Nil /\ outcome[g] # 0
  <2>1. outcome[g] = 200 => Answer(g) = "ok"
    BY DEF Answer, ErrorFromResponse
  <2> QED
    BY <2>1, <1>4, <1>6 DEF WInv, CallsOK
<1>9. \A v \in Workers : ToldEmpty(v)' => ToldEmpty(v) /\ seen'[v] = seen[v]
  BY <1>1, <1>2, <1>3, <1>4, <1>7, WorkQueueAssumption DEF ToldEmpty, WInv, TypeOK
<1>10. ExitOK'
  BY <1>4, <1>9, ExitRest
<1>11. \A h \in Gets : h # g => (Awaited(h)' <=> Awaited(h))
  BY <1>2, <1>4, ClientAssumption, WorkQueueAssumption DEF Awaited
<1>12. \A i \in Items : Safe(i) => Safe(i)'
  <2> SUFFICES ASSUME NEW i \in Items, Safe(i)
               PROVE  Safe(i)'
    OBVIOUS
  <2>1. CASE \E h \in Gets : Awaited(h) /\ taken[h] = i
    <3>1. PICK h \in Gets : Awaited(h) /\ taken[h] = i
      BY <2>1
    <3>2. h # g
      BY <3>1, <1>8, ItemsFact DEF Awaited
    <3> QED
      BY <3>1, <3>2, <1>4, <1>11, WorkQueueAssumption DEF Safe
  <2>2. CASE ~NotWaiting(i) \/ (\E v \in Workers : item[v] = i) \/ done[i] # 0
    BY <2>2, <1>1, <1>4 DEF Safe, NotWaiting
  <2> QED
    BY <2>1, <2>2 DEF Safe
<1>13. g \in AtRisk' => g \in AtRisk
  BY <1>4, <1>8 DEF AtRisk, Awaited
<1>14. \A h \in AtRisk' : h \in AtRisk
  BY <1>4, <1>11, <1>13, WorkQueueAssumption DEF AtRisk
<1>15. Doomed' \subseteq Doomed
  BY <1>4, <1>12, <1>14 DEF Doomed, Gone, Accepted
<1>16. faults \in Nat /\ faults' = faults
  BY <1>4, FaultsFact DEF WInv, trouble
<1>17. LossOK'
  BY <1>4, <1>15, <1>16, LossSame
<1> QED
  BY <1>4, <1>5, <1>10, <1>17

\* The item of the answer is now with the worker.
LEMMA GetItemLoses == \A w \in Workers : LInv /\ GetItem(w) => LInv'
<1> SUFFICES ASSUME NEW w \in Workers, LInv, GetItem(w)
             PROVE  LInv'
  OBVIOUS
<1> USE DEF LInv
<1>1. PICK g : g = call[w]
  OBVIOUS
<1>2. /\ Returned(w, "ok")
      /\ wpc[w] = "dequeue" /\ wpc'[w] = "work" /\ item[w] = Nil
      /\ item'[w] = taken[g] /\ \A v \in Workers : v # w => item'[v] = item[v] /\ wpc'[v] = wpc[v]
  BY <1>1 DEF GetItem, Step, WInv, TypeOK
<1>3. /\ g \in Gets /\ g \in Calls /\ g # Nil
      /\ content' = content /\ UNCHANGED trouble
      /\ \A s \in Calls : s # g =>
           /\ op'[s] = op[s] /\ wire'[s] = wire[s]
           /\ taken'[s] = taken[s] /\ outcome'[s] = outcome[s]
      /\ op'[g] = "none" \/ (op'[g] = op[g] /\ outcome[g] = 0 /\ outcome'[g] = 0)
      /\ outcome'[g] \in {outcome[g], 0}
      /\ call'[w] = Nil /\ \A v \in Workers : v # w => call'[v] = call[v]
      /\ UNCHANGED <<player, done, seen>>
      /\ Accepted' = Accepted /\ (Removed => Removed') /\ LinkOK' /\ OneQueue'
  BY <1>1, <1>2, ReturnedParts
<1>4. WInv'
  BY GetItemKeeps
<1>5. outcome[g] # 0
  <2>1. \/ wire[g] = "broken" /\ "ok" = "error"
        \/ wire[g] = "open" /\ outcome[g] # 0 /\ "ok" = Answer(g)
    BY <1>1, <1>2 DEF Returned, Return
  <2> QED
    BY <2>1
<1>6. \A v \in Workers : ToldEmpty(v)' => ToldEmpty(v) /\ seen'[v] = seen[v]
  BY <1>1, <1>2, <1>3, WorkQueueAssumption DEF ToldEmpty, WInv, TypeOK
<1>7. ExitOK'
  BY <1>3, <1>6, ExitRest
<1>8. \A h \in Gets : h # g => (Awaited(h)' <=> Awaited(h))
  BY <1>1, <1>3, ClientAssumption, WorkQueueAssumption DEF Awaited
<1>9. \A i \in Items : Safe(i) => Safe(i)'
  <2> SUFFICES ASSUME NEW i \in Items, Safe(i)
               PROVE  Safe(i)'
    OBVIOUS
  <2>1. CASE \E h \in Gets : Awaited(h) /\ taken[h] = i
    <3>1. PICK h \in Gets : Awaited(h) /\ taken[h] = i
      BY <2>1
    <3>2. CASE h = g
      BY <3>1, <3>2, <1>2 DEF Safe
    <3>3. CASE h # g
      BY <3>1, <3>3, <1>3, <1>8, WorkQueueAssumption DEF Safe
    <3> QED
      BY <3>2, <3>3
  <2>2. CASE \E v \in Workers : item[v] = i
    <3>1. PICK v \in Workers : item[v] = i
      BY <2>2
    <3>2. item'[v] = i
      BY <3>1, <1>2, ItemsFact
    <3> QED
      BY <3>2 DEF Safe
  <2>3. CASE ~NotWaiting(i) \/ done[i] # 0
    BY <2>3, <1>3 DEF Safe, NotWaiting
  <2> QED
    BY <2>1, <2>2, <2>3 DEF Safe
<1>10. \A h \in AtRisk' : h \in AtRisk
  BY <1>3, <1>5, <1>8, WorkQueueAssumption DEF AtRisk
<1>11. Doomed' \subseteq Doomed
  BY <1>3, <1>9, <1>10 DEF Doomed, Gone, Accepted
<1>12. faults \in Nat /\ faults' = faults
  BY <1>3, FaultsFact DEF WInv, trouble
<1>13. LossOK'
  BY <1>3, <1>11, <1>12, LossSame
<1> QED
  BY <1>3, <1>4, <1>7, <1>13

\* The item is now done.
LEMMA WorkLoses == \A w \in Workers : LInv /\ Work(w) => LInv'
<1> SUFFICES ASSUME NEW w \in Workers, LInv, Work(w)
             PROVE  LInv'
  OBVIOUS
<1> USE DEF LInv
<1>1. WInv'
  BY WorkKeeps
<1>2. /\ UNCHANGED <<op, name, table, content, bound, taken, outcome>>
      /\ UNCHANGED <<wire, faults, restarted, call, seen>>
  BY DEF Work, service, trouble
<1>3. PICK i \in Items : i = item[w]
  BY DEF Work, Step, WInv, TypeOK
<1>4. /\ wpc[w] = "work" /\ wpc'[w] = "loop" /\ \A v \in Workers : v # w => wpc'[v] = wpc[v]
      /\ \A v \in Workers : v # w => item'[v] = item[v]
      /\ done'[i] # 0 /\ \A h \in Items : done[h] # 0 => done'[h] # 0
  <2>1. done' = [h \in Items |-> IF h = i THEN done[h] + 1 ELSE done[h]]
    BY <1>3 DEF Work
  <2> QED
    BY <1>3, <2>1 DEF Work, Step, WInv, TypeOK
<1>5. Accepted' = Accepted /\ (Removed' <=> Removed)
  BY <1>2 DEF Accepted, Removed
<1>6. LinkOK'
  BY <1>2, <1>5 DEF LinkOK
<1>7. OneQueue'
  BY <1>2, <1>5, QueuesRest
<1>8. \A v \in Workers : ToldEmpty(v)' => ToldEmpty(v) /\ seen'[v] = seen[v]
  BY <1>2, <1>4 DEF ToldEmpty
<1>9. ExitOK'
  BY <1>2, <1>5, <1>8, ExitRest
<1>10. \A h : Awaited(h)' <=> Awaited(h)
  BY <1>2 DEF Awaited
<1>11. \A h \in Items : Safe(h) => Safe(h)'
  <2> SUFFICES ASSUME NEW h \in Items, Safe(h)
               PROVE  Safe(h)'
    OBVIOUS
  <2>1. CASE \E v \in Workers : item[v] = h
    BY <2>1, <1>3, <1>4 DEF Safe
  <2>2. CASE ~NotWaiting(h) \/ (\E g \in Gets : Awaited(g) /\ taken[g] = h) \/ done[h] # 0
    BY <2>2, <1>2, <1>4, <1>10 DEF Safe, NotWaiting
  <2> QED
    BY <2>1, <2>2 DEF Safe
<1>12. Doomed' \subseteq Doomed
  BY <1>2, <1>5, <1>10, <1>11 DEF Doomed, Gone, Accepted, AtRisk
<1>13. faults \in Nat
  BY FaultsFact DEF WInv
<1>14. LossOK'
  BY <1>2, <1>5, <1>12, <1>13, LossSame
<1> QED
  BY <1>1, <1>6, <1>7, <1>9, <1>14

\* The pod dies with the item it works on.
LEMMA KillWorking ==
  ASSUME LInv, NEW w \in Workers, Kill(w), call[w] = Nil
  PROVE  LinkOK' /\ OneQueue' /\ ExitOK' /\ LossOK'
<1> USE DEF LInv
<1>1. /\ UNCHANGED <<op, name, table, content, bound, taken, outcome>>
      /\ UNCHANGED <<wire, restarted, seen, done>>
      /\ faults' = faults + 1
  BY DEF Kill, service, Fault
<1>2. /\ wpc'[w] = "loop" /\ \A v \in Workers : v # w => wpc'[v] = wpc[v]
      /\ \A v \in Workers : v # w => item'[v] = item[v]
      /\ call' = call
  BY DEF Kill, WInv, TypeOK
<1>3. Accepted' = Accepted /\ (Removed' <=> Removed)
  BY <1>1 DEF Accepted, Removed
<1>4. LinkOK'
  BY <1>1, <1>3 DEF LinkOK
<1>5. OneQueue'
  BY <1>1, <1>3, QueuesRest
<1>6. \A v \in Workers : ToldEmpty(v)' => ToldEmpty(v) /\ seen'[v] = seen[v]
  BY <1>1, <1>2 DEF ToldEmpty
<1>7. ExitOK'
  BY <1>1, <1>3, <1>6, ExitRest
<1>8. \A h : Awaited(h)' <=> Awaited(h)
  BY <1>1, <1>2 DEF Awaited
<1>9. PICK x : x = item[w]
  OBVIOUS
<1>10. \A h \in Items : Safe(h) => h = x \/ Safe(h)'
  BY <1>1, <1>2, <1>8, <1>9 DEF Safe, NotWaiting
<1>11. Doomed' \subseteq Doomed \cup {x}
  BY <1>1, <1>3, <1>8, <1>10 DEF Doomed, Gone, Accepted, AtRisk
<1>12. faults \in Nat
  BY FaultsFact DEF WInv
<1>13. LossOK'
  BY <1>1, <1>3, <1>11, <1>12, LossFault
<1> QED
  BY <1>4, <1>5, <1>7, <1>13

\* The pod dies while it waits: the item of an answer that is there is lost, or
\* the one of the answer that is still to come.
LEMMA KillWaiting ==
  ASSUME LInv, NEW w \in Workers, Kill(w), NEW g, g = call[w], g # Nil
  PROVE  LinkOK' /\ OneQueue' /\ ExitOK' /\ LossOK'
<1> USE DEF LInv
<1>1. /\ g \in Gets /\ g \in Calls
      /\ Leave(g) /\ restarted' = restarted /\ seen' = seen /\ done' = done
      /\ faults' = faults + 1
  BY WorkQueueAssumption DEF Kill, Fault, WInv, TypeOK
<1>2. /\ wpc'[w] = "loop" /\ \A v \in Workers : v # w => wpc'[v] = wpc[v]
      /\ call'[w] = Nil /\ \A v \in Workers : v # w => call'[v] = call[v]
      /\ item[w] = Nil /\ item'[w] = Nil /\ \A v \in Workers : v # w => item'[v] = item[v]
  BY DEF Kill, WInv, TypeOK
<1>3. /\ content' = content
      /\ \A s \in Calls : s # g =>
           /\ op'[s] = op[s] /\ wire'[s] = wire[s]
           /\ taken'[s] = taken[s] /\ outcome'[s] = outcome[s]
      /\ \/ op'[g] = "none" /\ outcome'[g] = 0
         \/ outcome[g] = 0 /\ op'[g] = op[g] /\ outcome'[g] = outcome[g]
  <2>1. op[g] \in {"none", "dequeue"}
    BY <1>1 DEF WInv, CallsOK
  <2> QED
    BY <1>1, <2>1, LeaveParts DEF WInv, Through
<1>4. Accepted' = Accepted /\ (Removed => Removed') /\ LinkOK' /\ OneQueue'
  BY <1>1, LeaveLinks
<1>5. \A v \in Workers : ToldEmpty(v)' => ToldEmpty(v) /\ seen'[v] = seen[v]
  BY <1>1, <1>2, <1>3, WorkQueueAssumption DEF ToldEmpty, WInv, TypeOK
<1>6. ExitOK'
  BY <1>3, <1>4, <1>5, ExitRest
<1>7. \A h \in Gets : h # g => (Awaited(h)' <=> Awaited(h))
  BY <1>2, <1>3, ClientAssumption, WorkQueueAssumption DEF Awaited
<1>8. ASSUME NEW i \in Items, Safe(i)
      PROVE  i = taken[g] \/ Safe(i)'
  <2>1. CASE \E h \in Gets : Awaited(h) /\ taken[h] = i
    BY <2>1, <1>3, <1>7, WorkQueueAssumption DEF Safe
  <2>2. CASE \E v \in Workers : item[v] = i
    BY <2>2, <1>2, ItemsFact DEF Safe
  <2>3. CASE ~NotWaiting(i) \/ done[i] # 0
    BY <2>3, <1>1, <1>3 DEF Safe, NotWaiting
  <2> QED
    BY <1>8, <2>1, <2>2, <2>3 DEF Safe
<1>9. \A h \in AtRisk' : h \in AtRisk \/ h = g
  BY <1>3, <1>7, WorkQueueAssumption DEF AtRisk
<1>10. PICK x : x = IF op'[g] = "none" THEN taken[g] ELSE g
  OBVIOUS
<1>11. Doomed' \subseteq Doomed \cup {x}
  <2>1. CASE op'[g] = "none"
    <3>1. g \notin AtRisk'
      BY <2>1 DEF AtRisk
    <3> QED
      BY <2>1, <3>1, <1>4, <1>8, <1>9, <1>10 DEF Doomed, Gone, Accepted
  <2>2. CASE op'[g] # "none"
    <3>1. taken[g] = Nil
      BY <2>2, <1>1, <1>3 DEF WInv, CallsOK
    <3>2. \A i \in Items : Safe(i) => Safe(i)'
      BY <3>1, <1>8, ItemsFact
    <3> QED
      BY <2>2, <3>2, <1>4, <1>9, <1>10 DEF Doomed, Gone, Accepted
  <2> QED
    BY <2>1, <2>2
<1>12. faults \in Nat
  BY FaultsFact DEF WInv
<1>13. LossOK'
  BY <1>1, <1>4, <1>11, <1>12, LossFault
<1> QED
  BY <1>4, <1>6, <1>13

LEMMA KillLoses == \A w \in Workers : LInv /\ Kill(w) => LInv'
BY KillKeeps, KillWorking, KillWaiting DEF LInv

-----------------------------------------------------------------------------
(* The server *)

\* The server's steps leave the callers alone.
LEMMA ServerLinks ==
  ASSUME LInv, UNCHANGED <<op, name, wire, restarted, seen>>,
         NEW r \in Calls, \A s \in Calls : s # r => outcome'[s] = outcome[s],
         op[r] \in {"delete", "drain", "enqueue"} /\ outcome[r] = 200 => outcome'[r] = 200
  PROVE  Accepted \subseteq Accepted' /\ (Removed => Removed') /\ LinkOK'
<1> USE DEF LInv
<1>1. Accepted \subseteq Accepted'
  BY ItemsFact DEF Accepted
<1>2. Removed => Removed'
  BY RemovedStays
<1>3. LinkOK'
  BY <1>1 DEF LinkOK
<1> QED
  BY <1>1, <1>2, <1>3

\* What decides about a request and moves no item.
LEMMA DecideLoses ==
  ASSUME LInv, WInv', UNCHANGED <<op, name, content, taken>>, UNCHANGED <<wire, trouble, work>>,
         NEW r \in Calls, \A s \in Calls : s # r => outcome'[s] = outcome[s],
         outcome[r] # 0 => op[r] = "stats" \/ outcome'[r] = outcome[r],
         op[r] = "enqueue" => outcome'[r] # 200 \/ outcome'[r] = outcome[r],
         (Removed => Removed') => OneQueue',
         ~Removed' /\ outcome'[r] = 204 => outcome[r] = 204 \/ \A o \in Calls : content[o] = <<>>
  PROVE  LInv'
<1> USE DEF LInv
<1>1. /\ op[r] \in {"delete", "drain", "enqueue"} /\ outcome[r] = 200 => outcome'[r] = 200
      /\ outcome[r] # 0 => op[r] = "stats" \/ outcome'[r] # 0
  OBVIOUS
<1>2. (Removed => Removed') /\ LinkOK'
  BY <1>1, ServerLinks DEF trouble, work
<1>3. Accepted' = Accepted
  BY <1>1, ItemsFact DEF Accepted
<1>4. ExitOK'
  <2> SUFFICES ASSUME ~Removed', NEW w \in Workers, ToldEmpty(w)', NEW i \in seen[w]
               PROVE  NotWaiting(i)
    BY DEF ExitOK, NotWaiting, work
  <2>1. CASE ToldEmpty(w)
    BY <2>1, <1>2 DEF ExitOK
  <2>2. CASE ~ToldEmpty(w)
    <3>1. /\ call[w] # Nil /\ call[w] \in Calls
          /\ outcome'[call[w]] = 204 /\ outcome[call[w]] # 204
      BY <2>2, WorkQueueAssumption DEF ToldEmpty, work, WInv, TypeOK
    <3>2. \A o \in Calls : content[o] = <<>>
      BY <3>1
    <3> QED
      BY <3>2 DEF NotWaiting
  <2> QED
    BY <2>1, <2>2
<1>5. \A h : Awaited(h)' <=> Awaited(h)
  BY DEF Awaited, work
<1>6. \A h \in Items : Safe(h) => Safe(h)'
  BY <1>5 DEF Safe, NotWaiting, work
<1>7. Doomed' \subseteq Doomed
  <2>1. \A h \in Gets : h \in Calls
    BY WorkQueueAssumption
  <2>2. \A h \in AtRisk' : h \in AtRisk
    BY <1>1, <1>5, <2>1 DEF AtRisk
  <2> QED
    BY <1>3, <1>6, <2>2 DEF Doomed, Gone, Accepted
<1>8. faults \in Nat /\ faults' = faults
  BY FaultsFact DEF WInv, trouble
<1>9. LossOK'
  BY <1>2, <1>7, <1>8, LossSame
<1> QED
  BY <1>2, <1>4, <1>9

\* Once the queue was removed there is nothing to keep.
LEMMA RemovedLoses ==
  ASSUME WInv', LinkOK', Removed'
  PROVE  LInv'
BY DEF LInv, OneQueue, ExitOK, LossOK

\* The item was nowhere: nobody has seen it.
LEMMA PutLoses ==
  ASSUME LInv, NEW r \in Calls, Server!Put(r), UNCHANGED <<wire, trouble, player, work>>
  PROVE  LInv'
<1> USE DEF LInv
<1>1. PICK o \in Calls : o = bound[r]
  BY DEF Server!Put, WInv, TypeOK, ClientTypeOK
<1>2. /\ op[r] = "enqueue" /\ outcome[r] = 0 /\ o # Nil
      /\ content' = [content EXCEPT ![o] = Append(content[o], r)]
      /\ outcome' = [outcome EXCEPT ![r] = 200]
      /\ UNCHANGED <<op, name, table, bound, taken>>
  BY <1>1 DEF Server!Put, Server!Pending, Server!Decide, Server!asked
<1>3. /\ \A s \in Calls : s # r => outcome'[s] = outcome[s]
      /\ outcome'[r] = 200
  BY <1>2 DEF WInv, TypeOK, ClientTypeOK
<1>4. WInv'
  BY PutKeeps
<1>5. Accepted \subseteq Accepted' /\ (Removed => Removed') /\ LinkOK'
  BY <1>2, <1>3, ServerLinks DEF trouble, work
<1>6. OneQueue'
  <2>1. ~Removed' => o = table[Queue]
    BY <1>1, <1>2, <1>5 DEF OneQueue
  <2>2. \A p \in Calls : p # o => content'[p] = content[p]
    BY <1>2 DEF WInv, TypeOK, ClientTypeOK
  <2> QED
    BY <1>2, <1>5, <2>1, <2>2 DEF OneQueue
<1>7. \A p \in Calls : \A j \in 1..Len(content'[p]) :
        \/ j \in 1..Len(content[p]) /\ content'[p][j] = content[p][j]
        \/ content'[p][j] = r
  <2> SUFFICES ASSUME NEW p \in Calls, NEW j \in 1..Len(content'[p])
               PROVE  \/ j \in 1..Len(content[p]) /\ content'[p][j] = content[p][j]
                      \/ content'[p][j] = r
    OBVIOUS
  <2>0. content[o] \in Seq(Calls)
    BY DEF WInv, TypeOK, ClientTypeOK
  <2>1. CASE p # o
    BY <2>1, <1>2 DEF WInv, TypeOK, ClientTypeOK
  <2>2. CASE p = o
    <3>1. content'[p] = Append(content[o], r)
      BY <2>2, <1>2 DEF WInv, TypeOK, ClientTypeOK
    <3> QED
      BY <2>0, <2>2, <3>1, AppendFact
  <2> QED
    BY <2>1, <2>2
<1>8. \A p \in Calls : \A j \in 1..Len(content[p]) :
        j \in 1..Len(content'[p]) /\ content'[p][j] = content[p][j]
  <2>0. content[o] \in Seq(Calls) /\ content'[o] = Append(content[o], r)
    BY <1>2 DEF WInv, TypeOK, ClientTypeOK
  <2>1. \A j \in 1..Len(content[o]) :
          j \in 1..Len(content'[o]) /\ content'[o][j] = content[o][j]
    BY <2>0, AppendFact
  <2>2. \A p \in Calls : p # o => content'[p] = content[p]
    BY <1>2 DEF WInv, TypeOK, ClientTypeOK
  <2> QED
    BY <2>1, <2>2
<1>9. ~NotWaiting(r)'
  <2>1. content[o] \in Seq(Calls) /\ content'[o] = Append(content[o], r)
    BY <1>2 DEF WInv, TypeOK, ClientTypeOK
  <2>2. Len(content[o]) + 1 \in 1..Len(content'[o]) /\ content'[o][Len(content[o]) + 1] = r
    BY <2>1, AppendFact
  <2> QED
    BY <2>2 DEF NotWaiting
<1>10. ExitOK'
  <2> SUFFICES ASSUME ~Removed', NEW w \in Workers, ToldEmpty(w)', NEW i \in seen[w]
               PROVE  NotWaiting(i)'
    BY DEF ExitOK, work, NotWaiting
  <2>1. i \in Accepted
    BY DEF LinkOK
  <2>2. i # r
    BY <2>1, <1>2 DEF Accepted
  <2>3. ToldEmpty(w)
    BY <1>2, <1>3, WorkQueueAssumption DEF ToldEmpty, work, WInv, TypeOK
  <2>4. NotWaiting(i)
    BY <2>3, <1>5 DEF ExitOK
  <2> QED
    BY <2>2, <2>4, <1>7 DEF NotWaiting
<1>11. \A h : Awaited(h)' <=> Awaited(h)
  BY DEF Awaited, work
<1>12. \A h \in Items : Safe(h) => Safe(h)'
  <2>1. \A h : ~NotWaiting(h) => ~NotWaiting(h)'
    BY <1>8 DEF NotWaiting
  <2> QED
    BY <1>2, <1>11, <2>1 DEF Safe, work
<1>13. \A h \in Accepted' : h \in Accepted \/ h = r
  BY <1>2, <1>3, ItemsFact DEF Accepted
<1>14. Doomed' \subseteq Doomed
  <2>1. r \notin Gone'
    BY <1>9 DEF Gone, Safe
  <2>2. \A h \in Gone' : h \in Gone
    BY <1>12, <1>13, <2>1 DEF Gone, Accepted
  <2>3. \A h \in AtRisk' : h \in AtRisk
    BY <1>2, <1>3, <1>11, WorkQueueAssumption DEF AtRisk
  <2> QED
    BY <2>2, <2>3 DEF Doomed
<1>15. faults \in Nat /\ faults' = faults
  BY FaultsFact DEF WInv, trouble
<1>16. LossOK'
  BY <1>5, <1>14, <1>15, LossSame
<1> QED
  BY <1>4, <1>5, <1>6, <1>10, <1>16

\* The item goes into the answer.  When nobody waits for it the item is lost,
\* and the call was at risk.
LEMMA GetLoses ==
  ASSUME LInv, NEW r \in Calls, Server!Get(r), UNCHANGED <<wire, trouble, player, work>>
  PROVE  LInv'
<1> USE DEF LInv
<1>1. PICK o \in Calls : o = bound[r]
  BY DEF Server!Get, WInv, TypeOK, ClientTypeOK
<1>2. PICK i : i = Head(content[o])
  OBVIOUS
<1>3. /\ op[r] = "dequeue" /\ outcome[r] = 0 /\ content[o] # <<>>
      /\ content' = [content EXCEPT ![o] = Tail(content[o])]
      /\ outcome' = [outcome EXCEPT ![r] = 200]
      /\ taken' = [taken EXCEPT ![r] = i]
      /\ UNCHANGED <<op, name, table, bound>>
  BY <1>1, <1>2 DEF Server!Get, Server!Pending, Server!Decide, Server!asked
<1>4. /\ \A s \in Calls : s # r => outcome'[s] = outcome[s] /\ taken'[s] = taken[s]
      /\ outcome'[r] = 200 /\ taken'[r] = i
      /\ \A p \in Calls : p # o => content'[p] = content[p]
      /\ content'[o] = Tail(content[o]) /\ content[o] \in Seq(Calls)
  BY <1>3 DEF WInv, TypeOK, ClientTypeOK
<1>5. WInv'
  <2>1. i = content[o][1]
    BY <1>2, <1>3, <1>4, TailFact
  <2> QED
    BY <1>1, <2>1, GetKeeps
<1>6. Accepted \subseteq Accepted' /\ (Removed => Removed') /\ LinkOK'
  BY <1>3, <1>4, ServerLinks DEF trouble, work
<1>7. Accepted' = Accepted
  BY <1>3, <1>4, ItemsFact DEF Accepted
<1>8. OneQueue'
  <2>1. \A p \in Calls : content'[p] # <<>> => content[p] # <<>>
    BY <1>3, <1>4
  <2> QED
    BY <1>3, <1>6, <2>1 DEF OneQueue
<1>9. \A p \in Calls : \A j \in 1..Len(content'[p]) :
        \E k \in 1..Len(content[p]) : content'[p][j] = content[p][k]
  <2> SUFFICES ASSUME NEW p \in Calls, NEW j \in 1..Len(content'[p])
               PROVE  \E k \in 1..Len(content[p]) : content'[p][j] = content[p][k]
    OBVIOUS
  <2>1. CASE p # o
    BY <2>1, <1>4
  <2>2. CASE p = o
    <3>1. PICK l \in Seq(Calls) : l = content[o] /\ l # <<>>
      BY <1>3, <1>4
    <3>2. content'[p] = Tail(l)
      BY <2>2, <3>1, <1>4
    <3>3. j + 1 \in 1..Len(l) /\ Tail(l)[j] = l[j + 1]
      BY <3>1, <3>2, TailFact
    <3> QED
      BY <2>2, <3>1, <3>2, <3>3
  <2> QED
    BY <2>1, <2>2
<1>10. \A p \in Calls : \A j \in 1..Len(content[p]) :
         \/ content[p][j] = i
         \/ \E k \in 1..Len(content'[p]) : content'[p][k] = content[p][j]
  <2> SUFFICES ASSUME NEW p \in Calls, NEW j \in 1..Len(content[p]), content[p][j] # i
               PROVE  \E k \in 1..Len(content'[p]) : content'[p][k] = content[p][j]
    OBVIOUS
  <2>1. CASE p # o
    BY <2>1, <1>4
  <2>2. CASE p = o
    <3>1. PICK l \in Seq(Calls) : l = content[o] /\ l # <<>>
      BY <1>3, <1>4
    <3>2. content'[p] = Tail(l) /\ content[p] = l /\ i = Head(l)
      BY <2>2, <3>1, <1>2, <1>4
    <3>3. /\ i = l[1] /\ Len(l) \in Nat /\ Len(Tail(l)) = Len(l) - 1
          /\ \A k \in 1..Len(l) - 1 : Tail(l)[k] = l[k + 1]
      BY <3>1, <3>2, TailFact
    <3>4. j # 1 /\ j \in 1..Len(l)
      BY <3>2, <3>3
    <3>5. j - 1 \in 1..Len(l) - 1 /\ (j - 1) + 1 = j
      BY <3>3, <3>4
    <3>6. Tail(l)[j - 1] = l[j] /\ j - 1 \in 1..Len(Tail(l))
      BY <3>3, <3>5
    <3> QED
      BY <3>2, <3>6
  <2> QED
    BY <2>1, <2>2
<1>11. ExitOK'
  <2> SUFFICES ASSUME ~Removed', NEW w \in Workers, ToldEmpty(w)', NEW h \in seen[w]
               PROVE  NotWaiting(h)'
    BY DEF ExitOK, work, NotWaiting
  <2>1. ToldEmpty(w)
    BY <1>4, WorkQueueAssumption DEF ToldEmpty, work, WInv, TypeOK
  <2>2. NotWaiting(h)
    BY <2>1, <1>6 DEF ExitOK
  <2> QED
    BY <2>2, <1>9 DEF NotWaiting
<1>12. \A h : Awaited(h)' <=> Awaited(h)
  BY DEF Awaited, work
<1>13. taken[r] = Nil /\ r \in Gets
  BY <1>3 DEF WInv, CallsOK, LinkOK
<1>14. \A h \in Items : Safe(h) => h = i \/ Safe(h)'
  <2> SUFFICES ASSUME NEW h \in Items, Safe(h), h # i
               PROVE  Safe(h)'
    OBVIOUS
  <2>1. CASE ~NotWaiting(h)
    BY <2>1, <1>10 DEF Safe, NotWaiting
  <2>2. CASE \E g \in Gets : Awaited(g) /\ taken[g] = h
    <3>1. PICK g \in Gets : Awaited(g) /\ taken[g] = h
      BY <2>2
    <3>2. g # r
      BY <3>1, <1>13, ItemsFact
    <3> QED
      BY <3>1, <3>2, <1>4, <1>12, WorkQueueAssumption DEF Safe
  <2>3. CASE (\E w \in Workers : item[w] = h) \/ done[h] # 0
    BY <2>3 DEF Safe, work
  <2> QED
    BY <2>1, <2>2, <2>3 DEF Safe
<1>15. \A h \in AtRisk' : h \in AtRisk /\ h # r
  BY <1>3, <1>4, <1>12, WorkQueueAssumption DEF AtRisk
<1>16. faults \in Nat /\ faults' = faults
  BY FaultsFact DEF WInv, trouble
<1>17. LossOK'
  <2>1. CASE Awaited(r)
    <3>1. \A h \in Items : Safe(h) => Safe(h)'
      BY <2>1, <1>4, <1>12, <1>13, <1>14 DEF Safe
    <3>2. Doomed' \subseteq Doomed
      BY <3>1, <1>7, <1>15 DEF Doomed, Gone, Accepted
    <3> QED
      BY <3>2, <1>6, <1>16, LossSame
  <2>2. CASE ~Awaited(r)
    <3>1. r \in Doomed /\ r \notin Gone /\ r \notin Gone'
      BY <2>2, <1>3, <1>7, <1>13, ItemsFact DEF Doomed, AtRisk, Gone, Accepted
    <3>2. Doomed' \subseteq (Doomed \ {r}) \cup {i}
      BY <3>1, <1>7, <1>14, <1>15 DEF Doomed, Gone, Accepted
    <3> QED
      BY <3>1, <3>2, <1>6, <1>16, LossSwap
  <2> QED
    BY <2>1, <2>2
<1> QED
  BY <1>5, <1>6, <1>8, <1>11, <1>17

\* One request, one step of the server.
LEMMA ServeLoses ==
  ASSUME LInv, NEW r \in Calls, Serve(r), UNCHANGED <<player, work>>
  PROVE  LInv'
<1> USE DEF Server!Pending, Server!Decide, Server!asked, Server!stats
<1>0. UNCHANGED <<wire, trouble>> /\ WInv' /\ WInv
  BY ServeKeeps DEF Serve, LInv
<1>1. /\ outcome \in [Calls -> {0, 200, 204, 400, 500, 503}]
      /\ bound \in [Calls -> Calls \cup {Nil}]
      /\ table \in [Names -> Calls \cup {Nil}]
      /\ op[r] \notin {"none", "stats"} => name[r] = Queue
      /\ Queue \in Names /\ Nil \notin Calls
  BY <1>0, ClientAssumption, WorkQueueAssumption DEF LInv, LinkOK, WInv, TypeOK, ClientTypeOK
<1>2. CASE Server!Refuse(r)
  <2>1. /\ outcome[r] = 0 /\ outcome' = [outcome EXCEPT ![r] = 400]
        /\ UNCHANGED <<op, name, table, content, bound, taken>>
    BY <1>2 DEF Server!Refuse
  <2>2. (Removed => Removed') => OneQueue'
    BY <2>1, QueuesRest DEF LInv
  <2>3. outcome'[r] = 400 /\ \A s \in Calls : s # r => outcome'[s] = outcome[s]
    BY <1>1, <2>1
  <2> QED
    BY <1>0, <2>1, <2>2, <2>3, DecideLoses
<1>3. CASE Server!Create(r)
  <2>1. /\ op[r] = "create" /\ outcome[r] = 0 /\ outcome' = [outcome EXCEPT ![r] = 200]
        /\ table[Queue] = Nil /\ table' = [table EXCEPT ![Queue] = r]
        /\ UNCHANGED <<op, name, content, bound, taken>>
    BY ZenonT(30), <1>1, <1>3 DEF Server!Create
  <2>2. (Removed => Removed') => OneQueue'
    <3> SUFFICES ASSUME ~Removed, ~Removed'
                 PROVE  /\ \A o \in Calls : content'[o] = <<>>
                        /\ \A s \in Calls : bound'[s] = Nil
      BY DEF OneQueue
    <3>1. /\ \A o \in Calls : content[o] # <<>> => o = table[Queue]
          /\ \A s \in Calls : bound[s] # Nil => bound[s] = table[Queue]
      BY DEF LInv, OneQueue
    <3> QED
      BY <1>1, <2>1, <3>1
  <2>3. outcome'[r] = 200 /\ \A s \in Calls : s # r => outcome'[s] = outcome[s]
    BY <1>1, <2>1
  <2> QED
    BY <1>0, <2>1, <2>2, <2>3, DecideLoses
<1>4. CASE Server!Delete(r) \/ Server!Drain(r)
  <2>1. /\ op[r] \in {"delete", "drain"} /\ outcome[r] = 0
        /\ outcome' = [outcome EXCEPT ![r] = 200]
        /\ UNCHANGED <<op, name>>
    BY <1>4 DEF Server!Delete, Server!Drain
  <2>2. outcome'[r] = 200 /\ \A s \in Calls : s # r => outcome'[s] = outcome[s]
    BY <1>1, <2>1
  <2>3. LinkOK'
    BY <1>0, <2>1, <2>2, ServerLinks DEF trouble, work
  <2>4. Removed'
    BY <2>1, <2>2 DEF Removed
  <2> QED
    BY <1>0, <2>3, <2>4, RemovedLoses
<1>5. CASE Server!Find(r)
  <2>1. /\ bound' = [bound EXCEPT ![r] = table[Queue]]
        /\ UNCHANGED <<op, name, table, content, taken, outcome>>
    BY <1>1, <1>5 DEF Server!Find
  <2>2. (Removed => Removed') => OneQueue'
    BY <1>1, <2>1 DEF LInv, OneQueue
  <2> QED
    BY <1>0, <2>1, <2>2, DecideLoses
<1>6. CASE Server!GetNothing(r)
  <2>1. /\ op[r] = "dequeue" /\ outcome[r] = 0 /\ outcome' = [outcome EXCEPT ![r] = 204]
        /\ bound[r] # Nil /\ content[bound[r]] = <<>>
        /\ UNCHANGED <<op, name, table, content, bound, taken>>
    BY <1>6 DEF Server!GetNothing
  <2>2. (Removed => Removed') => OneQueue'
    BY <2>1, QueuesRest DEF LInv
  <2>3. outcome'[r] = 204 /\ \A s \in Calls : s # r => outcome'[s] = outcome[s]
    BY <1>1, <2>1
  <2>4. ~Removed' => \A o \in Calls : content[o] = <<>>
    <3>1. \A s \in Calls : op[s] \in {"delete", "drain"} /\ outcome[s] = 200 => outcome'[s] = 200
      BY <2>1, <2>3
    <3>2. Removed => Removed'
      BY <1>0, <2>1, <3>1, RemovedStays DEF trouble
    <3> QED
      BY <2>1, <3>2 DEF LInv, OneQueue
  <2> QED
    BY <1>0, <2>1, <2>2, <2>3, <2>4, DecideLoses
<1>7. CASE Server!List(r) \/ Server!Visit(r)
  <2>1. UNCHANGED <<op, name, table, content, bound, taken, outcome>>
    BY <1>7 DEF Server!List, Server!Visit
  <2>2. (Removed => Removed') => OneQueue'
    BY <2>1, QueuesRest DEF LInv
  <2> QED
    BY <1>0, <2>1, <2>2, DecideLoses
<1>8. CASE Server!Report(r)
  <2>1. /\ op[r] = "stats" /\ outcome' = [outcome EXCEPT ![r] = 200]
        /\ UNCHANGED <<op, name, table, content, bound, taken>>
    BY <1>0, <1>8 DEF Server!Report, WInv, CallsOK
  <2>2. (Removed => Removed') => OneQueue'
    BY <2>1, QueuesRest DEF LInv
  <2>3. outcome'[r] = 200 /\ \A s \in Calls : s # r => outcome'[s] = outcome[s]
    BY <1>1, <2>1
  <2> QED
    BY <1>0, <2>1, <2>2, <2>3, DecideLoses
<1> QED
  BY <1>0, <1>2, <1>3, <1>4, <1>5, <1>6, <1>7, <1>8, PutLoses, GetLoses DEF Serve

\* A connection breaks: the item of an answer that is there is lost, or the one of
\* the answer that is still to come.
LEMMA BreakLoses ==
  ASSUME LInv, NEW r \in Calls, Break(r), UNCHANGED <<player, work>>
  PROVE  LInv'
<1> USE DEF LInv
<1>1. /\ UNCHANGED <<op, name, table, content, bound, taken, outcome>>
      /\ UNCHANGED <<wpc, call, item, done, seen, restarted>>
      /\ faults' = faults + 1
  BY DEF Break, Fault, service, work
<1>2. wire'[r] = "broken" /\ \A s \in Calls : s # r => wire'[s] = wire[s]
  BY DEF Break, Wire, WInv, TypeOK, ClientTypeOK
<1>3. wire[r] = "open"
  BY DEF Break, Wire
<1>4. WInv'
  BY BreakKeeps
<1>5. Accepted' = Accepted /\ (Removed' <=> Removed)
  BY <1>1 DEF Accepted, Removed
<1>6. LinkOK'
  BY <1>1, <1>2, <1>5 DEF LinkOK
<1>7. OneQueue'
  BY <1>1, <1>5, QueuesRest
<1>8. \A w \in Workers : ToldEmpty(w)' <=> ToldEmpty(w)
  BY <1>1 DEF ToldEmpty
<1>9. ExitOK'
  BY <1>1, <1>5, <1>8, ExitRest
<1>10. \A h \in Gets : h # r => (Awaited(h)' <=> Awaited(h))
  BY <1>1, <1>2, WorkQueueAssumption DEF Awaited
<1>11. \A i \in Items : Safe(i) => i = taken[r] \/ Safe(i)'
  BY <1>1, <1>10 DEF Safe, NotWaiting
<1>12. \A h \in AtRisk' : h \in AtRisk \/ h = r
  BY <1>1, <1>10 DEF AtRisk
<1>13. PICK x : x = IF outcome[r] = 0 THEN r ELSE taken[r]
  OBVIOUS
<1>14. Doomed' \subseteq Doomed \cup {x}
  <2>1. CASE outcome[r] = 0
    <3>1. taken[r] = Nil
      BY <2>1 DEF WInv, CallsOK
    <3>2. \A i \in Items : Safe(i) => Safe(i)'
      BY <3>1, <1>11, ItemsFact
    <3> QED
      BY <2>1, <3>2, <1>5, <1>12, <1>13 DEF Doomed, Gone, Accepted
  <2>2. CASE outcome[r] # 0
    <3>1. r \notin AtRisk'
      BY <2>2, <1>1 DEF AtRisk
    <3> QED
      BY <2>2, <3>1, <1>5, <1>11, <1>12, <1>13 DEF Doomed, Gone, Accepted
  <2> QED
    BY <2>1, <2>2
<1>15. faults \in Nat
  BY FaultsFact DEF WInv
<1>16. LossOK'
  BY <1>1, <1>5, <1>14, <1>15, LossFault
<1> QED
  BY <1>4, <1>6, <1>7, <1>9, <1>16

LEMMA RestartLoses ==
  ASSUME LInv, ServerRestarts, UNCHANGED <<player, work>>
  PROVE  LInv'
<1> USE DEF LInv
<1>1. WInv'
  BY RestartKeeps
<1>2. Accepted \subseteq Accepted'
  BY ItemsFact DEF ServerRestarts, Accepted, Through
<1>3. LinkOK'
  BY <1>2 DEF ServerRestarts, LinkOK, work
<1>4. Removed'
  BY DEF ServerRestarts, Removed
<1> QED
  BY <1>1, <1>3, <1>4, RemovedLoses

\* What the server forgets nobody waited for.
LEMMA ForgetLoses ==
  ASSUME LInv, NEW r \in Calls, Forget(r), UNCHANGED <<player, work>>
  PROVE  LInv'
<1> USE DEF LInv
<1>1. Leave(r) /\ UNCHANGED trouble /\ wire[r] = "returned" /\ op[r] = "dequeue" /\ Through(r)
  BY DEF Forget, Leave
<1>2. /\ content' = content
      /\ \A s \in Calls : s # r =>
           /\ op'[s] = op[s] /\ wire'[s] = wire[s]
           /\ taken'[s] = taken[s] /\ outcome'[s] = outcome[s]
      /\ op'[r] = "none" /\ outcome'[r] = 0 /\ wire'[r] = "idle"
  BY <1>1, LeaveParts DEF WInv
<1>3. UNCHANGED <<wpc, call, item, done, seen>>
  BY DEF work
<1>4. Accepted' = Accepted /\ (Removed => Removed') /\ LinkOK' /\ OneQueue'
  BY <1>1, <1>3, LeaveLinks DEF trouble
<1>5. WInv'
  BY ForgetKeeps
<1>6. \A w \in Workers : ToldEmpty(w)' => ToldEmpty(w)
  BY <1>2, <1>3, WorkQueueAssumption DEF ToldEmpty, WInv, TypeOK
<1>7. ExitOK'
  BY <1>2, <1>3, <1>4, <1>6, ExitRest
<1>8. \A h \in Gets : Awaited(h)' <=> Awaited(h)
  BY <1>1, <1>2, <1>3, WorkQueueAssumption DEF Awaited
<1>9. \A h \in Gets : Awaited(h) => h # r
  BY <1>1 DEF Awaited
<1>10. \A i \in Items : Safe(i) => Safe(i)'
  BY <1>2, <1>3, <1>8, <1>9, WorkQueueAssumption DEF Safe, NotWaiting
<1>11. Doomed' \subseteq Doomed
  <2>1. \A h \in AtRisk' : h \in AtRisk
    BY <1>2, <1>8, WorkQueueAssumption DEF AtRisk
  <2> QED
    BY <2>1, <1>4, <1>10 DEF Doomed, Gone, Accepted
<1>12. faults \in Nat /\ faults' = faults
  BY <1>1, FaultsFact DEF WInv, trouble
<1>13. LossOK'
  BY <1>4, <1>11, <1>12, LossSame
<1> QED
  BY <1>4, <1>5, <1>7, <1>13

-----------------------------------------------------------------------------
(* Theorems *)

LEMMA LInitially == Init => LInv
<1> SUFFICES ASSUME Init
             PROVE  LInv
  OBVIOUS
<1>1. WInv
  BY WInitially
<1>2. LinkOK /\ OneQueue /\ ExitOK
  BY ClientAssumption DEF Init, ClientInit, Server!Init, LinkOK, OneQueue, ExitOK, ToldEmpty
<1>3. Doomed = {}
  <2>1. \A r \in Calls : op[r] = "none"
    BY DEF Init, ClientInit, Server!Init
  <2>2. Gone = {}
    BY <2>1, ItemsFact DEF Gone, Accepted
  <2>3. AtRisk = {}
    BY <2>1, WorkQueueAssumption DEF AtRisk
  <2> QED
    BY <2>2, <2>3 DEF Doomed
<1>4. faults = 0
  BY DEF Init, ClientInit
<1>5. LossOK
  BY <1>3, <1>4, FS_EmptySet DEF LossOK, Bounded
<1> QED
  BY <1>1, <1>2, <1>5 DEF LInv

LEMMA LStutter == LInv /\ UNCHANGED vars => LInv'
<1> SUFFICES ASSUME LInv, UNCHANGED vars
             PROVE  LInv'
  OBVIOUS
<1>1. WInv'
  BY WStutter DEF LInv
<1>2. UNCHANGED <<op, name, table, content, bound, taken, outcome, wire, faults, restarted,
                  wpc, call, item, done, seen>>
  BY DEF vars, service, trouble, work
<1>3. Accepted' = Accepted /\ (Removed' <=> Removed) /\ \A w \in Workers : ToldEmpty(w)' <=> ToldEmpty(w)
  BY <1>2 DEF Accepted, Removed, ToldEmpty
<1>4. LinkOK' /\ OneQueue' /\ ExitOK'
  BY <1>2, <1>3, QueuesRest, ExitRest DEF LInv, LinkOK
<1>5. \A h : Awaited(h)' <=> Awaited(h)
  BY <1>2 DEF Awaited
<1>6. \A i : Safe(i)' <=> Safe(i)
  BY <1>2, <1>5 DEF Safe, NotWaiting
<1>7. Doomed' = Doomed
  BY <1>2, <1>3, <1>5, <1>6 DEF Doomed, Gone, AtRisk
<1>8. LossOK'
  BY <1>2, <1>3, <1>7 DEF LInv, LossOK, Bounded
<1> QED
  BY <1>1, <1>4, <1>8 DEF LInv

LEMMA LStep == LInv /\ [Next]_vars => LInv'
<1> SUFFICES ASSUME LInv, [Next]_vars
             PROVE  LInv'
  OBVIOUS
<1>1. CASE Load \/ Loaded
  BY <1>1, LoadLoses, LoadedLoses
<1>2. ASSUME NEW w \in Workers, Run(w) \/ Kill(w)
      PROVE  LInv'
  BY <1>2, AskLoses, GetItemLoses, EmptyHandedLoses, WorkLoses, KillLoses DEF Run
<1>3. ASSUME NEW r \in Calls, Attend(r) \/ (Break(r) /\ UNCHANGED <<player, work>>)
      PROVE  LInv'
  BY <1>3, ServeLoses, ForgetLoses, BreakLoses DEF Attend, Handle
<1>4. CASE ServerRestarts /\ UNCHANGED <<player, work>>
  BY <1>4, RestartLoses
<1>5. CASE UNCHANGED vars
  BY <1>5, LStutter
<1> QED
  BY <1>1, <1>2, <1>3, <1>4, <1>5 DEF Next, Ended

\* LInv is an invariant of the work queue.
THEOREM LInvariance == Spec => []LInv
<1> QED
  BY LInitially, LStep, PTL DEF Spec

\* A worker that exits leaves nothing behind of what was accepted before it asked,
\* unless somebody removed the queue: for any number of workers, calls and faults.
THEOREM EmptyOnExit == Spec => []ExitsWhenEmpty
<1>1. LInv => ExitsWhenEmpty
  <2> SUFFICES ASSUME LInv, NEW w \in Workers, wpc[w] = "exited", ~Removed,
                      NEW i \in Waiting, i \in seen[w]
               PROVE  FALSE
    BY DEF ExitsWhenEmpty
  <2>1. NotWaiting(i)
    BY DEF LInv, ExitOK, ToldEmpty
  <2>2. PICK o \in Calls : i \in Elements(content[o])
    BY DEF Waiting, LInv, WInv, TypeOK, ClientTypeOK
  <2> QED
    BY <2>1, <2>2 DEF NotWaiting, Elements
<1> QED
  BY <1>1, LInvariance, PTL

\* As long as nobody removes or drains the queue, the items lost are not more than
\* the connections that broke and the pods that were killed.
THEOREM LossIsBounded == Spec => []LossBounded
<1>1. LInv => LossBounded
  <2> SUFFICES ASSUME LInv, ~Removed
               PROVE  Cardinality(Lost) <= faults
    BY DEF LossBounded
  <2> USE DEF LInv
  <2>1. ASSUME NEW i \in Lost, Safe(i)
        PROVE  FALSE
    <3>0. i \in Items /\ i # Nil
      BY ItemsFact DEF Lost, Accepted
    <3>1. CASE ~NotWaiting(i)
      <4>1. PICK o \in Calls : i \in Elements(content[o]) /\ content[o] # <<>>
        BY <3>1 DEF NotWaiting, Elements
      <4>2. o = table[Queue] /\ Queue \in Names /\ o # Nil
        BY <4>1, WorkQueueAssumption, ClientAssumption DEF OneQueue
      <4>3. i \in Waiting
        BY <4>1, <4>2 DEF Waiting
      <4> QED
        BY <4>3 DEF Lost
    <3>2. CASE \E g \in Gets : Awaited(g) /\ taken[g] = i
      BY <3>0, <3>2 DEF Awaited, InTransit, Lost
    <3>3. CASE \E w \in Workers : item[w] = i
      BY <3>0, <3>3 DEF InHand, Lost
    <3>4. CASE done[i] # 0
      BY <3>0, <3>4 DEF Done, Lost, WInv, TypeOK
    <3> QED
      BY <2>1, <3>1, <3>2, <3>3, <3>4 DEF Safe
  <2>2. Lost \subseteq Doomed
    BY <2>1 DEF Lost, Doomed, Gone
  <2>3. Bounded(Doomed, faults) /\ faults \in Nat
    BY FaultsFact DEF LossOK, WInv
  <2>4. Bounded(Lost, faults)
    BY <2>2, <2>3, BoundedSame
  <2> QED
    BY <2>4 DEF Bounded
<1> QED
  BY <1>1, LInvariance, PTL
=============================================================================
