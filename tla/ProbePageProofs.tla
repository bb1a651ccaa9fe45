--------------------------- MODULE ProbePageProofs ---------------------------
(***************************************************************************)
(* The probe among its pages, the network and the kubelet is the probe of  *)
(* DebugProbe: whatever they do, it fails as ordered and keeps its recent  *)
(* history, for every configuration, every limit and any number of probes. *)
(***************************************************************************)
EXTENDS ProbePage, TLAPS

-----------------------------------------------------------------------------
(* The probe alone *)

ProbeInv == ProbeTypeOK /\ FailsAsOrdered /\ CodesAsOrdered /\ HistoryIsRecent

\* What RecordRequest does to the entries: the new one is last, the others move
\* down by as many places as were cut off.
LEMMA Recorded ==
  ASSUME ProbeTypeOK, NEW code \in Codes, RecordRequest(code)
  PROVE  /\ lastID' = lastID + 1
         /\ history' \in Seq(Entry)
         /\ Len(history') = IF Len(history) < MaxHistory THEN Len(history) + 1 ELSE MaxHistory
         /\ history'[Len(history')] = [id |-> lastID + 1, code |-> code]
         /\ \A i \in 1..Len(history') - 1 :
              LET j == i + (Len(history) + 1 - Len(history'))
              IN  j \in 1..Len(history) /\ history'[i] = history[j]
<1> DEFINE e == [id |-> lastID + 1, code |-> code]
           all == Append(history, e)
           n == Len(history)
<1>1. MaxHistory \in Nat \ {0} /\ history \in Seq(Entry) /\ n \in Nat /\ n <= MaxHistory
      /\ lastID \in Nat
  BY DebugProbeAssumption DEF ProbeTypeOK
<1>2. e \in Entry
  BY <1>1 DEF Entry
<1> HIDE DEF e
<1>3. /\ all \in Seq(Entry)
      /\ Len(all) = n + 1
      /\ all[n + 1] = e
      /\ \A i \in 1..n : all[i] = history[i]
  BY <1>1, <1>2
<1>4. /\ lastID' = lastID + 1
      /\ history' = IF Len(all) > MaxHistory
                    THEN SubSeq(all, Len(all) - MaxHistory + 1, Len(all)) ELSE all
  BY DEF RecordRequest, e
<1> HIDE DEF all
<1>5. CASE n < MaxHistory
  <2>1. history' = all
    BY <1>1, <1>3, <1>4, <1>5
  <2>2. n \in Nat /\ Len(history') = n + 1
    BY <1>1, <1>3, <2>1
  <2>3. \A i \in 1..Len(history') - 1 :
          LET j == i + (n + 1 - Len(history')) IN j \in 1..n /\ history'[i] = history[j]
    BY <1>3, <2>1, <2>2
  <2> QED
    BY <1>3, <1>4, <1>5, <2>1, <2>2, <2>3 DEF e
<1>6. CASE n = MaxHistory
  <2>1. history' = SubSeq(all, 2, n + 1)
    BY <1>1, <1>3, <1>4, <1>6
  <2>2. /\ history' \in Seq(Entry)
        /\ Len(history') = n
        /\ \A i \in 1..n : history'[i] = all[i + 1]
    BY <1>1, <1>3, <1>6, <2>1
  <2>3. \A i \in 1..Len(history') - 1 :
          LET j == i + (n + 1 - Len(history')) IN j \in 1..n /\ history'[i] = history[j]
    BY SMTT(15), <1>1, <1>3, <2>2
  <2>4. history'[n] = e
    BY <1>1, <1>3, <1>6, <2>2
  <2>5. history'[Len(history')] = [id |-> lastID + 1, code |-> code]
    BY <2>2, <2>4 DEF e
  <2>6. Len(history') = IF n < MaxHistory THEN n + 1 ELSE MaxHistory
    BY <1>1, <1>6, <2>2
  <2> QED
    BY <1>4, <2>2, <2>3, <2>5, <2>6
<1> QED
  BY <1>1, <1>5, <1>6

\* Every call of Handle answers with one code and records it.
LEMMA Handled ==
  ASSUME ProbeInv, Handle
  PROVE  \E code \in Codes :
           /\ RecordRequest(code)
           /\ code = IF ordered < 0 \/ since + 1 <= ordered THEN 500 ELSE 200
           /\ failNext' = IF failNext > 0 THEN failNext - 1 ELSE failNext
           /\ since' = since + 1
           /\ ordered' = ordered
<1>1. /\ failNext \in Int /\ ordered \in Int /\ since \in Nat
      /\ failNext = IF ordered > 0 THEN IF since < ordered THEN ordered - since ELSE 0 ELSE ordered
  BY DEF ProbeInv, ProbeTypeOK, FailsAsOrdered
<1>2. since' = since + 1 /\ ordered' = ordered
  BY DEF Handle
<1>3. CASE Pass
  <2>1. RecordRequest(200) /\ failNext = 0 /\ failNext' = failNext
    BY <1>3 DEF Pass
  <2>2. ~(ordered < 0 \/ since + 1 <= ordered)
    BY <1>1, <2>1
  <2> QED
    BY <1>2, <2>1, <2>2 DEF Codes
<1>4. CASE Fail
  <2>1. RecordRequest(500) /\ failNext > 0 /\ failNext' = failNext - 1
    BY <1>4 DEF Fail
  <2>2. since + 1 <= ordered
    BY <1>1, <2>1
  <2> QED
    BY <1>2, <2>1, <2>2 DEF Codes
<1>5. CASE FailForever
  <2>1. RecordRequest(500) /\ failNext < 0 /\ failNext' = failNext
    BY <1>5 DEF FailForever
  <2>2. ordered < 0 /\ ~(failNext > 0)
    BY <1>1, <2>1
  <2> QED
    BY <1>2, <2>1, <2>2 DEF Codes
<1> QED
  BY <1>3, <1>4, <1>5 DEF Handle

LEMMA Initially == Init => ProbeInv
  BY DebugProbeAssumption
  DEF Init, ProbeInv, ProbeTypeOK, FailsAsOrdered, CodesAsOrdered, HistoryIsRecent, Entry

LEMMA HandleKeeps ==
  ASSUME ProbeInv, Handle
  PROVE  ProbeInv'
<1>1. PICK code \in Codes :
        /\ RecordRequest(code)
        /\ code = IF ordered < 0 \/ since + 1 <= ordered THEN 500 ELSE 200
        /\ failNext' = IF failNext > 0 THEN failNext - 1 ELSE failNext
        /\ since' = since + 1
        /\ ordered' = ordered
  BY Handled
<1> DEFINE m == Len(history)
           n == Len(history')
<1>2. /\ lastID' = lastID + 1
      /\ history' \in Seq(Entry)
      /\ n = IF m < MaxHistory THEN m + 1 ELSE MaxHistory
      /\ history'[n] = [id |-> lastID + 1, code |-> code]
      /\ \A i \in 1..n - 1 : i + (m + 1 - n) \in 1..m /\ history'[i] = history[i + (m + 1 - n)]
  BY <1>1, Recorded DEF ProbeInv
<1>3. /\ failNext \in Int /\ ordered \in Int /\ since \in Nat /\ lastID \in Nat
      /\ m \in Nat /\ m <= MaxHistory /\ MaxHistory \in Nat \ {0} /\ n \in Nat \ {0}
  BY <1>2, DebugProbeAssumption DEF ProbeInv, ProbeTypeOK
<1>4. ProbeTypeOK'
  BY <1>1, <1>2, <1>3 DEF ProbeTypeOK
<1>5. FailsAsOrdered'
  BY <1>1, <1>3 DEF ProbeInv, FailsAsOrdered
<1>6. CodesAsOrdered'
  <2> SUFFICES ASSUME NEW i \in 1..n, since + 1 - (n - i) >= 1
               PROVE  history'[i].code =
                        IF ordered < 0 \/ since + 1 - (n - i) <= ordered THEN 500 ELSE 200
    BY <1>1, <1>3 DEF CodesAsOrdered, Position
  <2>1. CASE i = n
    BY <1>1, <1>2, <1>3, <2>1
  <2>2. CASE i \in 1..n - 1
    <3> DEFINE j == i + (m + 1 - n)
    <3>1. j \in 1..m /\ history'[i] = history[j]
      BY <1>2, <2>2
    <3>2. since - (m - j) = since + 1 - (n - i)
      BY <1>3
    <3>3. since - (m - j) >= 1 =>
            history[j].code = IF ordered < 0 \/ since - (m - j) <= ordered THEN 500 ELSE 200
      BY <3>1 DEF ProbeInv, CodesAsOrdered, Position
    <3> QED
      BY <3>1, <3>2, <3>3
  <2> QED
    BY <1>3, <2>1, <2>2
<1>7. HistoryIsRecent'
  <2>1. m = (IF lastID < MaxHistory THEN lastID ELSE MaxHistory)
        /\ \A j \in 1..m : history[j].id = lastID - (m - j)
    BY DEF ProbeInv, HistoryIsRecent
  <2>2. n = IF lastID + 1 < MaxHistory THEN lastID + 1 ELSE MaxHistory
    BY <1>2, <1>3, <2>1
  <2>3. ASSUME NEW i \in 1..n
        PROVE  history'[i].id = lastID + 1 - (n - i)
    <3>1. CASE i = n
      BY <1>2, <1>3, <3>1
    <3>2. CASE i \in 1..n - 1
      <4> DEFINE j == i + (m + 1 - n)
      <4>1. j \in 1..m /\ history'[i] = history[j]
        BY <1>2, <3>2
      <4>2. lastID - (m - j) = lastID + 1 - (n - i)
        BY <1>3
      <4> QED
        BY <2>1, <4>1, <4>2
    <3> QED
      BY <1>3, <3>1, <3>2
  <2>4. lastID' = lastID + 1
    BY <1>2
  <2>5. \A i \in 1..Len(history') : history'[i].id = lastID' - (Len(history') - i)
    BY <1>3, <2>3, <2>4
  <2>6. Len(history') = IF lastID' < MaxHistory THEN lastID' ELSE MaxHistory
    BY <2>2, <2>4
  <2> QED
    BY <2>5, <2>6 DEF HistoryIsRecent
<1> QED
  BY <1>4, <1>5, <1>6, <1>7 DEF ProbeInv

LEMMA RestartKeeps == ProbeInv /\ Restart => ProbeInv'
  BY DebugProbeAssumption
  DEF Restart, Configured, ProbeInv, ProbeTypeOK, FailsAsOrdered, CodesAsOrdered,
      HistoryIsRecent, Entry

LEMMA SetConfigKeeps ==
  ASSUME ProbeInv, NEW n \in Int, SetConfig(n)
  PROVE  ProbeInv'
<1>1. failNext' = n /\ ordered' = n /\ since' = 0 /\ UNCHANGED <<lastID, history>>
  BY DEF SetConfig, Configured
<1>2. ProbeTypeOK'
  BY <1>1 DEF ProbeInv, ProbeTypeOK
<1>3. FailsAsOrdered'
  BY <1>1 DEF FailsAsOrdered
<1>4. CodesAsOrdered'
  <2>1. Len(history) \in Nat
    BY DEF ProbeInv, ProbeTypeOK
  <2> QED
    BY <1>1, <2>1 DEF CodesAsOrdered, Position
<1>5. HistoryIsRecent'
  BY <1>1 DEF ProbeInv, HistoryIsRecent
<1> QED
  BY <1>2, <1>3, <1>4, <1>5 DEF ProbeInv

\* Every step of the probe keeps the invariant.
LEMMA StepKeeps == ProbeInv /\ [Next]_probe => ProbeInv'
<1> SUFFICES ASSUME ProbeInv, [Next]_probe
             PROVE  ProbeInv'
  OBVIOUS
<1>1. CASE Handle
  BY <1>1, HandleKeeps
<1>2. CASE Restart
  BY <1>2, RestartKeeps
<1>3. CASE \E n \in Int : SetConfig(n)
  BY <1>3, SetConfigKeeps
<1>4. CASE UNCHANGED probe
  <2>1. /\ failNext' = failNext /\ lastID' = lastID /\ history' = history
        /\ ordered' = ordered /\ since' = since
    BY <1>4 DEF probe
  <2>2. ProbeTypeOK' /\ FailsAsOrdered' /\ HistoryIsRecent'
    BY <2>1 DEF ProbeInv, ProbeTypeOK, FailsAsOrdered, HistoryIsRecent
  <2>3. CodesAsOrdered'
    BY <2>1 DEF ProbeInv, CodesAsOrdered, Position
  <2> QED
    BY <2>2, <2>3 DEF ProbeInv
<1> QED
  BY <1>1, <1>2, <1>3, <1>4 DEF Next

\* The probe fails exactly as often as ordered, and its history of the last probes
\* shows it: config.go's promise about FailNext, for every value and any number of probes.
THEOREM ProbeFailsAsOrdered ==
  ProbeSpec => [](FailsAsOrdered /\ CodesAsOrdered /\ HistoryIsRecent)
<1>1. ProbeSpec => []ProbeInv
  BY Initially, StepKeeps, PTL DEF ProbeSpec
<1>2. ProbeInv => FailsAsOrdered /\ CodesAsOrdered /\ HistoryIsRecent
  BY DEF ProbeInv
<1> QED
  BY <1>1, <1>2, PTL

-----------------------------------------------------------------------------
(* The pages *)

Reply == [failNext : Int, history : Seq(Entry)]
Fetch == [at : {"idle", "put", "get", "replied", "failed", "cut", "stray"},
          n : Int, own : Nat, seen : Nat, status : Reply]

\* Of a fetch: the PUT it waits for is one of the calls so far, and a reply was
\* made after it.
Ordered(r, n) == r.own <= n /\ (r.at = "replied" => r.seen >= r.own)

\* What a step needs to know about fetches: a PUT carries an integer.
PageInv ==
  /\ ProbeInv
  /\ sets \in Nat
  /\ fetch \in [Pages -> [Fetches -> Fetch]]

LEMMA WaitingTyped ==
  ASSUME NEW w \in {"idle", "put", "get", "failed", "cut", "stray"}, NEW n \in Int, NEW own \in Nat
  PROVE  Waiting(w, n, own) \in Fetch
  BY DEF Waiting, Blank, Fetch, Reply, Entry

LEMMA IdleTyped == Idle \in Fetch /\ Failed \in Fetch
  BY WaitingTyped DEF Idle, Failed

LEMMA RepliedTyped ==
  ASSUME ProbeTypeOK, sets \in Nat, NEW own \in Nat
  PROVE  Replied(own) \in Fetch
<1>1. Status \in Reply
  BY DEF ProbeTypeOK, Status, Reverse, Reply
<1> QED
  BY <1>1 DEF Replied, Fetch

\* One fetch changes, the others keep their type.
LEMMA BecomesTyped ==
  ASSUME fetch \in [Pages -> [Fetches -> Fetch]],
         NEW p \in Pages, NEW f \in Fetches, NEW r \in Fetch, Becomes(p, f, r)
  PROVE  fetch' \in [Pages -> [Fetches -> Fetch]]
  BY DEF Becomes

LEMMA PageInitially == PageInit => PageInv
<1> SUFFICES ASSUME PageInit
             PROVE  PageInv
  OBVIOUS
<1>1. ProbeInv
  BY Initially DEF PageInit
<1>2. fetch \in [Pages -> [Fetches -> Fetch]]
  BY IdleTyped DEF PageInit
<1> QED
  BY <1>1, <1>2 DEF PageInv, PageInit

\* Every step is one of the probe, or leaves the probe alone; and it keeps what
\* the next one needs.
LEMMA PageStep ==
  ASSUME PageInv, [PageNext]_vars
  PROVE  [Next]_probe /\ PageInv'
<1> USE DEF PageInv
<1>1. ASSUME [Next]_probe, sets' \in Nat, fetch' \in [Pages -> [Fetches -> Fetch]]
      PROVE  [Next]_probe /\ PageInv'
  BY <1>1, StepKeeps
<1>2. CASE Probed
  BY <1>1, <1>2 DEF Probed, Next
<1>3. CASE Restarted
  <2>1. fetch' \in [Pages -> [Fetches -> Fetch]]
    <3> DEFINE g(p, f) == CASE fetch[p][f].at \in {"put", "get", "cut"} -> Failed
                            [] At(p, f, "stray") -> Idle
                            [] OTHER -> fetch[p][f]
    <3>1. \A p \in Pages, f \in Fetches : g(p, f) \in Fetch
      BY IdleTyped
    <3>2. fetch' = [p \in Pages |-> [f \in Fetches |-> g(p, f)]]
      BY <1>3 DEF Restarted
    <3> HIDE DEF g
    <3> QED
      BY <3>1, <3>2
  <2> QED
    BY <1>1, <1>3, <2>1 DEF Restarted, Next
<1>4. ASSUME NEW p \in Pages, Poll(p) \/ Configure(p) \/ ClearConnError(p)
      PROVE  [Next]_probe /\ PageInv'
  <2>1. CASE Poll(p)
    <3>1. PICK f \in Fetches : Becomes(p, f, Waiting("get", 0, 0))
      BY <2>1 DEF Poll
    <3>2. fetch' \in [Pages -> [Fetches -> Fetch]]
      BY <3>1, WaitingTyped, BecomesTyped
    <3> QED
      BY <1>1, <2>1, <3>2 DEF Poll
  <2>2. CASE Configure(p)
    <3>1. PICK f \in Fetches, n \in Counts : Becomes(p, f, Waiting("put", n, 0))
      BY <2>2 DEF Configure
    <3>2. Waiting("put", n, 0) \in Fetch
      BY WaitingTyped, ProbePageAssumption
    <3>3. fetch' \in [Pages -> [Fetches -> Fetch]]
      BY <3>1, <3>2, BecomesTyped
    <3> QED
      BY <1>1, <2>2, <3>3 DEF Configure
  <2>3. CASE ClearConnError(p)
    BY <1>1, <2>3 DEF ClearConnError
  <2> QED
    BY <1>4, <2>1, <2>2, <2>3
<1>5. ASSUME NEW p \in Pages, NEW f \in Fetches, Server(p, f) \/ Finish(p, f) \/ Lose(p, f)
      PROVE  [Next]_probe /\ PageInv'
  <2>1. fetch[p][f] \in Fetch
    OBVIOUS
  <2>2. CASE Put(p, f)
    <3>1. Waiting("get", 0, sets + 1) \in Fetch
      BY WaitingTyped
    <3>2. fetch' \in [Pages -> [Fetches -> Fetch]]
      BY <2>2, <3>1, BecomesTyped DEF Put
    <3>3. SetConfig(fetch[p][f].n) /\ fetch[p][f].n \in Int /\ sets' = sets + 1
      BY <2>1, <2>2 DEF Put, Fetch
    <3> QED
      BY <1>1, <3>2, <3>3 DEF Next
  <2>3. CASE Get(p, f)
    <3>1. fetch[p][f].own \in Nat
      BY <2>1 DEF Fetch
    <3>2. Replied(fetch[p][f].own) \in Fetch
      BY <3>1, RepliedTyped DEF ProbeInv
    <3>3. fetch' \in [Pages -> [Fetches -> Fetch]]
      BY <2>3, <3>2, BecomesTyped DEF Get
    <3> QED
      BY <1>1, <2>3, <3>3 DEF Get
  <2>4. CASE PutStray(p, f)
    <3>1. fetch' \in [Pages -> [Fetches -> Fetch]]
      BY <2>4, IdleTyped, BecomesTyped DEF PutStray
    <3>2. SetConfig(fetch[p][f].n) /\ fetch[p][f].n \in Int /\ sets' = sets + 1
      BY <2>1, <2>4 DEF PutStray, Fetch
    <3> QED
      BY <1>1, <3>1, <3>2 DEF Next
  <2>5. Waiting("stray", fetch[p][f].n, 0) \in Fetch /\ Waiting("cut", fetch[p][f].n, 0) \in Fetch
    BY <2>1, WaitingTyped DEF Fetch
  <2>6. CASE Finish(p, f)
    <3>1. PICK r \in Fetch : Becomes(p, f, r)
      BY <2>5, <2>6, IdleTyped DEF Finish, Apply, ReportConnError, Reported
    <3>2. fetch' \in [Pages -> [Fetches -> Fetch]]
      BY <3>1, BecomesTyped
    <3> QED
      BY <1>1, <2>6, <3>2 DEF Finish, Apply, ReportConnError
  <2>7. CASE Lose(p, f)
    <3>1. PICK r \in Fetch : Becomes(p, f, r)
      BY <2>5, <2>7, IdleTyped DEF Lose
    <3>2. fetch' \in [Pages -> [Fetches -> Fetch]]
      BY <3>1, BecomesTyped
    <3> QED
      BY <1>1, <2>7, <3>2 DEF Lose
  <2> QED
    BY <1>5, <2>2, <2>3, <2>4, <2>6, <2>7 DEF Server
<1>6. CASE UNCHANGED vars
  BY <1>1, <1>6 DEF vars
<1> QED
  BY <1>2, <1>3, <1>4, <1>5, <1>6 DEF PageNext

\* The whole system implements the probe alone.
THEOREM PagesUseProbe == Spec => ProbeSpec
<1>1. PageInit => Init
  BY DEF PageInit
<1> QED
  BY <1>1, PageInitially, PageStep, PTL DEF Spec, ProbeSpec

\* So the probe fails as ordered among its pages too: the invariants of the run.
THEOREM PagesSeeOrderedFailures == Spec => [](FailsAsOrdered /\ CodesAsOrdered /\ HistoryIsRecent)
  BY PagesUseProbe, ProbeFailsAsOrdered, PTL

\* The order of a fetch survives the calls of SetConfig that come after.
OwnInv == \A p \in Pages, f \in Fetches : Ordered(fetch[p][f], sets)

LEMMA BecomesOrdered ==
  ASSUME PageInv, OwnInv, NEW p \in Pages, NEW f \in Fetches, NEW r, Becomes(p, f, r),
         sets' \in Nat, sets' >= sets, Ordered(r, sets')
  PROVE  OwnInv'
<1>1. ASSUME NEW x \in Pages, NEW y \in Fetches
      PROVE  Ordered(fetch'[x][y], sets')
  <2>1. fetch[x][y] \in Fetch /\ Ordered(fetch[x][y], sets)
    BY DEF PageInv, OwnInv
  <2>2. fetch'[x][y] = r \/ fetch'[x][y] = fetch[x][y]
    BY DEF Becomes, PageInv
  <2>3. Ordered(fetch[x][y], sets')
    BY <2>1 DEF Ordered, PageInv, Fetch
  <2> QED
    BY <2>2, <2>3
<1> QED
  BY <1>1 DEF OwnInv

LEMMA BlankOrdered ==
  ASSUME NEW n \in Nat, NEW w \in {"idle", "put", "get", "failed", "cut", "stray"}, NEW k
  PROVE  Ordered(Waiting(w, k, 0), n)
  BY DEF Ordered, Waiting

LEMMA OwnStep ==
  ASSUME PageInv, OwnInv, [PageNext]_vars
  PROVE  OwnInv'
<1>0. sets \in Nat
  BY DEF PageInv
<1>1. CASE sets' = sets /\ fetch' = fetch
  BY <1>1 DEF OwnInv
<1>2. CASE Probed
  BY <1>1, <1>2 DEF Probed
<1>3. CASE Restarted
  <2>1. sets' = sets
    BY <1>3 DEF Restarted
  <2>2. \A p \in Pages, f \in Fetches :
          fetch'[p][f] \in {Failed, Idle, fetch[p][f]}
    BY <1>3 DEF Restarted
  <2>3. Ordered(Failed, sets) /\ Ordered(Idle, sets)
    BY <1>0, BlankOrdered DEF Failed, Idle
  <2> QED
    BY <2>1, <2>2, <2>3 DEF OwnInv
<1>4. ASSUME NEW p \in Pages, Poll(p) \/ Configure(p) \/ ClearConnError(p)
      PROVE  OwnInv'
  <2>1. CASE Poll(p)
    BY <1>0, <2>1, BlankOrdered, BecomesOrdered DEF Poll
  <2>2. CASE Configure(p)
    BY <1>0, <2>2, BlankOrdered, BecomesOrdered DEF Configure
  <2>3. CASE ClearConnError(p)
    BY <1>1, <2>3 DEF ClearConnError
  <2> QED
    BY <1>4, <2>1, <2>2, <2>3
<1>5. ASSUME NEW p \in Pages, NEW f \in Fetches, Server(p, f) \/ Finish(p, f) \/ Lose(p, f)
      PROVE  OwnInv'
  <2>1. CASE Put(p, f)
    <3>1. sets' = sets + 1 /\ Becomes(p, f, Waiting("get", 0, sets + 1))
      BY <2>1 DEF Put
    <3>2. Ordered(Waiting("get", 0, sets + 1), sets + 1)
      BY <1>0 DEF Ordered, Waiting
    <3> QED
      BY <1>0, <3>1, <3>2, BecomesOrdered
  <2>2. CASE Get(p, f)
    <3>1. sets' = sets /\ Becomes(p, f, Replied(fetch[p][f].own))
      BY <2>2 DEF Get
    <3>2. Ordered(Replied(fetch[p][f].own), sets)
      BY <1>0 DEF Ordered, Replied, OwnInv
    <3> QED
      BY <1>0, <3>1, <3>2, BecomesOrdered
  <2>3. CASE PutStray(p, f)
    <3>1. sets' = sets + 1 /\ Becomes(p, f, Idle)
      BY <2>3 DEF PutStray
    <3>2. Ordered(Idle, sets + 1)
      BY <1>0, BlankOrdered DEF Idle
    <3> QED
      BY <1>0, <3>1, <3>2, BecomesOrdered
  <2>4. CASE Finish(p, f) \/ Lose(p, f)
    <3>1. sets' = sets
      BY <2>4 DEF Finish, Apply, ReportConnError, Lose
    <3>2. \E n : \E w \in {"idle", "failed", "cut", "stray"} : Becomes(p, f, Waiting(w, n, 0))
      BY <2>4 DEF Finish, Apply, ReportConnError, Reported, Lose, Idle, Failed
    <3> QED
      BY <1>0, <3>1, <3>2, BlankOrdered, BecomesOrdered
  <2> QED
    BY <1>5, <2>1, <2>2, <2>3, <2>4 DEF Server
<1>6. CASE UNCHANGED vars
  BY <1>1, <1>6 DEF vars
<1> QED
  BY <1>2, <1>3, <1>4, <1>5, <1>6 DEF PageNext

\* The reply to a PUT is never older than the PUT itself, whoever else configured
\* the probe between the two critical sections of APIPut.
THEOREM PutReadsItself == Spec => []ReadsOwnWrite
<1>1. PageInit => OwnInv
  BY BlankOrdered DEF PageInit, OwnInv, Idle
<1>2. OwnInv => ReadsOwnWrite
  BY DEF OwnInv, Ordered, ReadsOwnWrite, At
<1> QED
  BY <1>1, <1>2, PageInitially, PageStep, OwnStep, PTL DEF Spec
=============================================================================
