--------------------------- MODULE KubeviewProofs ---------------------------
(***************************************************************************)
(* The graph shows what the viewer has stored, for any number of           *)
(* namespaces, requests in flight, changes, failures and clicks.           *)
(***************************************************************************)
EXTENDS KubeviewViewer, TLAPS

Lists == SUBSET (1..MaxVersion)

Complete(d) == \A k \in KindSet : d[k] # Null

\* Where a request is in routeScrapeData.
RequestOK ==
  \A r \in Requests :
    /\ listed[r] \in 0..3
    /\ at[r] = "free" => listed[r] = 0
    /\ at[r] = "listing" => listed[r] \in 0..2 /\ ns[r] \in Namespaces

\* What a null or an error shows has been counted as a failure.
FailureOK ==
  failures = 0 =>
    /\ \A r \in Requests : ~err[r] /\ Complete(got[r])
    /\ apiData # Null => Complete(apiData)

\* A hard refresh that has not been answered.
HardInFlight == \E r \in Requests : at[r] # "free" /\ ~soft[r]

DrawingOK == drawn = Empty \/ Drawn
UpToDate == failures = 0 /\ mounted => HardInFlight \/ Drawn

KInv == TypeOK /\ RequestOK /\ FailureOK /\ DrawingOK /\ UpToDate

LEMMA KindsFact ==
  /\ Len(Kinds) = 3
  /\ \A i \in 1..3 : Kinds[i] \in KindSet
  /\ \A k \in KindSet : \E i \in 1..3 : Kinds[i] = k
BY DEF Kinds, KindSet

LEMMA DataFact ==
  /\ Empty \in [KindSet -> Lists]
  /\ Empty \in Data
  /\ Complete(Empty)
  /\ \A d \in Data : d # Null
<1>1. Empty \in [KindSet -> Lists] /\ Empty \in Data
  BY DEF Empty, Lists, Data
<1>2. {} \in Lists
  BY DEF Lists
<1>3. Complete(Empty)
  BY <1>2, ScrapeAssumption DEF Complete, Empty, Lists
<1> QED
  BY <1>1, <1>3, ScrapeAssumption

\* refreshNodes never draws what is no object.
LEMMA DrawType == ASSUME NEW d \in Data PROVE Draw(d) \in [KindSet -> Lists]
<1>1. \A k \in KindSet : d[k] \in Lists \/ d[k] = Null
  BY DEF Data, Lists
<1>2. \A k \in {"pods", "claims", "ingresses"} : k \in KindSet
  BY DEF KindSet
<1>3. {} \in Lists
  BY DEF Lists
<1>4. CASE d["pods"] = Null
  BY <1>4, DataFact DEF Draw
<1>5. CASE d["pods"] # Null /\ d["pods"] = {}
  BY <1>5, <1>1, <1>2, <1>3, DataFact DEF Draw
<1>6. CASE d["pods"] # Null /\ d["pods"] # {} /\ d["claims"] \in {Null, {}}
  BY <1>6, <1>1, <1>2, <1>3, DataFact DEF Draw
<1>7. CASE d["pods"] # Null /\ d["pods"] # {} /\ d["claims"] \notin {Null, {}}
  <2>1. d["pods"] \in Lists /\ d["claims"] \in Lists
    BY <1>7, <1>1, <1>2
  <2>2. CASE d["ingresses"] = Null
    <3>1. Draw(d) = [d EXCEPT !["ingresses"] = {}]
      BY <1>7, <2>2 DEF Draw
    <3>2. Draw(d) = [k \in KindSet |-> IF k = "ingresses" THEN {} ELSE d[k]]
      BY <3>1 DEF Data
    <3> QED
      BY <3>2, <2>1, <1>3 DEF KindSet
  <2>3. CASE d["ingresses"] # Null
    <3>1. Draw(d) = d
      BY <1>7, <2>3 DEF Draw
    <3>2. \A k \in KindSet : d[k] \in Lists
      BY <2>1, <2>3, <1>1, <1>2 DEF KindSet
    <3> QED
      BY <3>1, <3>2 DEF Data
  <2> QED
    BY <2>2, <2>3
<1> QED
  BY <1>4, <1>5, <1>6, <1>7

\* A scan that finds nothing has met only objects that are in both.
LEMMA ScanSame ==
  ASSUME NEW from \in Data, NEW to \in Data, Scan(from, to) = "same"
  PROVE  \A k \in KindSet : from[k] # Null /\ (from[k] = {} \/ from[k] \subseteq to[k])
<1> DEFINE Stops(k) == \/ from[k] = Null
                       \/ from[k] # {} /\ (to[k] = Null \/ ~(from[k] \subseteq to[k]))
           stops == {i \in 1..Len(Kinds) : Stops(Kinds[i])}
<1>1. stops = {}
  BY DEF Scan
<1>2. \A i \in 1..3 : ~Stops(Kinds[i])
  BY <1>1, KindsFact
<1>3. \A k \in KindSet : ~Stops(k)
  BY <1>2, KindsFact
<1> QED
  BY <1>3

\* detectChange is right when it says that nothing has changed.
LEMMA SameData ==
  ASSUME NEW d \in Data, apiData \in Data, DetectChange(d) = "same"
  PROVE  d = apiData
<1>0. apiData # Null
  BY DataFact
<1>1. Scan(d, apiData) = "same" /\ Scan(apiData, d) = "same"
  BY <1>0 DEF DetectChange
<1>2. \A k \in KindSet : d[k] # Null /\ (d[k] = {} \/ d[k] \subseteq apiData[k])
  BY <1>1, ScanSame
<1>3. \A k \in KindSet : apiData[k] # Null /\ (apiData[k] = {} \/ apiData[k] \subseteq d[k])
  BY <1>1, ScanSame
<1>4. ASSUME NEW k \in KindSet PROVE d[k] = apiData[k]
  <2>1. d[k] \in Lists /\ apiData[k] \in Lists
    BY <1>2, <1>3 DEF Data, Lists
  <2> QED
    BY <2>1, <1>2, <1>3
<1> QED
  BY <1>4 DEF Data

LEMMA Smallest ==
  ASSUME NEW S, S \subseteq 1..3, S # {}
  PROVE  \E i \in S : \A j \in S : i <= j
<1>1. CASE 1 \in S
  BY <1>1
<1>2. CASE 1 \notin S /\ 2 \in S
  BY <1>2
<1>3. CASE 1 \notin S /\ 2 \notin S
  <2>1. \A j \in S : j = 3
    BY <1>3
  <2>2. 3 \in S
    BY <2>1
  <2>3. \A j \in S : 3 <= j
    BY <2>1
  <2> QED
    BY <2>2, <2>3
<1> QED
  BY <1>1, <1>2, <1>3

\* It raises only at a null.
LEMMA NoRaise ==
  ASSUME NEW d \in Data, apiData \in Data, Complete(d), Complete(apiData)
  PROVE  DetectChange(d) # "raises"
<1>1. ASSUME NEW from \in Data, NEW to \in Data, Complete(from), Complete(to)
      PROVE  Scan(from, to) # "raises"
  <2> DEFINE Stops(k) == \/ from[k] = Null
                         \/ from[k] # {} /\ (to[k] = Null \/ ~(from[k] \subseteq to[k]))
             stops == {i \in 1..Len(Kinds) : Stops(Kinds[i])}
             first == CHOOSE i \in stops : \A j \in stops : i <= j
  <2>1. CASE stops = {}
    BY <2>1 DEF Scan
  <2>2. CASE stops # {}
    <3>1. \E i \in stops : \A j \in stops : i <= j
      <4>1. stops \subseteq 1..3
        BY KindsFact
      <4> HIDE DEF stops
      <4> QED
        BY <4>1, <2>2, Smallest
    <3>2. first \in stops
      BY <3>1
    <3>3. Kinds[first] \in KindSet
      BY <3>2, KindsFact
    <3>4. from[Kinds[first]] # Null /\ to[Kinds[first]] # Null
      BY <3>3, <1>1 DEF Complete
    <3> QED
      BY <2>2, <3>4 DEF Scan
  <2> QED
    BY <2>1, <2>2
<1>2. Scan(d, apiData) # "raises" /\ Scan(apiData, d) # "raises"
  BY <1>1
<1> QED
  BY <1>2 DEF DetectChange

-----------------------------------------------------------------------------
LEMMA KInitially == Init => KInv
<1> SUFFICES ASSUME Init
             PROVE  KInv
  OBVIOUS
<1>1. namespace \in Namespaces
  BY ScrapeAssumption DEF Init
<1>2. ScrapeTypeOK
  BY ScrapeAssumption, DataFact, KindsFact DEF Init, ScrapeInit, ScrapeTypeOK, Lists
<1>3. TypeOK
  <2>1. drawn \in [KindSet -> SUBSET (1..MaxVersion)]
    BY DataFact DEF Init, Lists
  <2>2. clicks \in 0..MaxClicks
    BY ViewerAssumption DEF Init
  <2>3. soft \in [Requests -> BOOLEAN]
    BY DEF Init
  <2> QED
    BY <1>1, <1>2, <2>1, <2>2, <2>3 DEF Init, TypeOK
<1>4. RequestOK /\ FailureOK
  BY DataFact DEF Init, ScrapeInit, RequestOK, FailureOK
<1> QED
  BY <1>3, <1>4 DEF Init, KInv, DrawingOK, UpToDate

\* The cluster changes.
LEMMA ChangeKeeps ==
  ASSUME KInv, NEW n \in Namespaces, NEW k \in KindSet, Change(n, k), UNCHANGED viewer
  PROVE  KInv'
<1>1. version' \in 0..MaxVersion /\ version' \in 1..MaxVersion
  BY ScrapeAssumption DEF Change, KInv, TypeOK, ScrapeTypeOK
<1>2. cluster' \in [Namespaces -> [KindSet -> Lists]]
  BY <1>1 DEF Change, KInv, TypeOK, ScrapeTypeOK, Lists
<1>3. TypeOK'
  BY <1>1, <1>2 DEF Change, KInv, TypeOK, ScrapeTypeOK, viewer, request, Lists
<1> QED
  BY <1>3 DEF Change, KInv, RequestOK, FailureOK, DrawingOK, UpToDate, HardInFlight, Drawn, Draw,
    viewer, request

\* One List, which fails or not.
LEMMA ListKeeps ==
  ASSUME KInv, NEW r \in Requests, List(r), UNCHANGED viewer
  PROVE  KInv'
<1> DEFINE k == Kinds[listed[r] + 1]
<1>1. /\ at[r] = "listing" /\ listed[r] \in 0..2 /\ ns[r] \in Namespaces
      /\ k \in KindSet
  BY KindsFact DEF List, KInv, RequestOK
<1>2. listed' = [listed EXCEPT ![r] = @ + 1] /\ listed'[r] = listed[r] + 1
  BY DEF List, KInv, TypeOK, ScrapeTypeOK
<1>3. cluster[ns[r]][k] \in Lists
  BY <1>1 DEF KInv, TypeOK, ScrapeTypeOK, Lists
<1>4. failures' \in 0..MaxFailures /\ (failures' = 0 => failures = 0)
  BY ScrapeAssumption DEF List, KInv, TypeOK, ScrapeTypeOK
<1>5. got' \in [Requests -> Data]
  <2>1. \E l \in Lists \cup {Null} : got' = [got EXCEPT ![r][k] = l]
    BY <1>3 DEF List
  <2>2. PICK l \in Lists \cup {Null} : got' = [got EXCEPT ![r][k] = l]
    BY <2>1
  <2>3. [got[r] EXCEPT ![k] = l] \in Data
    BY <1>1, <2>2 DEF KInv, TypeOK, ScrapeTypeOK, Data, Lists
  <2> QED
    BY <2>2, <2>3 DEF KInv, TypeOK, ScrapeTypeOK
<1>6. err' \in [Requests -> BOOLEAN] /\ at' \in [Requests -> {"free", "listing", "answered"}]
  BY DEF List, KInv, TypeOK, ScrapeTypeOK
<1>7. TypeOK'
  BY <1>1, <1>2, <1>4, <1>5, <1>6, KindsFact
    DEF List, KInv, TypeOK, ScrapeTypeOK, viewer
<1>8. RequestOK'
  BY <1>1, <1>2, KindsFact DEF List, KInv, RequestOK, TypeOK, ScrapeTypeOK
<1>9. FailureOK'
  <2> SUFFICES ASSUME failures' = 0
               PROVE  FailureOK'
    BY DEF FailureOK
  <2>1. failures = 0
    BY <1>4
  <2>2. /\ got' = [got EXCEPT ![r][k] = cluster[ns[r]][k]]
        /\ err' = [err EXCEPT ![r] = FALSE]
    BY <2>1 DEF List
  <2>3. cluster[ns[r]][k] # Null
    BY <1>3, ScrapeAssumption DEF Lists
  <2>4. \A s \in Requests : ~err'[s] /\ Complete(got'[s])
    BY <2>1, <2>2, <2>3, <1>1 DEF KInv, TypeOK, ScrapeTypeOK, FailureOK, Complete, Data
  <2>5. apiData' = apiData
    BY DEF viewer
  <2> QED
    BY <2>1, <2>4, <2>5 DEF KInv, FailureOK, Complete
<1>10. HardInFlight => HardInFlight'
  BY <1>1 DEF List, HardInFlight, viewer, KInv, TypeOK, ScrapeTypeOK
<1> QED
  BY <1>4, <1>7, <1>8, <1>9, <1>10 DEF KInv, DrawingOK, UpToDate, Drawn, Draw, viewer

LEMMA LoseKeeps ==
  ASSUME KInv, NEW r \in Requests, Lose(r), UNCHANGED viewer
  PROVE  KInv'
<1>1. failures' \in 0..MaxFailures /\ failures' # 0
  BY ScrapeAssumption DEF Lose, KInv, TypeOK, ScrapeTypeOK
<1>2. TypeOK'
  BY <1>1 DEF Lose, KInv, TypeOK, ScrapeTypeOK, viewer
<1>3. RequestOK'
  BY DEF Lose, KInv, RequestOK, TypeOK, ScrapeTypeOK
<1> QED
  BY <1>1, <1>2, <1>3 DEF KInv, FailureOK, DrawingOK, UpToDate, Drawn, Draw, viewer

\* Whoever sends a request keeps the service's part of the invariant.
LEMMA SendKeeps ==
  ASSUME KInv, NEW r \in Requests, NEW n \in Namespaces, Send(r, n)
  PROVE  ScrapeTypeOK' /\ RequestOK'
<1>1. ScrapeTypeOK'
  BY DEF Send, api, KInv, TypeOK, ScrapeTypeOK
<1>2. listed[r] = 0 /\ at' = [at EXCEPT ![r] = "listing"]
  BY DEF Send, KInv, RequestOK
<1> QED
  BY <1>1, <1>2 DEF Send, api, KInv, TypeOK, ScrapeTypeOK, RequestOK

\* The user's refreshes, and the first one.
LEMMA HardRefreshKeeps ==
  ASSUME KInv, NEW r \in Requests, NEW n \in Namespaces, HardRefresh(r, n),
         mounted' \in BOOLEAN, namespace' \in Namespaces, clicks' \in 0..MaxClicks,
         apiData' = apiData
  PROVE  KInv'
<1>1. Send(r, n)
  BY DEF HardRefresh
<1>2. ScrapeTypeOK' /\ RequestOK'
  BY <1>1, SendKeeps
<1>3. TypeOK'
  BY <1>2, DataFact DEF HardRefresh, KInv, TypeOK, Lists
<1>4. FailureOK'
  BY <1>1 DEF Send, api, KInv, FailureOK, Complete
<1>5. HardInFlight'
  <2>1. at'[r] = "listing" /\ ~soft'[r]
    BY <1>1 DEF Send, HardRefresh, KInv, TypeOK, ScrapeTypeOK
  <2> QED
    BY <2>1 DEF HardInFlight
<1> QED
  BY <1>2, <1>3, <1>4, <1>5 DEF KInv, HardRefresh, DrawingOK, UpToDate, Empty

LEMMA TimerRefreshKeeps ==
  ASSUME KInv, NEW r \in Requests, TimerRefresh(r)
  PROVE  KInv'
<1>1. Send(r, namespace) /\ namespace \in Namespaces
  BY DEF TimerRefresh, KInv, TypeOK
<1>2. ScrapeTypeOK' /\ RequestOK'
  BY <1>1, SendKeeps
<1>3. TypeOK'
  BY <1>2 DEF TimerRefresh, KInv, TypeOK
<1>4. FailureOK'
  BY <1>1 DEF TimerRefresh, Send, api, KInv, FailureOK, Complete
<1>5. HardInFlight => HardInFlight'
  BY <1>1 DEF TimerRefresh, Send, HardInFlight, KInv, TypeOK, ScrapeTypeOK
<1> QED
  BY <1>1, <1>2, <1>3, <1>4, <1>5
    DEF KInv, TimerRefresh, Send, api, DrawingOK, UpToDate, Drawn, Draw

\* Whoever takes an answer keeps the service's part of the invariant.
LEMMA ReceiveKeeps ==
  ASSUME KInv, NEW r \in Requests, Receive(r)
  PROVE  ScrapeTypeOK' /\ RequestOK' /\ got[r] \in Data
<1>1. ScrapeTypeOK'
  BY DataFact DEF Receive, api, KInv, TypeOK, ScrapeTypeOK
<1> QED
  BY <1>1 DEF Receive, api, KInv, TypeOK, ScrapeTypeOK, RequestOK

LEMMA FailKeeps ==
  ASSUME KInv, NEW r \in Requests, Fail(r)
  PROVE  KInv'
<1>1. Receive(r) /\ err[r]
  BY DEF Fail
<1>2. ScrapeTypeOK' /\ RequestOK'
  BY <1>1, ReceiveKeeps
<1>3. TypeOK'
  BY <1>2 DEF Fail, KInv, TypeOK
<1>4. failures # 0 /\ failures' = failures
  BY <1>1 DEF Receive, api, KInv, FailureOK
<1> QED
  BY <1>2, <1>3, <1>4 DEF KInv, Fail, FailureOK, DrawingOK, UpToDate, Drawn, Draw

LEMMA LoadKeeps ==
  ASSUME KInv, NEW r \in Requests, Load(r)
  PROVE  KInv'
<1> DEFINE d == got[r]
           change == IF soft[r] THEN DetectChange(d) ELSE "changed"
<1>1. Receive(r) /\ ~err[r]
  BY DEF Load
<1>2. ScrapeTypeOK' /\ RequestOK' /\ d \in Data
  BY <1>1, ReceiveKeeps
<1>3. d # Null
  BY <1>2, DataFact
<1>4. \/ change = "raises" /\ apiData' = apiData /\ drawn' = drawn /\ loading' = loading
      \/ change = "same" /\ apiData' = d /\ loading' = FALSE /\ drawn' = drawn
      \/ change = "changed" /\ apiData' = d /\ drawn' = Draw(d)
         /\ loading' = (Raises(d) /\ loading)
  BY DEF Load
<1>5. apiData' \in Data \cup {Null} /\ drawn' \in [KindSet -> SUBSET (1..MaxVersion)]
  BY <1>2, <1>4, DrawType DEF KInv, TypeOK, Lists
<1>6. loading' \in BOOLEAN
  <2>1. CASE change = "changed" /\ loading' = (Raises(d) /\ loading)
    BY <2>1
  <2>2. CASE loading' = FALSE \/ loading' = loading
    BY <2>2 DEF KInv, TypeOK
  <2> QED
    BY <1>4, <2>1, <2>2
<1>7. TypeOK'
  <2>1. soft' \in [Requests -> BOOLEAN]
    BY DEF Load, KInv, TypeOK
  <2> QED
    BY <1>2, <1>5, <1>6, <2>1 DEF Load, KInv, TypeOK
<1>8. FailureOK'
  <2>1. failures' = failures
    BY <1>1 DEF Receive, api
  <2>2. failures = 0 => Complete(d)
    BY DEF KInv, FailureOK
  <2>3. failures = 0 => \A s \in Requests : ~err'[s] /\ Complete(got'[s])
    BY <1>1, DataFact DEF Receive, KInv, FailureOK, TypeOK, ScrapeTypeOK
  <2>4. apiData' = apiData \/ apiData' = d
    BY <1>4
  <2> QED
    BY <2>1, <2>2, <2>3, <2>4 DEF KInv, FailureOK, Complete
\* Only when nothing was stored yet does a refresh store without drawing.
<1>9. \/ Drawn'
      \/ soft[r] /\ drawn' = drawn /\ ~Drawn
      \/ change = "raises"
  <2>1. CASE change = "changed"
    BY <2>1, <1>3, <1>4 DEF Drawn, Draw
  <2>2. CASE change = "same" /\ apiData # Null
    <3>1. soft[r] /\ DetectChange(d) = "same"
      BY <2>2
    <3>2. d = apiData
      BY <3>1, <2>2, <1>2, SameData DEF KInv, TypeOK
    <3> QED
      BY <3>1, <3>2, <2>2, <1>4 DEF Drawn, Draw
  <2>3. CASE change = "same" /\ apiData = Null
    BY <2>3, <1>4 DEF Drawn
  <2> QED
    BY <1>4, <2>1, <2>2, <2>3
<1>10. DrawingOK'
  <2>1. CASE change = "raises"
    BY <2>1, <1>4 DEF KInv, DrawingOK, Drawn, Draw, Empty
  <2>2. CASE soft[r] /\ drawn' = drawn /\ ~Drawn
    BY <2>2 DEF KInv, DrawingOK, Empty
  <2> QED
    BY <1>9, <2>1, <2>2 DEF DrawingOK
<1>11. soft[r] => (HardInFlight => HardInFlight')
  <2>1. /\ at' = [at EXCEPT ![r] = "free"]
        /\ soft' = [soft EXCEPT ![r] = FALSE]
    BY <1>1 DEF Receive, Load
  <2> QED
    BY <2>1 DEF HardInFlight, KInv, TypeOK, ScrapeTypeOK
<1>12. UpToDate'
  <2> SUFFICES ASSUME failures' = 0, mounted'
               PROVE  HardInFlight' \/ Drawn'
    BY DEF UpToDate
  <2>1. failures = 0 /\ mounted /\ (HardInFlight \/ Drawn)
    BY <1>1 DEF Receive, api, Load, KInv, UpToDate
  <2>2. Complete(d) /\ (apiData # Null => Complete(apiData))
    BY <2>1 DEF KInv, FailureOK
  <2>3. change # "raises"
    <3>1. CASE apiData = Null
      BY <3>1 DEF DetectChange
    <3>2. CASE apiData \in Data
      BY <3>2, <2>2, <1>2, DataFact, NoRaise
    <3> QED
      BY <3>1, <3>2 DEF KInv, TypeOK
  <2> QED
    BY <2>1, <2>3, <1>9, <1>11
<1> QED
  BY <1>2, <1>7, <1>8, <1>10, <1>12 DEF KInv

LEMMA KStep == ASSUME KInv, [Next]_vars PROVE KInv'
<1>1. CASE Environment
  BY <1>1, ChangeKeeps DEF Environment
<1>2. ASSUME NEW r \in Requests, Serve(r) PROVE KInv'
  BY <1>2, ListKeeps, LoseKeeps DEF Serve
<1>3. ASSUME NEW r \in Requests, Mount(r) PROVE KInv'
  BY <1>3, HardRefreshKeeps DEF Mount, KInv, TypeOK
<1>4. ASSUME Click PROVE mounted \in BOOLEAN /\ clicks' \in 0..MaxClicks
  BY <1>4, ViewerAssumption DEF Click, KInv, TypeOK
<1>5. ASSUME NEW r \in Requests, RefreshButton(r) PROVE KInv'
  BY <1>4, <1>5, HardRefreshKeeps DEF RefreshButton, KInv, TypeOK
<1>6. ASSUME NEW r \in Requests, NEW n \in Namespaces, ChangeNS(r, n) PROVE KInv'
  BY <1>4, <1>6, HardRefreshKeeps DEF ChangeNS, KInv, TypeOK
<1>7. CASE UNCHANGED vars
  BY <1>7 DEF vars, api, request, viewer, KInv, TypeOK, ScrapeTypeOK, RequestOK, FailureOK,
    Complete, DrawingOK, UpToDate, HardInFlight, Drawn, Draw, Empty
<1> QED
  BY <1>1, <1>2, <1>3, <1>5, <1>6, <1>7, TimerRefreshKeeps, FailKeeps, LoadKeeps DEF Next

THEOREM KInvariance == Spec => []KInv
<1> QED
  BY KInitially, KStep, PTL DEF Spec

\* Type correctness of the scrape service and the viewer.
THEOREM Typing == Spec => []TypeOK
<1>1. KInv => TypeOK
  BY DEF KInv
<1> QED
  BY <1>1, KInvariance, PTL

\* The graph is never a mixture of two answers and, while nothing fails, it is
\* what was stored, whatever overtakes what.
THEOREM GraphShowsData == Spec => []DrawnFromData
<1>1. KInv => DrawnFromData
  BY DEF KInv, DrawingOK, UpToDate, HardInFlight, DrawnFromData
<1> QED
  BY <1>1, KInvariance, PTL
=============================================================================
