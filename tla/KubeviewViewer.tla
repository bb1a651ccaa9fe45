--------------------------- MODULE KubeviewViewer ---------------------------
(***************************************************************************)
(* The viewer of kubeview in the browser (Viewer.vue, App.vue) and the     *)
(* scrape service it asks.  JavaScript runs one handler at a time; what    *)
(* interleaves are the user, the refresh timer, the answers, which may     *)
(* overtake each other, the service's Lists and the cluster.               *)
(*                                                                         *)
(* An exception in a .then callback ends the callback where it is raised:  *)
(* what was assigned before stays, what comes after does not happen.       *)
(***************************************************************************)
EXTENDS KubeviewScrape

CONSTANT MaxClicks \* bound: what the user does

ASSUME ViewerAssumption == MaxClicks \in Nat

VARIABLES
  mounted,   \* the component is mounted
  namespace, \* the namespace the user has selected
  soft,      \* soft[r]: the argument of the refreshData that sent r
  apiData,   \* this.apiData, or Null
  drawn,     \* the objects in the Cytoscape graph, per kind
  loading,   \* the loading spinner is shown
  clicks     \* what the user has done

viewer == <<mounted, namespace, soft, apiData, drawn, loading, clicks>>
vars == <<api, request, viewer>>

Init ==
  /\ ScrapeInit
  /\ mounted = FALSE
  /\ namespace = CHOOSE n \in Namespaces : TRUE
  /\ soft = [r \in Requests |-> FALSE]
  /\ apiData = Null
  /\ drawn = Empty
  /\ loading = FALSE
  /\ clicks = 0

-----------------------------------------------------------------------------
(* refreshNodes *)

\* Mutant: a list that is null is drawn as a placeholder.
BugDraw(d) == [k \in KindSet |-> IF d[k] = Null THEN {0} ELSE d[k]]

\* What refreshNodes adds before it ends or raises: it raises at a list that
\* is null, and at a pod whose claim is not in the data.
Draw(d) ==
  IF d["pods"] = Null THEN Empty
  ELSE IF d["pods"] = {} THEN
    [Empty EXCEPT !["ingresses"] = IF d["ingresses"] = Null THEN {} ELSE d["ingresses"]]
  ELSE IF d["claims"] \in {Null, {}} THEN [Empty EXCEPT !["pods"] = d["pods"]]
  ELSE IF d["ingresses"] = Null THEN [d EXCEPT !["ingresses"] = {}]
  ELSE d

Raises(d) == \/ d["pods"] = Null \/ d["ingresses"] = Null
             \/ d["pods"] # {} /\ d["claims"] \in {Null, {}}

-----------------------------------------------------------------------------
(* detectChange *)

\* A loop over the kinds of from, looking up every object in to.  It stops at
\* the first kind where it raises or finds an object that to has not.
Scan(from, to) ==
  LET Stops(k) == \/ from[k] = Null
                  \/ from[k] # {} /\ (to[k] = Null \/ ~(from[k] \subseteq to[k]))
      stops == {i \in 1..Len(Kinds) : Stops(Kinds[i])}
      first == CHOOSE i \in stops : \A j \in stops : i <= j
  IN IF stops = {} THEN "same"
     ELSE IF from[Kinds[first]] = Null \/ to[Kinds[first]] = Null THEN "raises"
     ELSE "changed"

\* Mutant: deleted objects are not looked for.
BugDetectChange(d) ==
  IF apiData = Null THEN "same" ELSE Scan(d, apiData)

\* The new objects against the old ones, then the old against the new.
DetectChange(d) ==
  IF apiData = Null THEN "same"
  ELSE IF Scan(d, apiData) # "same" THEN Scan(d, apiData)
  ELSE Scan(apiData, d)

-----------------------------------------------------------------------------
(* refreshData: the part before the fetch *)

\* A hard refresh clears the graph and shows the spinner until the data is there.
HardRefresh(r, n) ==
  /\ Send(r, n)
  /\ soft' = [soft EXCEPT ![r] = FALSE]
  /\ drawn' = Empty
  /\ loading' = TRUE

Mount(r) ==
  /\ ~mounted
  /\ mounted' = TRUE
  /\ HardRefresh(r, namespace)
  /\ UNCHANGED <<namespace, apiData, clicks>>

Click == mounted /\ clicks < MaxClicks /\ clicks' = clicks + 1

\* The user selects another namespace: the watch on it refreshes.
ChangeNS(r, n) ==
  /\ Click
  /\ n # namespace
  /\ namespace' = n
  /\ HardRefresh(r, n)
  /\ UNCHANGED <<mounted, apiData>>

\* The user presses Refresh, or Enter in the filter.
RefreshButton(r) ==
  /\ Click
  /\ HardRefresh(r, namespace)
  /\ UNCHANGED <<mounted, namespace, apiData>>

\* The auto refresh timer.
TimerRefresh(r) ==
  /\ mounted
  /\ Send(r, namespace)
  /\ soft' = [soft EXCEPT ![r] = TRUE]
  /\ UNCHANGED <<mounted, namespace, apiData, drawn, loading, clicks>>

-----------------------------------------------------------------------------
(* refreshData: the callbacks of the fetch *)

\* The answer is an error, which is no JSON, or there is none.
Fail(r) ==
  /\ Receive(r)
  /\ err[r]
  /\ soft' = [soft EXCEPT ![r] = FALSE]
  /\ UNCHANGED <<mounted, namespace, apiData, drawn, loading, clicks>>

\* Mutant: a soft refresh of unchanged data does not end the loading.
BugLoadSpins(r) ==
  LET d == got[r]
      change == IF soft[r] THEN DetectChange(d) ELSE "changed"
  IN /\ Receive(r)
     /\ ~err[r]
     /\ \/ change = "raises" /\ UNCHANGED <<apiData, drawn, loading>>
        \/ change = "same" /\ apiData' = d /\ UNCHANGED <<drawn, loading>>
        \/ /\ change = "changed"
           /\ apiData' = d
           /\ drawn' = Draw(d)
           /\ loading' = (Raises(d) /\ loading)
     /\ soft' = [soft EXCEPT ![r] = FALSE]
     /\ UNCHANGED <<mounted, namespace, clicks>>

\* The data has come, of whatever namespace the request was for.
Load(r) ==
  LET d == got[r]
      change == IF soft[r] THEN DetectChange(d) ELSE "changed"
  IN /\ Receive(r)
     /\ ~err[r]
     /\ \/ change = "raises" /\ UNCHANGED <<apiData, drawn, loading>>
        \/ change = "same" /\ apiData' = d /\ loading' = FALSE /\ UNCHANGED drawn
        \/ /\ change = "changed"
           /\ apiData' = d
           /\ drawn' = Draw(d)
           /\ loading' = (Raises(d) /\ loading)
     /\ soft' = [soft EXCEPT ![r] = FALSE]
     /\ UNCHANGED <<mounted, namespace, clicks>>

-----------------------------------------------------------------------------
Environment == /\ \E n \in Namespaces, k \in KindSet : Change(n, k)
               /\ UNCHANGED viewer
Serve(r) == (List(r) \/ Lose(r)) /\ UNCHANGED viewer

Next ==
  \/ Environment
  \/ \E r \in Requests :
       \/ Serve(r)
       \/ Mount(r) \/ RefreshButton(r) \/ TimerRefresh(r) \/ Fail(r) \/ Load(r)
       \/ \E n \in Namespaces : ChangeNS(r, n)

Spec == Init /\ [][Next]_vars

\* The page is opened, the timer fires whenever it is due, every request is
\* answered and every answer handled.  The user and the cluster do as they
\* like, within the bounds.
Fairness ==
  /\ WF_vars(\E r \in Requests : Mount(r))
  /\ WF_vars(\E r \in Requests : TimerRefresh(r))
  /\ \A r \in Requests : WF_vars(Serve(r)) /\ WF_vars(Fail(r) \/ Load(r))
FairSpec == Spec /\ Fairness

-----------------------------------------------------------------------------
(* Properties *)

\* Type correctness.
TypeOK ==
  /\ ScrapeTypeOK
  /\ mounted \in BOOLEAN
  /\ namespace \in Namespaces
  /\ soft \in [Requests -> BOOLEAN]
  /\ apiData \in Data \cup {Null}
  /\ drawn \in [KindSet -> SUBSET (1..MaxVersion)]
  /\ loading \in BOOLEAN
  /\ clicks \in 0..MaxClicks

Drawn == apiData # Null /\ drawn = Draw(apiData)

\* The graph never shows a mixture: it is empty, or what refreshNodes draws
\* of the data last stored, although a soft refresh that finds no change
\* stores its data without drawing.  Empty it is only until the answer of a
\* refresh that cleared it is there, as long as nothing fails: a failure leaves
\* it empty while the data goes on being stored.
DrawnFromData ==
  /\ drawn = Empty \/ Drawn
  /\ failures = 0 /\ mounted /\ (\A r \in Requests : at[r] = "free" \/ soft[r]) => Drawn

\* "The app auto refreshes and dynamically updates the view as new data comes
\* in or changes": the data stored is in the end that of the selected namespace.
DataUpdated == <>[](apiData = cluster[namespace])

\* Every failed List is answered as a failure: it was the last of its request.
FailuresAnswered ==
  \A r \in Requests : at[r] = "answered" /\ ~err[r] => \A k \in KindSet : got[r][k] # Null

\* If failures are answered as such, the data stored is in the end that of the
\* selected namespace and the spinner is gone, although an answer for another
\* namespace may come late.
DataSettles == []FailuresAnswered => <>[](apiData = cluster[namespace] /\ ~loading)
=============================================================================
