--------------------------- MODULE KubeviewScrape ---------------------------
(***************************************************************************)
(* The scrape service of kubeview (cmd/server/routes.go) in front of the   *)
(* Kubernetes API.  One request lists ten kinds of objects one after the   *)
(* other while the cluster changes; each List may fail, and every one      *)
(* overwrites the error of the one before.                                 *)
(*                                                                         *)
(* The ten kinds are abstracted to three that behave differently: the      *)
(* pods, which are listed first; the claims the pods mount, which the      *)
(* viewer looks up; and the ingresses, whose List is the last.  A          *)
(* namespace has at most one object of a kind, which is its version.       *)
(***************************************************************************)
EXTENDS Integers, Sequences

CONSTANTS
  Namespaces,
  Requests,    \* bound: requests in flight at a time
  Flaky,       \* the kinds whose List may fail
  MaxVersion,  \* bound: changes of the cluster
  MaxFailures, \* bound: failures of the API and of the connection
  Null         \* the JSON null

Kinds == <<"pods", "claims", "ingresses">>
KindSet == {"pods", "claims", "ingresses"}
Data == [KindSet -> (SUBSET (1..MaxVersion)) \cup {Null}]
Empty == [k \in KindSet |-> {}]

ASSUME ScrapeAssumption ==
  /\ Namespaces # {}
  /\ Flaky \subseteq KindSet
  /\ \A d \in Data : d # Null
  /\ \A l \in SUBSET (1..MaxVersion) : l # Null
  /\ MaxVersion \in Nat
  /\ MaxFailures \in Nat

VARIABLES
  cluster,  \* cluster[n][k]: the object of kind k in namespace n, if any
  version,  \* the last resourceVersion given
  failures, \* how many calls have failed
  at,       \* at[r]: "free", "listing" or "answered"
  ns,       \* ns[r]: the {ns} of the URL
  listed,   \* listed[r]: how many kinds have been listed
  got,      \* got[r]: scrapeResult; a list that failed has Items nil, a null
  err       \* err[r]: the err of the last List

api == <<cluster, version, failures>>
request == <<at, ns, listed, got, err>>

ScrapeInit ==
  /\ cluster = [n \in Namespaces |-> Empty]
  /\ version = 0
  /\ failures = 0
  /\ at = [r \in Requests |-> "free"]
  /\ ns = [r \in Requests |-> Null]
  /\ listed = [r \in Requests |-> 0]
  /\ got = [r \in Requests |-> Empty]
  /\ err = [r \in Requests |-> FALSE]

\* An object is created, changed, replaced or deleted.
Change(n, k) ==
  /\ version < MaxVersion
  /\ version' = version + 1
  /\ \E now \in {{}, {version'}} :
       /\ cluster[n][k] # now
       /\ cluster' = [cluster EXCEPT ![n][k] = now]
  /\ UNCHANGED <<failures, request>>

\* The request for namespace n reaches the handler.
Send(r, n) ==
  /\ at[r] = "free"
  /\ at' = [at EXCEPT ![r] = "listing"]
  /\ ns' = [ns EXCEPT ![r] = n]
  /\ UNCHANGED <<api, listed, got, err>>

\* The next List of routeScrapeData; the last one decides about the answer.
List(r) ==
  LET k == Kinds[listed[r] + 1] IN
  /\ at[r] = "listing"
  /\ listed' = [listed EXCEPT ![r] = @ + 1]
  /\ \/ /\ got' = [got EXCEPT ![r][k] = cluster[ns[r]][k]]
        /\ err' = [err EXCEPT ![r] = FALSE]
        /\ failures' = failures
     \/ /\ k \in Flaky /\ failures < MaxFailures
        /\ failures' = failures + 1
        /\ got' = [got EXCEPT ![r][k] = Null]
        /\ err' = [err EXCEPT ![r] = TRUE]
  /\ at' = [at EXCEPT ![r] = IF listed'[r] = Len(Kinds) THEN "answered" ELSE "listing"]
  /\ UNCHANGED <<cluster, version, ns>>

\* The connection breaks: for the browser as good as an answer with an error.
Lose(r) ==
  /\ at[r] = "listing" /\ failures < MaxFailures
  /\ failures' = failures + 1
  /\ at' = [at EXCEPT ![r] = "answered"]
  /\ err' = [err EXCEPT ![r] = TRUE]
  /\ UNCHANGED <<cluster, version, ns, listed, got>>

\* The browser takes the answer, and the request is gone.
Receive(r) ==
  /\ at[r] = "answered"
  /\ at' = [at EXCEPT ![r] = "free"]
  /\ ns' = [ns EXCEPT ![r] = Null]
  /\ listed' = [listed EXCEPT ![r] = 0]
  /\ got' = [got EXCEPT ![r] = Empty]
  /\ err' = [err EXCEPT ![r] = FALSE]
  /\ UNCHANGED api

ScrapeTypeOK ==
  /\ cluster \in [Namespaces -> [KindSet -> SUBSET (1..MaxVersion)]]
  /\ version \in 0..MaxVersion
  /\ failures \in 0..MaxFailures
  /\ at \in [Requests -> {"free", "listing", "answered"}]
  /\ ns \in [Requests -> Namespaces \cup {Null}]
  /\ listed \in [Requests -> 0..Len(Kinds)]
  /\ got \in [Requests -> Data]
  /\ err \in [Requests -> BOOLEAN]
=============================================================================
