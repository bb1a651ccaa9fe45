------------------------------ MODULE ProbePage ------------------------------
(***************************************************************************)
(* The pages that show a debug probe (client/src/probe.jsx) and their sign *)
(* for a lost connection (disconnected.jsx), with the probe of DebugProbe  *)
(* as the server.  A page polls every second whether or not the last poll  *)
(* was answered and applies replies in the order they come.                *)
(*                                                                         *)
(* A fetch waits at "put" for SetConfig, at "get" for APIGet, and is then  *)
(* "replied", or "failed" when request or reply was lost.  A PUT whose     *)
(* connection broke while the server had it is "cut", and a "stray" once   *)
(* the page has reported the error: the server still acts on it.           *)
(***************************************************************************)
EXTENDS DebugProbe, SequencesExt

CONSTANTS
  Pages,
  Fetches,     \* bound: the fetches a page has in flight
  Counts,      \* the values of FailNext a page may send
  MaxClicks, MaxProbes, MaxRestarts, MaxLosses  \* bounds

ASSUME ProbePageAssumption ==
  /\ Counts \subseteq Int
  /\ {MaxClicks, MaxProbes, MaxRestarts, MaxLosses} \subseteq Nat

VARIABLES
  fetch,        \* fetch[p][f]: where fetch f of page p is
  shown,        \* shown[p]: the state of the Probe component
  disconnected, \* disconnected[p]: the sign is visible
  timer,        \* timer[p]: Disconnected.timer is set
  clicks, probes, restarts, losses,
  sets          \* history variable: the calls of SetConfig

page == <<shown, disconnected, timer>>
bounds == <<clicks, probes, restarts, losses>>
vars == <<probe, fetch, page, bounds, sets>>

\* What APIGet serves: the newest entry first.
Status == [failNext |-> failNext, history |-> Reverse(history)]

Blank == [failNext |-> 0, history |-> <<>>]

\* own and seen are history variables: the number of SetConfig calls up to the
\* fetch's own and up to its reply.
Waiting(where, n, own) == [at |-> where, n |-> n, own |-> own, seen |-> 0, status |-> Blank]
Idle == Waiting("idle", 0, 0)
Failed == Waiting("failed", 0, 0)
Replied(own) == [at |-> "replied", n |-> 0, own |-> own, seen |-> sets, status |-> Status]

PageInit ==
  /\ Init
  /\ fetch = [p \in Pages |-> [f \in Fetches |-> Idle]]
  /\ shown = [p \in Pages |-> Blank]
  /\ disconnected = [p \in Pages |-> FALSE]
  /\ timer = [p \in Pages |-> FALSE]
  /\ clicks = 0 /\ probes = 0 /\ restarts = 0 /\ losses = 0
  /\ sets = 0

At(p, f, where) == fetch[p][f].at = where
Becomes(p, f, r) == fetch' = [fetch EXCEPT ![p][f] = r]

-----------------------------------------------------------------------------
(* The page *)

\* loadState, when the page is mounted and every second.
Poll(p) ==
  \E f \in Fetches :
    /\ At(p, f, "idle")
    /\ Becomes(p, f, Waiting("get", 0, 0))
    /\ UNCHANGED <<probe, page, bounds, sets>>

\* configure: a click on one of the links.
Configure(p) ==
  /\ clicks < MaxClicks
  /\ clicks' = clicks + 1
  /\ \E f \in Fetches, n \in Counts :
       /\ At(p, f, "idle")
       /\ Becomes(p, f, Waiting("put", n, 0))
  /\ UNCHANGED <<probe, page, probes, restarts, losses, sets>>

\* Mutant: a reply that looks older than what is shown is dropped.
BugApply(p, f) ==
  /\ At(p, f, "replied")
  /\ LET newest(h) == IF h = <<>> THEN 0 ELSE Head(h).id
         status == fetch[p][f].status
     IN  shown' = IF newest(status.history) >= newest(shown[p].history)
                  THEN [shown EXCEPT ![p] = status] ELSE shown
  /\ Becomes(p, f, Idle)
  /\ UNCHANGED <<probe, disconnected, timer, bounds, sets>>

\* setState(response): whichever reply comes last is shown.
Apply(p, f) ==
  /\ At(p, f, "replied")
  /\ shown' = [shown EXCEPT ![p] = fetch[p][f].status]
  /\ Becomes(p, f, Idle)
  /\ UNCHANGED <<probe, disconnected, timer, bounds, sets>>

\* The page is through with its fetch; the server may have a PUT of it still.
Reported(p, f) ==
  /\ fetch[p][f].at \in {"failed", "cut"}
  /\ Becomes(p, f, IF At(p, f, "cut") THEN Waiting("stray", fetch[p][f].n, 0) ELSE Idle)

\* Mutant: the running timer is cleared and none is started in its place.
BugReportConnError(p, f) ==
  /\ Reported(p, f)
  /\ disconnected' = [disconnected EXCEPT ![p] = TRUE]
  /\ timer' = [timer EXCEPT ![p] = ~timer[p]]
  /\ UNCHANGED <<probe, shown, bounds, sets>>

\* The sign is shown, and the two seconds after which it goes start again.
ReportConnError(p, f) ==
  /\ Reported(p, f)
  /\ disconnected' = [disconnected EXCEPT ![p] = TRUE]
  /\ timer' = [timer EXCEPT ![p] = TRUE]
  /\ UNCHANGED <<probe, shown, bounds, sets>>

ClearConnError(p) ==
  /\ timer[p]
  /\ disconnected' = [disconnected EXCEPT ![p] = FALSE]
  /\ timer' = [timer EXCEPT ![p] = FALSE]
  /\ UNCHANGED <<probe, fetch, shown, bounds, sets>>

-----------------------------------------------------------------------------
(* The server and what is between *)

\* Mutant: the reply is made before the configuration is set.
BugPut(p, f) ==
  /\ At(p, f, "put")
  /\ SetConfig(fetch[p][f].n)
  /\ sets' = sets + 1
  /\ Becomes(p, f, Replied(sets + 1))
  /\ UNCHANGED <<page, bounds>>

\* The first critical section of APIPut.  What pages send does decode.
Put(p, f) ==
  /\ At(p, f, "put")
  /\ SetConfig(fetch[p][f].n)
  /\ sets' = sets + 1
  /\ Becomes(p, f, Waiting("get", 0, sets + 1))
  /\ UNCHANGED <<page, bounds>>

\* APIGet, alone or as the end of APIPut.
Get(p, f) ==
  /\ At(p, f, "get")
  /\ Becomes(p, f, Replied(fetch[p][f].own))
  /\ UNCHANGED <<probe, page, bounds, sets>>

\* A PUT nobody waits for: its reply, if any, reaches no page.
PutStray(p, f) ==
  /\ At(p, f, "stray")
  /\ SetConfig(fetch[p][f].n)
  /\ sets' = sets + 1
  /\ Becomes(p, f, Idle)
  /\ UNCHANGED <<page, bounds>>

\* The connection breaks before the request or the reply arrives, or after a PUT
\* arrived that the server has yet to handle.
Lose(p, f) ==
  /\ losses < MaxLosses
  /\ losses' = losses + 1
  /\ \/ fetch[p][f].at \in {"put", "get", "replied"} /\ Becomes(p, f, Failed)
     \/ At(p, f, "put") /\ Becomes(p, f, Waiting("cut", fetch[p][f].n, 0))
  /\ UNCHANGED <<probe, page, clicks, probes, restarts, sets>>

Probed ==
  /\ probes < MaxProbes
  /\ probes' = probes + 1
  /\ Handle
  /\ UNCHANGED <<fetch, page, clicks, restarts, losses, sets>>

\* Requests the old process has not answered fail, and it forgets the stray ones.
Restarted ==
  /\ restarts < MaxRestarts
  /\ restarts' = restarts + 1
  /\ Restart
  /\ fetch' = [p \in Pages |-> [f \in Fetches |->
                 CASE fetch[p][f].at \in {"put", "get", "cut"} -> Failed
                   [] At(p, f, "stray") -> Idle
                   [] OTHER -> fetch[p][f]]]
  /\ UNCHANGED <<page, clicks, probes, losses, sets>>

Server(p, f) == Put(p, f) \/ Get(p, f) \/ PutStray(p, f)
Finish(p, f) == Apply(p, f) \/ ReportConnError(p, f)

PageNext ==
  \/ Probed
  \/ Restarted
  \/ \E p \in Pages :
       \/ Poll(p)
       \/ Configure(p)
       \/ ClearConnError(p)
       \/ \E f \in Fetches : Server(p, f) \/ Finish(p, f) \/ Lose(p, f)

\* The browser fires its timers and hands over what arrived, and the Go scheduler
\* runs every handler; nobody has to click, probe, restart or break anything.
Fairness ==
  \A p \in Pages :
    /\ WF_vars(Poll(p))
    /\ WF_vars(ClearConnError(p))
    /\ \A f \in Fetches : WF_vars(Server(p, f)) /\ WF_vars(Finish(p, f))

Spec == PageInit /\ [][PageNext]_vars
FairSpec == Spec /\ Fairness

-----------------------------------------------------------------------------
\* APIPut leaves the lock between SetConfig and APIGet, so its reply may show the
\* configuration of another page, but never one from before its own.
ReadsOwnWrite ==
  \A p \in Pages, f \in Fetches :
    At(p, f, "replied") => fetch[p][f].seen >= fetch[p][f].own

\* Once nobody clicks, probes, restarts or breaks connections, every page shows
\* the state of the probe and keeps showing it: replies that overtook each other
\* and the numbering that starts again after a restart are forgotten.
PagesCatchUp == <>[](\A p \in Pages : shown[p] = Status)

\* The sign for a lost connection goes when connections break no longer, however
\* many errors were reported while it was visible.
SignGoes == <>[](\A p \in Pages : ~disconnected[p])
=============================================================================
