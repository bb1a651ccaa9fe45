----------------------------- MODULE DebugProbe -----------------------------
(***************************************************************************)
(* kuard's debug probe (pkg/debugprobe): an endpoint for the kubelet that  *)
(* fails on request.  Every handler holds Probe.mu from its first access   *)
(* to its last, so each critical section is one step; APIPut has two, the  *)
(* second being APIGet.                                                    *)
(***************************************************************************)
EXTENDS Integers, Sequences

CONSTANTS
  FlagFailNext, \* the value of the flag fail-next, the configuration at startup
  MaxHistory    \* the const maxHistory, 20 in the code

ASSUME DebugProbeAssumption == FlagFailNext \in Int /\ MaxHistory \in Nat \ {0}

VARIABLES
  failNext,     \* Probe.c.FailNext
  lastID,
  history,      \* Probe.history, the oldest entry first
  ordered,      \* history variable: the value failNext was last set to
  since         \* history variable: the calls of Handle since then

probe == <<failNext, lastID, history, ordered, since>>

Codes == {200, 500}
Entry == [id : Nat, code : Codes]

Configured(n) == failNext' = n /\ ordered' = n /\ since' = 0

Init ==
  /\ failNext = FlagFailNext
  /\ lastID = 0
  /\ history = <<>>
  /\ ordered = FlagFailNext
  /\ since = 0

\* The container is restarted: New and SetConfig once more.
Restart ==
  /\ Configured(FlagFailNext)
  /\ lastID' = 0
  /\ history' = <<>>

\* The entry is appended and only the last MaxHistory are kept.
RecordRequest(code) ==
  LET all == Append(history, [id |-> lastID + 1, code |-> code])
  IN  /\ lastID' = lastID + 1
      /\ history' = IF Len(all) > MaxHistory
                    THEN SubSeq(all, Len(all) - MaxHistory + 1, Len(all))
                    ELSE all

Pass ==
  /\ failNext = 0
  /\ RecordRequest(200)
  /\ UNCHANGED failNext

\* Mutant: the last of the ordered failures is answered 200.
BugFail ==
  /\ failNext > 0
  /\ failNext' = failNext - 1
  /\ RecordRequest(IF failNext > 1 THEN 500 ELSE 200)

Fail ==
  /\ failNext > 0
  /\ failNext' = failNext - 1
  /\ RecordRequest(500)

FailForever ==
  /\ failNext < 0
  /\ RecordRequest(500)
  /\ UNCHANGED failNext

\* A probe of the kubelet.
Handle ==
  /\ Pass \/ Fail \/ FailForever
  /\ since' = since + 1
  /\ UNCHANGED ordered

\* Mutant: failures still due are added to the new ones.
BugSetConfig(n) ==
  /\ failNext' = IF n > 0 /\ failNext > 0 THEN failNext + n ELSE n
  /\ ordered' = n
  /\ since' = 0
  /\ UNCHANGED <<lastID, history>>

SetConfig(n) ==
  /\ Configured(n)
  /\ UNCHANGED <<lastID, history>>

Next == Handle \/ Restart \/ \E n \in Int : SetConfig(n)

ProbeSpec == Init /\ [][Next]_probe

-----------------------------------------------------------------------------
\* Every variable keeps its type, and no more than MaxHistory entries are kept.
ProbeTypeOK ==
  /\ failNext \in Int
  /\ lastID \in Nat
  /\ history \in Seq(Entry)
  /\ Len(history) <= MaxHistory
  /\ ordered \in Int
  /\ since \in Nat

\* config.go promises: a positive FailNext fails that many probes, a negative one
\* all, and 0 none.  So what is left to fail is what was ordered minus the probes
\* since, however probes and configurations interleave.
FailsAsOrdered ==
  failNext = IF ordered > 0 THEN IF since < ordered THEN ordered - since ELSE 0
                            ELSE ordered

\* How many probes after the last configuration entry i was recorded; at most 0
\* for an older entry.
Position(i) == since - (Len(history) - i)

\* The history tells the same story: of the probes since the last configuration
\* exactly the first FailNext, or all, are recorded as failures.
CodesAsOrdered ==
  \A i \in 1..Len(history) :
    Position(i) >= 1 =>
      history[i].code = IF ordered < 0 \/ Position(i) <= ordered THEN 500 ELSE 200

\* The history is the last MaxHistory probes, none missing and none twice, up to
\* the newest one.
HistoryIsRecent ==
  /\ \A i \in 1..Len(history) : history[i].id = lastID - (Len(history) - i)
  /\ Len(history) = IF lastID < MaxHistory THEN lastID ELSE MaxHistory
=============================================================================
