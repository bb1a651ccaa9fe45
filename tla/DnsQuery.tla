------------------------------ MODULE DnsQuery ------------------------------
(***************************************************************************)
(* kuard's DNS query page (pkg/dnsapi): a name is looked up as it stands   *)
(* when it ends in a dot, and otherwise under each suffix of the search    *)
(* list first, until an answer comes.  Only the first server is asked.     *)
(***************************************************************************)
EXTENDS Handlers

CONSTANT MaxSearch \* bound: the length of the search list

VARIABLES
  names,  \* names[r]: what the server says of each name that r can ask for
  asked,  \* asked[r]: how many of them r has asked for
  result  \* result[r]: the place of the name whose reply r returned, or 0

dns == <<names, asked, result>>

Reply == {"answer", "empty", "error"}
ReplyLists == UNION {[1..n -> Reply] : n \in 1..MaxSearch + 1}

DnsInit ==
  /\ names = [r \in Requests |-> <<>>]
  /\ asked = [r \in Requests |-> 0]
  /\ result = [r \in Requests |-> 0]

DnsReset ==
  /\ names' = [r \in Requests |-> <<>>]
  /\ asked' = [r \in Requests |-> 0]
  /\ result' = [r \in Requests |-> 0]

\* No JSON, no resolv.conf or an unknown type: 400.
DnsRefused(r) ==
  /\ Finish(r, "idle", "refused")
  /\ UNCHANGED dns

\* resolv.conf names no server: Servers[0] panics.
DnsNoServer(r) ==
  /\ Finish(r, "idle", "panic")
  /\ UNCHANGED dns

\* dnsQuery builds the list of names: one for a name that ends in a dot or is
\* empty, and the search list and the name itself for another.
DnsQuery(r) ==
  /\ Begin(r, "ask")
  /\ \E replies \in ReplyLists : names' = [names EXCEPT ![r] = replies]
  /\ asked' = [asked EXCEPT ![r] = 0]
  /\ result' = [result EXCEPT ![r] = 0]

\* Mutant: an empty reply ends the search, as an answer does.
BugGoesOn(r, reply) == FALSE

\* The loop goes on to the next name.
GoesOn(r, reply) == reply = "empty" /\ asked[r] + 1 < Len(names[r])

\* One Exchange with the server.
Exchange(r) ==
  LET reply == names[r][asked[r] + 1] IN
  /\ pc[r] = "ask"
  /\ asked' = [asked EXCEPT ![r] = @ + 1]
  /\ IF GoesOn(r, reply) THEN UNCHANGED <<pc, answer, result>>
     ELSE /\ Finish(r, "ask", IF reply = "error" THEN "refused" ELSE "ok")
          /\ result' = [result EXCEPT ![r] = IF reply = "error" THEN 0 ELSE asked[r] + 1]
  /\ UNCHANGED names

DnsBegin(r) == DnsRefused(r) \/ DnsNoServer(r) \/ DnsQuery(r)

-----------------------------------------------------------------------------
(* Properties *)

DnsTypeOK == \A r \in Requests :
  /\ asked[r] \in 0..Len(names[r])
  /\ result[r] \in 0..asked[r]

\* The reference: the first name with an answer, unless one before it fails,
\* and the last name when none has an answer.
Decides(list, k) ==
  /\ list[k] # "empty" \/ k = Len(list)
  /\ \A j \in 1..k - 1 : list[j] = "empty"

\* A query returns the reply to the name that decides, or fails with it.
FirstAnswerWins ==
  \A r \in Requests : pc[r] = "idle" /\ asked[r] > 0 /\ answer[r] \in {"ok", "refused"} =>
    \E k \in 1..Len(names[r]) :
      /\ Decides(names[r], k)
      /\ asked[r] = k
      /\ result[r] = IF names[r][k] = "error" THEN 0 ELSE k
=============================================================================
