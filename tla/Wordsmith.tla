------------------------------ MODULE Wordsmith ------------------------------
(***************************************************************************)
(* The wordsmith demo: a page that asks for five words and retries         *)
(* (web/static/app.js), a forwarder that picks one of the replicas of the  *)
(* words service (web/dispatcher.go), and the replicas, which query a      *)
(* database once per kind of word (words/src/main/java/Main.java).         *)
(*                                                                         *)
(* A replica sets no executor on its HttpServer, so one thread handles its *)
(* requests, one after the other.  A handler that throws closes the        *)
(* connection, which the forwarder reports as a 500.                       *)
(*                                                                         *)
(* One page is looked at.  The requests of others, and those that it had   *)
(* sent before it was loaded again, reach the replicas all the same,       *)
(* because the forwarder does not tie its call to its client.              *)
(***************************************************************************)
EXTENDS Naturals, FiniteSets

CONSTANTS
  Replicas,
  Slots,       \* the words of the page that are looked at
  MaxLoads,    \* bound: how often the page is loaded
  MaxFaults,   \* bound: crashes of replicas and outages of the database
  Nil

AllSlots == {"noun1", "noun2", "adjective1", "adjective2", "verb"}
Tables == {"nouns", "adjectives", "verbs"}

ASSUME WordsmithAssumption ==
  /\ Slots \subseteq AllSlots
  /\ {MaxLoads, MaxFaults} \subseteq Nat
  /\ Nil \notin Replicas \cup AllSlots \cup Tables

Table(s) == CASE s \in {"noun1", "noun2"} -> "nouns"
              [] s \in {"adjective1", "adjective2"} -> "adjectives"
              [] s = "verb" -> "verbs"

VARIABLES
  request,  \* request[s]: where the page's request for s is
  replica,  \* replica[s]: the replica the forwarder chose for it, or Nil
  answer,   \* answer[s]: the word it brings and the life of the replica that gave it
  shown,    \* shown[s]: the answer on the page
  loads,
  memo,     \* memo[r][t]: the word that supplier holds, 0 for none yet
  handling, \* handling[r]: the request that the thread of r handles: a slot of the page,
            \* the table of any other request, or Nil
  life,     \* life[r]: the times r was started; 0 stands for no replica
  up,       \* up[r]: r accepts connections
  drawn,    \* the different words the database has chosen so far
  database, \* the database accepts connections
  faults

words == <<memo, handling, life, up>>
store == <<drawn, database>>
vars == <<request, replica, answer, shown, loads, words, store, faults>>

Answer(r, w) == [word |-> w, from |-> r, life |-> life[r]]
Blank == [word |-> 0, from |-> Nil, life |-> 0]

\* The page is loaded, and sends all its requests.
Load ==
  /\ request' = [s \in Slots |-> "forward"]
  /\ replica' = [s \in Slots |-> Nil]
  /\ answer' = [s \in Slots |-> Blank]
  /\ shown' = [s \in Slots |-> Blank]

Init ==
  /\ request = [s \in Slots |-> "forward"]
  /\ replica = [s \in Slots |-> Nil]
  /\ answer = [s \in Slots |-> Blank]
  /\ shown = [s \in Slots |-> Blank]
  /\ loads = 1
  /\ memo = [r \in Replicas |-> [t \in Tables |-> 0]]
  /\ handling = [r \in Replicas |-> Nil]
  /\ life = [r \in Replicas |-> 1]
  /\ up = [r \in Replicas |-> TRUE]
  /\ drawn = 0
  /\ database = TRUE
  /\ faults = 0

Goto(s, from, to) == request[s] = from /\ request' = [request EXCEPT ![s] = to]

-----------------------------------------------------------------------------
(* The page and the forwarder *)

\* The user reloads the page, complete or not: nobody waits for its requests any more.
Refresh ==
  /\ loads < MaxLoads
  /\ loads' = loads + 1
  /\ Load
  /\ handling' = [r \in Replicas |->
                    IF handling[r] \in Slots THEN Table(handling[r]) ELSE handling[r]]
  /\ UNCHANGED <<memo, life, up, store, faults>>

\* One of the addresses of the service is chosen; the name may not resolve, and an
\* address may be of a replica that is gone: both are a 500 to the page.
Forward(s) ==
  /\ \/ \E r \in Replicas :
          /\ up[r]
          /\ Goto(s, "forward", "call")
          /\ replica' = [replica EXCEPT ![s] = r]
     \/ /\ \E r \in Replicas : ~up[r]
        /\ Goto(s, "forward", "failed")
        /\ UNCHANGED replica
  /\ UNCHANGED <<answer, shown, loads, words, store, faults>>

\* The callback of getWord puts the word and its source on the page.
Show(s) ==
  /\ Goto(s, "replied", "done")
  /\ shown' = [shown EXCEPT ![s] = answer[s]]
  /\ UNCHANGED <<replica, answer, loads, words, store, faults>>

\* Mutant: an error is handled like a word, and nothing is shown.
BugRetry(s) ==
  /\ Goto(s, "failed", "done")
  /\ replica' = [replica EXCEPT ![s] = Nil]
  /\ UNCHANGED <<answer, shown, loads, words, store, faults>>

\* After half a second getWord is called once more.
Retry(s) ==
  /\ Goto(s, "failed", "forward")
  /\ replica' = [replica EXCEPT ![s] = Nil]
  /\ UNCHANGED <<answer, shown, loads, words, store, faults>>

-----------------------------------------------------------------------------
(* The words service *)

Accept(s, r) ==
  /\ replica[s] = r
  /\ handling[r] = Nil
  /\ Goto(s, "call", "handle")
  /\ handling' = [handling EXCEPT ![r] = s]
  /\ UNCHANGED <<replica, answer, shown, loads, memo, life, up, store, faults>>

\* The supplier has its word.
Recall(s, r) ==
  /\ handling[r] = s
  /\ memo[r][Table(s)] # 0
  /\ Goto(s, "handle", "replied")
  /\ answer' = [answer EXCEPT ![s] = Answer(r, memo[r][Table(s)])]
  /\ handling' = [handling EXCEPT ![r] = Nil]
  /\ UNCHANGED <<replica, shown, loads, memo, life, up, store, faults>>

\* The first query of r for a word of t brings w.
Draw(r, t, w) ==
  /\ memo[r][t] = 0
  /\ database
  /\ drawn' = IF w > drawn THEN w ELSE drawn
  /\ memo' = [memo EXCEPT ![r][t] = w]

\* Mutant: the supplier is not memoized.
BugRandomWord(s, r) ==
  /\ handling[r] = s
  /\ memo[r][Table(s)] = 0
  /\ database
  /\ drawn' = drawn + 1
  /\ memo' = [memo EXCEPT ![r][Table(s)] = 0]
  /\ Goto(s, "handle", "replied")
  /\ answer' = [answer EXCEPT ![s] = Answer(r, drawn + 1)]
  /\ handling' = [handling EXCEPT ![r] = Nil]
  /\ UNCHANGED <<replica, shown, loads, life, up, database, faults>>

\* randomWord queries the database, which may choose any word, one it chose before
\* or a new one; memoize keeps it.
RandomWord(s, r) ==
  /\ handling[r] = s
  /\ \E w \in 1..(drawn + 1) :
       /\ Draw(r, Table(s), w)
       /\ answer' = [answer EXCEPT ![s] = Answer(r, w)]
  /\ Goto(s, "handle", "replied")
  /\ handling' = [handling EXCEPT ![r] = Nil]
  /\ UNCHANGED <<replica, shown, loads, life, up, database, faults>>

\* The query failed: randomWord throws, and memoize keeps nothing.
NoSuchElement(s, r) ==
  /\ handling[r] = s
  /\ memo[r][Table(s)] = 0
  /\ ~database
  /\ Goto(s, "handle", "failed")
  /\ handling' = [handling EXCEPT ![r] = Nil]
  /\ UNCHANGED <<replica, answer, shown, loads, memo, life, up, store, faults>>

\* A request of somebody else, or of the page before it was loaded again.
AcceptOther(r) ==
  /\ up[r]
  /\ handling[r] = Nil
  /\ \E s \in Slots : handling' = [handling EXCEPT ![r] = Table(s)]
  /\ UNCHANGED <<request, replica, answer, shown, loads, memo, life, up, store, faults>>

\* It is handled like one of the page, and may be the first for its kind of word.
HandleOther(r) ==
  /\ handling[r] \in Tables
  /\ \/ \E w \in 1..(drawn + 1) : Draw(r, handling[r], w)
     \/ /\ memo[r][handling[r]] # 0 \/ ~database
        /\ UNCHANGED <<memo, drawn>>
  /\ handling' = [handling EXCEPT ![r] = Nil]
  /\ UNCHANGED <<request, replica, answer, shown, loads, life, up, database, faults>>

-----------------------------------------------------------------------------
(* The cluster *)

\* The pod of a replica dies with its memory; calls that wait for it fail.
Crash(r) ==
  /\ faults < MaxFaults
  /\ faults' = faults + 1
  /\ up[r]
  /\ up' = [up EXCEPT ![r] = FALSE]
  /\ memo' = [memo EXCEPT ![r] = [t \in Tables |-> 0]]
  /\ handling' = [handling EXCEPT ![r] = Nil]
  /\ request' = [s \in Slots |-> IF replica[s] = r /\ request[s] \in {"call", "handle"}
                                 THEN "failed" ELSE request[s]]
  /\ UNCHANGED <<replica, answer, shown, loads, life, store>>

Restart(r) ==
  /\ ~up[r]
  /\ up' = [up EXCEPT ![r] = TRUE]
  /\ life' = [life EXCEPT ![r] = life[r] + 1]
  /\ UNCHANGED <<request, replica, answer, shown, loads, memo, handling, store, faults>>

Outage ==
  /\ faults < MaxFaults
  /\ database
  /\ faults' = faults + 1
  /\ database' = FALSE
  /\ UNCHANGED <<request, replica, answer, shown, loads, words, drawn>>

Recovery ==
  /\ ~database
  /\ database' = TRUE
  /\ UNCHANGED <<request, replica, answer, shown, loads, words, drawn, faults>>

-----------------------------------------------------------------------------
Page(s) == Forward(s) \/ Show(s) \/ Retry(s)
Handle(s, r) == Recall(s, r) \/ RandomWord(s, r) \/ NoSuchElement(s, r)

\* The last page is complete.
Complete == \A s \in Slots : request[s] = "done"
Finished == loads = MaxLoads /\ Complete /\ UNCHANGED vars

Next ==
  \/ Refresh
  \/ \E s \in Slots : Page(s) \/ \E r \in Replicas : Accept(s, r) \/ Handle(s, r)
  \/ \E r \in Replicas : AcceptOther(r) \/ HandleOther(r) \/ Crash(r) \/ Restart(r)
  \/ Outage
  \/ Recovery
  \/ Finished

Spec == Init /\ [][Next]_vars

\* Timers fire, connections are answered and the thread of a replica runs; the
\* cluster brings back pods and database.  A replica takes waiting calls in turn,
\* however many others ask.
Fairness ==
  /\ \A s \in Slots : WF_vars(Page(s))
  /\ \A s \in Slots, r \in Replicas : SF_vars(Accept(s, r))
  /\ \A r \in Replicas :
       /\ WF_vars(HandleOther(r) \/ \E s \in Slots : Handle(s, r))
       /\ WF_vars(Restart(r))
  /\ WF_vars(Recovery)

FairSpec == Spec /\ Fairness

-----------------------------------------------------------------------------
\* A word on the page is the word its replica still gives, as long as that replica
\* lives: so words of one kind with one source are equal.
SourceKeepsWord ==
  \A s \in Slots :
    LET r == shown[s].from
    IN  shown[s].word # 0 /\ up[r] /\ life[r] = shown[s].life =>
          memo[r][Table(s)] = shown[s].word

\* A page that is loaded, and not loaded again, ends up with all its words, through
\* outages of the database and crashes of replicas.
PageCompletes == []<>(Complete /\ \A s \in Slots : shown[s].word # 0)
=============================================================================
