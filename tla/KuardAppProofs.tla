---------------------------- MODULE KuardAppProofs ----------------------------
(***************************************************************************)
(* What a kuard process promises of its requests, for any number of        *)
(* requests, leaks, edits and kills: the DNS query returns what its search *)
(* list decides, the root page is current, and the memory leaker holds the *)
(* leaks it acknowledged.                                                  *)
(***************************************************************************)
EXTENDS KuardApp, FiniteSetTheorems, TLAPS

Reply == {"answer", "empty", "error"}

-----------------------------------------------------------------------------
(* The process *)

Serving == {"listen", "serve"}
Places == {"idle", "read", "write", "ask", "lock", "list", "load", "parse", "lookup", "execute"}
Answers == {"none", "ok", "refused", "error", "panic", "cut"}

\* While the process starts there are no requests; the debug settings are in force
\* one after the other, and both before the first request.
ProcessOK ==
  /\ scenario \in Scenarios
  /\ main \in {"load", "templates", "files", "run", "listen", "serve", "down"}
  /\ https \in {"off", "starting", "open"}
  /\ kills \in 0..MaxKills
  /\ answer \in [Requests -> Answers]
  /\ pc \in [Requests -> Places]
  /\ main \notin Serving =>
       /\ https = "off"
       /\ \A r \in Requests : pc[r] = "idle" /\ page[r] = Nil
  /\ main \in {"files", "run", "listen", "serve"} => debugTemplates = scenario.debug
  /\ main \in {"run", "listen", "serve"} => debugFiles = scenario.debug

-----------------------------------------------------------------------------
(* The DNS query *)

\* The names before the one that r asks for next had empty replies, and the one
\* that r asked for last decides.
QueryOK(r) ==
  /\ asked[r] <= Len(names[r])
  /\ result[r] <= asked[r]
  /\ pc[r] = "ask" =>
       asked[r] < Len(names[r]) /\ \A j \in 1..asked[r] : names[r][j] = "empty"
  /\ pc[r] # "ask" /\ asked[r] > 0 =>
       /\ Dns!Decides(names[r], asked[r])
       /\ result[r] = IF names[r][asked[r]] = "error" THEN 0 ELSE asked[r]

DnsOK ==
  /\ names \in [Requests -> Seq(Reply)]
  /\ asked \in [Requests -> Nat] /\ result \in [Requests -> Nat]
  /\ \A r \in Requests : QueryOK(r)

-----------------------------------------------------------------------------
(* The root page *)

Holding == {"list", "load", "parse", "lookup"}
AtRoot == Holding \cup {"lock", "execute"}

\* Why the page may be missing in what r loaded.
Reason(r) ==
  \/ \E d \in during[r] : d["index"] = Nil
  \/ \E d, e \in during[r] : d["swap"] # Nil /\ e["swap"] = Nil

\* Version v of the page was in the directory while r ran.
WasThere(r, v) == \E d \in during[r] : d["index"] = v

\* What r has read: its page was there, and there is a reason if it has none.
FromDirectory(r, files_) ==
  /\ "index" \in DOMAIN files_ => WasThere(r, files_["index"])
  /\ "index" \in DOMAIN files_ \/ Reason(r)

Listings == {<<>>, <<"swap">>, <<"index">>, <<"swap", "index">>}

\* What r has listed and not read.
ListedOK(r) ==
  /\ files[r] \in Listings
  /\ files[r] \in {<<"swap">>, <<"swap", "index">>} => \E d \in during[r] : d["swap"] # Nil
  /\ "index" \in DOMAIN dirData[r] => WasThere(r, dirData[r]["index"])
  /\ \/ "index" \in DOMAIN dirData[r] \/ Reason(r)
     \/ files[r] \in {<<"index">>, <<"swap", "index">>}

RootTypes ==
  /\ debugTemplates \in BOOLEAN /\ debugFiles \in BOOLEAN
  /\ mu \in Requests \cup {Nil}
  /\ edits \in 0..MaxEdits
  /\ DOMAIN files = Requests /\ DOMAIN dirData = Requests
  /\ DOMAIN page = Requests /\ DOMAIN during = Requests
  /\ ~debugTemplates => t \in {Nil, Root!Embedded}

\* How far the visit of r has come, and what it found.
VisitOK(r) ==
  /\ mu = r <=> pc[r] \in Holding
  /\ pc[r] \in AtRoot => disk \in during[r]
  /\ during[r] # {} => scenario.page[r] = "root"
  /\ answer[r] = "panic" /\ during[r] # {} => Reason(r)
  /\ page[r] # Nil => IF debugTemplates THEN WasThere(r, page[r]) ELSE page[r] = 0
  /\ pc[r] = "load" => debugFiles /\ ListedOK(r)
  /\ pc[r] = "parse" => IF debugFiles THEN FromDirectory(r, dirData[r])
                        ELSE dirData[r] = Root!Embedded
  /\ pc[r] = "lookup" => IF debugFiles THEN FromDirectory(r, t) ELSE t = Root!Embedded

RootOK == RootTypes /\ \A r \in Requests : VisitOK(r)

-----------------------------------------------------------------------------
(* The memory leaker *)

Word == {"ptr", "len", "cap"}
PartialWords == UNION {[D -> Nat] : D \in SUBSET Word}
Touching == {r \in Requests : pc[r] \in {"read", "write"}}
Capacity(p) == IF p = 0 THEN 0 ELSE Len(arrays[p])

WordsOK(r) ==
  /\ todo[r] \subseteq DOMAIN words[r]
  /\ pc[r] \notin {"read", "write"} => leak[r] = 0 /\ todo[r] = {}
  /\ pc[r] = "read" => leak[r] # 0 /\ todo[r] = {}
  /\ pc[r] = "write" => DOMAIN words[r] = Word
  /\ "ptr" \in DOMAIN words[r] => words[r]["ptr"] \in 0..Len(arrays)
  /\ pc[r] = "write" /\ leak[r] # 0 => words[r]["len"] >= 1
  /\ pc[r] = "write" /\ leak[r] = 0 => \A w \in Word : words[r][w] = 0

\* A leak that is made and not yet in the slice is nobody else's.
LeakOK(r) ==
  leak[r] # 0 =>
    /\ leak[r] <= made /\ leak[r] \notin due
    /\ \A s \in Requests : s # r => leak[s] # leak[r]

MemTypes ==
  /\ leaks \in [Word -> Nat]
  /\ leaks["ptr"] \in 0..Len(arrays)
  /\ arrays \in Seq(Seq(0..MaxLeaks))
  /\ made \in 0..MaxLeaks
  /\ leak \in [Requests -> 0..MaxLeaks]
  /\ words \in [Requests -> PartialWords]
  /\ todo \in [Requests -> SUBSET Word]
  /\ corrupt \in BOOLEAN /\ mixed \in BOOLEAN
  /\ due \subseteq 1..made
  /\ met \subseteq Touching
  /\ \A r \in Requests : WordsOK(r) /\ LeakOK(r)

\* A request that met no other is the only one at the slice.
Alone(r) == r \in Touching /\ r \notin met
OverlapOK ==
  /\ ~mixed => met = {}
  /\ \A r \in Requests : Alone(r) => Touching = {r}

\* The first n elements of array p are the leaks that are due, each once.
Holds(p, n, c) ==
  /\ c = Capacity(p) /\ n <= c
  /\ {arrays[p][k] : k \in 1..n} = due
  /\ Cardinality(due) = n

\* The slice as it is, and what r writes.
Good == Holds(leaks["ptr"], leaks["len"], leaks["cap"])
WritesGood(r) ==
  /\ words[r]["cap"] = Capacity(words[r]["ptr"]) /\ words[r]["len"] <= words[r]["cap"]
  /\ {arrays[words[r]["ptr"]][k] : k \in 1..(words[r]["len"] - 1)} = due
  /\ Cardinality(due) = words[r]["len"] - 1

\* What r, being alone, has read is the slice, and so is what it has written; the
\* leaks of its array are those that are due.
HeldBy(r) ==
  /\ pc[r] = "read" => \A w \in DOMAIN words[r] : words[r][w] = leaks[w]
  /\ pc[r] = "write" => \A w \in Word \ todo[r] : leaks[w] = words[r][w]
  /\ ~mixed /\ pc[r] = "read" => Good
  /\ ~mixed /\ pc[r] = "write" /\ leak[r] # 0 => WritesGood(r)

HeldOK ==
  /\ Touching = {} /\ ~mixed => Good
  /\ \A r \in Requests : Alone(r) => HeldBy(r)

MemOK == MemTypes /\ OverlapOK /\ HeldOK

AInv == ProcessOK /\ DnsOK /\ RootOK /\ MemOK

-----------------------------------------------------------------------------
(* The DNS query, step by step *)

\* What neither comes to nor leaves the query keeps its results.
LEMMA DnsRest ==
  ASSUME DnsOK, UNCHANGED dns,
         \A r \in Requests : pc'[r] = "ask" <=> pc[r] = "ask"
  PROVE  DnsOK'
BY DEF DnsOK, QueryOK, dns, Dns!Decides

LEMMA DnsFresh ==
  ASSUME Dns!DnsReset, \A r \in Requests : pc'[r] # "ask"
  PROVE  DnsOK'
BY DEF Dns!DnsReset, DnsOK, QueryOK

\* The lists of replies are sequences with at least one.
LEMMA ReplyListsFact ==
  \A l \in Dns!ReplyLists : l \in Seq(Reply) /\ Len(l) \in Nat /\ Len(l) >= 1
<1> SUFFICES ASSUME NEW n \in 1..(MaxSearch + 1), NEW l \in [1..n -> Reply]
             PROVE  l \in Seq(Reply) /\ Len(l) \in Nat /\ Len(l) >= 1
  BY DEF Dns!ReplyLists, Dns!Reply, Reply
<1>1. n \in Nat /\ n >= 1
  BY KuardAppAssumption
<1>2. l \in Seq(Reply) /\ Len(l) = n
  BY <1>1
<1> QED
  BY <1>1, <1>2

\* One query has taken a step.
LEMMA OneQuery ==
  ASSUME DnsOK, NEW r \in Requests, QueryOK(r)',
         names' \in [Requests -> Seq(Reply)],
         asked' \in [Requests -> Nat], result' \in [Requests -> Nat],
         \A s \in Requests : s # r =>
           /\ names'[s] = names[s] /\ asked'[s] = asked[s]
           /\ result'[s] = result[s] /\ pc'[s] = pc[s]
  PROVE  DnsOK'
<1>1. ASSUME NEW s \in Requests, s # r
      PROVE  QueryOK(s)'
  <2>1. QueryOK(s)
    BY DEF DnsOK
  <2>2. names'[s] = names[s] /\ asked'[s] = asked[s] /\ result'[s] = result[s] /\ pc'[s] = pc[s]
    BY <1>1
  <2> QED
    BY <2>1, <2>2 DEF QueryOK, Dns!Decides
<1> QED
  BY <1>1 DEF DnsOK

\* A request that is refused, or panics, leaves the results of the one before.
LEMMA DnsBeginKeeps ==
  ASSUME ProcessOK, DnsOK, NEW r \in Requests, Dns!DnsBegin(r)
  PROVE  DnsOK'
<1>0. DOMAIN pc = Requests
  BY DEF ProcessOK
<1>1. CASE Dns!DnsRefused(r) \/ Dns!DnsNoServer(r)
  <2>1. UNCHANGED dns /\ pc' = [pc EXCEPT ![r] = "idle"] /\ pc[r] = "idle"
    BY <1>1 DEF Dns!DnsRefused, Dns!DnsNoServer, Dns!Finish, Dns!Goto, Dns!dns, dns
  <2>2. \A s \in Requests : pc'[s] = "ask" <=> pc[s] = "ask"
    BY <1>0, <2>1
  <2> QED
    BY <2>1, <2>2, DnsRest
<1>2. CASE Dns!DnsQuery(r)
  <2>1. PICK replies \in Dns!ReplyLists : names' = [names EXCEPT ![r] = replies]
    BY <1>2 DEF Dns!DnsQuery
  <2>2. /\ pc' = [pc EXCEPT ![r] = "ask"]
        /\ asked' = [asked EXCEPT ![r] = 0] /\ result' = [result EXCEPT ![r] = 0]
    BY <1>2 DEF Dns!DnsQuery, Dns!Begin, Dns!Goto
  <2>3. replies \in Seq(Reply) /\ Len(replies) \in Nat /\ Len(replies) >= 1
    BY <2>1, ReplyListsFact
  <2>4. /\ names'[r] = replies /\ asked'[r] = 0 /\ result'[r] = 0 /\ pc'[r] = "ask"
        /\ names' \in [Requests -> Seq(Reply)]
        /\ asked' \in [Requests -> Nat] /\ result' \in [Requests -> Nat]
        /\ \A s \in Requests : s # r =>
             /\ names'[s] = names[s] /\ asked'[s] = asked[s]
             /\ result'[s] = result[s] /\ pc'[s] = pc[s]
    BY <1>0, <2>1, <2>2, <2>3 DEF DnsOK
  <2>5. QueryOK(r)'
    BY <2>3, <2>4 DEF QueryOK
  <2> QED
    BY <2>4, <2>5, OneQuery
<1> QED
  BY <1>1, <1>2 DEF Dns!DnsBegin

LEMMA ExchangeKeeps ==
  ASSUME ProcessOK, DnsOK, NEW r \in Requests, Dns!Exchange(r)
  PROVE  DnsOK'
<1>0. DOMAIN pc = Requests
  BY DEF ProcessOK
<1>1. PICK k \in Nat : k = asked[r] + 1
  BY DEF DnsOK
<1>r. PICK reply : reply = names[r][k]
  OBVIOUS
<1>2. /\ pc[r] = "ask" /\ names' = names
      /\ asked' = [asked EXCEPT ![r] = k]
      /\ IF Dns!GoesOn(r, reply) THEN UNCHANGED <<pc, result>>
         ELSE /\ pc' = [pc EXCEPT ![r] = "idle"]
              /\ result' = [result EXCEPT ![r] = IF reply = "error" THEN 0 ELSE k]
  BY <1>1, <1>r DEF Dns!Exchange, Dns!Finish, Dns!Goto
<1>3. /\ names[r] \in Seq(Reply) /\ asked[r] \in Nat /\ Len(names[r]) \in Nat
      /\ asked[r] < Len(names[r]) /\ \A j \in 1..asked[r] : names[r][j] = "empty"
      /\ result[r] \in Nat /\ result[r] <= asked[r]
  BY <1>2 DEF DnsOK, QueryOK
<1>4. /\ asked'[r] = k /\ names'[r] = names[r]
      /\ asked' \in [Requests -> Nat] /\ result' \in [Requests -> Nat]
      /\ \A s \in Requests : s # r =>
           /\ asked'[s] = asked[s] /\ result'[s] = result[s] /\ pc'[s] = pc[s]
  <2>1. /\ asked'[r] = k /\ names'[r] = names[r]
        /\ asked' \in [Requests -> Nat]
        /\ \A s \in Requests : s # r => asked'[s] = asked[s]
    BY <1>2 DEF DnsOK
  <2>2. /\ result' \in [Requests -> Nat]
        /\ \A s \in Requests : s # r => result'[s] = result[s] /\ pc'[s] = pc[s]
    <3>1. CASE Dns!GoesOn(r, reply)
      BY <1>2, <3>1 DEF DnsOK
    <3>2. CASE ~Dns!GoesOn(r, reply)
      BY <1>0, <1>2, <3>2 DEF DnsOK
    <3> QED
      BY <3>1, <3>2
  <2> QED
    BY <2>1, <2>2
<1>5. k <= Len(names[r]) /\ \A j \in 1..(k - 1) : names[r][j] = "empty"
  BY <1>1, <1>3
<1>6. QueryOK(r)'
  <2>1. CASE Dns!GoesOn(r, reply)
    <3>1. reply = "empty" /\ k < Len(names[r]) /\ pc'[r] = "ask" /\ result'[r] = result[r]
      BY <1>1, <1>2, <2>1 DEF Dns!GoesOn
    <3>2. \A j \in 1..k : names[r][j] = "empty"
      <4>1. \A j \in 1..k : j \in 1..(k - 1) \/ j = k
        OBVIOUS
      <4> QED
        BY <1>r, <1>5, <3>1, <4>1
    <3> QED
      BY <1>1, <1>3, <1>4, <3>1, <3>2 DEF QueryOK
  <2>2. CASE ~Dns!GoesOn(r, reply)
    <3>1. /\ pc'[r] = "idle" /\ result'[r] = IF reply = "error" THEN 0 ELSE k
          /\ reply # "empty" \/ k = Len(names[r])
      BY <1>0, <1>1, <1>2, <1>3, <2>2 DEF Dns!GoesOn, DnsOK
    <3>2. Dns!Decides(names[r], k)
      BY <1>r, <1>5, <3>1 DEF Dns!Decides
    <3>3. names'[r] = names[r]
      BY <1>4
    <3>4. /\ asked'[r] <= Len(names'[r]) /\ result'[r] <= asked'[r]
          /\ pc'[r] # "ask"
          /\ Dns!Decides(names[r], k)
          /\ result'[r] = IF names'[r][k] = "error" THEN 0 ELSE k
      BY <1>1, <1>r, <1>3, <1>4, <1>5, <3>1, <3>2
    <3> QED
      BY <1>4, <3>4 DEF QueryOK, Dns!Decides
  <2> QED
    BY <2>1, <2>2
<1> QED
  BY <1>2, <1>4, <1>6, OneQuery DEF DnsOK

-----------------------------------------------------------------------------
(* The root page, step by step *)

\* A request runs only in a process that serves, and that is configured.
LEMMA Configured ==
  ASSUME ProcessOK, NEW r \in Requests, pc[r] # "idle"
  PROVE  main \in Serving /\ debugTemplates = debugFiles
BY DEF ProcessOK, Serving

\* What does not touch the page keeps the visits.
LEMMA RootRest ==
  ASSUME RootOK, UNCHANGED <<root, scenario>>,
         \A r \in Requests : pc'[r] = pc[r] \/ (pc[r] \notin AtRoot /\ pc'[r] \notin AtRoot),
         \A r \in Requests : answer'[r] = "panic" => answer[r] = "panic" \/ during[r] = {}
  PROVE  RootOK'
<1>1. RootTypes'
  BY DEF RootOK, RootTypes, root
<1>2. ASSUME NEW r \in Requests
      PROVE  VisitOK(r)'
  <2>1. VisitOK(r)
    BY DEF RootOK
  <2>2. CASE pc'[r] = pc[r]
    BY <2>1, <2>2 DEF VisitOK, Reason, WasThere, ListedOK, FromDirectory, root
  <2>3. CASE pc[r] \notin AtRoot /\ pc'[r] \notin AtRoot
    BY <2>1, <2>3 DEF VisitOK, Reason, WasThere, AtRoot, Holding, root
  <2> QED
    BY <2>2, <2>3
<1> QED
  BY <1>1, <1>2 DEF RootOK

LEMMA RootFresh ==
  ASSUME RootOK, Root!TemplateReset, \A r \in Requests : pc'[r] = "idle"
  PROVE  RootOK' /\ \A r \in Requests : page'[r] = Nil
BY HandlersAssumption
   DEF Root!TemplateReset, Root!directory, RootOK, RootTypes, VisitOK, AtRoot, Holding

\* One visit has taken a step.
LEMMA OneVisit ==
  ASSUME RootOK, NEW r \in Requests, RootTypes', VisitOK(r)',
         UNCHANGED <<debugTemplates, debugFiles, disk, scenario>>,
         \A s \in Requests : s # r =>
           /\ files'[s] = files[s] /\ dirData'[s] = dirData[s] /\ page'[s] = page[s]
           /\ during'[s] = during[s] /\ pc'[s] = pc[s] /\ answer'[s] = answer[s]
           /\ mu' = s <=> mu = s
           /\ t' = t \/ pc[s] # "lookup"
  PROVE  RootOK'
<1>1. ASSUME NEW s \in Requests, s # r
      PROVE  VisitOK(s)'
  <2>1. VisitOK(s)
    BY DEF RootOK
  <2>2. /\ files'[s] = files[s] /\ dirData'[s] = dirData[s] /\ page'[s] = page[s]
        /\ during'[s] = during[s] /\ pc'[s] = pc[s] /\ answer'[s] = answer[s]
        /\ mu' = s <=> mu = s
        /\ t' = t \/ pc[s] # "lookup"
    BY <1>1
  <2> QED
    BY <2>1, <2>2 DEF VisitOK, Reason, WasThere, ListedOK, FromDirectory
<1> QED
  BY <1>1 DEF RootOK

LEMMA ComeKeeps ==
  ASSUME ProcessOK, RootOK, NEW r \in Requests, Root!Come(r), UNCHANGED scenario,
         scenario.page[r] = "root"
  PROVE  RootOK'
<1>1. /\ pc[r] = "idle" /\ pc' = [pc EXCEPT ![r] = "lock"]
      /\ answer' = [answer EXCEPT ![r] = "none"]
      /\ page' = [page EXCEPT ![r] = Nil] /\ during' = [during EXCEPT ![r] = {disk}]
      /\ UNCHANGED <<debugTemplates, debugFiles, t, mu, files, dirData, disk, edits>>
  BY DEF Root!Come, Root!Begin, Root!Goto, Root!config, Root!directory
<1>2. /\ pc'[r] = "lock" /\ answer'[r] = "none" /\ page'[r] = Nil /\ during'[r] = {disk}
      /\ \A s \in Requests : s # r =>
           pc'[s] = pc[s] /\ answer'[s] = answer[s] /\ page'[s] = page[s] /\ during'[s] = during[s]
  BY <1>1 DEF RootOK, RootTypes, ProcessOK
<1>3. RootTypes'
  BY <1>1 DEF RootOK, RootTypes
<1>4. VisitOK(r)
  BY DEF RootOK
<1>5. VisitOK(r)'
  BY <1>1, <1>2, <1>4 DEF VisitOK, AtRoot, Holding
<1> QED
  BY <1>1, <1>2, <1>3, <1>5, OneVisit

\* In debug mode the templates are always loaded; otherwise those that are
\* there are the ones in the binary.
LEMMA LockKeeps ==
  ASSUME ProcessOK, RootOK, NEW r \in Requests, Root!Lock(r), UNCHANGED scenario
  PROVE  RootOK'
<1>1. /\ pc[r] = "lock" /\ mu = Nil /\ mu' = r
      /\ pc' = [pc EXCEPT ![r] = IF Root!MustLoad THEN "list" ELSE "lookup"]
      /\ UNCHANGED <<answer, debugTemplates, debugFiles, t, files, dirData, page, disk, edits, during>>
  BY DEF Root!Lock, Root!Goto, Root!config, Root!local, Root!directory
<1>2. /\ pc'[r] = IF Root!MustLoad THEN "list" ELSE "lookup"
      /\ \A s \in Requests : s # r => pc'[s] = pc[s] /\ ~(mu' = s) /\ ~(mu = s)
  BY <1>1, HandlersAssumption DEF ProcessOK
<1>3. RootTypes'
  BY <1>1 DEF RootOK, RootTypes
<1>4. VisitOK(r) /\ debugTemplates = debugFiles
  BY <1>1, Configured DEF RootOK
<1>5. pc'[r] = "lookup" => ~debugFiles /\ t = Root!Embedded
  BY <1>2, <1>4 DEF Root!MustLoad, RootOK, RootTypes
<1>6. VisitOK(r)'
  BY <1>1, <1>2, <1>4, <1>5 DEF VisitOK, AtRoot, Holding, Reason, WasThere
<1> QED
  BY <1>1, <1>2, <1>3, <1>6, OneVisit

LEMMA LoadEmbeddedKeeps ==
  ASSUME ProcessOK, RootOK, NEW r \in Requests, Root!LoadEmbedded(r), UNCHANGED scenario
  PROVE  RootOK'
<1>1. /\ pc[r] = "list" /\ pc' = [pc EXCEPT ![r] = "parse"] /\ ~debugFiles
      /\ dirData' = [dirData EXCEPT ![r] = Root!Embedded]
      /\ UNCHANGED <<answer, debugTemplates, debugFiles, t, mu, files, page, disk, edits, during>>
  BY DEF Root!LoadEmbedded, Root!Goto, Root!config, Root!directory
<1>2. /\ pc'[r] = "parse" /\ dirData'[r] = Root!Embedded
      /\ \A s \in Requests : s # r => pc'[s] = pc[s] /\ dirData'[s] = dirData[s]
  BY <1>1 DEF RootOK, RootTypes, ProcessOK
<1>3. RootTypes'
  BY <1>1 DEF RootOK, RootTypes
<1>4. VisitOK(r)
  BY DEF RootOK
<1>5. VisitOK(r)'
  BY <1>1, <1>2, <1>4 DEF VisitOK, AtRoot, Holding, Reason, WasThere
<1> QED
  BY <1>1, <1>2, <1>3, <1>5, OneVisit

Names == {"swap", "index"}

\* The only listing of two files, as what is left after the first.
LEMMA TwoFiles ==
  /\ <<"swap">> \o <<"index">> = <<"swap", "index">>
  /\ Tail(<<"swap", "index">>) = <<"index">>
<1>1. ASSUME NEW s \in Seq(Names), Len(s) = 2, s[1] = "swap", s[2] = "index"
      PROVE  s = <<"swap", "index">>
  BY <1>1 DEF Names
<1>2. ASSUME NEW s \in Seq(Names), Len(s) = 1, s[1] = "index"
      PROVE  s = <<"index">>
  BY <1>2 DEF Names
<1>3. PICK s : s = <<"swap">> \o <<"index">>
  OBVIOUS
<1>4. s \in Seq(Names) /\ Len(s) = 2
  BY <1>3 DEF Names
<1>5. s[1] = "swap" /\ s[2] = "index"
  BY <1>3
<1>6. PICK l : l = Tail(<<"swap", "index">>)
  OBVIOUS
<1>7. l \in Seq(Names)
  BY <1>6 DEF Names
<1>8. Len(l) = 1
  BY <1>6
<1>9. l[1] = "index"
  BY <1>6
<1> QED
  BY <1>1, <1>2, <1>3, <1>4, <1>5, <1>6, <1>7, <1>8, <1>9

\* What is listed is in the directory now.
LEMMA ListingFact ==
  /\ Root!Listing \in Listings
  /\ Root!Listing \in {<<"swap">>, <<"swap", "index">>} => disk["swap"] # Nil
  /\ Root!Listing \notin {<<"index">>, <<"swap", "index">>} => disk["index"] = Nil
<1>1. CASE disk["swap"] = Nil /\ disk["index"] = Nil
  <2>1. Root!Listing = <<>>
    BY <1>1 DEF Root!Listing
  <2> QED
    BY <1>1, <2>1 DEF Listings
<1>2. CASE disk["swap"] = Nil /\ disk["index"] # Nil
  <2>1. Root!Listing = <<"index">>
    BY <1>2 DEF Root!Listing
  <2> QED
    BY <1>2, <2>1 DEF Listings
<1>3. CASE disk["swap"] # Nil /\ disk["index"] = Nil
  <2>1. Root!Listing = <<"swap">>
    BY <1>3 DEF Root!Listing
  <2> QED
    BY <1>3, <2>1 DEF Listings
<1>4. CASE disk["swap"] # Nil /\ disk["index"] # Nil
  <2>1. Root!Listing = <<"swap">> \o <<"index">>
    BY <1>4 DEF Root!Listing
  <2> QED
    BY <1>4, <2>1, TwoFiles DEF Listings
<1> QED
  BY <1>1, <1>2, <1>3, <1>4

LEMMA ReadDirKeeps ==
  ASSUME ProcessOK, RootOK, NEW r \in Requests, Root!ReadDir(r), UNCHANGED scenario
  PROVE  RootOK'
<1>0. PICK l : l = Root!Listing
  OBVIOUS
<1>1. /\ pc[r] = "list" /\ pc' = [pc EXCEPT ![r] = "load"] /\ debugFiles
      /\ files' = [files EXCEPT ![r] = l]
      /\ dirData' = [dirData EXCEPT ![r] = Root!NoFiles]
      /\ UNCHANGED <<answer, debugTemplates, debugFiles, t, mu, page, disk, edits, during>>
  BY <1>0 DEF Root!ReadDir, Root!Goto, Root!config, Root!directory
<1>2. /\ pc'[r] = "load" /\ files'[r] = l /\ dirData'[r] = Root!NoFiles
      /\ \A s \in Requests : s # r =>
           pc'[s] = pc[s] /\ dirData'[s] = dirData[s] /\ files'[s] = files[s]
  BY <1>1 DEF RootOK, RootTypes, ProcessOK
<1>3. RootTypes'
  BY <1>1 DEF RootOK, RootTypes
<1>4. VisitOK(r) /\ disk \in during[r]
  BY <1>1 DEF RootOK, VisitOK, AtRoot, Holding
<1>5. ListedOK(r)'
  <2>1. "index" \notin DOMAIN dirData'[r]
    BY <1>2 DEF Root!NoFiles
  <2>2. l \in {<<"swap">>, <<"swap", "index">>} => \E d \in during[r] : d["swap"] # Nil
    BY <1>0, <1>4, ListingFact
  <2>3. l \in {<<"index">>, <<"swap", "index">>} \/ \E d \in during[r] : d["index"] = Nil
    BY <1>0, <1>4, ListingFact
  <2>4. l \in Listings
    BY <1>0, ListingFact
  <2> QED
    BY <1>1, <1>2, <2>1, <2>2, <2>3, <2>4 DEF ListedOK, Reason
<1>6. VisitOK(r)'
  BY <1>1, <1>2, <1>4, <1>5 DEF VisitOK, AtRoot, Holding, Reason, WasThere
<1> QED
  BY <1>1, <1>2, <1>3, <1>6, OneVisit

\* A file that is listed and gone is a reason why the page may be missing.
LEMMA ReadFileKeeps ==
  ASSUME ProcessOK, RootOK, NEW r \in Requests, Root!ReadFile(r), UNCHANGED scenario
  PROVE  RootOK'
<1>0. PICK f : f = Head(files[r])
  OBVIOUS
<1>1. /\ pc[r] = "load" /\ files[r] # <<>>
      /\ UNCHANGED <<pc, answer, debugTemplates, debugFiles, t, mu, page, disk, edits, during>>
  BY DEF Root!ReadFile, Root!config, Root!directory
<1>2. IF disk[f] = Nil
      THEN files' = [files EXCEPT ![r] = <<>>] /\ dirData' = dirData
      ELSE /\ files' = [files EXCEPT ![r] = Tail(files[r])]
           /\ dirData' = [dirData EXCEPT ![r] =
                [g \in DOMAIN dirData[r] \cup {f} |-> IF g = f THEN disk[f] ELSE dirData[r][g]]]
  BY <1>0 DEF Root!ReadFile
<1>3. /\ \A s \in Requests : s # r => dirData'[s] = dirData[s] /\ files'[s] = files[s]
      /\ files'[r] = IF disk[f] = Nil THEN <<>> ELSE Tail(files[r])
      /\ DOMAIN files' = Requests /\ DOMAIN dirData' = Requests
  BY <1>2 DEF RootOK, RootTypes
<1>4. RootTypes'
  BY <1>1, <1>3 DEF RootOK, RootTypes
<1>5. VisitOK(r) /\ ListedOK(r) /\ disk \in during[r] /\ debugFiles
  BY <1>1 DEF RootOK, VisitOK, AtRoot, Holding
<1>6. \/ files[r] = <<"swap">> /\ f = "swap" /\ Tail(files[r]) = <<>>
      \/ files[r] = <<"index">> /\ f = "index" /\ Tail(files[r]) = <<>>
      \/ files[r] = <<"swap", "index">> /\ f = "swap" /\ Tail(files[r]) = <<"index">>
  <2>1. CASE files[r] = <<"swap">>
    BY <1>0, <2>1
  <2>2. CASE files[r] = <<"index">>
    BY <1>0, <2>2
  <2>3. CASE files[r] = <<"swap", "index">>
    <3>1. Head(<<"swap", "index">>) = "swap"
      OBVIOUS
    <3> QED
      BY <1>0, <2>3, <3>1, TwoFiles
  <2> QED
    BY <1>1, <1>5, <2>1, <2>2, <2>3 DEF ListedOK, Listings
<1>7. ListedOK(r)'
  <2>1. CASE disk[f] = Nil
    <3>1. files'[r] = <<>> /\ dirData'[r] = dirData[r]
      BY <1>2, <1>3, <2>1
    <3>2. Reason(r)
      BY <1>5, <1>6, <2>1 DEF Reason, ListedOK
    <3> QED
      BY <1>1, <1>5, <3>1, <3>2 DEF ListedOK, Listings, Reason, WasThere
  <2>2. CASE disk[f] # Nil
    <3>1. /\ files'[r] = Tail(files[r])
          /\ DOMAIN dirData'[r] = DOMAIN dirData[r] \cup {f}
          /\ dirData'[r][f] = disk[f]
          /\ \A g \in DOMAIN dirData[r] : g # f => dirData'[r][g] = dirData[r][g]
      BY <1>2, <1>3, <2>2 DEF RootOK, RootTypes
    <3>2. "index" \in DOMAIN dirData'[r] => WasThere(r, dirData'[r]["index"])
      <4>1. CASE f = "index"
        BY <1>5, <3>1, <4>1 DEF WasThere
      <4>2. CASE f # "index"
        BY <1>5, <3>1, <4>2 DEF ListedOK
      <4> QED
        BY <4>1, <4>2
    <3>3. /\ files'[r] \in Listings /\ files'[r] \notin {<<"swap">>, <<"swap", "index">>}
          /\ "index" \in DOMAIN dirData'[r] \/ Reason(r) \/ files'[r] = <<"index">>
      <4>0. <<"swap">> # <<>> /\ <<"swap", "index">> # <<>> /\ <<"swap">> # <<"index">>
        OBVIOUS
      <4>z. <<"swap", "index">> # <<"index">>
        OBVIOUS
      <4>1. CASE f = "index"
        <5>1. files'[r] = <<>> /\ "index" \in DOMAIN dirData'[r]
          BY <1>6, <3>1, <4>1
        <5> QED
          BY <4>0, <5>1 DEF Listings
      <4>2. CASE files[r] = <<"swap">>
        <5>1. files'[r] = <<>> /\ DOMAIN dirData[r] \subseteq DOMAIN dirData'[r]
          BY <1>6, <3>1, <4>2
        <5>2. "index" \in DOMAIN dirData[r] \/ Reason(r)
          <6>1. <<"swap">> \notin {<<"index">>, <<"swap", "index">>}
            OBVIOUS
          <6> QED
            BY <1>5, <4>2, <6>1 DEF ListedOK
        <5> QED
          BY <4>0, <5>1, <5>2 DEF Listings
      <4>3. CASE files[r] = <<"swap", "index">>
        <5>1. files'[r] = <<"index">>
          BY <1>6, <3>1, <4>3, <4>z, <4>0
        <5> QED
          BY <4>0, <4>z, <5>1 DEF Listings
      <4> QED
        BY <1>6, <4>1, <4>2, <4>3
    <3> QED
      BY <1>1, <3>2, <3>3 DEF ListedOK, Reason, WasThere
  <2> QED
    BY <2>1, <2>2
<1>8. VisitOK(r)'
  BY <1>1, <1>5, <1>7 DEF VisitOK, AtRoot, Holding, Reason, WasThere
<1> QED
  BY <1>1, <1>3, <1>4, <1>8, OneVisit

LEMMA AllReadKeeps ==
  ASSUME ProcessOK, RootOK, NEW r \in Requests, Root!AllRead(r), UNCHANGED scenario
  PROVE  RootOK'
<1>1. /\ pc[r] = "load" /\ pc' = [pc EXCEPT ![r] = "parse"] /\ files[r] = <<>>
      /\ UNCHANGED <<answer, debugTemplates, debugFiles, t, mu, files, dirData, page,
                     disk, edits, during>>
  BY DEF Root!AllRead, Root!Goto, Root!templates, Root!config, Root!local, Root!directory
<1>2. pc'[r] = "parse" /\ \A s \in Requests : s # r => pc'[s] = pc[s]
  BY <1>1 DEF ProcessOK
<1>3. RootTypes'
  BY <1>1 DEF RootOK, RootTypes
<1>4. VisitOK(r) /\ ListedOK(r) /\ debugFiles
  BY <1>1 DEF RootOK, VisitOK
<1>5. FromDirectory(r, dirData[r])
  BY <1>1, <1>4 DEF ListedOK, FromDirectory
<1>6. VisitOK(r)'
  BY <1>1, <1>2, <1>4, <1>5 DEF VisitOK, FromDirectory, AtRoot, Holding, Reason, WasThere
<1> QED
  BY <1>1, <1>2, <1>3, <1>6, OneVisit

LEMMA ParseKeeps ==
  ASSUME ProcessOK, RootOK, NEW r \in Requests, Root!Parse(r), UNCHANGED scenario
  PROVE  RootOK'
<1>1. /\ pc[r] = "parse" /\ pc' = [pc EXCEPT ![r] = "lookup"] /\ t' = dirData[r]
      /\ dirData' = [dirData EXCEPT ![r] = Root!NoFiles]
      /\ UNCHANGED <<answer, debugTemplates, debugFiles, mu, files, page, disk, edits, during>>
  BY DEF Root!Parse, Root!Goto, Root!config, Root!directory
<1>2. pc'[r] = "lookup" /\ \A s \in Requests : s # r => pc'[s] = pc[s] /\ dirData'[s] = dirData[s]
  BY <1>1 DEF RootOK, RootTypes, ProcessOK
<1>3. VisitOK(r) /\ debugTemplates = debugFiles
  BY <1>1, Configured DEF RootOK
<1>4. IF debugFiles THEN FromDirectory(r, t') ELSE t' = Root!Embedded
  BY <1>1, <1>3 DEF VisitOK
<1>5. RootTypes'
  BY <1>1, <1>3, <1>4 DEF RootOK, RootTypes
<1>6. \A s \in Requests : s # r => pc[s] # "lookup"
  BY <1>1, <1>3 DEF RootOK, VisitOK, Holding
<1>7. VisitOK(r)'
  BY <1>1, <1>2, <1>3, <1>4 DEF VisitOK, FromDirectory, AtRoot, Holding, Reason, WasThere
<1> QED
  BY <1>1, <1>2, <1>5, <1>6, <1>7, OneVisit

\* GetTemplate panics only for a reason: the binary has the page.
LEMMA MissingKeeps ==
  ASSUME ProcessOK, RootOK, NEW r \in Requests, Root!Missing(r), UNCHANGED scenario
  PROVE  RootOK'
<1>1. /\ pc[r] = "lookup" /\ pc' = [pc EXCEPT ![r] = "idle"]
      /\ answer' = [answer EXCEPT ![r] = "panic"]
      /\ "index" \notin DOMAIN t /\ mu' = Nil
      /\ UNCHANGED <<debugTemplates, debugFiles, t, files, dirData, page, disk, edits, during>>
  BY DEF Root!Missing, Root!Finish, Root!Goto, Root!config, Root!local, Root!directory
<1>2. /\ pc'[r] = "idle" /\ answer'[r] = "panic"
      /\ \A s \in Requests : s # r => pc'[s] = pc[s] /\ answer'[s] = answer[s]
  BY <1>1 DEF ProcessOK
<1>3. VisitOK(r)
  BY DEF RootOK
<1>4. mu = r /\ \A s \in Requests : s # r => ~(mu' = s) /\ ~(mu = s)
  BY <1>1, <1>3, HandlersAssumption DEF VisitOK, Holding
<1>5. Reason(r)
  <2>1. "index" \in DOMAIN Root!Embedded
    BY DEF Root!Embedded
  <2> QED
    BY <1>1, <1>3, <2>1 DEF VisitOK, FromDirectory
<1>6. RootTypes'
  BY <1>1 DEF RootOK, RootTypes
<1>7. VisitOK(r)'
  BY <1>1, <1>2, <1>3, <1>5, HandlersAssumption DEF VisitOK, AtRoot, Holding, Reason, WasThere
<1> QED
  BY <1>1, <1>2, <1>4, <1>6, <1>7, OneVisit

LEMMA LookupKeeps ==
  ASSUME ProcessOK, RootOK, NEW r \in Requests, Root!Lookup(r), UNCHANGED scenario
  PROVE  RootOK'
<1>1. /\ pc[r] = "lookup" /\ pc' = [pc EXCEPT ![r] = "execute"]
      /\ "index" \in DOMAIN t /\ mu' = Nil
      /\ page' = [page EXCEPT ![r] = t["index"]]
      /\ UNCHANGED <<answer, debugTemplates, debugFiles, t, files, dirData, disk, edits, during>>
  BY DEF Root!Lookup, Root!Goto, Root!config, Root!directory
<1>2. /\ pc'[r] = "execute" /\ page'[r] = t["index"]
      /\ \A s \in Requests : s # r => pc'[s] = pc[s] /\ page'[s] = page[s]
  BY <1>1 DEF ProcessOK, RootOK, RootTypes
<1>3. VisitOK(r) /\ debugTemplates = debugFiles
  BY <1>1, Configured DEF RootOK
<1>4. mu = r /\ \A s \in Requests : s # r => ~(mu' = s) /\ ~(mu = s)
  BY <1>1, <1>3, HandlersAssumption DEF VisitOK, Holding
<1>5. IF debugTemplates THEN WasThere(r, page'[r]) ELSE page'[r] = 0
  BY <1>1, <1>2, <1>3 DEF VisitOK, FromDirectory, Root!Embedded
<1>6. RootTypes'
  BY <1>1 DEF RootOK, RootTypes
<1>7. VisitOK(r)'
  BY <1>1, <1>2, <1>3, <1>5, HandlersAssumption DEF VisitOK, AtRoot, Holding, Reason, WasThere
<1> QED
  BY <1>1, <1>2, <1>4, <1>6, <1>7, OneVisit

LEMMA ExecuteKeeps ==
  ASSUME ProcessOK, RootOK, NEW r \in Requests, Root!Execute(r), UNCHANGED scenario
  PROVE  RootOK'
<1>1. /\ pc[r] = "execute" /\ pc' = [pc EXCEPT ![r] = "idle"]
      /\ answer' = [answer EXCEPT ![r] = IF Root!Parses(page[r]) THEN "ok" ELSE "error"]
      /\ UNCHANGED <<debugTemplates, debugFiles, t, mu, files, dirData, page, disk, edits, during>>
  BY DEF Root!Execute, Root!Finish, Root!Goto, Root!templates, Root!config, Root!local,
         Root!directory
<1>2. /\ pc'[r] = "idle" /\ answer'[r] # "panic"
      /\ \A s \in Requests : s # r => pc'[s] = pc[s] /\ answer'[s] = answer[s]
  BY <1>1 DEF ProcessOK
<1>3. VisitOK(r)
  BY DEF RootOK
<1>4. RootTypes'
  BY <1>1 DEF RootOK, RootTypes
<1>5. VisitOK(r)'
  BY <1>1, <1>2, <1>3 DEF VisitOK, AtRoot, Holding, Reason, WasThere
<1> QED
  BY <1>1, <1>2, <1>4, <1>5, OneVisit

LEMMA TemplateStepKeeps ==
  ASSUME ProcessOK, RootOK, NEW r \in Requests, Root!TemplateStep(r), UNCHANGED scenario
  PROVE  RootOK'
<1>1. CASE Root!Lock(r)
  BY <1>1, LockKeeps
<1>2. CASE Root!LoadEmbedded(r)
  BY <1>2, LoadEmbeddedKeeps
<1>3. CASE Root!ReadDir(r)
  BY <1>3, ReadDirKeeps
<1>4. CASE Root!ReadFile(r)
  BY <1>4, ReadFileKeeps
<1>5. CASE Root!AllRead(r)
  BY <1>5, AllReadKeeps
<1>6. CASE Root!Parse(r)
  BY <1>6, ParseKeeps
<1>7. CASE Root!Missing(r)
  BY <1>7, MissingKeeps
<1>8. CASE Root!Lookup(r)
  BY <1>8, LookupKeeps
<1>9. CASE Root!Execute(r)
  BY <1>9, ExecuteKeeps
<1> QED
  BY <1>1, <1>2, <1>3, <1>4, <1>5, <1>6, <1>7, <1>8, <1>9 DEF Root!TemplateStep

\* What was in the directory while r ran stays so when the directory changes.
LEMMA EditKeeps ==
  ASSUME ProcessOK, RootOK, Root!Edit, UNCHANGED scenario
  PROVE  RootOK'
<1>1. /\ edits < MaxEdits /\ edits' = edits + 1
      /\ during' = [r \in Requests |-> IF pc[r] = "idle" \/ during[r] = {} THEN during[r]
                                       ELSE during[r] \cup {disk'}]
      /\ UNCHANGED <<pc, answer, debugTemplates, debugFiles, t, mu, files, dirData, page>>
  BY DEF Root!Edit, Root!config, Root!local
<1>2. RootTypes'
  BY <1>1, KuardAppAssumption DEF RootOK, RootTypes
<1>3. ASSUME NEW r \in Requests
      PROVE  VisitOK(r)'
  <2>1. VisitOK(r)
    BY DEF RootOK
  <2>2. during'[r] = IF pc[r] = "idle" \/ during[r] = {} THEN during[r]
                     ELSE during[r] \cup {disk'}
    BY <1>1
  <2>3. during[r] \subseteq during'[r] /\ (during'[r] # {} => during[r] # {})
    BY <2>2
  <2>4. pc[r] \in AtRoot => disk' \in during'[r]
    BY <2>1, <2>2 DEF VisitOK, AtRoot, Holding
  <2>5. Reason(r) => Reason(r)'
    BY <2>3 DEF Reason
  <2>6. \A v : WasThere(r, v) => \E d \in during'[r] : d["index"] = v
    BY <2>3 DEF WasThere
  <2>7. FromDirectory(r, dirData[r]) => FromDirectory(r, dirData[r])'
    BY <1>1, <2>5, <2>6 DEF FromDirectory, WasThere
  <2>8. FromDirectory(r, t) => FromDirectory(r, t)'
    BY <1>1, <2>5, <2>6 DEF FromDirectory, WasThere
  <2>9. ListedOK(r) => ListedOK(r)'
    <3>1. (\E d \in during[r] : d["swap"] # Nil) => \E d \in during'[r] : d["swap"] # Nil
      BY <2>3
    <3> QED
      BY <1>1, <2>5, <2>6, <3>1 DEF ListedOK, WasThere
  <2>10. /\ answer'[r] = "panic" /\ during'[r] # {} => Reason(r)'
         /\ page'[r] # Nil => IF debugTemplates' THEN WasThere(r, page[r])' ELSE page'[r] = 0
    BY <1>1, <2>1, <2>3, <2>5, <2>6 DEF VisitOK, WasThere
  <2>11. /\ mu' = r <=> pc'[r] \in Holding
         /\ pc'[r] \in AtRoot => disk' \in during'[r]
         /\ during'[r] # {} => scenario'.page[r] = "root"
    BY <1>1, <2>1, <2>3, <2>4 DEF VisitOK, Holding
  <2>12. /\ pc'[r] = "load" => debugFiles' /\ ListedOK(r)'
         /\ pc'[r] = "parse" => IF debugFiles' THEN FromDirectory(r, dirData[r])'
                                ELSE dirData'[r] = Root!Embedded
         /\ pc'[r] = "lookup" => IF debugFiles' THEN FromDirectory(r, t)' ELSE t' = Root!Embedded
    BY <1>1, <2>1, <2>7, <2>8, <2>9 DEF VisitOK
  <2> QED
    BY <2>10, <2>11, <2>12 DEF VisitOK
<1> QED
  BY <1>2, <1>3 DEF RootOK

-----------------------------------------------------------------------------
(* The memory leaker, step by step *)

LEMMA PartialFact ==
  /\ \A f \in PartialWords : DOMAIN f \subseteq Word /\ f \in [DOMAIN f -> Nat]
  /\ \A D \in SUBSET Word : [D -> Nat] \subseteq PartialWords
BY DEF PartialWords

\* An array as a function, and the values of its elements.
LEMMA ArrayFact ==
  ASSUME NEW S
  PROVE  /\ \A n \in Nat : \A a \in [1..n -> S] : a \in Seq(S) /\ Len(a) = n
         /\ \A a \in Seq(S) : \A k \in 1..Len(a) : a[k] \in S
OBVIOUS

LEMMA NoWordsFact ==
  /\ Memory!NoWords \in PartialWords /\ DOMAIN Memory!NoWords = {}
  /\ Memory!NilSlice \in [Word -> Nat] /\ Memory!NilSlice \in PartialWords
  /\ DOMAIN Memory!NilSlice = Word /\ \A w \in Word : Memory!NilSlice[w] = 0
<1>1. Memory!NilSlice = [w \in Word |-> 0]
  BY DEF Memory!NilSlice, Word
<1>2. Memory!NoWords \in [{} -> Nat] /\ DOMAIN Memory!NoWords = {}
  BY DEF Memory!NoWords
<1>3. Memory!NilSlice \in [Word -> Nat] /\ DOMAIN Memory!NilSlice = Word
  BY <1>1
<1> QED
  BY <1>1, <1>2, <1>3, PartialFact

\* What does not touch the leaker keeps it.
LEMMA MemRest ==
  ASSUME MemOK, UNCHANGED memory,
         \A r \in Requests : pc'[r] = pc[r] \/ (r \notin Touching /\ pc'[r] \notin {"read", "write"})
  PROVE  MemOK'
<1>1. Touching' = Touching
  BY DEF Touching
<1>2. MemTypes'
  <2>1. ASSUME NEW r \in Requests
        PROVE  WordsOK(r)' /\ LeakOK(r)'
    <3>1. WordsOK(r) /\ LeakOK(r)
      BY DEF MemOK, MemTypes
    <3> QED
      BY <3>1 DEF WordsOK, LeakOK, Touching, memory
  <2> QED
    BY <1>1, <2>1 DEF MemOK, MemTypes, memory
<1>3. OverlapOK'
  BY <1>1 DEF MemOK, OverlapOK, Alone, memory
<1>4. Good' <=> Good
  BY DEF Good, Holds, Capacity, memory
<1>5. \A r \in Requests : Alone(r)' => HeldBy(r)'
  <2> SUFFICES ASSUME NEW r \in Requests, Alone(r)'
               PROVE  HeldBy(r)'
    OBVIOUS
  <2>1. Alone(r) /\ pc'[r] = pc[r] /\ HeldBy(r)
    BY <1>1 DEF MemOK, HeldOK, Alone, Touching, memory
  <2>2. WritesGood(r)' <=> WritesGood(r)
    BY DEF WritesGood, Capacity, memory
  <2> QED
    BY <1>4, <2>1, <2>2 DEF HeldBy, memory
<1>6. HeldOK'
  BY <1>1, <1>4, <1>5 DEF MemOK, HeldOK, memory
<1> QED
  BY <1>2, <1>3, <1>6 DEF MemOK

LEMMA MemStart ==
  Memory!MemoryInit /\ (\A r \in Requests : pc[r] = "idle") => MemOK
<1> SUFFICES ASSUME Memory!MemoryInit, \A r \in Requests : pc[r] = "idle"
             PROVE  MemOK
  OBVIOUS
<1>1. Touching = {}
  BY DEF Touching
<1>2. MemTypes
  <2>1. /\ leaks = Memory!NilSlice /\ arrays = <<>> /\ made = 0
        /\ leak = [r \in Requests |-> 0] /\ words = [r \in Requests |-> Memory!NoWords]
        /\ todo = [r \in Requests |-> {}] /\ due = {} /\ met = {}
        /\ corrupt = FALSE /\ mixed = FALSE
    BY DEF Memory!MemoryInit
  <2>2. leaks \in [Word -> Nat] /\ leaks["ptr"] \in 0..Len(arrays)
    BY <2>1, NoWordsFact DEF Word
  <2>3. arrays \in Seq(Seq(0..MaxLeaks))
    BY <2>1
  <2>4. ASSUME NEW r \in Requests
        PROVE  WordsOK(r) /\ LeakOK(r)
    <3>1. words[r] = Memory!NoWords /\ todo[r] = {} /\ leak[r] = 0
      BY <2>1
    <3> QED
      BY <3>1, NoWordsFact DEF WordsOK, LeakOK
  <2>5. /\ made \in 0..MaxLeaks /\ leak \in [Requests -> 0..MaxLeaks]
        /\ words \in [Requests -> PartialWords] /\ todo \in [Requests -> SUBSET Word]
    BY <2>1, NoWordsFact, KuardAppAssumption
  <2> QED
    BY <2>1, <2>2, <2>3, <2>4, <2>5 DEF MemTypes
<1>3. OverlapOK
  BY <1>1 DEF Memory!MemoryInit, OverlapOK, Alone
<1>4. Holds(0, 0, 0)
  BY FS_EmptySet DEF Memory!MemoryInit, Holds, Capacity
<1>5. Good
  BY <1>4, NoWordsFact DEF Memory!MemoryInit, Good, Word
<1>6. HeldOK
  BY <1>1, <1>5 DEF HeldOK, Alone
<1> QED
  BY <1>2, <1>3, <1>6 DEF MemOK

LEMMA MemFresh ==
  ASSUME Memory!MemoryReset, \A r \in Requests : pc'[r] = "idle"
  PROVE  MemOK'
<1>1. Memory!MemoryInit' /\ (\A r \in Requests : pc[r] = "idle")'
  BY DEF Memory!MemoryReset, Memory!MemoryInit
<1> QED
  BY <1>1, MemStart, PTL

\* One request has taken a step; what is made and held only grows.
LEMMA OneLeaker ==
  ASSUME MemTypes, NEW r \in Requests, WordsOK(r)', LeakOK(r)',
         leaks' \in [Word -> Nat], leaks'["ptr"] \in 0..Len(arrays'),
         arrays' \in Seq(Seq(0..MaxLeaks)), Len(arrays) <= Len(arrays'),
         made' \in 0..MaxLeaks, made <= made',
         leak' \in [Requests -> 0..MaxLeaks],
         words' \in [Requests -> PartialWords], todo' \in [Requests -> SUBSET Word],
         corrupt' \in BOOLEAN, mixed' \in BOOLEAN,
         due' \subseteq 1..made', met' \subseteq Touching',
         \A s \in Requests : s # r =>
           /\ pc'[s] = pc[s] /\ leak'[s] = leak[s] /\ words'[s] = words[s] /\ todo'[s] = todo[s]
           /\ leak[s] # 0 => leak[s] \notin due' /\ leak[s] # leak'[r]
  PROVE  MemTypes'
<1>1. ASSUME NEW s \in Requests, s # r
      PROVE  WordsOK(s)' /\ LeakOK(s)'
  <2>1. WordsOK(s) /\ LeakOK(s)
    BY DEF MemTypes
  <2>2. /\ pc'[s] = pc[s] /\ leak'[s] = leak[s] /\ words'[s] = words[s] /\ todo'[s] = todo[s]
        /\ leak[s] # 0 => leak[s] \notin due' /\ leak[s] # leak'[r]
    BY <1>1
  <2>3. WordsOK(s)'
    <3>1. /\ todo'[s] \subseteq DOMAIN words'[s]
          /\ pc'[s] \notin {"read", "write"} => leak'[s] = 0 /\ todo'[s] = {}
          /\ pc'[s] = "read" => leak'[s] # 0 /\ todo'[s] = {}
          /\ pc'[s] = "write" => DOMAIN words'[s] = Word
          /\ pc'[s] = "write" /\ leak'[s] # 0 => words'[s]["len"] >= 1
          /\ pc'[s] = "write" /\ leak'[s] = 0 => \A w \in Word : words'[s][w] = 0
      BY <2>1, <2>2 DEF WordsOK
    <3>2. "ptr" \in DOMAIN words'[s] => words'[s]["ptr"] \in 0..Len(arrays')
      <4>1. Len(arrays) \in Nat /\ Len(arrays') \in Nat
        BY DEF MemTypes
      <4> QED
        BY <2>1, <2>2, <4>1 DEF WordsOK
    <3> QED
      BY <3>1, <3>2 DEF WordsOK
  <2>4. LeakOK(s)'
    <3>1. \A q \in Requests : q # s /\ leak'[s] # 0 => leak'[q] # leak'[s]
      <4> SUFFICES ASSUME NEW q \in Requests, q # s, leak'[s] # 0
                   PROVE  leak'[q] # leak'[s]
        OBVIOUS
      <4>1. CASE q = r
        BY <2>2, <4>1
      <4>2. CASE q # r
        <5>1. leak'[q] = leak[q]
          BY <4>2
        <5> QED
          BY <2>1, <2>2, <5>1 DEF LeakOK
      <4> QED
        BY <4>1, <4>2
    <3>2. leak'[s] # 0 => leak'[s] <= made' /\ leak'[s] \notin due'
      <4>1. leak[s] \in 0..MaxLeaks /\ made \in 0..MaxLeaks
        BY DEF MemTypes
      <4> QED
        BY <2>1, <2>2, <4>1, KuardAppAssumption DEF LeakOK
    <3> QED
      BY <3>1, <3>2 DEF LeakOK
  <2> QED
    BY <2>3, <2>4
<1> QED
  BY <1>1 DEF MemTypes

\* A step of a request at the slice, which it does not leave.
LEMMA InStep ==
  ASSUME OverlapOK, HeldOK, NEW r \in Touching, Touching' = Touching,
         UNCHANGED <<met, mixed>>, Alone(r) => HeldBy(r)'
  PROVE  OverlapOK' /\ HeldOK'
<1>1. \A s \in Requests : Alone(s)' <=> Alone(s)
  BY DEF Alone
<1>2. OverlapOK'
  BY <1>1 DEF OverlapOK
<1>3. ASSUME NEW s \in Requests, Alone(s)'
      PROVE  HeldBy(s)'
  <2>1. Touching = {s} /\ Alone(s)
    BY <1>1, <1>3 DEF OverlapOK
  <2> QED
    BY <2>1
<1> QED
  BY <1>2, <1>3 DEF HeldOK

\* A request comes to the slice.
LEMMA ComesIn ==
  ASSUME MemTypes, OverlapOK, NEW r \in Requests, r \notin Touching, Memory!Meet(r),
         Touching' = Touching \cup {r},
         Touching = {} => HeldBy(r)'
  PROVE  /\ OverlapOK' /\ HeldOK'
         /\ mixed' \in BOOLEAN /\ met' \subseteq Touching'
<1>1. Memory!Touching = Touching
  BY DEF Memory!Touching, Touching
<1>2. /\ met' = IF Touching = {} THEN met ELSE met \cup Touching \cup {r}
      /\ mixed' = (mixed \/ Touching # {})
  BY <1>1 DEF Memory!Meet
<1>3. met \subseteq Touching /\ mixed \in BOOLEAN
  BY DEF MemTypes
<1>4. mixed' \in BOOLEAN /\ met' \subseteq Touching'
  BY <1>2, <1>3
<1>5. CASE Touching = {}
  <2>1. Touching' = {r} /\ met' = {} /\ mixed' = mixed
    BY <1>2, <1>3, <1>5
  <2> QED
    BY <1>4, <1>5, <2>1 DEF OverlapOK, HeldOK, Alone
<1>6. CASE Touching # {}
  <2>1. met' = met \cup Touching \cup {r} /\ mixed' = TRUE
    BY <1>2, <1>6
  <2>2. \A s \in Requests : ~Alone(s)'
    BY <2>1 DEF Alone
  <2> QED
    BY <1>4, <2>1, <2>2 DEF OverlapOK, HeldOK
<1> QED
  BY <1>5, <1>6

\* A request that is refused, or panics, makes nothing.
LEMMA AllocFailsKeeps ==
  ASSUME ProcessOK, MemOK, NEW r \in Requests, Memory!AllocNoSize(r) \/ Memory!AllocPanics(r)
  PROVE  MemOK'
<1>1. UNCHANGED memory /\ pc' = [pc EXCEPT ![r] = "idle"] /\ pc[r] = "idle"
  BY DEF Memory!AllocNoSize, Memory!AllocPanics, Memory!Finish, Memory!Goto, Memory!memory,
         Memory!header, Memory!local, Memory!history, memory
<1>2. \A s \in Requests : pc'[s] = pc[s]
  BY <1>1 DEF ProcessOK
<1> QED
  BY <1>1, <1>2, MemRest

LEMMA AllocKeeps ==
  ASSUME ProcessOK, MemOK, NEW r \in Requests, NEW a, Memory!Alloc(r, a)
  PROVE  MemOK'
<1>1. /\ pc[r] = "idle" /\ pc' = [pc EXCEPT ![r] = "read"]
      /\ made < MaxLeaks /\ made' = made + 1
      /\ leak' = [leak EXCEPT ![r] = made + 1]
      /\ words' = [words EXCEPT ![r] = Memory!NoWords]
      /\ Memory!Meet(r)
      /\ UNCHANGED <<leaks, arrays, corrupt, todo, due>>
  BY DEF Memory!Alloc, Memory!Goto
<1>2. MemTypes /\ OverlapOK /\ HeldOK /\ WordsOK(r)
  BY DEF MemOK, MemTypes
<1>3. made \in Nat /\ made + 1 \in 0..MaxLeaks /\ due \subseteq 1..made
      /\ leak \in [Requests -> 0..MaxLeaks]
  BY <1>1, <1>2, KuardAppAssumption DEF MemTypes
<1>4. /\ pc'[r] = "read" /\ leak'[r] = made + 1 /\ words'[r] = Memory!NoWords
      /\ \A s \in Requests : s # r =>
           pc'[s] = pc[s] /\ leak'[s] = leak[s] /\ words'[s] = words[s] /\ todo'[s] = todo[s]
      /\ leak' \in [Requests -> 0..MaxLeaks] /\ words' \in [Requests -> PartialWords]
  BY <1>1, <1>2, <1>3, NoWordsFact DEF MemTypes, ProcessOK
<1>5. Touching' = Touching \cup {r} /\ r \notin Touching
  BY <1>1, <1>4 DEF Touching
<1>6. Touching = {} => HeldBy(r)'
  <2> SUFFICES ASSUME Touching = {}
               PROVE  HeldBy(r)'
    OBVIOUS
  <2>1. ~mixed' => ~mixed
    BY <1>1 DEF Memory!Meet
  <2>2. Good' <=> Good
    BY <1>1 DEF Good, Holds, Capacity
  <2> QED
    BY <1>2, <1>4, <2>1, <2>2, NoWordsFact DEF HeldOK, HeldBy
<1>7. OverlapOK' /\ HeldOK' /\ mixed' \in BOOLEAN /\ met' \subseteq Touching'
  BY <1>1, <1>2, <1>5, <1>6, ComesIn
<1>8. WordsOK(r)'
  BY <1>1, <1>2, <1>3, <1>4, NoWordsFact DEF WordsOK
<1>9. \A s \in Requests : s # r /\ leak[s] # 0 => leak[s] # made + 1 /\ leak[s] \notin due
  BY <1>2, <1>3 DEF MemTypes, LeakOK
<1>10. LeakOK(r)'
  <2>1. made + 1 \notin due
    BY <1>3
  <2>2. \A s \in Requests : s # r => leak'[s] # made + 1
    BY <1>3, <1>4, <1>9
  <2>3. made + 1 <= made'
    BY <1>1, <1>3
  <2> QED
    BY <1>1, <1>4, <2>1, <2>2, <2>3 DEF LeakOK
<1>11. /\ leaks' \in [Word -> Nat] /\ leaks'["ptr"] \in 0..Len(arrays')
       /\ arrays' \in Seq(Seq(0..MaxLeaks)) /\ Len(arrays) <= Len(arrays')
       /\ todo' \in [Requests -> SUBSET Word] /\ corrupt' \in BOOLEAN
  BY <1>1, <1>2 DEF MemTypes
<1>12. made' \in 0..MaxLeaks /\ made <= made' /\ due' \subseteq 1..made'
  BY <1>1, <1>3
<1>13. \A s \in Requests : s # r /\ leak[s] # 0 => leak[s] \notin due' /\ leak[s] # leak'[r]
  BY <1>1, <1>4, <1>9
<1>14. MemTypes'
  BY <1>2, <1>4, <1>7, <1>8, <1>10, <1>11, <1>12, <1>13, OneLeaker
<1> QED
  BY <1>7, <1>14 DEF MemOK

LEMMA ClearKeeps ==
  ASSUME ProcessOK, MemOK, NEW r \in Requests, Memory!Clear(r)
  PROVE  MemOK'
<1>1. /\ pc[r] = "idle" /\ pc' = [pc EXCEPT ![r] = "write"]
      /\ words' = [words EXCEPT ![r] = Memory!NilSlice]
      /\ todo' = [todo EXCEPT ![r] = Word]
      /\ Memory!Meet(r)
      /\ UNCHANGED <<leaks, arrays, made, corrupt, leak, due>>
  BY DEF Memory!Clear, Memory!Begin, Memory!Goto, Memory!header, Memory!Word, Word
<1>2. MemTypes /\ OverlapOK /\ HeldOK /\ WordsOK(r) /\ LeakOK(r)
  BY DEF MemOK, MemTypes
<1>3. leak[r] = 0
  BY <1>1, <1>2 DEF WordsOK
<1>4. /\ pc'[r] = "write" /\ words'[r] = Memory!NilSlice /\ todo'[r] = Word
      /\ \A s \in Requests : s # r =>
           pc'[s] = pc[s] /\ leak'[s] = leak[s] /\ words'[s] = words[s] /\ todo'[s] = todo[s]
      /\ words' \in [Requests -> PartialWords] /\ todo' \in [Requests -> SUBSET Word]
  BY <1>1, <1>2, NoWordsFact DEF MemTypes, ProcessOK
<1>5. Touching' = Touching \cup {r} /\ r \notin Touching
  BY <1>1, <1>4 DEF Touching
<1>6. HeldBy(r)'
  BY <1>1, <1>3, <1>4 DEF HeldBy
<1>7. OverlapOK' /\ HeldOK' /\ mixed' \in BOOLEAN /\ met' \subseteq Touching'
  BY <1>1, <1>2, <1>5, <1>6, ComesIn
<1>8. WordsOK(r)'
  <2>1. Len(arrays) \in Nat
    BY <1>2 DEF MemTypes
  <2> QED
    BY <1>1, <1>3, <1>4, <2>1, NoWordsFact DEF WordsOK
<1>9. LeakOK(r)'
  BY <1>1, <1>3 DEF LeakOK
<1>10. /\ leaks' \in [Word -> Nat] /\ leaks'["ptr"] \in 0..Len(arrays')
       /\ arrays' \in Seq(Seq(0..MaxLeaks)) /\ Len(arrays) <= Len(arrays')
       /\ made' \in 0..MaxLeaks /\ made <= made' /\ due' \subseteq 1..made'
       /\ leak' \in [Requests -> 0..MaxLeaks] /\ corrupt' \in BOOLEAN
  BY <1>1, <1>2, KuardAppAssumption DEF MemTypes
<1>11. \A s \in Requests : s # r /\ leak[s] # 0 => leak[s] \notin due' /\ leak[s] # leak'[r]
  BY <1>1, <1>2, <1>3 DEF MemTypes, LeakOK
<1>12. MemTypes'
  BY <1>2, <1>4, <1>7, <1>8, <1>9, <1>10, <1>11, OneLeaker
<1> QED
  BY <1>7, <1>12 DEF MemOK

LEMMA ReadKeeps ==
  ASSUME ProcessOK, MemOK, NEW r \in Requests, Memory!Read(r)
  PROVE  MemOK'
<1>1. PICK w \in Word \ DOMAIN words[r] :
        words' = [words EXCEPT ![r] =
          [v \in DOMAIN words[r] \cup {w} |-> IF v = w THEN leaks[w] ELSE words[r][v]]]
  BY DEF Memory!Read, Memory!Word, Word
<1>2. /\ pc[r] = "read"
      /\ UNCHANGED <<pc, leaks, arrays, made, corrupt, leak, todo, due, met, mixed>>
  BY DEF Memory!Read, Memory!header, Memory!history
<1>3. MemTypes /\ OverlapOK /\ HeldOK /\ WordsOK(r) /\ LeakOK(r)
  BY DEF MemOK, MemTypes
<1>4. DOMAIN words[r] \subseteq Word /\ words[r] \in [DOMAIN words[r] -> Nat]
  BY <1>3, PartialFact DEF MemTypes
<1>5. /\ DOMAIN words'[r] = DOMAIN words[r] \cup {w} /\ words'[r][w] = leaks[w]
      /\ \A v \in DOMAIN words[r] : v # w => words'[r][v] = words[r][v]
      /\ \A s \in Requests : s # r => words'[s] = words[s]
  BY <1>1, <1>3 DEF MemTypes
<1>6. words' \in [Requests -> PartialWords]
  <2>1. PICK f : f = [v \in DOMAIN words[r] \cup {w} |-> IF v = w THEN leaks[w] ELSE words[r][v]]
    OBVIOUS
  <2>2. leaks[w] \in Nat
    BY <1>3 DEF MemTypes
  <2>3. f \in [DOMAIN words[r] \cup {w} -> Nat]
    BY <1>4, <2>1, <2>2
  <2>4. DOMAIN words[r] \cup {w} \in SUBSET Word
    BY <1>4
  <2>5. f \in PartialWords
    BY <2>3, <2>4, PartialFact
  <2> QED
    BY <1>1, <1>3, <2>1, <2>5 DEF MemTypes
<1>7. WordsOK(r)'
  <2>1. "ptr" \in DOMAIN words'[r] => words'[r]["ptr"] \in 0..Len(arrays')
    BY <1>2, <1>3, <1>5 DEF MemTypes, WordsOK
  <2> QED
    BY <1>2, <1>3, <1>5, <2>1 DEF WordsOK
<1>8. LeakOK(r)'
  BY <1>2, <1>3 DEF LeakOK
<1>9. Touching' = Touching /\ r \in Touching
  BY <1>2 DEF Touching
<1>10. Alone(r) => HeldBy(r)'
  <2> SUFFICES ASSUME Alone(r)
               PROVE  HeldBy(r)'
    OBVIOUS
  <2>1. HeldBy(r)
    BY <1>3 DEF HeldOK
  <2>2. Good' <=> Good
    BY <1>2 DEF Good, Holds, Capacity
  <2> QED
    BY <1>2, <1>5, <2>1, <2>2 DEF HeldBy
<1>11. OverlapOK' /\ HeldOK'
  BY <1>2, <1>3, <1>9, <1>10, InStep
<1>12. \A s \in Requests : s # r /\ leak[s] # 0 => leak[s] \notin due' /\ leak[s] # leak'[r]
  BY <1>2, <1>3 DEF MemTypes, LeakOK
<1>13. /\ leaks' \in [Word -> Nat] /\ leaks'["ptr"] \in 0..Len(arrays')
       /\ arrays' \in Seq(Seq(0..MaxLeaks)) /\ Len(arrays) <= Len(arrays')
       /\ made' \in 0..MaxLeaks /\ made <= made' /\ due' \subseteq 1..made'
       /\ leak' \in [Requests -> 0..MaxLeaks] /\ todo' \in [Requests -> SUBSET Word]
       /\ corrupt' \in BOOLEAN /\ mixed' \in BOOLEAN /\ met' \subseteq Touching'
  BY <1>2, <1>3, <1>9, KuardAppAssumption DEF MemTypes
<1>14. MemTypes'
  BY <1>2, <1>3, <1>5, <1>6, <1>7, <1>8, <1>12, <1>13, OneLeaker
<1> QED
  BY <1>11, <1>14 DEF MemOK

LEMMA FitsKeeps ==
  ASSUME ProcessOK, MemOK, NEW r \in Requests, Memory!Fits(r)
  PROVE  MemOK'
<1>1. /\ pc[r] = "read" /\ pc' = [pc EXCEPT ![r] = "write"]
      /\ DOMAIN words[r] = Word /\ words[r]["len"] < words[r]["cap"]
      /\ todo' = [todo EXCEPT ![r] = {"len"}]
      /\ UNCHANGED <<leaks, arrays, made, corrupt, leak, due, met, mixed>>
  BY DEF Memory!Fits, Memory!Goto, Memory!Word, Memory!header, Memory!history, Word
<1>2. words' = [words EXCEPT ![r].len = @ + 1]
  BY DEF Memory!Fits
<1>3. MemTypes /\ OverlapOK /\ HeldOK /\ WordsOK(r) /\ LeakOK(r)
  BY DEF MemOK, MemTypes
<1>4. words[r] \in [Word -> Nat]
  BY <1>1, <1>3, PartialFact DEF MemTypes
<1>5. /\ words'[r] \in [Word -> Nat]
      /\ words'[r]["len"] = words[r]["len"] + 1 /\ words'[r]["cap"] = words[r]["cap"]
      /\ words'[r]["ptr"] = words[r]["ptr"]
      /\ \A s \in Requests : s # r => words'[s] = words[s]
  <2>1. PICK f : f = [words[r] EXCEPT !["len"] = words[r]["len"] + 1]
    OBVIOUS
  <2>2. words' = [words EXCEPT ![r] = f]
    BY <1>2, <2>1
  <2>3. words'[r] = f /\ \A s \in Requests : s # r => words'[s] = words[s]
    BY <1>3, <2>2 DEF MemTypes
  <2>4. /\ f \in [Word -> Nat] /\ f["len"] = words[r]["len"] + 1
        /\ f["cap"] = words[r]["cap"] /\ f["ptr"] = words[r]["ptr"]
    BY <1>4, <2>1 DEF Word
  <2> QED
    BY <2>3, <2>4
<1>6. /\ pc'[r] = "write" /\ todo'[r] = {"len"}
      /\ \A s \in Requests : s # r => pc'[s] = pc[s] /\ todo'[s] = todo[s]
      /\ todo' \in [Requests -> SUBSET Word]
  BY <1>1, <1>3 DEF MemTypes, ProcessOK, Word
<1>7. words' \in [Requests -> PartialWords]
  <2>1. words'[r] \in PartialWords
    BY <1>5, PartialFact
  <2>2. PICK f : f = words'[r]
    OBVIOUS
  <2>3. words' = [words EXCEPT ![r] = f]
    BY <1>2, <1>3, <2>2 DEF MemTypes
  <2> QED
    BY <1>3, <2>1, <2>2, <2>3 DEF MemTypes
<1>8. WordsOK(r)'
  <2>1. DOMAIN words'[r] = Word /\ leak'[r] # 0 /\ words'[r]["len"] >= 1
    BY <1>1, <1>3, <1>4, <1>5 DEF WordsOK, Word
  <2>2. words'[r]["ptr"] \in 0..Len(arrays')
    BY <1>1, <1>3, <1>5 DEF WordsOK, Word
  <2> QED
    BY <1>6, <2>1, <2>2 DEF WordsOK, Word
<1>9. LeakOK(r)'
  BY <1>1, <1>3 DEF LeakOK
<1>10. Touching' = Touching /\ r \in Touching
  BY <1>1, <1>6 DEF Touching
<1>11. Alone(r) => HeldBy(r)'
  <2> SUFFICES ASSUME Alone(r)
               PROVE  HeldBy(r)'
    OBVIOUS
  <2>1. /\ \A w \in Word : words[r][w] = leaks[w]
        /\ ~mixed => Good
    BY <1>1, <1>3 DEF HeldOK, HeldBy
  <2>2. \A w \in Word \ todo'[r] : leaks'[w] = words'[r][w]
    BY <1>1, <1>5, <1>6, <2>1 DEF Word
  <2>3. ~mixed => WritesGood(r)'
    <3> SUFFICES ASSUME ~mixed
                 PROVE  WritesGood(r)'
      OBVIOUS
    <3>1. Holds(words[r]["ptr"], words[r]["len"], words[r]["cap"])
      BY <2>1 DEF Good, Word
    <3>2. words'[r]["len"] - 1 = words[r]["len"] /\ words'[r]["len"] <= words'[r]["cap"]
      BY <1>1, <1>4, <1>5 DEF Word
    <3>3. Capacity(words[r]["ptr"])' = Capacity(words[r]["ptr"])
      BY <1>1, <1>5 DEF Capacity
    <3> QED
      BY <1>1, <1>5, <3>1, <3>2, <3>3 DEF Holds, WritesGood
  <2> QED
    BY <1>1, <1>6, <2>2, <2>3 DEF HeldBy
<1>12. OverlapOK' /\ HeldOK'
  BY <1>1, <1>3, <1>10, <1>11, InStep
<1>13. \A s \in Requests : s # r /\ leak[s] # 0 => leak[s] \notin due' /\ leak[s] # leak'[r]
  BY <1>1, <1>3 DEF MemTypes, LeakOK
<1>14. /\ leaks' \in [Word -> Nat] /\ leaks'["ptr"] \in 0..Len(arrays')
       /\ arrays' \in Seq(Seq(0..MaxLeaks)) /\ Len(arrays) <= Len(arrays')
       /\ made' \in 0..MaxLeaks /\ made <= made' /\ due' \subseteq 1..made'
       /\ leak' \in [Requests -> 0..MaxLeaks]
       /\ corrupt' \in BOOLEAN /\ mixed' \in BOOLEAN /\ met' \subseteq Touching'
  BY <1>1, <1>3, <1>10, KuardAppAssumption DEF MemTypes
<1>15. MemTypes'
  BY <1>1, <1>3, <1>5, <1>6, <1>7, <1>8, <1>9, <1>13, <1>14, OneLeaker
<1> QED
  BY <1>12, <1>15 DEF MemOK

LEMMA WriteKeeps ==
  ASSUME ProcessOK, MemOK, NEW r \in Requests, Memory!Write(r)
  PROVE  MemOK'
<1>1. PICK w \in todo[r] :
        /\ leaks' = [leaks EXCEPT ![w] = words[r][w]]
        /\ todo' = [todo EXCEPT ![r] = todo[r] \ {w}]
  BY DEF Memory!Write
<1>2. /\ pc[r] = "write"
      /\ UNCHANGED <<pc, arrays, made, corrupt, leak, words, due, met, mixed>>
  BY DEF Memory!Write, Memory!history
<1>3. MemTypes /\ OverlapOK /\ HeldOK /\ WordsOK(r) /\ LeakOK(r)
  BY DEF MemOK, MemTypes
<1>4. w \in Word /\ words[r] \in [Word -> Nat] /\ DOMAIN words[r] = Word
  BY <1>2, <1>3, PartialFact DEF MemTypes, WordsOK
<1>5. /\ leaks' \in [Word -> Nat] /\ leaks'[w] = words[r][w]
      /\ \A v \in Word : v # w => leaks'[v] = leaks[v]
  BY <1>1, <1>3, <1>4 DEF MemTypes
<1>6. /\ todo'[r] = todo[r] \ {w} /\ todo' \in [Requests -> SUBSET Word]
      /\ \A s \in Requests : s # r => todo'[s] = todo[s]
  BY <1>1, <1>3 DEF MemTypes
<1>7. leaks'["ptr"] \in 0..Len(arrays')
  BY <1>2, <1>3, <1>4, <1>5 DEF MemTypes, WordsOK, Word
<1>8. WordsOK(r)'
  BY <1>2, <1>3, <1>6 DEF WordsOK
<1>9. LeakOK(r)'
  BY <1>2, <1>3 DEF LeakOK
<1>10. Touching' = Touching /\ r \in Touching
  BY <1>2 DEF Touching
<1>11. Alone(r) => HeldBy(r)'
  <2> SUFFICES ASSUME Alone(r)
               PROVE  HeldBy(r)'
    OBVIOUS
  <2>1. HeldBy(r)
    BY <1>3 DEF HeldOK
  <2>2. \A v \in Word \ todo'[r] : leaks'[v] = words'[r][v]
    BY <1>2, <1>5, <1>6, <2>1 DEF HeldBy
  <2>3. WritesGood(r)' <=> WritesGood(r)
    BY <1>2 DEF WritesGood, Capacity
  <2> QED
    BY <1>2, <2>1, <2>2, <2>3 DEF HeldBy
<1>12. OverlapOK' /\ HeldOK'
  BY <1>2, <1>3, <1>10, <1>11, InStep
<1>13. \A s \in Requests : s # r /\ leak[s] # 0 => leak[s] \notin due' /\ leak[s] # leak'[r]
  BY <1>2, <1>3 DEF MemTypes, LeakOK
<1>14. /\ arrays' \in Seq(Seq(0..MaxLeaks)) /\ Len(arrays) <= Len(arrays')
       /\ made' \in 0..MaxLeaks /\ made <= made' /\ due' \subseteq 1..made'
       /\ leak' \in [Requests -> 0..MaxLeaks] /\ words' \in [Requests -> PartialWords]
       /\ corrupt' \in BOOLEAN /\ mixed' \in BOOLEAN /\ met' \subseteq Touching'
  BY <1>2, <1>3, <1>10, KuardAppAssumption DEF MemTypes
<1>15. MemTypes'
  BY <1>2, <1>3, <1>5, <1>6, <1>7, <1>8, <1>9, <1>13, <1>14, OneLeaker
<1> QED
  BY <1>12, <1>15 DEF MemOK

\* The array that growslice makes: the old elements, and room for one more.
LEMMA GrowKeeps ==
  ASSUME ProcessOK, MemOK, NEW r \in Requests, Memory!Grow(r)
  PROVE  MemOK'
<1>3. MemTypes /\ OverlapOK /\ HeldOK /\ WordsOK(r) /\ LeakOK(r)
  BY DEF MemOK, MemTypes
<1>0. DOMAIN words[r] = Word /\ pc[r] = "read" /\ words[r]["len"] >= words[r]["cap"]
  BY DEF Memory!Grow, Memory!Goto, Memory!Word, Word
<1>4. /\ words[r]["ptr"] \in 0..Len(arrays) /\ words[r]["len"] \in Nat /\ words[r]["cap"] \in Nat
      /\ Len(arrays) \in Nat
  <2>1. words[r] \in [Word -> Nat]
    BY <1>0, <1>3, PartialFact DEF MemTypes
  <2> QED
    BY <1>0, <1>3, <2>1 DEF MemTypes, WordsOK, Word
<1>n. PICK need \in Nat : need = words[r]["len"] + 1
  BY <1>4
<1>c. PICK cap \in Nat : cap = IF need > 2 * words[r]["cap"] THEN need ELSE 2 * words[r]["cap"]
  BY <1>4
<1>a. PICK a : a = [k \in 1..cap |-> Memory!Kept(r, k)]
  OBVIOUS
<1>h. PICK h : h = [ptr |-> Len(arrays) + 1, len |-> need, cap |-> cap]
  OBVIOUS
<1>1. /\ pc' = [pc EXCEPT ![r] = "write"]
      /\ arrays' = Append(arrays, a) /\ words' = [words EXCEPT ![r] = h]
      /\ todo' = [todo EXCEPT ![r] = Word]
      /\ UNCHANGED <<leaks, made, leak, due, met, mixed>>
  BY <1>n, <1>c, <1>a, <1>h DEF Memory!Grow, Memory!Goto, Memory!Word, Memory!history, Word
<1>2. corrupt' \in BOOLEAN
  BY <1>3 DEF Memory!Grow, MemTypes
<1>5. need <= cap /\ need >= 1 /\ need - 1 = words[r]["len"]
  BY <1>4, <1>n, <1>c
<1>6. \A k \in 1..cap : Memory!Kept(r, k) =
        IF k <= words[r]["len"] /\ k <= Capacity(words[r]["ptr"])
        THEN arrays[words[r]["ptr"]][k] ELSE 0
  BY DEF Memory!Kept, Memory!Capacity, Capacity
<1>7. a \in [1..cap -> 0..MaxLeaks]
  <2>1. ASSUME NEW k \in 1..cap
        PROVE  Memory!Kept(r, k) \in 0..MaxLeaks
    <3>1. CASE k <= words[r]["len"] /\ k <= Capacity(words[r]["ptr"])
      <4>1. words[r]["ptr"] \in 1..Len(arrays) /\ k \in 1..Len(arrays[words[r]["ptr"]])
        BY <1>4, <3>1 DEF Capacity
      <4>2. arrays[words[r]["ptr"]] \in Seq(0..MaxLeaks)
        BY <1>3, <4>1 DEF MemTypes
      <4>3. arrays[words[r]["ptr"]][k] \in 0..MaxLeaks
        BY <4>1, <4>2, ArrayFact
      <4> QED
        BY <1>6, <3>1, <4>3
    <3>2. CASE ~(k <= words[r]["len"] /\ k <= Capacity(words[r]["ptr"]))
      BY <1>6, <3>2, KuardAppAssumption
    <3> QED
      BY <3>1, <3>2
  <2> QED
    BY <1>a, <2>1
<1>8. /\ arrays' \in Seq(Seq(0..MaxLeaks)) /\ Len(arrays') = Len(arrays) + 1
      /\ arrays'[Len(arrays) + 1] = a /\ a \in Seq(0..MaxLeaks) /\ Len(a) = cap
  <2>1. a \in Seq(0..MaxLeaks) /\ Len(a) = cap
    BY <1>c, <1>7, ArrayFact
  <2> QED
    BY <1>1, <1>3, <2>1 DEF MemTypes
<1>9. /\ h \in [Word -> Nat] /\ DOMAIN h = Word
      /\ h["ptr"] = Len(arrays) + 1 /\ h["len"] = need /\ h["cap"] = cap
  BY <1>4, <1>h DEF Word
<1>10. /\ pc'[r] = "write" /\ todo'[r] = Word /\ words'[r] = h
       /\ \A s \in Requests : s # r => pc'[s] = pc[s] /\ todo'[s] = todo[s] /\ words'[s] = words[s]
       /\ todo' \in [Requests -> SUBSET Word] /\ words' \in [Requests -> PartialWords]
  <2>1. h \in PartialWords
    BY <1>9, PartialFact
  <2> QED
    BY <1>1, <1>3, <2>1 DEF MemTypes, ProcessOK
<1>11. WordsOK(r)'
  <2>1. leak'[r] # 0 /\ h["ptr"] \in 0..Len(arrays') /\ h["len"] >= 1
    BY <1>0, <1>1, <1>3, <1>4, <1>5, <1>8, <1>9 DEF WordsOK
  <2> QED
    BY <1>9, <1>10, <2>1 DEF WordsOK
<1>12. LeakOK(r)'
  BY <1>1, <1>3 DEF LeakOK
<1>13. Touching' = Touching /\ r \in Touching
  BY <1>0, <1>10 DEF Touching
<1>14. Alone(r) => HeldBy(r)'
  <2> SUFFICES ASSUME Alone(r)
               PROVE  HeldBy(r)'
    OBVIOUS
  <2>1. /\ \A w \in Word : words[r][w] = leaks[w]
        /\ ~mixed => Good
    BY <1>0, <1>3 DEF HeldOK, HeldBy
  <2>2. ~mixed => WritesGood(r)'
    <3> SUFFICES ASSUME ~mixed
                 PROVE  WritesGood(r)'
      OBVIOUS
    <3>1. Holds(words[r]["ptr"], words[r]["len"], words[r]["cap"])
      BY <2>1 DEF Good, Word
    <3>2. Capacity(h["ptr"])' = cap
      BY <1>4, <1>8, <1>9 DEF Capacity
    <3>3. \A k \in 1..words[r]["len"] : a[k] = arrays[words[r]["ptr"]][k]
      <4> SUFFICES ASSUME NEW k \in 1..words[r]["len"]
                   PROVE  a[k] = arrays[words[r]["ptr"]][k]
        OBVIOUS
      <4>1. words[r]["len"] <= Capacity(words[r]["ptr"])
        BY <3>1 DEF Holds
      <4>2. k \in 1..cap /\ k <= words[r]["len"] /\ k <= Capacity(words[r]["ptr"])
        <5>1. Capacity(words[r]["ptr"]) = words[r]["cap"]
          BY <3>1 DEF Holds
        <5> QED
          BY <1>4, <1>5, <4>1, <5>1
      <4> QED
        BY <1>6, <1>a, <4>2
    <3>4. {a[k] : k \in 1..words[r]["len"]} = {arrays[words[r]["ptr"]][k] : k \in 1..words[r]["len"]}
      BY <3>3
    <3>5. {a[k] : k \in 1..(h["len"] - 1)} = due /\ Cardinality(due) = h["len"] - 1
      BY <1>5, <1>9, <3>1, <3>4 DEF Holds
    <3>6. /\ words'[r] = h /\ arrays'[h["ptr"]] = a /\ due' = due
          /\ h["cap"] = cap /\ h["len"] <= h["cap"]
      BY <1>1, <1>5, <1>8, <1>9, <1>10
    <3>7. {arrays'[words'[r]["ptr"]][k] : k \in 1..(words'[r]["len"] - 1)} = due'
      BY <3>5, <3>6
    <3>8. words'[r]["cap"] = Capacity(words[r]["ptr"])'
      <4>1. Capacity(words[r]["ptr"])' = IF h["ptr"] = 0 THEN 0 ELSE Len(arrays'[h["ptr"]])
        BY <3>6 DEF Capacity
      <4> QED
        BY <1>4, <1>8, <1>9, <3>6, <4>1
    <3> QED
      BY <3>5, <3>6, <3>7, <3>8 DEF WritesGood
  <2> QED
    BY <1>1, <1>10, <2>2 DEF HeldBy
<1>15. OverlapOK' /\ HeldOK'
  BY <1>1, <1>3, <1>13, <1>14, InStep
<1>16. \A s \in Requests : s # r /\ leak[s] # 0 => leak[s] \notin due' /\ leak[s] # leak'[r]
  BY <1>1, <1>3 DEF MemTypes, LeakOK
<1>17. /\ leaks' \in [Word -> Nat] /\ leaks'["ptr"] \in 0..Len(arrays')
       /\ Len(arrays) <= Len(arrays')
       /\ made' \in 0..MaxLeaks /\ made <= made' /\ due' \subseteq 1..made'
       /\ leak' \in [Requests -> 0..MaxLeaks]
       /\ mixed' \in BOOLEAN /\ met' \subseteq Touching'
  BY <1>1, <1>3, <1>4, <1>8, <1>13, KuardAppAssumption DEF MemTypes
<1>18. MemTypes'
  BY <1>1, <1>2, <1>3, <1>8, <1>10, <1>11, <1>12, <1>16, <1>17, OneLeaker
<1> QED
  BY <1>15, <1>18 DEF MemOK

\* A request leaves the slice; if it met no other, there is none.
LEMMA Leaves ==
  ASSUME MemTypes, OverlapOK, NEW r \in Touching, Touching' = Touching \ {r},
         met' = met \ {r}, ~mixed' => ~mixed \/ r \notin met,
         ~mixed' /\ Alone(r) => Good'
  PROVE  OverlapOK' /\ HeldOK' /\ met' \subseteq Touching'
<1>1. r \in Requests /\ met \subseteq Touching
  BY DEF Touching, MemTypes
<1>2. ~mixed' => Alone(r)
  BY <1>1 DEF OverlapOK, Alone
<1>3. ~mixed' => met' = {}
  BY <1>1, <1>2 DEF OverlapOK, Alone
<1>4. \A s \in Requests : ~Alone(s)'
  <2> SUFFICES ASSUME NEW s \in Requests, Alone(s)'
               PROVE  FALSE
    OBVIOUS
  <2>1. s \in Touching /\ s # r /\ s \notin met
    BY DEF Alone
  <2>2. Touching = {s}
    BY <2>1 DEF OverlapOK, Alone
  <2> QED
    BY <2>1, <2>2
<1>5. OverlapOK'
  BY <1>3, <1>4 DEF OverlapOK
<1>6. HeldOK'
  BY <1>2, <1>4 DEF HeldOK
<1> QED
  BY <1>1, <1>5, <1>6

\* An element of an array is written.
LEMMA ExceptArray ==
  ASSUME NEW S, NEW a \in Seq(S), NEW k \in 1..Len(a), NEW e \in S
  PROVE  /\ [a EXCEPT ![k] = e] \in Seq(S) /\ Len([a EXCEPT ![k] = e]) = Len(a)
         /\ [a EXCEPT ![k] = e][k] = e
         /\ \A i \in 1..Len(a) : i # k => [a EXCEPT ![k] = e][i] = a[i]
OBVIOUS

\* The leak that is acknowledged is due, and its element is the next one.
LEMMA LeakedKeeps ==
  ASSUME ProcessOK, MemOK, NEW r \in Requests, Memory!Leaked(r)
  PROVE  MemOK'
<1>p. PICK p : p = words[r]["ptr"]
  OBVIOUS
<1>k. PICK k : k = words[r]["len"]
  OBVIOUS
<1>1. /\ pc[r] = "write" /\ leak[r] # 0 /\ todo[r] = {}
      /\ pc' = [pc EXCEPT ![r] = "idle"]
      /\ leak' = [leak EXCEPT ![r] = 0] /\ words' = [words EXCEPT ![r] = Memory!NoWords]
      /\ due' = due \cup {leak[r]} /\ met' = met \ {r}
      /\ UNCHANGED <<leaks, made, todo, mixed>>
  BY DEF Memory!Leaked, Memory!Finish, Memory!Goto
<1>2. IF k <= Capacity(p)
      THEN arrays' = [arrays EXCEPT ![p][k] = leak[r]] /\ UNCHANGED corrupt
      ELSE corrupt' = TRUE /\ UNCHANGED arrays
  BY <1>p, <1>k DEF Memory!Leaked, Memory!Capacity, Capacity
<1>3. MemTypes /\ OverlapOK /\ HeldOK /\ WordsOK(r) /\ LeakOK(r)
  BY DEF MemOK, MemTypes
<1>4. /\ p \in 0..Len(arrays) /\ k \in Nat /\ k >= 1
      /\ leak[r] \in 1..MaxLeaks /\ Len(arrays) \in Nat
      /\ leak \in [Requests -> 0..MaxLeaks] /\ DOMAIN words[r] = Word
  <2>1. words[r] \in [Word -> Nat] /\ DOMAIN words[r] = Word
    BY <1>1, <1>3, PartialFact DEF MemTypes, WordsOK
  <2>2. p \in 0..Len(arrays) /\ k \in Nat /\ k >= 1
    BY <1>p, <1>k, <1>1, <1>3, <2>1 DEF WordsOK, Word
  <2> QED
    BY <1>1, <1>3, <2>1, <2>2 DEF MemTypes
<1>5. /\ pc'[r] = "idle" /\ words'[r] = Memory!NoWords /\ leak'[r] = 0
      /\ \A s \in Requests : s # r => pc'[s] = pc[s] /\ words'[s] = words[s] /\ leak'[s] = leak[s]
      /\ words' \in [Requests -> PartialWords] /\ leak' \in [Requests -> 0..MaxLeaks]
  BY <1>1, <1>3, <1>4, NoWordsFact, KuardAppAssumption DEF MemTypes, ProcessOK
<1>6. Touching' = Touching \ {r} /\ r \in Touching
  BY <1>1, <1>5 DEF Touching
\* The array that is written, when the element is inside it.
<1>7. k <= Capacity(p) =>
        /\ p \in 1..Len(arrays) /\ k \in 1..Len(arrays[p]) /\ arrays[p] \in Seq(0..MaxLeaks)
        /\ arrays' = [arrays EXCEPT ![p] = [arrays[p] EXCEPT ![k] = leak[r]]]
  <2> SUFFICES ASSUME k <= Capacity(p)
               PROVE  /\ p \in 1..Len(arrays) /\ k \in 1..Len(arrays[p])
                      /\ arrays[p] \in Seq(0..MaxLeaks)
                      /\ arrays' = [arrays EXCEPT ![p] = [arrays[p] EXCEPT ![k] = leak[r]]]
    OBVIOUS
  <2>1. p # 0
    BY <1>4 DEF Capacity
  <2>2. p \in 1..Len(arrays)
    BY <1>4, <2>1
  <2>3. arrays[p] \in Seq(0..MaxLeaks)
    BY <1>3, <2>2, ArrayFact DEF MemTypes
  <2>4. k \in 1..Len(arrays[p])
    BY <1>4, <2>1, <2>3 DEF Capacity
  <2> QED
    BY <1>2, <2>2, <2>3, <2>4
<1>8. arrays' \in Seq(Seq(0..MaxLeaks)) /\ Len(arrays') = Len(arrays)
  <2>1. CASE k <= Capacity(p)
    <3>1. PICK row : row = [arrays[p] EXCEPT ![k] = leak[r]]
      OBVIOUS
    <3>2. leak[r] \in 0..MaxLeaks
      BY <1>4
    <3>3. row \in Seq(0..MaxLeaks)
      BY <1>7, <2>1, <3>1, <3>2, ExceptArray
    <3>4. arrays' = [arrays EXCEPT ![p] = row]
      BY <1>7, <2>1, <3>1
    <3> QED
      BY <1>3, <1>7, <2>1, <3>3, <3>4, ExceptArray DEF MemTypes
  <2>2. CASE ~(k <= Capacity(p))
    BY <1>2, <1>3, <2>2 DEF MemTypes
  <2> QED
    BY <2>1, <2>2
<1>9. Alone(r) /\ ~mixed => Good'
  <2> SUFFICES ASSUME Alone(r), ~mixed
               PROVE  Good'
    OBVIOUS
  <2>1. /\ \A w \in Word : leaks[w] = words[r][w]
        /\ WritesGood(r)
    BY <1>1, <1>3 DEF HeldOK, HeldBy
  <2>2. /\ words[r]["cap"] = Capacity(p) /\ k <= Capacity(p)
        /\ {arrays[p][i] : i \in 1..(k - 1)} = due /\ Cardinality(due) = k - 1
    BY <1>p, <1>k, <2>1 DEF WritesGood
  <2>3. PICK row : row = [arrays[p] EXCEPT ![k] = leak[r]]
    OBVIOUS
  <2>4. /\ row \in Seq(0..MaxLeaks) /\ Len(row) = Len(arrays[p]) /\ row[k] = leak[r]
        /\ \A i \in 1..(k - 1) : row[i] = arrays[p][i]
    BY <1>4, <1>7, <2>2, <2>3, ExceptArray
  <2>5. arrays'[p] = row /\ p # 0
    <3>1. arrays' = [arrays EXCEPT ![p] = row] /\ p \in 1..Len(arrays)
      BY <1>7, <2>2, <2>3
    <3>2. arrays \in Seq(Seq(0..MaxLeaks))
      BY <1>3 DEF MemTypes
    <3>3. [arrays EXCEPT ![p] = row][p] = row
      BY <2>4, <3>1, <3>2, ExceptArray
    <3> QED
      BY <3>1, <3>3
  <2>6. {row[i] : i \in 1..k} = due'
    <3>1. {row[i] : i \in 1..(k - 1)} = due
      BY <2>2, <2>4
    <3>2. \A i \in 1..k : i \in 1..(k - 1) \/ i = k
      BY <1>4
    <3>3. k \in 1..k /\ 1..(k - 1) \subseteq 1..k
      BY <1>4
    <3>4. {row[i] : i \in 1..k} = {row[i] : i \in 1..(k - 1)} \cup {row[k]}
      BY <3>2, <3>3
    <3> QED
      BY <1>1, <2>4, <3>1, <3>4
  <2>7. Cardinality(due') = k
    <3>1. IsFiniteSet(due)
      <4>1. made \in Nat /\ due \subseteq 1..made
        BY <1>3, KuardAppAssumption DEF MemTypes
      <4>2. IsFiniteSet(1..made)
        BY <4>1, FS_Interval
      <4> QED
        BY <4>1, <4>2, FS_Subset
    <3>2. leak[r] \notin due
      BY <1>1, <1>3 DEF LeakOK
    <3>3. Cardinality(due \cup {leak[r]}) = Cardinality(due) + 1
      BY <3>1, <3>2, FS_AddElement
    <3> QED
      BY <1>1, <1>4, <2>2, <3>3
  <2>8. Capacity(p)' = Capacity(p)
    <3>1. Capacity(p) = Len(arrays[p])
      BY <2>5 DEF Capacity
    <3>2. Capacity(p)' = Len(arrays'[p])
      BY <2>5 DEF Capacity
    <3> QED
      BY <2>4, <2>5, <3>1, <3>2
  <2>9. Holds(p, k, Capacity(p))'
    BY <2>2, <2>5, <2>6, <2>7, <2>8 DEF Holds
  <2>10. leaks'["ptr"] = p /\ leaks'["len"] = k /\ leaks'["cap"] = Capacity(p)'
    BY <1>1, <1>p, <1>k, <2>1, <2>2, <2>8 DEF Word
  <2> QED
    BY <2>9, <2>10 DEF Good, Holds
<1>10. OverlapOK' /\ HeldOK' /\ met' \subseteq Touching'
  BY <1>1, <1>3, <1>6, <1>9, Leaves
<1>11. WordsOK(r)'
  BY <1>1, <1>5, NoWordsFact DEF WordsOK
<1>12. LeakOK(r)'
  BY <1>5 DEF LeakOK
<1>13. \A s \in Requests : s # r /\ leak[s] # 0 => leak[s] \notin due' /\ leak[s] # leak'[r]
  BY <1>1, <1>3, <1>5 DEF MemTypes, LeakOK
<1>14. /\ leaks' \in [Word -> Nat] /\ leaks'["ptr"] \in 0..Len(arrays')
       /\ Len(arrays) <= Len(arrays')
       /\ made' \in 0..MaxLeaks /\ made <= made' /\ due' \subseteq 1..made'
       /\ todo' \in [Requests -> SUBSET Word]
       /\ corrupt' \in BOOLEAN /\ mixed' \in BOOLEAN
  <2>1. leak[r] \in 1..made
    BY <1>1, <1>3, <1>4, KuardAppAssumption DEF LeakOK, MemTypes
  <2>2. corrupt' \in BOOLEAN
    BY <1>2, <1>3 DEF MemTypes
  <2>3. made' \in 0..MaxLeaks /\ made <= made' /\ due' \subseteq 1..made'
    <3>1. made \in 0..MaxLeaks /\ due \subseteq 1..made
      BY <1>3 DEF MemTypes
    <3>2. made' \in 0..MaxLeaks /\ made <= made'
      BY <1>1, <3>1, KuardAppAssumption
    <3>3. due' \subseteq 1..made'
      BY <1>1, <2>1, <3>1
    <3> QED
      BY <3>2, <3>3
  <2> QED
    BY <1>1, <1>3, <1>4, <1>8, <2>2, <2>3 DEF MemTypes
<1>15. MemTypes'
  BY <1>1, <1>3, <1>5, <1>8, <1>10, <1>11, <1>12, <1>13, <1>14, OneLeaker
<1> QED
  BY <1>10, <1>15 DEF MemOK

LEMMA ClearedKeeps ==
  ASSUME ProcessOK, MemOK, NEW r \in Requests, Memory!Cleared(r)
  PROVE  MemOK'
<1>1. /\ pc[r] = "write" /\ leak[r] = 0 /\ todo[r] = {}
      /\ pc' = [pc EXCEPT ![r] = "idle"] /\ words' = [words EXCEPT ![r] = Memory!NoWords]
      /\ due' = {} /\ met' = met \ {r} /\ mixed' = (mixed /\ r \in met)
      /\ UNCHANGED <<leaks, arrays, made, corrupt, leak, todo>>
  BY DEF Memory!Cleared, Memory!Finish, Memory!Goto, Memory!header
<1>2. MemTypes /\ OverlapOK /\ HeldOK /\ WordsOK(r) /\ LeakOK(r)
  BY DEF MemOK, MemTypes
<1>3. /\ pc'[r] = "idle" /\ words'[r] = Memory!NoWords
      /\ \A s \in Requests : s # r => pc'[s] = pc[s] /\ words'[s] = words[s]
      /\ words' \in [Requests -> PartialWords]
  BY <1>1, <1>2, NoWordsFact DEF MemTypes, ProcessOK
<1>4. Touching' = Touching \ {r} /\ r \in Touching
  BY <1>1, <1>3 DEF Touching
<1>5. Alone(r) => Good'
  <2> SUFFICES ASSUME Alone(r)
               PROVE  Good'
    OBVIOUS
  <2>1. \A w \in Word : leaks[w] = 0
    <3>1. \A w \in Word : leaks[w] = words[r][w]
      BY <1>1, <1>2 DEF HeldOK, HeldBy
    <3> QED
      BY <1>1, <1>2, <3>1 DEF WordsOK
  <2>2. Holds(0, 0, 0)'
    BY <1>1, FS_EmptySet DEF Holds, Capacity
  <2> QED
    BY <1>1, <2>1, <2>2 DEF Good, Word
<1>6. OverlapOK' /\ HeldOK' /\ met' \subseteq Touching'
  BY <1>1, <1>2, <1>4, <1>5, Leaves
<1>7. WordsOK(r)'
  BY <1>1, <1>2, <1>3, NoWordsFact DEF WordsOK
<1>8. LeakOK(r)'
  BY <1>1 DEF LeakOK
<1>9. \A s \in Requests : s # r /\ leak[s] # 0 => leak[s] \notin due' /\ leak[s] # leak'[r]
  BY <1>1, <1>2 DEF MemTypes, LeakOK
<1>10. /\ leaks' \in [Word -> Nat] /\ leaks'["ptr"] \in 0..Len(arrays')
       /\ arrays' \in Seq(Seq(0..MaxLeaks)) /\ Len(arrays) <= Len(arrays')
       /\ made' \in 0..MaxLeaks /\ made <= made' /\ due' \subseteq 1..made'
       /\ leak' \in [Requests -> 0..MaxLeaks] /\ todo' \in [Requests -> SUBSET Word]
       /\ corrupt' \in BOOLEAN /\ mixed' \in BOOLEAN
  BY <1>1, <1>2, KuardAppAssumption DEF MemTypes
<1>11. MemTypes'
  BY <1>1, <1>2, <1>3, <1>6, <1>7, <1>8, <1>9, <1>10, OneLeaker
<1> QED
  BY <1>6, <1>11 DEF MemOK

LEMMA MemoryBeginKeeps ==
  ASSUME ProcessOK, MemOK, NEW r \in Requests, Memory!MemoryBegin(r)
  PROVE  MemOK'
BY AllocFailsKeeps, AllocKeeps, ClearKeeps DEF Memory!MemoryBegin

LEMMA MemoryStepKeeps ==
  ASSUME ProcessOK, MemOK, NEW r \in Requests, Memory!MemoryStep(r)
  PROVE  MemOK'
BY ReadKeeps, FitsKeeps, GrowKeeps, WriteKeeps, LeakedKeeps, ClearedKeeps
   DEF Memory!MemoryStep

-----------------------------------------------------------------------------
(* The process, step by step *)

\* A port is open only in a process that is configured.
LEMMA OpenServes ==
  ASSUME ProcessOK, Open
  PROVE  main \in Serving
BY DEF ProcessOK, Open, Serving

\* Request r goes from one of the places S to another, and may get an answer in A.
Moved(r, S, A) ==
  /\ pc' \in [Requests -> Places] /\ answer' \in [Requests -> Answers]
  /\ pc[r] \in S /\ pc'[r] \in S
  /\ answer'[r] = answer[r] \/ answer'[r] \in A
  /\ \A s \in Requests : s # r => pc'[s] = pc[s] /\ answer'[s] = answer[s]

LEMMA MovedFact ==
  ASSUME ProcessOK, NEW r \in Requests, NEW S \in SUBSET Places, NEW A \in SUBSET Answers,
         pc[r] \in S, pc' = pc \/ \E to \in S : pc' = [pc EXCEPT ![r] = to],
         answer' = answer \/ \E a \in A : answer' = [answer EXCEPT ![r] = a]
  PROVE  Moved(r, S, A)
<1>1. /\ pc' \in [Requests -> Places] /\ pc'[r] \in S
      /\ \A s \in Requests : s # r => pc'[s] = pc[s]
  BY DEF ProcessOK, Places
<1>2. /\ answer' \in [Requests -> Answers]
      /\ answer'[r] = answer[r] \/ answer'[r] \in A
      /\ \A s \in Requests : s # r => answer'[s] = answer[s]
  BY DEF ProcessOK, Answers
<1> QED
  BY <1>1, <1>2 DEF Moved

AtSlice == {"idle", "read", "write"}
AtPage == {"idle"} \cup AtRoot
AtQuery == {"idle", "ask"}

LEMMA MemoryBeginMoves ==
  ASSUME ProcessOK, NEW r \in Requests, Memory!MemoryBegin(r)
  PROVE  Moved(r, AtSlice, {"none", "refused", "panic"})
<1> DEFINE A == {"none", "refused", "panic"}
<1>0. AtSlice \in SUBSET Places /\ A \in SUBSET Answers
  BY DEF AtSlice, Places, Answers
<1>1. /\ pc[r] \in AtSlice
      /\ pc' = pc \/ \E to \in AtSlice : pc' = [pc EXCEPT ![r] = to]
      /\ answer' = answer \/ \E a \in A : answer' = [answer EXCEPT ![r] = a]
  BY DEF Memory!MemoryBegin, Memory!AllocNoSize, Memory!AllocPanics, Memory!Alloc, Memory!Clear,
         Memory!Finish, Memory!Begin, Memory!Goto, AtSlice
<1> QED
  BY <1>0, <1>1, MovedFact

LEMMA MemoryStepMoves ==
  ASSUME ProcessOK, NEW r \in Requests, Memory!MemoryStep(r)
  PROVE  Moved(r, AtSlice, {"ok", "refused"})
<1> DEFINE A == {"ok", "refused"}
<1>0. AtSlice \in SUBSET Places /\ A \in SUBSET Answers
  BY DEF AtSlice, Places, Answers
<1> SUFFICES /\ pc[r] \in AtSlice
             /\ pc' = pc \/ \E to \in AtSlice : pc' = [pc EXCEPT ![r] = to]
             /\ answer' = answer \/ \E a \in A : answer' = [answer EXCEPT ![r] = a]
  BY <1>0, MovedFact
<1> USE DEF AtSlice, Memory!Finish, Memory!Goto
<1>1. CASE Memory!Read(r)
  BY <1>1 DEF Memory!Read
<1>2. CASE Memory!Fits(r)
  BY <1>2 DEF Memory!Fits
<1>3. CASE Memory!Grow(r)
  BY <1>3 DEF Memory!Grow
<1>4. CASE Memory!Write(r)
  BY <1>4 DEF Memory!Write
<1>5. CASE Memory!Leaked(r)
  BY <1>5 DEF Memory!Leaked
<1>6. CASE Memory!Cleared(r)
  BY <1>6 DEF Memory!Cleared
<1> QED
  BY <1>1, <1>2, <1>3, <1>4, <1>5, <1>6 DEF Memory!MemoryStep

LEMMA DnsMoves ==
  ASSUME ProcessOK, NEW r \in Requests, Dns!DnsBegin(r) \/ Dns!Exchange(r)
  PROVE  /\ Moved(r, AtQuery, {"none", "ok", "refused", "panic"})
         /\ Dns!Exchange(r) => Moved(r, AtQuery, {"ok", "refused"})
<1>0. AtQuery \in SUBSET Places
  BY DEF AtQuery, Places
<1>1. Dns!DnsBegin(r) => Moved(r, AtQuery, {"none", "ok", "refused", "panic"})
  <2> SUFFICES ASSUME Dns!DnsBegin(r)
               PROVE  Moved(r, AtQuery, {"none", "ok", "refused", "panic"})
    OBVIOUS
  <2> DEFINE A == {"none", "ok", "refused", "panic"}
  <2>1. /\ pc[r] \in AtQuery
        /\ pc' = pc \/ \E to \in AtQuery : pc' = [pc EXCEPT ![r] = to]
        /\ answer' = answer \/ \E a \in A : answer' = [answer EXCEPT ![r] = a]
    BY DEF Dns!DnsBegin, Dns!DnsRefused, Dns!DnsNoServer, Dns!DnsQuery,
           Dns!Finish, Dns!Begin, Dns!Goto, AtQuery
  <2>2. A \in SUBSET Answers
    BY DEF Answers
  <2> QED
    BY <1>0, <2>1, <2>2, MovedFact
<1>2. Dns!Exchange(r) => Moved(r, AtQuery, {"ok", "refused"})
  <2> SUFFICES ASSUME Dns!Exchange(r)
               PROVE  Moved(r, AtQuery, {"ok", "refused"})
    OBVIOUS
  <2> DEFINE A == {"ok", "refused"}
  <2>1. /\ pc[r] \in AtQuery
        /\ pc' = pc \/ \E to \in AtQuery : pc' = [pc EXCEPT ![r] = to]
        /\ answer' = answer \/ \E a \in A : answer' = [answer EXCEPT ![r] = a]
    BY DEF Dns!Exchange, Dns!Finish, Dns!Goto, AtQuery
  <2>2. A \in SUBSET Answers
    BY DEF Answers
  <2> QED
    BY <1>0, <2>1, <2>2, MovedFact
<1> QED
  BY <1>1, <1>2 DEF Moved

LEMMA RootMoves ==
  ASSUME ProcessOK, NEW r \in Requests, Root!Come(r) \/ Root!TemplateStep(r)
  PROVE  Moved(r, AtPage, {"none", "ok", "error", "panic"})
<1> DEFINE A == {"none", "ok", "error", "panic"}
<1>0. AtPage \in SUBSET Places /\ A \in SUBSET Answers
  BY DEF AtPage, AtRoot, Holding, Places, Answers
<1> SUFFICES /\ pc[r] \in AtPage
             /\ pc' = pc \/ \E to \in AtPage : pc' = [pc EXCEPT ![r] = to]
             /\ answer' = answer \/ \E a \in A : answer' = [answer EXCEPT ![r] = a]
  BY <1>0, MovedFact
<1> USE DEF AtPage, AtRoot, Holding, Root!Finish, Root!Goto, Root!Begin
<1>1. CASE Root!Come(r)
  BY <1>1 DEF Root!Come
<1>2. CASE Root!Lock(r)
  <2>1. CASE Root!MustLoad
    BY <1>2, <2>1 DEF Root!Lock
  <2>2. CASE ~Root!MustLoad
    BY <1>2, <2>2 DEF Root!Lock
  <2> QED
    BY <2>1, <2>2
<1>3. CASE Root!LoadEmbedded(r)
  BY <1>3 DEF Root!LoadEmbedded
<1>4. CASE Root!ReadDir(r)
  BY <1>4 DEF Root!ReadDir
<1>5. CASE Root!ReadFile(r)
  BY <1>5 DEF Root!ReadFile
<1>6. CASE Root!AllRead(r)
  BY <1>6 DEF Root!AllRead
<1>7. CASE Root!Parse(r)
  BY <1>7 DEF Root!Parse
<1>8. CASE Root!Missing(r)
  BY <1>8 DEF Root!Missing
<1>9. CASE Root!Lookup(r)
  BY <1>9 DEF Root!Lookup
<1>10. CASE Root!Execute(r)
  BY <1>10 DEF Root!Execute
<1> QED
  BY <1>1, <1>2, <1>3, <1>4, <1>5, <1>6, <1>7, <1>8, <1>9, <1>10 DEF Root!TemplateStep

\* A request takes a step, in a process that serves.
LEMMA RequestStep ==
  ASSUME ProcessOK, main \in Serving, NEW r \in Requests, NEW S, NEW A, Moved(r, S, A),
         UNCHANGED <<scenario, process, debugTemplates, debugFiles>>
  PROVE  ProcessOK'
BY DEF ProcessOK, process, Serving, Moved, Places, Answers

\* A step at one page keeps what the others hold.
LEMMA OtherPages ==
  ASSUME ProcessOK, NEW r \in Requests, NEW A
  PROVE  /\ DnsOK /\ UNCHANGED dns /\ (Moved(r, AtSlice, A) \/ Moved(r, AtPage, A)) => DnsOK'
         /\ MemOK /\ UNCHANGED memory /\ (Moved(r, AtQuery, A) \/ Moved(r, AtPage, A)) => MemOK'
         /\ RootOK /\ UNCHANGED <<root, scenario>> /\ (Moved(r, AtSlice, A) \/ Moved(r, AtQuery, A))
              /\ ("panic" \in A => during[r] = {}) => RootOK'
<1>1. ASSUME DnsOK, UNCHANGED dns, Moved(r, AtSlice, A) \/ Moved(r, AtPage, A)
      PROVE  DnsOK'
  <2>1. \A s \in Requests : pc'[s] = "ask" <=> pc[s] = "ask"
    <3>1. pc[r] # "ask" /\ pc'[r] # "ask"
      BY <1>1 DEF Moved, AtSlice, AtPage, AtRoot, Holding
    <3>2. \A s \in Requests : s # r => pc'[s] = pc[s]
      BY <1>1 DEF Moved
    <3> QED
      BY <3>1, <3>2
  <2> QED
    BY <1>1, <2>1, DnsRest
<1>2. ASSUME MemOK, UNCHANGED memory, Moved(r, AtQuery, A) \/ Moved(r, AtPage, A)
      PROVE  MemOK'
  <2>1. pc[r] \notin {"read", "write"} /\ pc'[r] \notin {"read", "write"}
    BY <1>2 DEF Moved, AtQuery, AtPage, AtRoot, Holding
  <2>2. \A s \in Requests : s # r => pc'[s] = pc[s]
    BY <1>2 DEF Moved
  <2>3. r \notin Touching
    BY <2>1 DEF Touching
  <2> QED
    BY <1>2, <2>1, <2>2, <2>3, MemRest
<1>3. ASSUME RootOK, UNCHANGED <<root, scenario>>, Moved(r, AtSlice, A) \/ Moved(r, AtQuery, A),
             "panic" \in A => during[r] = {}
      PROVE  RootOK'
  <2>1. pc[r] \notin AtRoot /\ pc'[r] \notin AtRoot
    BY <1>3 DEF Moved, AtQuery, AtSlice, AtRoot, Holding
  <2>2. \A s \in Requests : s # r => pc'[s] = pc[s] /\ answer'[s] = answer[s]
    BY <1>3 DEF Moved
  <2>3. answer'[r] = answer[r] \/ answer'[r] \in A
    BY <1>3 DEF Moved
  <2>4. \A s \in Requests : answer'[s] = "panic" => answer[s] = "panic" \/ during[s] = {}
    BY <1>3, <2>2, <2>3
  <2> QED
    BY <1>3, <2>1, <2>2, <2>4, RootRest
<1> QED
  BY <1>1, <1>2, <1>3

LEMMA ArriveKeeps ==
  ASSUME AInv, NEW r \in Requests, Arrive(r)
  PROVE  AInv'
<1>1. ProcessOK /\ DnsOK /\ RootOK /\ MemOK /\ main \in Serving
  BY OpenServes DEF AInv, Arrive
<1>2. UNCHANGED <<scenario, process>>
  BY DEF Arrive
<1>3. scenario.page[r] # "root" => during[r] = {}
  BY <1>1 DEF RootOK, VisitOK
<1>4. CASE scenario.page[r] = "memory" /\ Memory!MemoryBegin(r) /\ UNCHANGED <<root, dns>>
  <2>1. MemOK'
    BY <1>1, <1>4, MemoryBeginKeeps
  <2>2. Moved(r, AtSlice, {"none", "refused", "panic"})
    BY <1>1, <1>4, MemoryBeginMoves
  <2>3. DnsOK' /\ RootOK'
    BY <1>1, <1>2, <1>3, <1>4, <2>2, OtherPages
  <2>4. ProcessOK'
    BY <1>1, <1>2, <1>4, <2>2, RequestStep DEF root
  <2> QED
    BY <2>1, <2>3, <2>4 DEF AInv
<1>5. CASE scenario.page[r] = "root" /\ Root!Come(r) /\ UNCHANGED <<memory, dns>>
  <2>1. RootOK'
    BY <1>1, <1>2, <1>5, ComeKeeps
  <2>2. Moved(r, AtPage, {"none", "ok", "error", "panic"})
    BY <1>1, <1>5, RootMoves
  <2>3. DnsOK' /\ MemOK'
    BY <1>1, <1>5, <2>2, OtherPages
  <2>4. ProcessOK'
    BY <1>1, <1>2, <1>5, <2>2, RequestStep DEF Root!Come, Root!config
  <2> QED
    BY <2>1, <2>3, <2>4 DEF AInv
<1>6. CASE scenario.page[r] = "dns" /\ Dns!DnsBegin(r) /\ UNCHANGED <<memory, root>>
  <2>1. DnsOK'
    BY <1>1, <1>6, DnsBeginKeeps
  <2>2. Moved(r, AtQuery, {"none", "ok", "refused", "panic"})
    BY <1>1, <1>6, DnsMoves
  <2>3. MemOK' /\ RootOK'
    BY <1>1, <1>2, <1>3, <1>6, <2>2, OtherPages
  <2>4. ProcessOK'
    BY <1>1, <1>2, <1>6, <2>2, RequestStep DEF root
  <2> QED
    BY <2>1, <2>3, <2>4 DEF AInv
<1> QED
  BY <1>4, <1>5, <1>6 DEF Arrive

LEMMA ServeKeeps ==
  ASSUME AInv, NEW r \in Requests, Serve(r)
  PROVE  AInv'
<1>1. ProcessOK /\ DnsOK /\ RootOK /\ MemOK
  BY DEF AInv
<1>2. UNCHANGED <<scenario, process>>
  BY DEF Serve
<1>4. CASE Memory!MemoryStep(r) /\ UNCHANGED <<root, dns>>
  <2>0. main \in Serving
    <3>1. pc[r] # "idle"
      BY <1>4 DEF Memory!MemoryStep, Memory!Read, Memory!Fits, Memory!Grow, Memory!Write,
                  Memory!Leaked, Memory!Cleared, Memory!Goto
    <3> QED
      BY <1>1, <3>1, Configured
  <2>1. MemOK'
    BY <1>1, <1>4, MemoryStepKeeps
  <2>2. Moved(r, AtSlice, {"ok", "refused"})
    BY <1>1, <1>4, MemoryStepMoves
  <2>3. DnsOK' /\ RootOK'
    BY <1>1, <1>2, <1>4, <2>2, OtherPages
  <2>4. ProcessOK'
    BY <1>1, <1>2, <1>4, <2>0, <2>2, RequestStep DEF root
  <2> QED
    BY <2>1, <2>3, <2>4 DEF AInv
<1>5. CASE Root!TemplateStep(r) /\ UNCHANGED <<memory, dns>>
  <2>0. main \in Serving /\ UNCHANGED <<debugTemplates, debugFiles>>
    <3>1. pc[r] # "idle" /\ UNCHANGED <<debugTemplates, debugFiles>>
      BY <1>5 DEF Root!TemplateStep, Root!Lock, Root!LoadEmbedded, Root!ReadDir, Root!ReadFile,
                  Root!AllRead, Root!Parse, Root!Missing, Root!Lookup, Root!Execute,
                  Root!Goto, Root!Finish, Root!config, Root!templates
    <3> QED
      BY <1>1, <3>1, Configured
  <2>1. RootOK'
    BY <1>1, <1>2, <1>5, TemplateStepKeeps
  <2>2. Moved(r, AtPage, {"none", "ok", "error", "panic"})
    BY <1>1, <1>5, RootMoves
  <2>3. DnsOK' /\ MemOK'
    BY <1>1, <1>5, <2>2, OtherPages
  <2>4. ProcessOK'
    BY <1>1, <1>2, <2>0, <2>2, RequestStep
  <2> QED
    BY <2>1, <2>3, <2>4 DEF AInv
<1>6. CASE Dns!Exchange(r) /\ UNCHANGED <<memory, root>>
  <2>0. main \in Serving
    BY <1>1, <1>6, Configured DEF Dns!Exchange
  <2>1. DnsOK'
    BY <1>1, <1>6, ExchangeKeeps
  <2>2. Moved(r, AtQuery, {"ok", "refused"})
    BY <1>1, <1>6, DnsMoves
  <2>3. MemOK' /\ RootOK'
    BY <1>1, <1>2, <1>6, <2>2, OtherPages
  <2>4. ProcessOK'
    BY <1>1, <1>2, <1>6, <2>0, <2>2, RequestStep DEF root
  <2> QED
    BY <2>1, <2>3, <2>4 DEF AInv
<1> QED
  BY <1>4, <1>5, <1>6 DEF Serve

\* The process ends, and nothing is kept.
LEMMA EndsKeeps ==
  ASSUME AInv, Ends, kills' \in 0..MaxKills
  PROVE  AInv'
<1>1. ProcessOK /\ RootOK
  BY DEF AInv
<1>2. \A r \in Requests : pc'[r] = "idle"
  BY DEF Ends
<1>3. DnsOK' /\ MemOK'
  BY <1>2, DnsFresh, MemFresh DEF Ends
<1>4. RootOK' /\ \A r \in Requests : page'[r] = Nil
  BY <1>1, <1>2, RootFresh DEF Ends
<1>5. answer' \in [Requests -> Answers]
  BY <1>1 DEF Ends, ProcessOK, Answers
<1>6. ProcessOK'
  BY <1>1, <1>2, <1>4, <1>5 DEF Ends, ProcessOK, Serving, Places
<1> QED
  BY <1>3, <1>4, <1>6 DEF AInv

\* A step of the process that no request notices.
LEMMA PagesRest ==
  ASSUME AInv, UNCHANGED <<scenario, requests, pages>>
  PROVE  DnsOK' /\ RootOK' /\ MemOK'
<1>1. UNCHANGED <<scenario, pc, answer, dns, root, memory>>
  BY DEF requests, pages
<1> QED
  BY <1>1, DnsRest, RootRest, MemRest DEF AInv

LEMMA StartKeeps ==
  ASSUME AInv, Start \/ ListenTLS
  PROVE  AInv'
<1>0. ProcessOK /\ DnsOK /\ RootOK /\ MemOK
  BY DEF AInv
<1> USE DEF Main
<1>1. CASE LoadFails \/ ListenFails
  BY <1>0, <1>1, EndsKeeps DEF LoadFails, ListenFails, ProcessOK
<1>2. CASE LoadConfig \/ Run \/ Listen \/ Restart \/ ListenTLS
  <2>1. UNCHANGED <<scenario, kills, requests, pages>>
    BY <1>2 DEF LoadConfig, Run, Listen, Restart, ListenTLS
  <2>2. DnsOK' /\ RootOK' /\ MemOK'
    BY <2>1, PagesRest
  <2>3. UNCHANGED <<pc, answer, page, debugTemplates, debugFiles>>
    BY <2>1 DEF requests, pages, root
  <2>4. \/ main = "load" /\ main' = "templates" /\ https' = https
        \/ main = "run" /\ main' = "listen" /\ https' \in {"starting", "off"}
        \/ main = "listen" /\ main' = "serve" /\ https' = https
        \/ main = "down" /\ main' = "load" /\ https' = https
        \/ main' = main /\ https = "starting" /\ https' = "open"
    BY <1>2 DEF LoadConfig, Run, Listen, Restart, ListenTLS
  <2>5. ProcessOK'
    BY <1>0, <2>1, <2>3, <2>4 DEF ProcessOK, Serving
  <2> QED
    BY <2>2, <2>5 DEF AInv
<1>3. CASE ConfigureTemplates \/ ConfigureFiles
  <2>1. UNCHANGED <<scenario, https, kills, pc, answer, memory, dns>>
    BY <1>3 DEF ConfigureTemplates, ConfigureFiles, requests
  <2>2. /\ UNCHANGED <<mu, files, dirData, page, disk, edits, during>>
        /\ t' = t \/ t' = Nil
        /\ \/ /\ main = "templates" /\ main' = "files"
              /\ debugTemplates' = scenario.debug /\ debugFiles' = debugFiles /\ t' = Nil
           \/ /\ main = "files" /\ main' = "run"
              /\ debugTemplates' = debugTemplates /\ debugFiles' = scenario.debug /\ t' = t
    BY <1>3 DEF ConfigureTemplates, ConfigureFiles, Root!SetTemplateConfig, Root!SetFilesConfig,
                Root!local, Root!directory
  <2>3. scenario.debug \in BOOLEAN
    <3>1. scenario \in [page : [Requests -> {"memory", "root", "dns", "none"}], valid : BOOLEAN,
                        debug : BOOLEAN, killed : BOOLEAN, exits : BOOLEAN,
                        tls : {"none", "half", "good", "bad"}]
      BY <1>0, KuardAppAssumption DEF ProcessOK
    <3> QED
      BY <3>1
  <2>4. \A r \in Requests : pc[r] = "idle" /\ page[r] = Nil
    BY <1>0, <2>2 DEF ProcessOK, Serving
  <2>5. DnsOK' /\ MemOK'
    BY <1>0, <2>1, DnsRest, MemRest
  <2>6. RootTypes'
    BY <1>0, <2>2, <2>3 DEF RootOK, RootTypes
  <2>7. ASSUME NEW r \in Requests
        PROVE  VisitOK(r)'
    <3>1. VisitOK(r) /\ pc[r] = "idle" /\ page[r] = Nil
      BY <1>0, <2>4 DEF RootOK
    <3> QED
      BY <2>1, <2>2, <3>1 DEF VisitOK, AtRoot, Holding, Reason
  <2>8. ProcessOK'
    BY <1>0, <2>1, <2>2, <2>3 DEF ProcessOK, Serving
  <2> QED
    BY <2>5, <2>6, <2>7, <2>8 DEF AInv, RootOK
<1> QED
  BY <1>1, <1>2, <1>3 DEF Start

LEMMA AInit ==
  ASSUME Init
  PROVE  AInv
<1>1. ProcessOK
  BY KuardAppAssumption DEF Init, ProcessOK, Serving, Places, Answers, Root!TemplateInit
<1>2. DnsOK
  BY DEF Init, DnsOK, QueryOK, Dns!DnsInit
<1>3. RootOK
  <2>1. /\ debugTemplates = FALSE /\ debugFiles = FALSE /\ t = Nil /\ mu = Nil /\ edits = 0
        /\ DOMAIN files = Requests /\ DOMAIN dirData = Requests
        /\ DOMAIN page = Requests /\ DOMAIN during = Requests
        /\ \A r \in Requests : page[r] = Nil /\ during[r] = {} /\ pc[r] = "idle"
    BY DEF Init, Root!TemplateInit
  <2>2. RootTypes
    <3>1. debugTemplates \in BOOLEAN /\ debugFiles \in BOOLEAN
      BY <2>1
    <3>2. mu \in Requests \cup {Nil} /\ edits \in 0..MaxEdits /\ t \in {Nil, Root!Embedded}
      BY <2>1, KuardAppAssumption
    <3> QED
      BY <2>1, <3>1, <3>2 DEF RootTypes
  <2>3. \A r \in Requests : VisitOK(r)
    BY <2>1, HandlersAssumption DEF VisitOK, AtRoot, Holding
  <2> QED
    BY <2>2, <2>3 DEF RootOK
<1>4. MemOK
  <2>1. Memory!MemoryInit /\ \A r \in Requests : pc[r] = "idle"
    BY DEF Init
  <2> QED
    BY <2>1, MemStart
<1> QED
  BY <1>1, <1>2, <1>3, <1>4 DEF AInv

LEMMA AStep ==
  ASSUME AInv, [Next]_vars
  PROVE  AInv'
<1>0. ProcessOK /\ DnsOK /\ RootOK /\ MemOK
  BY DEF AInv
<1>1. CASE Start \/ ListenTLS
  BY <1>1, StartKeeps
<1>2. CASE ListenTLSFails \/ AcceptFails \/ KeyGenExits
  BY <1>0, <1>2, EndsKeeps DEF ListenTLSFails, AcceptFails, KeyGenExits, ProcessOK
<1>3. CASE Kill
  <2>1. kills' \in 0..MaxKills
    BY <1>0, <1>3, KuardAppAssumption DEF Kill, ProcessOK
  <2> QED
    BY <1>3, <2>1, EndsKeeps DEF Kill
<1>4. CASE Edit
  <2>1. Root!Edit /\ UNCHANGED <<scenario, process, memory, dns>>
    BY <1>4 DEF Edit
  <2>2. RootOK'
    BY <1>0, <2>1, EditKeeps
  <2>3. UNCHANGED <<pc, answer, page, debugTemplates, debugFiles>>
    BY <2>1 DEF Root!Edit, Root!config, Root!local
  <2>4. DnsOK' /\ MemOK'
    BY <1>0, <2>1, <2>3, DnsRest, MemRest
  <2>5. ProcessOK'
    BY <1>0, <2>1, <2>3 DEF ProcessOK, process
  <2> QED
    BY <2>2, <2>4, <2>5 DEF AInv
<1>5. CASE \E r \in Requests : Arrive(r) \/ Serve(r)
  BY <1>5, ArriveKeeps, ServeKeeps
<1>6. CASE UNCHANGED vars
  <2>1. UNCHANGED <<scenario, requests, pages>> /\ UNCHANGED process
    BY <1>6 DEF vars
  <2>2. DnsOK' /\ RootOK' /\ MemOK'
    BY <2>1, PagesRest
  <2>3. UNCHANGED <<pc, answer, page, debugTemplates, debugFiles>>
    BY <2>1 DEF requests, pages, root
  <2>4. ProcessOK'
    BY <1>0, <2>1, <2>3 DEF ProcessOK, process
  <2> QED
    BY <2>2, <2>4 DEF AInv
<1> QED
  BY <1>1, <1>2, <1>3, <1>4, <1>5, <1>6 DEF Next

-----------------------------------------------------------------------------
(* The theorems *)

\* The invariant of the whole process.
THEOREM AInvariance == Spec => []AInv
<1>1. Init => AInv
  BY AInit
<1>2. AInv /\ [Next]_vars => AInv'
  BY AStep
<1> QED
  BY <1>1, <1>2, PTL DEF Spec

\* Type correctness of the process and of its three pages.
THEOREM Typing == Spec => []TypeOK
<1>1. AInv => TypeOK
  <2> SUFFICES ASSUME AInv
               PROVE  TypeOK
    OBVIOUS
  <2>1. Memory!MemoryTypeOK
    <3>1. ASSUME NEW r \in Requests
          PROVE  DOMAIN words[r] \subseteq Word /\ todo[r] \subseteq DOMAIN words[r]
      BY PartialFact DEF AInv, MemOK, MemTypes, WordsOK
    <3>2. Memory!Word = Word /\ Memory!Touching = Touching
      BY DEF Memory!Word, Word, Memory!Touching, Touching
    <3> QED
      BY <3>1, <3>2 DEF AInv, MemOK, MemTypes, Memory!MemoryTypeOK
  <2>2. Root!TemplateTypeOK
    BY DEF AInv, RootOK, RootTypes, VisitOK, Holding, Root!TemplateTypeOK
  <2>3. Dns!DnsTypeOK
    BY DEF AInv, DnsOK, QueryOK, Dns!DnsTypeOK
  <2> QED
    BY <2>1, <2>2, <2>3 DEF AInv, ProcessOK, Answers, TypeOK
<1> QED
  BY <1>1, AInvariance, PTL

\* The leaker holds exactly the leaks it acknowledged and has not cleared, each
\* once, whenever no two requests have overlapped since a clear that was alone.
THEOREM LeaksAreHeld == Spec => []LeaksHeld
<1>1. AInv => LeaksHeld
  <2> SUFFICES ASSUME AInv
               PROVE  LeaksHeld
    OBVIOUS
  <2>1. Memory!Touching = Touching
    BY DEF Memory!Touching, Touching
  <2>2. Touching = {} /\ ~mixed => Good
    BY DEF AInv, MemOK, HeldOK
  <2>3. Good => Memory!Held = due /\ leaks.len = Cardinality(due)
    BY DEF Good, Holds, Memory!Held
  <2>c. Memory!Cardinality(due) = Cardinality(due)
    BY DEF Memory!Cardinality, Cardinality
  <2>4. Memory!Touching = {} /\ ~mixed => Memory!Held = due /\ leaks.len = Cardinality(due)
    BY <2>1, <2>2, <2>3
  <2>5. Memory!LeaksHeld
    BY <2>4, <2>c DEF Memory!LeaksHeld
  <2> QED
    BY <2>5 DEF LeaksHeld
<1> QED
  BY <1>1, AInvariance, PTL

\* The root page that a request was given was in the binary or, with --debug, in
\* the directory while the request ran.
THEOREM PageCurrent == Spec => []PageIsCurrent
<1>1. AInv => PageIsCurrent
  BY DEF AInv, RootOK, VisitOK, WasThere, PageIsCurrent, Root!PageIsCurrent
<1> QED
  BY <1>1, AInvariance, PTL

\* GetTemplate panics only when a file was missing, or went away, while the request ran.
THEOREM PanicJustified == Spec => []PanicNeedsMissing
<1>1. AInv => PanicNeedsMissing
  BY DEF AInv, RootOK, VisitOK, Reason, PanicNeedsMissing, Root!PanicNeedsMissing
<1> QED
  BY <1>1, AInvariance, PTL

\* A DNS query returns the reply to the first name of its search list that decides.
THEOREM QueryDecided == Spec => []FirstAnswerWins
<1>1. AInv => FirstAnswerWins
  <2> SUFFICES ASSUME AInv, NEW r \in Requests, pc[r] = "idle", asked[r] > 0
               PROVE  \E k \in 1..Len(names[r]) :
                        /\ Dns!Decides(names[r], k)
                        /\ asked[r] = k
                        /\ result[r] = IF names[r][k] = "error" THEN 0 ELSE k
    BY DEF FirstAnswerWins, Dns!FirstAnswerWins
  <2>1. QueryOK(r) /\ asked[r] \in Nat
    BY DEF AInv, DnsOK
  <2>2. asked[r] \in 1..Len(names[r])
    BY <2>1 DEF QueryOK, AInv, DnsOK
  <2> QED
    BY <2>1, <2>2 DEF QueryOK
<1> QED
  BY <1>1, AInvariance, PTL
=============================================================================
