--------------------------- MODULE WordsmithProofs ---------------------------
(***************************************************************************)
(* A word on the page is the word its replica still gives: for any number  *)
(* of replicas, loads of the page, crashes and outages.                    *)
(***************************************************************************)
EXTENDS Wordsmith, TLAPS

Answers == [word : Nat, from : Replicas \cup {Nil}, life : Nat]

Types ==
  /\ memo \in [Replicas -> [Tables -> Nat]]
  /\ life \in [Replicas -> Nat]
  /\ up \in [Replicas -> BOOLEAN]
  /\ drawn \in Nat
  /\ answer \in [Slots -> Answers]
  /\ shown \in [Slots -> Answers]

\* A word came from a replica, in its present life or in an earlier one.
Came(a) == a.word # 0 => a.from \in Replicas /\ a.life <= life[a.from]

\* In its present life the replica keeps the word it gave.
Keeps(a, t) ==
  a.word # 0 /\ up[a.from] /\ life[a.from] = a.life => memo[a.from][t] = a.word

\* A word on its way is as good as one on the page: the page shows it later,
\* when the replica may have crashed.
SourcesOK ==
  \A s \in Slots :
    /\ Came(answer[s]) /\ Keeps(answer[s], Table(s))
    /\ Came(shown[s]) /\ Keeps(shown[s], Table(s))

SInv == Types /\ SourcesOK

LEMMA TableFact == \A s \in Slots : Table(s) \in Tables
BY WordsmithAssumption DEF AllSlots, Table, Tables

LEMMA BlankFact ==
  /\ Blank \in Answers
  /\ Blank.word = 0
BY DEF Blank, Answers

LEMMA SInitially == Init => SInv
<1> SUFFICES ASSUME Init
             PROVE  SInv
  OBVIOUS
<1>1. Types
  BY BlankFact DEF Init, Types
<1>2. \A s \in Slots : answer[s].word = 0 /\ shown[s].word = 0
  BY BlankFact DEF Init
<1>3. SourcesOK
  BY <1>2 DEF SourcesOK, Came, Keeps
<1> QED
  BY <1>1, <1>3 DEF SInv

\* What leaves the replicas alone and shows only what was on its way.
LEMMA ReplicasRest ==
  ASSUME SInv, UNCHANGED <<memo, life, up, drawn>>,
         answer' \in [Slots -> Answers], shown' \in [Slots -> Answers],
         \A s \in Slots : answer'[s] = answer[s] \/ answer'[s] = Blank
                            \/ (Came(answer'[s]) /\ Keeps(answer'[s], Table(s))),
         \A s \in Slots : shown'[s] \in {shown[s], answer[s], Blank}
  PROVE  SInv'
<1> USE DEF SInv
<1>1. Types'
  BY DEF Types
<1>2. ASSUME NEW s \in Slots, NEW a, a = answer'[s] \/ a = shown'[s]
      PROVE  Came(a)' /\ Keeps(a, Table(s))'
  <2>1. Came(a) /\ Keeps(a, Table(s))
    <3>1. Came(Blank) /\ Keeps(Blank, Table(s))
      BY BlankFact DEF Came, Keeps
    <3> QED
      BY <1>2, <3>1 DEF SourcesOK
  <2> QED
    BY <2>1 DEF Came, Keeps
<1>3. SourcesOK'
  BY <1>2 DEF SourcesOK, Came, Keeps
<1> QED
  BY <1>1, <1>3

\* The first query for its kind of word: no answer has come from this life of the
\* replica with such a word, so all others stay as good as they are.
LEMMA DrawFact ==
  ASSUME SInv, NEW r \in Replicas, NEW t \in Tables, NEW w \in 1..(drawn + 1),
         Draw(r, t, w), UNCHANGED <<life, up>>
  PROVE  /\ w \in Nat /\ w # 0 /\ drawn' \in Nat
         /\ memo' \in [Replicas -> [Tables -> Nat]] /\ memo'[r][t] = w
         /\ \A q \in Slots : \A a : Came(a) /\ Keeps(a, Table(q))
               => Came(a)' /\ Keeps(a, Table(q))'
<1> USE DEF SInv
<1>1. w \in Nat /\ w # 0 /\ drawn' \in Nat
  BY DEF Types, Draw
<1>2. /\ memo' \in [Replicas -> [Tables -> Nat]]
      /\ memo'[r][t] = w
      /\ \A q \in Replicas, u \in Tables : (q = r /\ u = t) \/ memo'[q][u] = memo[q][u]
  BY <1>1 DEF Types, Draw
<1>3. ASSUME NEW q \in Slots, NEW a, Came(a), Keeps(a, Table(q)), a.word # 0
      PROVE  /\ a.from \in Replicas /\ a.life <= life'[a.from]
             /\ up'[a.from] /\ life'[a.from] = a.life => memo'[a.from][Table(q)] = a.word
  <2>1. a.from \in Replicas /\ a.life <= life'[a.from]
    BY <1>3 DEF Came
  <2>2. ASSUME up'[a.from], life'[a.from] = a.life
        PROVE  memo'[a.from][Table(q)] = a.word
    <3>1. memo[a.from][Table(q)] = a.word
      BY <1>3, <2>2 DEF Keeps
    <3>2. ~(a.from = r /\ Table(q) = t)
      BY <1>3, <3>1 DEF Draw
    <3>3. Table(q) \in Tables
      BY TableFact
    <3> QED
      BY <1>2, <2>1, <3>1, <3>2, <3>3
  <2> QED
    BY <2>1, <2>2
<1>4. \A q \in Slots : \A a : Came(a) /\ Keeps(a, Table(q))
               => Came(a)' /\ Keeps(a, Table(q))'
  BY <1>3 DEF Came, Keeps
<1> QED
  BY <1>1, <1>2, <1>4

\* The answer that brings such a word is as good as the others.
LEMMA RandomWordKeeps ==
  ASSUME SInv, NEW s \in Slots, NEW r \in Replicas, RandomWord(s, r)
  PROVE  SInv'
<1> USE DEF SInv
<1>1. PICK w \in 1..(drawn + 1) :
        Draw(r, Table(s), w) /\ answer' = [answer EXCEPT ![s] = Answer(r, w)]
  BY DEF RandomWord
<1>2. UNCHANGED <<life, up, shown>>
  BY DEF RandomWord
<1>3. /\ w \in Nat /\ w # 0 /\ drawn' \in Nat
      /\ memo' \in [Replicas -> [Tables -> Nat]] /\ memo'[r][Table(s)] = w
  BY <1>1, <1>2, DrawFact, TableFact
<1>4. \A q \in Slots : \A a : Came(a) /\ Keeps(a, Table(q))
               => Came(a)' /\ Keeps(a, Table(q))'
  BY <1>1, <1>2, DrawFact, TableFact
<1>5. /\ Answer(r, w) \in Answers /\ Answer(r, w).word = w
      /\ Answer(r, w).from = r /\ Answer(r, w).life = life[r]
  BY <1>3 DEF Types, Answer, Answers
<1>6. Types'
  BY <1>1, <1>2, <1>3, <1>5 DEF Types
<1>7. ASSUME NEW q \in Slots, NEW a, a = answer'[q] \/ a = shown'[q]
      PROVE  Came(a)' /\ Keeps(a, Table(q))'
  <2>1. CASE a = shown[q] \/ a = answer[q]
    <3>1. Came(a) /\ Keeps(a, Table(q))
      BY <2>1 DEF SourcesOK
    <3> QED
      BY <1>4, <3>1
  <2>2. CASE a = answer'[s] /\ q = s
    <3>1. a = Answer(r, w)
      BY <1>1, <2>2 DEF Types
    <3>2. a.word = w /\ a.from = r /\ a.life = life[r]
      BY <1>5, <3>1
    <3> QED
      BY <1>2, <1>3, <2>2, <3>2 DEF Came, Keeps, Types
  <2>3. q # s => answer'[q] = answer[q]
    BY <1>1 DEF Types
  <2> QED
    BY <1>2, <1>7, <2>1, <2>2, <2>3
<1>8. SourcesOK'
  BY <1>7 DEF SourcesOK, Came, Keeps
<1> QED
  BY <1>6, <1>8

\* A request that is not the page's may bring a word too, but to somebody else.
LEMMA HandleOtherKeeps ==
  ASSUME SInv, NEW r \in Replicas, HandleOther(r)
  PROVE  SInv'
<1> USE DEF SInv
<1>1. UNCHANGED <<life, up, answer, shown>> /\ handling[r] \in Tables
  BY DEF HandleOther
<1>2. CASE \E w \in 1..(drawn + 1) : Draw(r, handling[r], w)
  <2>1. PICK w \in 1..(drawn + 1) : Draw(r, handling[r], w)
    BY <1>2
  <2>2. drawn' \in Nat /\ memo' \in [Replicas -> [Tables -> Nat]]
    BY <1>1, <2>1, DrawFact
  <2>3. \A q \in Slots : \A a : Came(a) /\ Keeps(a, Table(q))
               => Came(a)' /\ Keeps(a, Table(q))'
    BY <1>1, <2>1, DrawFact
  <2>4. Types'
    BY <1>1, <2>2 DEF Types
  <2>5. SourcesOK'
    BY <1>1, <2>3 DEF SourcesOK, Came, Keeps
  <2> QED
    BY <2>4, <2>5
<1>3. CASE UNCHANGED <<memo, drawn>>
  BY <1>1, <1>3, ReplicasRest DEF Types
<1> QED
  BY <1>2, <1>3 DEF HandleOther

\* The supplier gives again what it gave before.
LEMMA RecallKeeps ==
  ASSUME SInv, NEW s \in Slots, NEW r \in Replicas, Recall(s, r)
  PROVE  SInv'
<1> USE DEF SInv
<1>1. PICK w : w = memo[r][Table(s)]
  OBVIOUS
<1>2. /\ w # 0 /\ answer' = [answer EXCEPT ![s] = Answer(r, w)]
      /\ UNCHANGED <<memo, life, up, drawn, shown>>
  BY <1>1 DEF Recall, store
<1>3. w \in Nat
  BY <1>1, TableFact DEF Types
<1>4. /\ Answer(r, w) \in Answers /\ Answer(r, w).word = w
      /\ Answer(r, w).from = r /\ Answer(r, w).life = life[r]
  BY <1>3 DEF Types, Answer, Answers
<1>5. Came(Answer(r, w)) /\ Keeps(Answer(r, w), Table(s))
  BY <1>1, <1>4 DEF Came, Keeps, Types
<1>6. answer' \in [Slots -> Answers] /\ shown' \in [Slots -> Answers]
  BY <1>2, <1>4 DEF Types
<1>7. \A q \in Slots : answer'[q] = answer[q]
                         \/ (Came(answer'[q]) /\ Keeps(answer'[q], Table(q)))
  BY <1>2, <1>5 DEF Types
<1> QED
  BY <1>2, <1>6, <1>7, ReplicasRest

\* A crashed replica does not answer for its words; a new life has a number that
\* no answer has.
LEMMA LivesKeep ==
  ASSUME SInv, NEW r \in Replicas, Crash(r) \/ Restart(r)
  PROVE  SInv'
<1> USE DEF SInv
<1>1. /\ UNCHANGED <<answer, shown, drawn>>
      /\ \A q \in Replicas : q # r =>
           memo'[q] = memo[q] /\ up'[q] = up[q] /\ life'[q] = life[q]
      /\ \/ ~up'[r] /\ life'[r] = life[r]
         \/ life'[r] = life[r] + 1
      /\ Types'
  <2>1. CASE Crash(r)
    BY <2>1 DEF Crash, store, Types
  <2>2. CASE Restart(r)
    BY <2>2 DEF Restart, store, Types
  <2> QED
    BY <2>1, <2>2
<1>2. ASSUME NEW t, NEW a \in Answers, Came(a), Keeps(a, t)
      PROVE  Came(a)' /\ Keeps(a, t)'
  <2>1. a.life \in Nat /\ \A q \in Replicas : life[q] \in Nat
    BY DEF Answers, Types
  <2>2. CASE a.from = r
    BY <1>1, <1>2, <2>1, <2>2 DEF Came, Keeps
  <2>3. CASE a.from # r
    BY <1>1, <1>2, <2>1, <2>3 DEF Came, Keeps
  <2> QED
    BY <2>2, <2>3
<1>3. \A s \in Slots : answer[s] \in Answers /\ shown[s] \in Answers
  BY DEF Types
<1>4. SourcesOK'
  BY <1>1, <1>2, <1>3 DEF SourcesOK
<1> QED
  BY <1>1, <1>4

LEMMA SStep == SInv /\ [Next]_vars => SInv'
<1> SUFFICES ASSUME SInv, [Next]_vars
             PROVE  SInv'
  OBVIOUS
<1> USE DEF SInv
<1>0. answer \in [Slots -> Answers] /\ shown \in [Slots -> Answers]
  BY DEF Types
<1>1. CASE Refresh
  BY <1>0, <1>1, BlankFact, ReplicasRest DEF Refresh, Load, store
<1>2. ASSUME NEW s \in Slots, Forward(s) \/ Retry(s)
      PROVE  SInv'
  BY <1>0, <1>2, ReplicasRest DEF Forward, Retry, words, store
<1>3. ASSUME NEW s \in Slots, Show(s)
      PROVE  SInv'
  <2>1. /\ UNCHANGED <<memo, life, up, drawn, answer>>
        /\ shown' = [shown EXCEPT ![s] = answer[s]]
    BY <1>3 DEF Show, words, store
  <2>2. shown' \in [Slots -> Answers] /\ \A q \in Slots : shown'[q] \in {shown[q], answer[q]}
    BY <1>0, <2>1
  <2> QED
    BY <1>0, <2>1, <2>2, ReplicasRest
<1>4. ASSUME NEW s \in Slots, NEW r \in Replicas, Accept(s, r) \/ NoSuchElement(s, r)
      PROVE  SInv'
  BY <1>0, <1>4, ReplicasRest DEF Accept, NoSuchElement, store
<1>5. ASSUME NEW s \in Slots, NEW r \in Replicas, Recall(s, r) \/ RandomWord(s, r)
      PROVE  SInv'
  BY <1>5, RecallKeeps, RandomWordKeeps
<1>6. ASSUME NEW r \in Replicas, AcceptOther(r)
      PROVE  SInv'
  BY <1>0, <1>6, ReplicasRest DEF AcceptOther, store
<1>7. ASSUME NEW r \in Replicas, HandleOther(r) \/ Crash(r) \/ Restart(r)
      PROVE  SInv'
  BY <1>7, HandleOtherKeeps, LivesKeep
<1>8. CASE Outage \/ Recovery \/ UNCHANGED vars
  BY <1>0, <1>8, ReplicasRest DEF Outage, Recovery, vars, words, store
<1> QED
  BY <1>1, <1>2, <1>3, <1>4, <1>5, <1>6, <1>7, <1>8 DEF Next, Page, Handle, Finished

\* SInv is an invariant of the demo.
THEOREM SInvariance == Spec => []SInv
BY SInitially, SStep, PTL DEF Spec

\* A word on the page is the word that its replica still gives as long as it lives,
\* whatever crashes, restarts and fails between the answer and the page.
THEOREM WordsAreKept == Spec => []SourceKeepsWord
<1>1. SInv => SourceKeepsWord
  BY DEF SInv, SourcesOK, Keeps, SourceKeepsWord
<1> QED
  BY <1>1, SInvariance, PTL
=============================================================================
