---------------------------- MODULE KeyGenProofs ----------------------------
(***************************************************************************)
(* KeyGen keeps its safety properties for every set of PUTs, every set of  *)
(* configs and every maxHistory.  One lemma per conjunct of the inductive  *)
(* invariant IInv, each with one step per action.                          *)
(***************************************************************************)
EXTENDS KeyGenInv, SequenceTheorems, TLAPS

\* The trimmed history is a sequence of IDs, and again the newest ones.
LEMMA TrimAppend ==
  ASSUME NEW h \in Seq(Nat), NEW n \in Nat,
         Len(h) = (IF n < MaxHistory THEN n ELSE MaxHistory),
         \A i \in 1..Len(h) : h[i] = n - Len(h) + i - 1,
         NEW t, t = Trim(Append(h, n))
  PROVE  /\ t \in Seq(Nat)
         /\ Len(t) = (IF n + 1 < MaxHistory THEN n + 1 ELSE MaxHistory)
         /\ \A i \in 1..Len(t) : t[i] = n + 1 - Len(t) + i - 1
<1> DEFINE a == Append(h, n)
<1>m. MaxHistory \in Nat /\ MaxHistory > 0  BY KeyGenAssumption
<1>l. Len(h) \in Nat  OBVIOUS
<1>a. /\ a \in Seq(Nat)
      /\ Len(a) = Len(h) + 1
      /\ \A i \in 1..Len(a) : a[i] = n - Len(h) + i - 1
  OBVIOUS
<1> HIDE DEF a
<1>1. CASE Len(a) > MaxHistory
  <2> DEFINE s == SubSeq(a, Len(a) - MaxHistory + 1, Len(a))
  <2>1. Len(h) = MaxHistory /\ Len(a) = MaxHistory + 1  BY <1>1, <1>a, <1>m, <1>l
  <2>2. /\ s \in Seq(Nat)
        /\ Len(s) = MaxHistory
        /\ \A i \in 1..MaxHistory : s[i] = a[i + 1]
    BY <2>1, <1>a, <1>m
  <2>3. Trim(a) = s  BY <1>1 DEF Trim
  <2> HIDE DEF s
  <2>4. n >= MaxHistory  BY <2>1, <1>m
  <2>5. \A i \in 1..MaxHistory : s[i] = n + 1 - MaxHistory + i - 1
    <3> SUFFICES ASSUME NEW i \in 1..MaxHistory PROVE s[i] = n + 1 - MaxHistory + i - 1
      OBVIOUS
    <3>1. i + 1 \in 1..Len(a)  BY <2>1, <1>m
    <3>2. a[i + 1] = n - Len(h) + (i + 1) - 1  BY <3>1, <1>a
    <3>3. n - Len(h) + (i + 1) - 1 = n + 1 - MaxHistory + i - 1  BY <2>1, <1>m
    <3> QED  BY <3>2, <3>3, <2>2
  <2> QED  BY <2>2, <2>3, <2>4, <2>5, <1>m DEF a
<1>2. CASE ~(Len(a) > MaxHistory)
  <2>1. Trim(a) = a  BY <1>2 DEF Trim
  <2>2. n < MaxHistory /\ Len(h) = n  BY <1>2, <1>a, <1>m, <1>l
  <2> QED  BY <2>1, <2>2, <1>a, <1>m DEF a
<1> QED  BY <1>1, <1>2

\* The history keeps the newest outputs, whoever writes the next one.
LEMMA HistoryStep == ASSUME IInv, Next PROVE history' \in Seq(Nat) /\ HistoryContiguous'
<1>history. history \in Seq(Nat)  BY DEF IInv, TypeOK
<1>nextHistoryID. nextHistoryID \in Nat  BY DEF IInv, TypeOK
<1>H. HistoryContiguous  BY DEF IInv
<1>1. CASE history' = Trim(Append(history, nextHistoryID)) /\ nextHistoryID' = nextHistoryID + 1
  <2>1. /\ history' \in Seq(Nat)
        /\ Len(history') = (IF nextHistoryID + 1 < MaxHistory THEN nextHistoryID + 1 ELSE MaxHistory)
        /\ \A i \in 1..Len(history') : history'[i] = nextHistoryID + 1 - Len(history') + i - 1
    BY <1>1, <1>history, <1>nextHistoryID, <1>H, TrimAppend DEF HistoryContiguous
  <2>2. nextHistoryID' = nextHistoryID + 1  BY <1>1
  <2>3. Len(history') = (IF nextHistoryID' < MaxHistory THEN nextHistoryID' ELSE MaxHistory)
    BY <2>1, <2>2
  <2>4. Len(history') \in Nat  BY <2>1
  <2>5. \A i \in 1..Len(history') : history'[i] = nextHistoryID' - Len(history') + i - 1
    BY <2>1, <2>2, <2>4, <1>nextHistoryID
  <2> QED  BY <2>1, <2>3, <2>5 DEF HistoryContiguous
<1>2. CASE UNCHANGED <<history, nextHistoryID>>
  BY <1>2, <1>history, <1>H DEF HistoryContiguous
<1>3. ASSUME NEW p \in Puts, Put(p) \/ BadPut(p) \/ Handle(p)
      PROVE  UNCHANGED <<history, nextHistoryID>>
  BY <1>3 DEF Handle, Put, BadPut, WriteConfig, Cancel, Enable, Choose, Spawn, Get, shared
<1>4. ASSUME NEW p \in Puts, Start(p) \/ Report(p) \/ Retry(p) \/ Bye(p) \/ Over(p)
      PROVE  history' = Trim(Append(history, nextHistoryID)) /\ nextHistoryID' = nextHistoryID + 1
  BY <1>4 DEF Start, Report, Retry, Bye, Over, Say, WorkloadOutput
<1>5. ASSUME NEW p \in Puts,
             Select(p) \/ Count(p) \/ Generate(p) \/ Dequeue(p) \/ Expire(p) \/ Exit(p)
      PROVE  UNCHANGED <<history, nextHistoryID>>
  BY <1>5 DEF Select, Count, Look, Generate, Dequeue, Expire, Exit, shared
<1>6. CASE UNCHANGED vars  BY <1>6, <1>2 DEF vars, shared
<1>q. QED  BY <1>1, <1>2, <1>3, <1>4, <1>5, <1>6 DEF Next, Quiescent, Work

\* Every step keeps every variable in its type.
LEMMA TypeStep == ASSUME IInv, Next PROVE TypeOK'
<1>ppc. ppc \in [Puts -> {"new", "write", "lock", "enable", "choose", "spawn", "get", "done"}]
  BY DEF IInv, TypeOK
<1>sent. sent \in [Puts -> Config]  BY DEF IInv, TypeOK
<1>left. left \in [Puts -> SUBSET Fields]  BY DEF IInv, TypeOK
<1>config. config \in Config  BY DEF IInv, TypeOK
<1>nextHistoryID. nextHistoryID \in Nat  BY DEF IInv, TypeOK
<1>nextWorkloadID. nextWorkloadID \in Nat  BY DEF IInv, TypeOK
<1>cancelFunc. cancelFunc \in Puts \cup {Nil}  BY DEF IInv, TypeOK
<1>mu. mu \in Puts \cup {Nil}  BY DEF IInv, TypeOK
<1>wpc. wpc \in [Puts -> {"none", "start", "loop", "count", "generate", "report", "dequeue",
               "retry", "bye", "over", "exit", "stopped"}]  BY DEF IInv, TypeOK
<1>kind. kind \in [Puts -> {"none", "key", "memq"}]  BY DEF IInv, TypeOK
<1>id. id \in [Puts -> Nat]  BY DEF IInv, TypeOK
<1>c. c \in [Puts -> Config]  BY DEF IInv, TypeOK
<1>generated. generated \in [Puts -> Nat]  BY DEF IInv, TypeOK
<1>timeout. timeout \in [Puts -> BOOLEAN]  BY DEF IInv, TypeOK
<1>canceled. canceled \in [Puts -> BOOLEAN]  BY DEF IInv, TypeOK
<1>late. late \in [Puts -> Nat]  BY DEF IInv, TypeOK
<1>exited. exited \in Puts \cup {Nil}  BY DEF IInv, TypeOK
<1>history. history' \in Seq(Nat)  BY HistoryStep
<1>sub. Configs \subseteq Config  BY KeyGenAssumption
<1>1. ASSUME NEW p \in Puts,
             Put(p) \/ BadPut(p) \/ Handle(p) \/ Work(p) \/ Dequeue(p) \/ Expire(p)
      PROVE  TypeOK'
  <2>1. CASE Put(p)
    BY <2>1, <1>ppc, <1>sent, <1>left, <1>config, <1>nextHistoryID, <1>nextWorkloadID,
       <1>cancelFunc, <1>mu, <1>wpc, <1>kind, <1>id, <1>c, <1>generated,
       <1>timeout, <1>canceled, <1>late, <1>exited, <1>history, <1>sub
    DEF TypeOK, Put, Goto, shared, requests, work, Fields
  <2>2. CASE BadPut(p)
    BY <2>2, <1>ppc, <1>sent, <1>left, <1>config, <1>nextHistoryID, <1>nextWorkloadID,
       <1>cancelFunc, <1>mu, <1>wpc, <1>kind, <1>id, <1>c, <1>generated,
       <1>timeout, <1>canceled, <1>late, <1>exited, <1>history
    DEF TypeOK, BadPut, Goto, shared, requests, work
  <2>3. CASE WriteConfig(p)
    <3>1. PICK f \in left[p] :
            /\ Goto(p, "write", IF left[p] = {f} THEN "lock" ELSE "write")
            /\ left' = [left EXCEPT ![p] = @ \ {f}]
            /\ config' = [config EXCEPT ![f] = sent[p][f]]
            /\ UNCHANGED <<sent, history, nextHistoryID, nextWorkloadID, cancelFunc, mu, wpc,
                           work, generated, timeout, canceled, late, exited>>
      BY <2>3 DEF WriteConfig
    <3>2. f \in Fields  BY <1>left, <3>1
    <3>3. config' \in Config
      BY <3>1, <3>2, <1>config, <1>sent DEF Config, Fields
    <3>4. ppc' \in [Puts -> {"new", "write", "lock", "enable", "choose", "spawn", "get", "done"}]
      BY <3>1, <1>ppc DEF Goto
    <3>5. left' \in [Puts -> SUBSET Fields]
      BY <3>1, <1>left
    <3>q. QED
      BY <3>1, <3>3, <3>4, <3>5, <1>sent, <1>nextHistoryID, <1>nextWorkloadID,
         <1>cancelFunc, <1>mu, <1>wpc, <1>kind, <1>id, <1>c, <1>generated,
         <1>timeout, <1>canceled, <1>late, <1>exited, <1>history
      DEF TypeOK, work
  <2>4. CASE Cancel(p)
    BY <2>4, <1>ppc, <1>sent, <1>left, <1>config, <1>nextHistoryID, <1>nextWorkloadID,
       <1>cancelFunc, <1>mu, <1>wpc, <1>kind, <1>id, <1>c, <1>generated,
       <1>timeout, <1>canceled, <1>late, <1>exited, <1>history
    DEF TypeOK, Cancel, Goto, shared, requests, work
  <2>5. CASE Enable(p)
    BY <2>5, <1>ppc, <1>sent, <1>left, <1>config, <1>nextHistoryID, <1>nextWorkloadID,
       <1>cancelFunc, <1>mu, <1>wpc, <1>kind, <1>id, <1>c, <1>generated,
       <1>timeout, <1>canceled, <1>late, <1>exited, <1>history
    DEF TypeOK, Enable, Goto, shared, requests, work
  <2>6. CASE Choose(p)
    BY <2>6, <1>ppc, <1>sent, <1>left, <1>config, <1>nextHistoryID, <1>nextWorkloadID,
       <1>cancelFunc, <1>mu, <1>wpc, <1>kind, <1>id, <1>c, <1>generated,
       <1>timeout, <1>canceled, <1>late, <1>exited, <1>history
    DEF TypeOK, Choose, Goto, shared, requests, work
  <2>7. CASE Spawn(p)
    <3>1. c' \in [Puts -> Config]
      BY <2>7, <1>c, <1>config DEF Spawn, Goto, work, shared, requests
    <3>2. wpc' \in [Puts -> {"none", "start", "loop", "count", "generate", "report", "dequeue",
                   "retry", "bye", "over", "exit", "stopped"}]
      BY <2>7, <1>wpc DEF Spawn, Goto, work, shared, requests
    <3>3. id' \in [Puts -> Nat]
      BY <2>7, <1>id, <1>nextWorkloadID DEF Spawn, Goto, work, shared, requests
    <3>4. nextWorkloadID' \in Nat
      BY <2>7, <1>nextWorkloadID DEF Spawn, Goto, work, shared, requests
    <3>5. mu' \in Puts \cup {Nil}
      BY <2>7, <1>mu DEF Spawn, Goto, work, shared, requests
    <3>6. ppc' \in [Puts -> {"new", "write", "lock", "enable", "choose", "spawn", "get", "done"}]
      BY <2>7, <1>ppc DEF Spawn, Goto, work, shared, requests
    <3>q. QED
      BY <2>7, <3>1, <3>2, <3>3, <3>4, <3>5, <3>6, <1>sent, <1>left, <1>config,
         <1>nextHistoryID, <1>cancelFunc, <1>kind, <1>generated, <1>timeout,
         <1>canceled, <1>late, <1>exited, <1>history
      DEF TypeOK, Spawn, shared, requests, work
  <2>8. CASE Get(p)
    BY <2>8, <1>ppc, <1>sent, <1>left, <1>config, <1>nextHistoryID, <1>nextWorkloadID,
       <1>cancelFunc, <1>mu, <1>wpc, <1>kind, <1>id, <1>c, <1>generated,
       <1>timeout, <1>canceled, <1>late, <1>exited, <1>history
    DEF TypeOK, Get, Goto, shared, requests, work
  <2>9. CASE Start(p)
    BY <2>9, <1>ppc, <1>sent, <1>left, <1>config, <1>nextHistoryID, <1>nextWorkloadID,
       <1>cancelFunc, <1>mu, <1>wpc, <1>kind, <1>id, <1>c, <1>generated,
       <1>timeout, <1>canceled, <1>late, <1>exited, <1>history
    DEF TypeOK, Start, Say, Step, WorkloadOutput, shared, requests, work
  <2>10. CASE Report(p)
    BY <2>10, <1>ppc, <1>sent, <1>left, <1>config, <1>nextHistoryID, <1>nextWorkloadID,
       <1>cancelFunc, <1>mu, <1>wpc, <1>kind, <1>id, <1>c, <1>generated,
       <1>timeout, <1>canceled, <1>late, <1>exited, <1>history
    DEF TypeOK, Report, Say, Step, WorkloadOutput, shared, requests, work
  <2>11. CASE Retry(p)
    BY <2>11, <1>ppc, <1>sent, <1>left, <1>config, <1>nextHistoryID, <1>nextWorkloadID,
       <1>cancelFunc, <1>mu, <1>wpc, <1>kind, <1>id, <1>c, <1>generated,
       <1>timeout, <1>canceled, <1>late, <1>exited, <1>history
    DEF TypeOK, Retry, Say, Step, WorkloadOutput, shared, requests, work
  <2>12. CASE Bye(p)
    BY <2>12, <1>ppc, <1>sent, <1>left, <1>config, <1>nextHistoryID, <1>nextWorkloadID,
       <1>cancelFunc, <1>mu, <1>wpc, <1>kind, <1>id, <1>c, <1>generated,
       <1>timeout, <1>canceled, <1>late, <1>exited, <1>history
    DEF TypeOK, Bye, Say, Step, WorkloadOutput, shared, requests, work
  <2>13. CASE Over(p)
    BY <2>13, <1>ppc, <1>sent, <1>left, <1>config, <1>nextHistoryID, <1>nextWorkloadID,
       <1>cancelFunc, <1>mu, <1>wpc, <1>kind, <1>id, <1>c, <1>generated,
       <1>timeout, <1>canceled, <1>late, <1>exited, <1>history
    DEF TypeOK, Over, Say, Step, WorkloadOutput, shared, requests, work
  <2>14. CASE Select(p) \/ Count(p)
    BY <2>14, <1>ppc, <1>sent, <1>left, <1>config, <1>nextHistoryID, <1>nextWorkloadID,
       <1>cancelFunc, <1>mu, <1>wpc, <1>kind, <1>id, <1>c, <1>generated,
       <1>timeout, <1>canceled, <1>late, <1>exited, <1>history
    DEF TypeOK, Select, Look, Step, Count, shared, requests, work
  <2>15. CASE Generate(p)
    <3>1. wpc' \in [Puts -> {"none", "start", "loop", "count", "generate", "report", "dequeue",
                   "retry", "bye", "over", "exit", "stopped"}]
      BY <2>15, <1>wpc DEF Generate, Step, work, shared, requests
    <3>2. generated' \in [Puts -> Nat]
      BY <2>15, <1>generated DEF Generate, Step, work, shared, requests
    <3>3. late' \in [Puts -> Nat]
      BY <2>15, <1>late DEF Generate, Step, work, shared, requests
    <3>q. QED
      BY <2>15, <3>1, <3>2, <3>3, <1>ppc, <1>sent, <1>left, <1>config, <1>nextHistoryID,
         <1>nextWorkloadID, <1>cancelFunc, <1>mu, <1>kind, <1>id, <1>c, <1>timeout,
         <1>canceled, <1>exited, <1>history
      DEF TypeOK, Generate, shared, requests, work
  <2>16. CASE Dequeue(p)
    <3>1. wpc' \in [Puts -> {"none", "start", "loop", "count", "generate", "report", "dequeue",
                   "retry", "bye", "over", "exit", "stopped"}]
      BY <2>16, <1>wpc DEF Dequeue, Step, work, shared, requests
    <3>2. generated' \in [Puts -> Nat]
      BY <2>16, <1>generated DEF Dequeue, Step, work, shared, requests
    <3>q. QED
      BY <2>16, <3>1, <3>2, <1>ppc, <1>sent, <1>left, <1>config, <1>nextHistoryID,
         <1>nextWorkloadID, <1>cancelFunc, <1>mu, <1>kind, <1>id, <1>c, <1>timeout,
         <1>canceled, <1>late, <1>exited, <1>history
      DEF TypeOK, Dequeue, shared, requests, work
  <2>17. CASE Expire(p)
    BY <2>17, <1>ppc, <1>sent, <1>left, <1>config, <1>nextHistoryID, <1>nextWorkloadID,
       <1>cancelFunc, <1>mu, <1>wpc, <1>kind, <1>id, <1>c, <1>generated,
       <1>timeout, <1>canceled, <1>late, <1>exited, <1>history
    DEF TypeOK, Expire, shared, requests, work
  <2>18. CASE Exit(p)
    BY <2>18, <1>ppc, <1>sent, <1>left, <1>config, <1>nextHistoryID, <1>nextWorkloadID,
       <1>cancelFunc, <1>mu, <1>wpc, <1>kind, <1>id, <1>c, <1>generated,
       <1>timeout, <1>canceled, <1>late, <1>exited, <1>history
    DEF TypeOK, Exit, Step, shared, requests, work
  <2>q. QED
    BY <1>1, <2>1, <2>2, <2>3, <2>4, <2>5, <2>6, <2>7, <2>8, <2>9, <2>10, <2>11,
       <2>12, <2>13, <2>14, <2>15, <2>16, <2>17, <2>18
    DEF Handle, Work
<1>2. CASE UNCHANGED vars
  BY <1>2, <1>ppc, <1>sent, <1>left, <1>config, <1>nextHistoryID, <1>nextWorkloadID,
     <1>cancelFunc, <1>mu, <1>wpc, <1>kind, <1>id, <1>c, <1>generated, <1>timeout,
     <1>canceled, <1>late, <1>exited, <1>history
  DEF vars, TypeOK, shared, requests, work
<1>q. QED  BY <1>1, <1>2 DEF Next, Quiescent

\* The lock is held by the goroutine in Restart's critical section, and by no other.
LEMMA LockOKStep == ASSUME IInv, Next PROVE LockOK'
<1>ppc. ppc \in [Puts -> {"new", "write", "lock", "enable", "choose", "spawn", "get", "done"}]
  BY DEF IInv, TypeOK
<1>mu. mu \in Puts \cup {Nil}  BY DEF IInv, TypeOK
<1>H. LockOK  BY DEF IInv
<1>N. Nil \notin Puts  BY KeyGenAssumption
<1>1. ASSUME Alive, NEW p \in Puts,
             Put(p) \/ BadPut(p) \/ Handle(p) \/ Work(p) \/ Dequeue(p) \/ Expire(p)
      PROVE  LockOK'
  <2>1. CASE Put(p)
    BY <1>1, <2>1, <1>ppc, <1>mu, <1>H, <1>N
    DEF Put, Goto, shared, requests, work, LockOK, InRestart
  <2>2. CASE BadPut(p)
    BY <1>1, <2>2, <1>ppc, <1>mu, <1>H, <1>N
    DEF BadPut, Goto, shared, requests, work, LockOK, InRestart
  <2>3. CASE WriteConfig(p)
    BY <1>1, <2>3, <1>ppc, <1>mu, <1>H, <1>N
    DEF WriteConfig, Goto, shared, requests, work, LockOK, InRestart
  <2>4. CASE Cancel(p)
    BY <1>1, <2>4, <1>ppc, <1>mu, <1>H, <1>N
    DEF Cancel, Goto, shared, requests, work, LockOK, InRestart
  <2>5. CASE Enable(p)
    BY <1>1, <2>5, <1>ppc, <1>mu, <1>H, <1>N
    DEF Enable, Goto, shared, requests, work, LockOK, InRestart
  <2>6. CASE Choose(p)
    BY <1>1, <2>6, <1>ppc, <1>mu, <1>H, <1>N
    DEF Choose, Goto, shared, requests, work, LockOK, InRestart
  <2>7. CASE Spawn(p)
    BY <1>1, <2>7, <1>ppc, <1>mu, <1>H, <1>N
    DEF Spawn, Goto, shared, requests, work, LockOK, InRestart
  <2>8. CASE Get(p)
    BY <1>1, <2>8, <1>ppc, <1>mu, <1>H, <1>N
    DEF Get, Goto, shared, requests, work, LockOK, InRestart
  <2>9. CASE Start(p) \/ Report(p) \/ Retry(p) \/ Bye(p) \/ Over(p) \/ Select(p) \/
          Count(p) \/ Generate(p) \/ Dequeue(p) \/ Expire(p) \/ Exit(p)
    <3>1. UNCHANGED <<ppc, mu>>
      BY <2>9 DEF Start, Say, Step, WorkloadOutput, Report, Retry, Bye, Over, Select, Look,
         Count, Generate, Dequeue, Expire, Exit, shared, requests, work
    <3>q. QED  BY <3>1, <1>H DEF LockOK, InRestart
  <2>q. QED
    BY <1>1, <2>1, <2>2, <2>3, <2>4, <2>5, <2>6, <2>7, <2>8, <2>9
    DEF Handle, Work
<1>2. CASE UNCHANGED vars
  BY <1>2, <1>H DEF vars, shared, requests, work, LockOK, InRestart
<1>q. QED  BY <1>1, <1>2 DEF Next, Quiescent

\* What a worker has follows from how far its PUT and it have come.
LEMMA WorkerOKStep == ASSUME IInv, Next PROVE WorkerOK'
<1>ppc. ppc \in [Puts -> {"new", "write", "lock", "enable", "choose", "spawn", "get", "done"}]
  BY DEF IInv, TypeOK
<1>mu. mu \in Puts \cup {Nil}  BY DEF IInv, TypeOK
<1>wpc. wpc \in [Puts -> {"none", "start", "loop", "count", "generate", "report", "dequeue",
               "retry", "bye", "over", "exit", "stopped"}]  BY DEF IInv, TypeOK
<1>kind. kind \in [Puts -> {"none", "key", "memq"}]  BY DEF IInv, TypeOK
<1>generated. generated \in [Puts -> Nat]  BY DEF IInv, TypeOK
<1>canceled. canceled \in [Puts -> BOOLEAN]  BY DEF IInv, TypeOK
<1>timeout. timeout \in [Puts -> BOOLEAN]  BY DEF IInv, TypeOK
<1>cancelFunc. cancelFunc \in Puts \cup {Nil}  BY DEF IInv, TypeOK
<1>H. WorkerOK /\ CancelFuncOK /\ LockOK  BY DEF IInv
<1>N. Nil \notin Puts  BY KeyGenAssumption
<1>1. ASSUME Alive, NEW p \in Puts,
             Put(p) \/ BadPut(p) \/ Handle(p) \/ Work(p) \/ Dequeue(p) \/ Expire(p)
      PROVE  WorkerOK'
  <2>1. CASE Put(p)
    BY <1>1, <2>1, <1>ppc, <1>mu, <1>wpc, <1>kind, <1>generated, <1>canceled,
       <1>timeout, <1>cancelFunc, <1>H, <1>N
    DEF Put, Goto, shared, requests, work, WorkerOK, CancelFuncOK, LockOK,
        InRestart
  <2>2. CASE BadPut(p)
    BY <1>1, <2>2, <1>ppc, <1>mu, <1>wpc, <1>kind, <1>generated, <1>canceled,
       <1>timeout, <1>cancelFunc, <1>H, <1>N
    DEF BadPut, Goto, shared, requests, work, WorkerOK, CancelFuncOK, LockOK,
        InRestart
  <2>3. CASE WriteConfig(p)
    BY <1>1, <2>3, <1>ppc, <1>mu, <1>wpc, <1>kind, <1>generated, <1>canceled,
       <1>timeout, <1>cancelFunc, <1>H, <1>N
    DEF WriteConfig, Goto, shared, requests, work, WorkerOK, CancelFuncOK, LockOK,
        InRestart
  <2>4. CASE Cancel(p)
    BY <1>1, <2>4, <1>ppc, <1>mu, <1>wpc, <1>kind, <1>generated, <1>canceled,
       <1>timeout, <1>cancelFunc, <1>H, <1>N
    DEF Cancel, Goto, shared, requests, work, WorkerOK, CancelFuncOK, LockOK,
        InRestart
  <2>5. CASE Enable(p)
    BY <1>1, <2>5, <1>ppc, <1>mu, <1>wpc, <1>kind, <1>generated, <1>canceled,
       <1>timeout, <1>cancelFunc, <1>H, <1>N
    DEF Enable, Goto, shared, requests, work, WorkerOK, CancelFuncOK, LockOK,
        InRestart
  <2>6. CASE Choose(p)
    BY <1>1, <2>6, <1>ppc, <1>mu, <1>wpc, <1>kind, <1>generated, <1>canceled,
       <1>timeout, <1>cancelFunc, <1>H, <1>N
    DEF Choose, Goto, shared, requests, work, WorkerOK, CancelFuncOK, LockOK,
        InRestart
  <2>7. CASE Spawn(p)
    BY <1>1, <2>7, <1>ppc, <1>mu, <1>wpc, <1>kind, <1>generated, <1>canceled,
       <1>timeout, <1>cancelFunc, <1>H, <1>N
    DEF Spawn, Goto, shared, requests, work, WorkerOK, CancelFuncOK, LockOK,
        InRestart
  <2>8. CASE Get(p)
    BY <1>1, <2>8, <1>ppc, <1>mu, <1>wpc, <1>kind, <1>generated, <1>canceled,
       <1>timeout, <1>cancelFunc, <1>H, <1>N
    DEF Get, Goto, shared, requests, work, WorkerOK, CancelFuncOK, LockOK,
        InRestart
  <2>9. CASE Start(p)
    BY <1>1, <2>9, <1>ppc, <1>mu, <1>wpc, <1>kind, <1>generated, <1>canceled,
       <1>timeout, <1>cancelFunc, <1>H, <1>N
    DEF Start, Say, Step, WorkloadOutput, shared, requests, work, WorkerOK,
        CancelFuncOK, LockOK, InRestart
  <2>10. CASE Report(p)
    BY <1>1, <2>10, <1>ppc, <1>mu, <1>wpc, <1>kind, <1>generated, <1>canceled,
       <1>timeout, <1>cancelFunc, <1>H, <1>N
    DEF Report, Say, Step, WorkloadOutput, shared, requests, work, WorkerOK,
        CancelFuncOK, LockOK, InRestart
  <2>11. CASE Retry(p)
    BY <1>1, <2>11, <1>ppc, <1>mu, <1>wpc, <1>kind, <1>generated, <1>canceled,
       <1>timeout, <1>cancelFunc, <1>H, <1>N
    DEF Retry, Say, Step, WorkloadOutput, shared, requests, work, WorkerOK,
        CancelFuncOK, LockOK, InRestart
  <2>12. CASE Bye(p)
    BY <1>1, <2>12, <1>ppc, <1>mu, <1>wpc, <1>kind, <1>generated, <1>canceled,
       <1>timeout, <1>cancelFunc, <1>H, <1>N
    DEF Bye, Say, Step, WorkloadOutput, shared, requests, work, WorkerOK,
        CancelFuncOK, LockOK, InRestart
  <2>13. CASE Over(p)
    BY <1>1, <2>13, <1>ppc, <1>mu, <1>wpc, <1>kind, <1>generated, <1>canceled,
       <1>timeout, <1>cancelFunc, <1>H, <1>N
    DEF Over, Say, Step, WorkloadOutput, shared, requests, work, WorkerOK,
        CancelFuncOK, LockOK, InRestart
  <2>14. CASE Select(p)
    BY <1>1, <2>14, <1>ppc, <1>mu, <1>wpc, <1>kind, <1>generated, <1>canceled,
       <1>timeout, <1>cancelFunc, <1>H, <1>N
    DEF Select, Look, Step, shared, requests, work, WorkerOK, CancelFuncOK, LockOK,
        InRestart
  <2>15. CASE Count(p)
    BY <1>1, <2>15, <1>ppc, <1>mu, <1>wpc, <1>kind, <1>generated, <1>canceled,
       <1>timeout, <1>cancelFunc, <1>H, <1>N
    DEF Count, Look, Step, shared, requests, work, WorkerOK, CancelFuncOK, LockOK,
        InRestart
  <2>16. CASE Generate(p)
    BY <1>1, <2>16, <1>ppc, <1>mu, <1>wpc, <1>kind, <1>generated, <1>canceled,
       <1>timeout, <1>cancelFunc, <1>H, <1>N
    DEF Generate, Step, shared, requests, work, WorkerOK, CancelFuncOK, LockOK,
        InRestart
  <2>17. CASE Dequeue(p)
    BY <1>1, <2>17, <1>ppc, <1>mu, <1>wpc, <1>kind, <1>generated, <1>canceled,
       <1>timeout, <1>cancelFunc, <1>H, <1>N
    DEF Dequeue, Step, shared, requests, work, WorkerOK, CancelFuncOK, LockOK,
        InRestart
  <2>18. CASE Expire(p)
    BY <1>1, <2>18, <1>ppc, <1>mu, <1>wpc, <1>kind, <1>generated, <1>canceled,
       <1>timeout, <1>cancelFunc, <1>H, <1>N
    DEF Expire, shared, requests, work, WorkerOK, CancelFuncOK, LockOK, InRestart
  <2>19. CASE Exit(p)
    BY <1>1, <2>19, <1>ppc, <1>mu, <1>wpc, <1>kind, <1>generated, <1>canceled,
       <1>timeout, <1>cancelFunc, <1>H, <1>N
    DEF Exit, Step, shared, requests, work, WorkerOK, CancelFuncOK, LockOK,
        InRestart
  <2>q. QED
    BY <1>1, <2>1, <2>2, <2>3, <2>4, <2>5, <2>6, <2>7, <2>8, <2>9, <2>10, <2>11,
       <2>12, <2>13, <2>14, <2>15, <2>16, <2>17, <2>18, <2>19
    DEF Handle, Work
<1>2. CASE UNCHANGED vars
  BY <1>2, <1>H DEF vars, shared, requests, work, WorkerOK, CancelFuncOK, LockOK, InRestart
<1>q. QED  BY <1>1, <1>2 DEF Next, Quiescent

\* The cancel function is nil, or the one of a worker that runs or is about to.
LEMMA CancelFuncOKStep == ASSUME IInv, Next PROVE CancelFuncOK'
<1>ppc. ppc \in [Puts -> {"new", "write", "lock", "enable", "choose", "spawn", "get", "done"}]
  BY DEF IInv, TypeOK
<1>wpc. wpc \in [Puts -> {"none", "start", "loop", "count", "generate", "report", "dequeue",
               "retry", "bye", "over", "exit", "stopped"}]  BY DEF IInv, TypeOK
<1>cancelFunc. cancelFunc \in Puts \cup {Nil}  BY DEF IInv, TypeOK
<1>mu. mu \in Puts \cup {Nil}  BY DEF IInv, TypeOK
<1>H. CancelFuncOK /\ WorkerOK /\ LockOK  BY DEF IInv
<1>N. Nil \notin Puts  BY KeyGenAssumption
<1>1. ASSUME Alive, NEW p \in Puts,
             Put(p) \/ BadPut(p) \/ Handle(p) \/ Work(p) \/ Dequeue(p) \/ Expire(p)
      PROVE  CancelFuncOK'
  <2>1. CASE Put(p)
    BY <1>1, <2>1, <1>ppc, <1>wpc, <1>cancelFunc, <1>mu, <1>H, <1>N
    DEF Put, Goto, shared, requests, work, CancelFuncOK, WorkerOK, LockOK,
        InRestart
  <2>2. CASE BadPut(p)
    BY <1>1, <2>2, <1>ppc, <1>wpc, <1>cancelFunc, <1>mu, <1>H, <1>N
    DEF BadPut, Goto, shared, requests, work, CancelFuncOK, WorkerOK, LockOK,
        InRestart
  <2>3. CASE WriteConfig(p)
    BY <1>1, <2>3, <1>ppc, <1>wpc, <1>cancelFunc, <1>mu, <1>H, <1>N
    DEF WriteConfig, Goto, shared, requests, work, CancelFuncOK, WorkerOK, LockOK,
        InRestart
  <2>4. CASE Cancel(p)
    BY <1>1, <2>4, <1>ppc, <1>wpc, <1>cancelFunc, <1>mu, <1>H, <1>N
    DEF Cancel, Goto, shared, requests, work, CancelFuncOK, WorkerOK, LockOK,
        InRestart
  <2>5. CASE Enable(p)
    BY <1>1, <2>5, <1>ppc, <1>wpc, <1>cancelFunc, <1>mu, <1>H, <1>N
    DEF Enable, Goto, shared, requests, work, CancelFuncOK, WorkerOK, LockOK,
        InRestart
  <2>6. CASE Choose(p)
    BY <1>1, <2>6, <1>ppc, <1>wpc, <1>cancelFunc, <1>mu, <1>H, <1>N
    DEF Choose, Goto, shared, requests, work, CancelFuncOK, WorkerOK, LockOK,
        InRestart
  <2>7. CASE Spawn(p)
    BY <1>1, <2>7, <1>ppc, <1>wpc, <1>cancelFunc, <1>mu, <1>H, <1>N
    DEF Spawn, Goto, shared, requests, work, CancelFuncOK, WorkerOK, LockOK,
        InRestart
  <2>8. CASE Get(p)
    BY <1>1, <2>8, <1>ppc, <1>wpc, <1>cancelFunc, <1>mu, <1>H, <1>N
    DEF Get, Goto, shared, requests, work, CancelFuncOK, WorkerOK, LockOK,
        InRestart
  <2>9. CASE Start(p)
    BY <1>1, <2>9, <1>ppc, <1>wpc, <1>cancelFunc, <1>mu, <1>H, <1>N
    DEF Start, Say, Step, WorkloadOutput, shared, requests, work, CancelFuncOK,
        WorkerOK, LockOK, InRestart
  <2>10. CASE Report(p)
    BY <1>1, <2>10, <1>ppc, <1>wpc, <1>cancelFunc, <1>mu, <1>H, <1>N
    DEF Report, Say, Step, WorkloadOutput, shared, requests, work, CancelFuncOK,
        WorkerOK, LockOK, InRestart
  <2>11. CASE Retry(p)
    BY <1>1, <2>11, <1>ppc, <1>wpc, <1>cancelFunc, <1>mu, <1>H, <1>N
    DEF Retry, Say, Step, WorkloadOutput, shared, requests, work, CancelFuncOK,
        WorkerOK, LockOK, InRestart
  <2>12. CASE Bye(p)
    BY <1>1, <2>12, <1>ppc, <1>wpc, <1>cancelFunc, <1>mu, <1>H, <1>N
    DEF Bye, Say, Step, WorkloadOutput, shared, requests, work, CancelFuncOK,
        WorkerOK, LockOK, InRestart
  <2>13. CASE Over(p)
    BY <1>1, <2>13, <1>ppc, <1>wpc, <1>cancelFunc, <1>mu, <1>H, <1>N
    DEF Over, Say, Step, WorkloadOutput, shared, requests, work, CancelFuncOK,
        WorkerOK, LockOK, InRestart
  <2>14. CASE Select(p)
    BY <1>1, <2>14, <1>ppc, <1>wpc, <1>cancelFunc, <1>mu, <1>H, <1>N
    DEF Select, Look, Step, shared, requests, work, CancelFuncOK, WorkerOK, LockOK,
        InRestart
  <2>15. CASE Count(p)
    BY <1>1, <2>15, <1>ppc, <1>wpc, <1>cancelFunc, <1>mu, <1>H, <1>N
    DEF Count, Look, Step, shared, requests, work, CancelFuncOK, WorkerOK, LockOK,
        InRestart
  <2>16. CASE Generate(p)
    BY <1>1, <2>16, <1>ppc, <1>wpc, <1>cancelFunc, <1>mu, <1>H, <1>N
    DEF Generate, Step, shared, requests, work, CancelFuncOK, WorkerOK, LockOK,
        InRestart
  <2>17. CASE Dequeue(p)
    BY <1>1, <2>17, <1>ppc, <1>wpc, <1>cancelFunc, <1>mu, <1>H, <1>N
    DEF Dequeue, Step, shared, requests, work, CancelFuncOK, WorkerOK, LockOK,
        InRestart
  <2>18. CASE Exit(p)
    BY <1>1, <2>18, <1>ppc, <1>wpc, <1>cancelFunc, <1>mu, <1>H, <1>N
    DEF Exit, Step, shared, requests, work, CancelFuncOK, WorkerOK, LockOK,
        InRestart
  <2>19. CASE Expire(p)
    <3>1. UNCHANGED <<ppc, wpc, cancelFunc, mu>>
      BY <2>19 DEF Expire, shared, requests, work
    <3>q. QED  BY <3>1, <1>H DEF CancelFuncOK, InRestart
  <2>q. QED
    BY <1>1, <2>1, <2>2, <2>3, <2>4, <2>5, <2>6, <2>7, <2>8, <2>9, <2>10, <2>11,
       <2>12, <2>13, <2>14, <2>15, <2>16, <2>17, <2>18, <2>19
    DEF Handle, Work
<1>2. CASE UNCHANGED vars
  BY <1>2, <1>H DEF vars, shared, requests, work, CancelFuncOK, WorkerOK, LockOK, InRestart
<1>q. QED  BY <1>1, <1>2 DEF Next, Quiescent

\* A workload goes on only below its limit, and is over only at it or out of time.
LEMMA CountOKStep == ASSUME IInv, Next PROVE CountOK'
<1>wpc. wpc \in [Puts -> {"none", "start", "loop", "count", "generate", "report", "dequeue",
               "retry", "bye", "over", "exit", "stopped"}]  BY DEF IInv, TypeOK
<1>kind. kind \in [Puts -> {"none", "key", "memq"}]  BY DEF IInv, TypeOK
<1>c. c \in [Puts -> Config]  BY DEF IInv, TypeOK
<1>generated. generated \in [Puts -> Nat]  BY DEF IInv, TypeOK
<1>timeout. timeout \in [Puts -> BOOLEAN]  BY DEF IInv, TypeOK
<1>H. CountOK /\ WorkerOK /\ LimitKept  BY DEF IInv
<1>num. \A w \in Puts : c[w].num \in Nat  BY <1>c DEF Config
<1>N. Nil \notin Puts  BY KeyGenAssumption
<1>1. ASSUME Alive, NEW p \in Puts,
             Put(p) \/ BadPut(p) \/ Handle(p) \/ Work(p) \/ Dequeue(p) \/ Expire(p)
      PROVE  CountOK'
  <2>1. CASE Choose(p)
    BY <1>1, <2>1, <1>wpc, <1>kind, <1>c, <1>generated, <1>timeout, <1>num, <1>H, <1>N
    DEF Choose, Goto, shared, requests, work, CountOK, WorkerOK, LimitKept
  <2>2. CASE Spawn(p)
    BY <1>1, <2>2, <1>wpc, <1>kind, <1>c, <1>generated, <1>timeout, <1>num, <1>H, <1>N
    DEF Spawn, Goto, shared, requests, work, CountOK, WorkerOK, LimitKept
  <2>3. CASE Start(p)
    BY <1>1, <2>3, <1>wpc, <1>kind, <1>c, <1>generated, <1>timeout, <1>num, <1>H, <1>N
    DEF Start, Say, Step, WorkloadOutput, shared, requests, work, CountOK,
        WorkerOK, LimitKept
  <2>4. CASE Report(p)
    BY <1>1, <2>4, <1>wpc, <1>kind, <1>c, <1>generated, <1>timeout, <1>num, <1>H, <1>N
    DEF Report, Say, Step, WorkloadOutput, shared, requests, work, CountOK,
        WorkerOK, LimitKept
  <2>5. CASE Retry(p)
    BY <1>1, <2>5, <1>wpc, <1>kind, <1>c, <1>generated, <1>timeout, <1>num, <1>H, <1>N
    DEF Retry, Say, Step, WorkloadOutput, shared, requests, work, CountOK,
        WorkerOK, LimitKept
  <2>6. CASE Bye(p)
    BY <1>1, <2>6, <1>wpc, <1>kind, <1>c, <1>generated, <1>timeout, <1>num, <1>H, <1>N
    DEF Bye, Say, Step, WorkloadOutput, shared, requests, work, CountOK, WorkerOK,
        LimitKept
  <2>7. CASE Over(p)
    BY <1>1, <2>7, <1>wpc, <1>kind, <1>c, <1>generated, <1>timeout, <1>num, <1>H, <1>N
    DEF Over, Say, Step, WorkloadOutput, shared, requests, work, CountOK, WorkerOK,
        LimitKept
  <2>8. CASE Select(p)
    BY <1>1, <2>8, <1>wpc, <1>kind, <1>c, <1>generated, <1>timeout, <1>num, <1>H, <1>N
    DEF Select, Look, Step, shared, requests, work, CountOK, WorkerOK, LimitKept
  <2>9. CASE Count(p)
    BY <1>1, <2>9, <1>wpc, <1>kind, <1>c, <1>generated, <1>timeout, <1>num, <1>H, <1>N
    DEF Count, Look, Step, shared, requests, work, CountOK, WorkerOK, LimitKept
  <2>10. CASE Generate(p)
    BY <1>1, <2>10, <1>wpc, <1>kind, <1>c, <1>generated, <1>timeout, <1>num, <1>H, <1>N
    DEF Generate, Step, shared, requests, work, CountOK, WorkerOK, LimitKept
  <2>11. CASE Dequeue(p)
    BY <1>1, <2>11, <1>wpc, <1>kind, <1>c, <1>generated, <1>timeout, <1>num, <1>H, <1>N
    DEF Dequeue, Step, shared, requests, work, CountOK, WorkerOK, LimitKept
  <2>12. CASE Expire(p)
    BY <1>1, <2>12, <1>wpc, <1>kind, <1>c, <1>generated, <1>timeout, <1>num, <1>H, <1>N
    DEF Expire, shared, requests, work, CountOK, WorkerOK, LimitKept
  <2>13. CASE Exit(p)
    BY <1>1, <2>13, <1>wpc, <1>kind, <1>c, <1>generated, <1>timeout, <1>num, <1>H, <1>N
    DEF Exit, Step, shared, requests, work, CountOK, WorkerOK, LimitKept
  <2>14. CASE Put(p) \/ BadPut(p) \/ WriteConfig(p) \/ Cancel(p) \/ Enable(p) \/ Get(p)
    <3>1. UNCHANGED <<wpc, kind, c, generated, timeout>>
      BY <2>14 DEF Put, Goto, BadPut, WriteConfig, Cancel, Enable, Get, shared, requests,
         work
    <3>q. QED  BY <3>1, <1>H DEF CountOK
  <2>q. QED
    BY <1>1, <2>1, <2>2, <2>3, <2>4, <2>5, <2>6, <2>7, <2>8, <2>9, <2>10, <2>11,
       <2>12, <2>13, <2>14
    DEF Handle, Work
<1>2. CASE UNCHANGED vars
  BY <1>2, <1>H DEF vars, shared, requests, work, CountOK, WorkerOK, LimitKept
<1>q. QED  BY <1>1, <1>2 DEF Next, Quiescent

\* A cancelled worker that generated one more key generates no second one.
LEMMA LateOKStep == ASSUME IInv, Next PROVE LateOK'
<1>wpc. wpc \in [Puts -> {"none", "start", "loop", "count", "generate", "report", "dequeue",
               "retry", "bye", "over", "exit", "stopped"}]  BY DEF IInv, TypeOK
<1>late. late \in [Puts -> Nat]  BY DEF IInv, TypeOK
<1>canceled. canceled \in [Puts -> BOOLEAN]  BY DEF IInv, TypeOK
<1>H. LateOK /\ WorkerOK  BY DEF IInv
<1>N. Nil \notin Puts  BY KeyGenAssumption
<1>1. ASSUME Alive, NEW p \in Puts,
             Put(p) \/ BadPut(p) \/ Handle(p) \/ Work(p) \/ Dequeue(p) \/ Expire(p)
      PROVE  LateOK'
  <2>1. CASE Cancel(p)
    BY <1>1, <2>1, <1>wpc, <1>late, <1>canceled, <1>H, <1>N
    DEF Cancel, Goto, shared, requests, work, LateOK, WorkerOK
  <2>2. CASE Spawn(p)
    BY <1>1, <2>2, <1>wpc, <1>late, <1>canceled, <1>H, <1>N
    DEF Spawn, Goto, shared, requests, work, LateOK, WorkerOK
  <2>3. CASE Start(p)
    BY <1>1, <2>3, <1>wpc, <1>late, <1>canceled, <1>H, <1>N
    DEF Start, Say, Step, WorkloadOutput, shared, requests, work, LateOK, WorkerOK
  <2>4. CASE Report(p)
    BY <1>1, <2>4, <1>wpc, <1>late, <1>canceled, <1>H, <1>N
    DEF Report, Say, Step, WorkloadOutput, shared, requests, work, LateOK, WorkerOK
  <2>5. CASE Retry(p)
    BY <1>1, <2>5, <1>wpc, <1>late, <1>canceled, <1>H, <1>N
    DEF Retry, Say, Step, WorkloadOutput, shared, requests, work, LateOK, WorkerOK
  <2>6. CASE Bye(p)
    BY <1>1, <2>6, <1>wpc, <1>late, <1>canceled, <1>H, <1>N
    DEF Bye, Say, Step, WorkloadOutput, shared, requests, work, LateOK, WorkerOK
  <2>7. CASE Over(p)
    BY <1>1, <2>7, <1>wpc, <1>late, <1>canceled, <1>H, <1>N
    DEF Over, Say, Step, WorkloadOutput, shared, requests, work, LateOK, WorkerOK
  <2>8. CASE Select(p)
    BY <1>1, <2>8, <1>wpc, <1>late, <1>canceled, <1>H, <1>N
    DEF Select, Look, Step, shared, requests, work, LateOK, WorkerOK
  <2>9. CASE Count(p)
    BY <1>1, <2>9, <1>wpc, <1>late, <1>canceled, <1>H, <1>N
    DEF Count, Look, Step, shared, requests, work, LateOK, WorkerOK
  <2>10. CASE Generate(p)
    BY <1>1, <2>10, <1>wpc, <1>late, <1>canceled, <1>H, <1>N
    DEF Generate, Step, shared, requests, work, LateOK, WorkerOK
  <2>11. CASE Dequeue(p)
    BY <1>1, <2>11, <1>wpc, <1>late, <1>canceled, <1>H, <1>N
    DEF Dequeue, Step, shared, requests, work, LateOK, WorkerOK
  <2>12. CASE Exit(p)
    BY <1>1, <2>12, <1>wpc, <1>late, <1>canceled, <1>H, <1>N
    DEF Exit, Step, shared, requests, work, LateOK, WorkerOK
  <2>13. CASE Put(p) \/ BadPut(p) \/ WriteConfig(p) \/ Enable(p) \/ Choose(p) \/
          Get(p) \/ Expire(p)
    <3>1. UNCHANGED <<wpc, late, canceled>>
      BY <2>13 DEF Put, Goto, BadPut, WriteConfig, Enable, Choose, Get, Expire, shared,
         requests, work
    <3>q. QED  BY <3>1, <1>H DEF LateOK
  <2>q. QED
    BY <1>1, <2>1, <2>2, <2>3, <2>4, <2>5, <2>6, <2>7, <2>8, <2>9, <2>10, <2>11, <2>12, <2>13
    DEF Handle, Work
<1>2. CASE UNCHANGED vars
  BY <1>2, <1>H DEF vars, shared, requests, work, LateOK, WorkerOK
<1>q. QED  BY <1>1, <1>2 DEF Next, Quiescent

\* Restart brings the worker in line with the config, once nobody writes it.
LEMMA SettlingOKStep == ASSUME IInv, Next PROVE SettlingOK'
<1>ppc. ppc \in [Puts -> {"new", "write", "lock", "enable", "choose", "spawn", "get", "done"}]
  BY DEF IInv, TypeOK
<1>mu. mu \in Puts \cup {Nil}  BY DEF IInv, TypeOK
<1>cancelFunc. cancelFunc \in Puts \cup {Nil}  BY DEF IInv, TypeOK
<1>kind. kind \in [Puts -> {"none", "key", "memq"}]  BY DEF IInv, TypeOK
<1>c. c \in [Puts -> Config]  BY DEF IInv, TypeOK
<1>config. config \in Config  BY DEF IInv, TypeOK
<1>H. SettlingOK /\ LockOK /\ CancelFuncOK /\ WorkerOK  BY DEF IInv
<1>num. \A w \in Puts : c[w].num \in Nat  BY <1>c DEF Config
<1>enable. config.enable \in BOOLEAN  BY <1>config DEF Config
<1>N. Nil \notin Puts  BY KeyGenAssumption
<1>1. ASSUME Alive, NEW p \in Puts,
             Put(p) \/ BadPut(p) \/ Handle(p) \/ Work(p) \/ Dequeue(p) \/ Expire(p)
      PROVE  SettlingOK'
  <2>1. CASE Put(p)
    BY <1>1, <2>1, <1>ppc, <1>mu, <1>cancelFunc, <1>kind, <1>c, <1>config, <1>num,
       <1>enable, <1>H, <1>N
    DEF Put, Goto, shared, requests, work, SettlingOK, LockOK, CancelFuncOK,
        WorkerOK, InRestart
  <2>2. CASE BadPut(p)
    BY <1>1, <2>2, <1>ppc, <1>mu, <1>cancelFunc, <1>kind, <1>c, <1>config, <1>num,
       <1>enable, <1>H, <1>N
    DEF BadPut, Goto, shared, requests, work, SettlingOK, LockOK, CancelFuncOK,
        WorkerOK, InRestart
  <2>3. CASE WriteConfig(p)
    BY <1>1, <2>3, <1>ppc, <1>mu, <1>cancelFunc, <1>kind, <1>c, <1>config, <1>num,
       <1>enable, <1>H, <1>N
    DEF WriteConfig, Goto, shared, requests, work, SettlingOK, LockOK,
        CancelFuncOK, WorkerOK, InRestart
  <2>4. CASE Cancel(p)
    BY <1>1, <2>4, <1>ppc, <1>mu, <1>cancelFunc, <1>kind, <1>c, <1>config, <1>num,
       <1>enable, <1>H, <1>N
    DEF Cancel, Goto, shared, requests, work, SettlingOK, LockOK, CancelFuncOK,
        WorkerOK, InRestart
  <2>5. CASE Enable(p)
    BY <1>1, <2>5, <1>ppc, <1>mu, <1>cancelFunc, <1>kind, <1>c, <1>config, <1>num,
       <1>enable, <1>H, <1>N
    DEF Enable, Goto, shared, requests, work, SettlingOK, LockOK, CancelFuncOK,
        WorkerOK, InRestart
  <2>6. CASE Choose(p)
    BY <1>1, <2>6, <1>ppc, <1>mu, <1>cancelFunc, <1>kind, <1>c, <1>config, <1>num,
       <1>enable, <1>H, <1>N
    DEF Choose, Goto, shared, requests, work, SettlingOK, LockOK, CancelFuncOK,
        WorkerOK, InRestart
  <2>7. CASE Spawn(p)
    BY <1>1, <2>7, <1>ppc, <1>mu, <1>cancelFunc, <1>kind, <1>c, <1>config, <1>num,
       <1>enable, <1>H, <1>N
    DEF Spawn, Goto, shared, requests, work, SettlingOK, LockOK, CancelFuncOK,
        WorkerOK, InRestart
  <2>8. CASE Get(p)
    BY <1>1, <2>8, <1>ppc, <1>mu, <1>cancelFunc, <1>kind, <1>c, <1>config, <1>num,
       <1>enable, <1>H, <1>N
    DEF Get, Goto, shared, requests, work, SettlingOK, LockOK, CancelFuncOK,
        WorkerOK, InRestart
  <2>9. CASE Start(p) \/ Report(p) \/ Retry(p) \/ Bye(p) \/ Over(p) \/ Select(p) \/
          Count(p) \/ Generate(p) \/ Dequeue(p) \/ Expire(p) \/ Exit(p)
    <3>1. UNCHANGED <<ppc, mu, cancelFunc, kind, c, config>>
      BY <2>9 DEF Start, Say, Step, WorkloadOutput, Report, Retry, Bye, Over, Select, Look,
         Count, Generate, Dequeue, Expire, Exit, shared, requests, work
    <3>q. QED  BY <3>1, <1>H DEF SettlingOK, InRestart
  <2>q. QED
    BY <1>1, <2>1, <2>2, <2>3, <2>4, <2>5, <2>6, <2>7, <2>8, <2>9
    DEF Handle, Work
<1>2. CASE UNCHANGED vars
  BY <1>2, <1>H DEF vars, shared, requests, work, SettlingOK, LockOK, CancelFuncOK,
     WorkerOK, InRestart
<1>q. QED  BY <1>1, <1>2 DEF Next, Quiescent

\* Every worker but the one in reach of cancelFunc has been cancelled.
LEMMA OneWorkerStep == ASSUME IInv, Next PROVE OneWorker'
<1>ppc. ppc \in [Puts -> {"new", "write", "lock", "enable", "choose", "spawn", "get", "done"}]
  BY DEF IInv, TypeOK
<1>mu. mu \in Puts \cup {Nil}  BY DEF IInv, TypeOK
<1>wpc. wpc \in [Puts -> {"none", "start", "loop", "count", "generate", "report", "dequeue",
               "retry", "bye", "over", "exit", "stopped"}]  BY DEF IInv, TypeOK
<1>cancelFunc. cancelFunc \in Puts \cup {Nil}  BY DEF IInv, TypeOK
<1>canceled. canceled \in [Puts -> BOOLEAN]  BY DEF IInv, TypeOK
<1>H. OneWorker /\ CancelFuncOK /\ LockOK  BY DEF IInv
<1>N. Nil \notin Puts  BY KeyGenAssumption
<1>1. ASSUME Alive, NEW p \in Puts,
             Put(p) \/ BadPut(p) \/ Handle(p) \/ Work(p) \/ Dequeue(p) \/ Expire(p)
      PROVE  OneWorker'
  <2>1. CASE Put(p)
    BY <1>1, <2>1, <1>ppc, <1>mu, <1>wpc, <1>cancelFunc, <1>canceled, <1>H, <1>N
    DEF Put, Goto, shared, requests, work, OneWorker, CancelFuncOK, LockOK,
        InRestart
  <2>2. CASE BadPut(p)
    BY <1>1, <2>2, <1>ppc, <1>mu, <1>wpc, <1>cancelFunc, <1>canceled, <1>H, <1>N
    DEF BadPut, Goto, shared, requests, work, OneWorker, CancelFuncOK, LockOK,
        InRestart
  <2>3. CASE WriteConfig(p)
    BY <1>1, <2>3, <1>ppc, <1>mu, <1>wpc, <1>cancelFunc, <1>canceled, <1>H, <1>N
    DEF WriteConfig, Goto, shared, requests, work, OneWorker, CancelFuncOK, LockOK,
        InRestart
  <2>4. CASE Cancel(p)
    BY <1>1, <2>4, <1>ppc, <1>mu, <1>wpc, <1>cancelFunc, <1>canceled, <1>H, <1>N
    DEF Cancel, Goto, shared, requests, work, OneWorker, CancelFuncOK, LockOK,
        InRestart
  <2>5. CASE Enable(p)
    BY <1>1, <2>5, <1>ppc, <1>mu, <1>wpc, <1>cancelFunc, <1>canceled, <1>H, <1>N
    DEF Enable, Goto, shared, requests, work, OneWorker, CancelFuncOK, LockOK,
        InRestart
  <2>6. CASE Choose(p)
    BY <1>1, <2>6, <1>ppc, <1>mu, <1>wpc, <1>cancelFunc, <1>canceled, <1>H, <1>N
    DEF Choose, Goto, shared, requests, work, OneWorker, CancelFuncOK, LockOK,
        InRestart
  <2>7. CASE Spawn(p)
    BY <1>1, <2>7, <1>ppc, <1>mu, <1>wpc, <1>cancelFunc, <1>canceled, <1>H, <1>N
    DEF Spawn, Goto, shared, requests, work, OneWorker, CancelFuncOK, LockOK,
        InRestart
  <2>8. CASE Get(p)
    BY <1>1, <2>8, <1>ppc, <1>mu, <1>wpc, <1>cancelFunc, <1>canceled, <1>H, <1>N
    DEF Get, Goto, shared, requests, work, OneWorker, CancelFuncOK, LockOK,
        InRestart
  <2>9. CASE Start(p)
    BY <1>1, <2>9, <1>ppc, <1>mu, <1>wpc, <1>cancelFunc, <1>canceled, <1>H, <1>N
    DEF Start, Say, Step, WorkloadOutput, shared, requests, work, OneWorker,
        CancelFuncOK, LockOK, InRestart
  <2>10. CASE Report(p)
    BY <1>1, <2>10, <1>ppc, <1>mu, <1>wpc, <1>cancelFunc, <1>canceled, <1>H, <1>N
    DEF Report, Say, Step, WorkloadOutput, shared, requests, work, OneWorker,
        CancelFuncOK, LockOK, InRestart
  <2>11. CASE Retry(p)
    BY <1>1, <2>11, <1>ppc, <1>mu, <1>wpc, <1>cancelFunc, <1>canceled, <1>H, <1>N
    DEF Retry, Say, Step, WorkloadOutput, shared, requests, work, OneWorker,
        CancelFuncOK, LockOK, InRestart
  <2>12. CASE Bye(p)
    BY <1>1, <2>12, <1>ppc, <1>mu, <1>wpc, <1>cancelFunc, <1>canceled, <1>H, <1>N
    DEF Bye, Say, Step, WorkloadOutput, shared, requests, work, OneWorker,
        CancelFuncOK, LockOK, InRestart
  <2>13. CASE Over(p)
    BY <1>1, <2>13, <1>ppc, <1>mu, <1>wpc, <1>cancelFunc, <1>canceled, <1>H, <1>N
    DEF Over, Say, Step, WorkloadOutput, shared, requests, work, OneWorker,
        CancelFuncOK, LockOK, InRestart
  <2>14. CASE Select(p)
    BY <1>1, <2>14, <1>ppc, <1>mu, <1>wpc, <1>cancelFunc, <1>canceled, <1>H, <1>N
    DEF Select, Look, Step, shared, requests, work, OneWorker, CancelFuncOK,
        LockOK, InRestart
  <2>15. CASE Count(p)
    BY <1>1, <2>15, <1>ppc, <1>mu, <1>wpc, <1>cancelFunc, <1>canceled, <1>H, <1>N
    DEF Count, Look, Step, shared, requests, work, OneWorker, CancelFuncOK, LockOK,
        InRestart
  <2>16. CASE Generate(p)
    BY <1>1, <2>16, <1>ppc, <1>mu, <1>wpc, <1>cancelFunc, <1>canceled, <1>H, <1>N
    DEF Generate, Step, shared, requests, work, OneWorker, CancelFuncOK, LockOK,
        InRestart
  <2>17. CASE Dequeue(p)
    BY <1>1, <2>17, <1>ppc, <1>mu, <1>wpc, <1>cancelFunc, <1>canceled, <1>H, <1>N
    DEF Dequeue, Step, shared, requests, work, OneWorker, CancelFuncOK, LockOK,
        InRestart
  <2>18. CASE Exit(p)
    BY <1>1, <2>18, <1>ppc, <1>mu, <1>wpc, <1>cancelFunc, <1>canceled, <1>H, <1>N
    DEF Exit, Step, shared, requests, work, OneWorker, CancelFuncOK, LockOK,
        InRestart
  <2>19. CASE Expire(p)
    <3>1. UNCHANGED <<ppc, mu, wpc, cancelFunc, canceled>>
      BY <2>19 DEF Expire, shared, requests, work
    <3>q. QED  BY <3>1, <1>H DEF OneWorker, InRestart
  <2>q. QED
    BY <1>1, <2>1, <2>2, <2>3, <2>4, <2>5, <2>6, <2>7, <2>8, <2>9, <2>10, <2>11,
       <2>12, <2>13, <2>14, <2>15, <2>16, <2>17, <2>18, <2>19
    DEF Handle, Work
<1>2. CASE UNCHANGED vars
  BY <1>2, <1>H DEF vars, shared, requests, work, OneWorker, CancelFuncOK, LockOK, InRestart
<1>q. QED  BY <1>1, <1>2 DEF Next, Quiescent

\* No workload generates more than NumToGen keys.
LEMMA LimitKeptStep == ASSUME IInv, Next PROVE LimitKept'
<1>config. config \in Config  BY DEF IInv, TypeOK
<1>wpc. wpc \in [Puts -> {"none", "start", "loop", "count", "generate", "report", "dequeue",
               "retry", "bye", "over", "exit", "stopped"}]  BY DEF IInv, TypeOK
<1>kind. kind \in [Puts -> {"none", "key", "memq"}]  BY DEF IInv, TypeOK
<1>c. c \in [Puts -> Config]  BY DEF IInv, TypeOK
<1>generated. generated \in [Puts -> Nat]  BY DEF IInv, TypeOK
<1>H. LimitKept /\ CountOK /\ WorkerOK  BY DEF IInv
<1>num. \A w \in Puts : c[w].num \in Nat  BY <1>c DEF Config
<1>enable. config.enable \in BOOLEAN  BY <1>config DEF Config
<1>limit. config.num \in Nat  BY <1>config DEF Config
<1>N. Nil \notin Puts  BY KeyGenAssumption
<1>1. ASSUME Alive, NEW p \in Puts,
             Put(p) \/ BadPut(p) \/ Handle(p) \/ Work(p) \/ Dequeue(p) \/ Expire(p)
      PROVE  LimitKept'
  <2>1. CASE WriteConfig(p)
    BY <1>1, <2>1, <1>config, <1>wpc, <1>kind, <1>c, <1>generated, <1>num,
       <1>enable, <1>limit, <1>H, <1>N
    DEF WriteConfig, Goto, shared, requests, work, LimitKept, CountOK, WorkerOK
  <2>2. CASE Choose(p)
    BY <1>1, <2>2, <1>config, <1>wpc, <1>kind, <1>c, <1>generated, <1>num,
       <1>enable, <1>limit, <1>H, <1>N
    DEF Choose, Goto, shared, requests, work, LimitKept, CountOK, WorkerOK
  <2>3. CASE Spawn(p)
    BY <1>1, <2>3, <1>config, <1>wpc, <1>kind, <1>c, <1>generated, <1>num,
       <1>enable, <1>limit, <1>H, <1>N
    DEF Spawn, Goto, shared, requests, work, LimitKept, CountOK, WorkerOK
  <2>4. CASE Start(p)
    BY <1>1, <2>4, <1>config, <1>wpc, <1>kind, <1>c, <1>generated, <1>num,
       <1>enable, <1>limit, <1>H, <1>N
    DEF Start, Say, Step, WorkloadOutput, shared, requests, work, LimitKept,
        CountOK, WorkerOK
  <2>5. CASE Report(p)
    BY <1>1, <2>5, <1>config, <1>wpc, <1>kind, <1>c, <1>generated, <1>num,
       <1>enable, <1>limit, <1>H, <1>N
    DEF Report, Say, Step, WorkloadOutput, shared, requests, work, LimitKept,
        CountOK, WorkerOK
  <2>6. CASE Retry(p)
    BY <1>1, <2>6, <1>config, <1>wpc, <1>kind, <1>c, <1>generated, <1>num,
       <1>enable, <1>limit, <1>H, <1>N
    DEF Retry, Say, Step, WorkloadOutput, shared, requests, work, LimitKept,
        CountOK, WorkerOK
  <2>7. CASE Bye(p)
    BY <1>1, <2>7, <1>config, <1>wpc, <1>kind, <1>c, <1>generated, <1>num,
       <1>enable, <1>limit, <1>H, <1>N
    DEF Bye, Say, Step, WorkloadOutput, shared, requests, work, LimitKept, CountOK,
        WorkerOK
  <2>8. CASE Over(p)
    BY <1>1, <2>8, <1>config, <1>wpc, <1>kind, <1>c, <1>generated, <1>num,
       <1>enable, <1>limit, <1>H, <1>N
    DEF Over, Say, Step, WorkloadOutput, shared, requests, work, LimitKept,
        CountOK, WorkerOK
  <2>9. CASE Select(p)
    BY <1>1, <2>9, <1>config, <1>wpc, <1>kind, <1>c, <1>generated, <1>num,
       <1>enable, <1>limit, <1>H, <1>N
    DEF Select, Look, Step, shared, requests, work, LimitKept, CountOK, WorkerOK
  <2>10. CASE Count(p)
    BY <1>1, <2>10, <1>config, <1>wpc, <1>kind, <1>c, <1>generated, <1>num,
       <1>enable, <1>limit, <1>H, <1>N
    DEF Count, Look, Step, shared, requests, work, LimitKept, CountOK, WorkerOK
  <2>11. CASE Generate(p)
    BY <1>1, <2>11, <1>config, <1>wpc, <1>kind, <1>c, <1>generated, <1>num,
       <1>enable, <1>limit, <1>H, <1>N
    DEF Generate, Step, shared, requests, work, LimitKept, CountOK, WorkerOK
  <2>12. CASE Dequeue(p)
    BY <1>1, <2>12, <1>config, <1>wpc, <1>kind, <1>c, <1>generated, <1>num,
       <1>enable, <1>limit, <1>H, <1>N
    DEF Dequeue, Step, shared, requests, work, LimitKept, CountOK, WorkerOK
  <2>13. CASE Exit(p)
    BY <1>1, <2>13, <1>config, <1>wpc, <1>kind, <1>c, <1>generated, <1>num,
       <1>enable, <1>limit, <1>H, <1>N
    DEF Exit, Step, shared, requests, work, LimitKept, CountOK, WorkerOK
  <2>14. CASE Put(p) \/ BadPut(p) \/ Cancel(p) \/ Enable(p) \/ Get(p) \/ Expire(p)
    <3>1. UNCHANGED <<config, wpc, kind, c, generated>>
      BY <2>14 DEF Put, Goto, BadPut, Cancel, Enable, Get, Expire, shared, requests, work
    <3>q. QED  BY <3>1, <1>H DEF LimitKept
  <2>q. QED
    BY <1>1, <2>1, <2>2, <2>3, <2>4, <2>5, <2>6, <2>7, <2>8, <2>9, <2>10, <2>11,
       <2>12, <2>13, <2>14
    DEF Handle, Work
<1>2. CASE UNCHANGED vars
  BY <1>2, <1>H DEF vars, shared, requests, work, LimitKept, CountOK, WorkerOK
<1>q. QED  BY <1>1, <1>2 DEF Next, Quiescent

\* A cancelled worker generates at most one more key.
LEMMA CancelStopsSoonStep == ASSUME IInv, Next PROVE CancelStopsSoon'
<1>wpc. wpc \in [Puts -> {"none", "start", "loop", "count", "generate", "report", "dequeue",
               "retry", "bye", "over", "exit", "stopped"}]  BY DEF IInv, TypeOK
<1>late. late \in [Puts -> Nat]  BY DEF IInv, TypeOK
<1>canceled. canceled \in [Puts -> BOOLEAN]  BY DEF IInv, TypeOK
<1>H. CancelStopsSoon /\ LateOK  BY DEF IInv
<1>N. Nil \notin Puts  BY KeyGenAssumption
<1>1. ASSUME Alive, NEW p \in Puts,
             Put(p) \/ BadPut(p) \/ Handle(p) \/ Work(p) \/ Dequeue(p) \/ Expire(p)
      PROVE  CancelStopsSoon'
  <2>1. CASE Cancel(p)
    BY <1>1, <2>1, <1>wpc, <1>late, <1>canceled, <1>H, <1>N
    DEF Cancel, Goto, shared, requests, work, CancelStopsSoon, LateOK
  <2>2. CASE Spawn(p)
    BY <1>1, <2>2, <1>wpc, <1>late, <1>canceled, <1>H, <1>N
    DEF Spawn, Goto, shared, requests, work, CancelStopsSoon, LateOK
  <2>3. CASE Start(p)
    BY <1>1, <2>3, <1>wpc, <1>late, <1>canceled, <1>H, <1>N
    DEF Start, Say, Step, WorkloadOutput, shared, requests, work, CancelStopsSoon,
        LateOK
  <2>4. CASE Report(p)
    BY <1>1, <2>4, <1>wpc, <1>late, <1>canceled, <1>H, <1>N
    DEF Report, Say, Step, WorkloadOutput, shared, requests, work, CancelStopsSoon,
        LateOK
  <2>5. CASE Retry(p)
    BY <1>1, <2>5, <1>wpc, <1>late, <1>canceled, <1>H, <1>N
    DEF Retry, Say, Step, WorkloadOutput, shared, requests, work, CancelStopsSoon,
        LateOK
  <2>6. CASE Bye(p)
    BY <1>1, <2>6, <1>wpc, <1>late, <1>canceled, <1>H, <1>N
    DEF Bye, Say, Step, WorkloadOutput, shared, requests, work, CancelStopsSoon,
        LateOK
  <2>7. CASE Over(p)
    BY <1>1, <2>7, <1>wpc, <1>late, <1>canceled, <1>H, <1>N
    DEF Over, Say, Step, WorkloadOutput, shared, requests, work, CancelStopsSoon,
        LateOK
  <2>8. CASE Select(p)
    BY <1>1, <2>8, <1>wpc, <1>late, <1>canceled, <1>H, <1>N
    DEF Select, Look, Step, shared, requests, work, CancelStopsSoon, LateOK
  <2>9. CASE Count(p)
    BY <1>1, <2>9, <1>wpc, <1>late, <1>canceled, <1>H, <1>N
    DEF Count, Look, Step, shared, requests, work, CancelStopsSoon, LateOK
  <2>10. CASE Generate(p)
    BY <1>1, <2>10, <1>wpc, <1>late, <1>canceled, <1>H, <1>N
    DEF Generate, Step, shared, requests, work, CancelStopsSoon, LateOK
  <2>11. CASE Dequeue(p)
    BY <1>1, <2>11, <1>wpc, <1>late, <1>canceled, <1>H, <1>N
    DEF Dequeue, Step, shared, requests, work, CancelStopsSoon, LateOK
  <2>12. CASE Exit(p)
    BY <1>1, <2>12, <1>wpc, <1>late, <1>canceled, <1>H, <1>N
    DEF Exit, Step, shared, requests, work, CancelStopsSoon, LateOK
  <2>13. CASE Put(p) \/ BadPut(p) \/ WriteConfig(p) \/ Enable(p) \/ Choose(p) \/
          Get(p) \/ Expire(p)
    <3>1. UNCHANGED <<wpc, late, canceled>>
      BY <2>13 DEF Put, Goto, BadPut, WriteConfig, Enable, Choose, Get, Expire, shared,
         requests, work
    <3>q. QED  BY <3>1, <1>H DEF CancelStopsSoon
  <2>q. QED
    BY <1>1, <2>1, <2>2, <2>3, <2>4, <2>5, <2>6, <2>7, <2>8, <2>9, <2>10, <2>11, <2>12, <2>13
    DEF Handle, Work
<1>2. CASE UNCHANGED vars
  BY <1>2, <1>H DEF vars, shared, requests, work, CancelStopsSoon, LateOK
<1>q. QED  BY <1>1, <1>2 DEF Next, Quiescent

\* os.Exit is called only for a reason of the config.
LEMMA ExitJustifiedStep == ASSUME IInv, Next PROVE ExitJustified'
<1>wpc. wpc \in [Puts -> {"none", "start", "loop", "count", "generate", "report", "dequeue",
               "retry", "bye", "over", "exit", "stopped"}]  BY DEF IInv, TypeOK
<1>kind. kind \in [Puts -> {"none", "key", "memq"}]  BY DEF IInv, TypeOK
<1>c. c \in [Puts -> Config]  BY DEF IInv, TypeOK
<1>generated. generated \in [Puts -> Nat]  BY DEF IInv, TypeOK
<1>timeout. timeout \in [Puts -> BOOLEAN]  BY DEF IInv, TypeOK
<1>exited. exited \in Puts \cup {Nil}  BY DEF IInv, TypeOK
<1>H. ExitJustified /\ CountOK /\ WorkerOK /\ LimitKept  BY DEF IInv
<1>num. \A w \in Puts : c[w].num \in Nat  BY <1>c DEF Config
<1>N. Nil \notin Puts  BY KeyGenAssumption
<1>1. ASSUME Alive, NEW p \in Puts,
             Put(p) \/ BadPut(p) \/ Handle(p) \/ Work(p) \/ Dequeue(p) \/ Expire(p)
      PROVE  ExitJustified'
  <2>1. CASE Choose(p)
    BY <1>1, <2>1, <1>wpc, <1>kind, <1>c, <1>generated, <1>timeout, <1>exited,
       <1>num, <1>H, <1>N
    DEF Choose, Goto, Alive, shared, requests, work, ExitJustified, CountOK,
        WorkerOK, LimitKept
  <2>2. CASE Spawn(p)
    BY <1>1, <2>2, <1>wpc, <1>kind, <1>c, <1>generated, <1>timeout, <1>exited,
       <1>num, <1>H, <1>N
    DEF Spawn, Goto, Alive, shared, requests, work, ExitJustified, CountOK,
        WorkerOK, LimitKept
  <2>3. CASE Start(p)
    BY <1>1, <2>3, <1>wpc, <1>kind, <1>c, <1>generated, <1>timeout, <1>exited,
       <1>num, <1>H, <1>N
    DEF Start, Say, Step, WorkloadOutput, Alive, shared, requests, work,
        ExitJustified, CountOK, WorkerOK, LimitKept
  <2>4. CASE Report(p)
    BY <1>1, <2>4, <1>wpc, <1>kind, <1>c, <1>generated, <1>timeout, <1>exited,
       <1>num, <1>H, <1>N
    DEF Report, Say, Step, WorkloadOutput, Alive, shared, requests, work,
        ExitJustified, CountOK, WorkerOK, LimitKept
  <2>5. CASE Retry(p)
    BY <1>1, <2>5, <1>wpc, <1>kind, <1>c, <1>generated, <1>timeout, <1>exited,
       <1>num, <1>H, <1>N
    DEF Retry, Say, Step, WorkloadOutput, Alive, shared, requests, work,
        ExitJustified, CountOK, WorkerOK, LimitKept
  <2>6. CASE Bye(p)
    BY <1>1, <2>6, <1>wpc, <1>kind, <1>c, <1>generated, <1>timeout, <1>exited,
       <1>num, <1>H, <1>N
    DEF Bye, Say, Step, WorkloadOutput, Alive, shared, requests, work,
        ExitJustified, CountOK, WorkerOK, LimitKept
  <2>7. CASE Over(p)
    BY <1>1, <2>7, <1>wpc, <1>kind, <1>c, <1>generated, <1>timeout, <1>exited,
       <1>num, <1>H, <1>N
    DEF Over, Say, Step, WorkloadOutput, Alive, shared, requests, work,
        ExitJustified, CountOK, WorkerOK, LimitKept
  <2>8. CASE Select(p)
    BY <1>1, <2>8, <1>wpc, <1>kind, <1>c, <1>generated, <1>timeout, <1>exited,
       <1>num, <1>H, <1>N
    DEF Select, Look, Step, Alive, shared, requests, work, ExitJustified, CountOK,
        WorkerOK, LimitKept
  <2>9. CASE Count(p)
    BY <1>1, <2>9, <1>wpc, <1>kind, <1>c, <1>generated, <1>timeout, <1>exited,
       <1>num, <1>H, <1>N
    DEF Count, Look, Step, Alive, shared, requests, work, ExitJustified, CountOK,
        WorkerOK, LimitKept
  <2>10. CASE Generate(p)
    BY <1>1, <2>10, <1>wpc, <1>kind, <1>c, <1>generated, <1>timeout, <1>exited,
       <1>num, <1>H, <1>N
    DEF Generate, Step, Alive, shared, requests, work, ExitJustified, CountOK,
        WorkerOK, LimitKept
  <2>11. CASE Dequeue(p)
    BY <1>1, <2>11, <1>wpc, <1>kind, <1>c, <1>generated, <1>timeout, <1>exited,
       <1>num, <1>H, <1>N
    DEF Dequeue, Step, Alive, shared, requests, work, ExitJustified, CountOK,
        WorkerOK, LimitKept
  <2>12. CASE Expire(p)
    BY <1>1, <2>12, <1>wpc, <1>kind, <1>c, <1>generated, <1>timeout, <1>exited,
       <1>num, <1>H, <1>N
    DEF Expire, Alive, shared, requests, work, ExitJustified, CountOK, WorkerOK,
        LimitKept
  <2>13. CASE Exit(p)
    BY <1>1, <2>13, <1>wpc, <1>kind, <1>c, <1>generated, <1>timeout, <1>exited,
       <1>num, <1>H, <1>N
    DEF Exit, Step, Alive, shared, requests, work, ExitJustified, CountOK,
        WorkerOK, LimitKept
  <2>14. CASE Put(p) \/ BadPut(p) \/ WriteConfig(p) \/ Cancel(p) \/ Enable(p) \/ Get(p)
    <3>1. UNCHANGED <<wpc, kind, c, generated, timeout, exited>>
      BY <2>14 DEF Put, Goto, BadPut, WriteConfig, Cancel, Enable, Get, shared, requests,
         work
    <3>q. QED  BY <3>1, <1>H DEF ExitJustified
  <2>q. QED
    BY <1>1, <2>1, <2>2, <2>3, <2>4, <2>5, <2>6, <2>7, <2>8, <2>9, <2>10, <2>11,
       <2>12, <2>13, <2>14
    DEF Handle, Work
<1>2. CASE UNCHANGED vars
  BY <1>2, <1>H DEF vars, shared, requests, work, ExitJustified, CountOK, WorkerOK, LimitKept
<1>q. QED  BY <1>1, <1>2 DEF Next, Quiescent
\* The inductive invariant holds initially.
LEMMA InitIInv == Init => IInv
<1> SUFFICES ASSUME Init PROVE IInv
  OBVIOUS
<1>n. MaxHistory \in Nat \ {0} /\ Nil \notin Puts  BY KeyGenAssumption
<1>z. Zero \in Config  BY DEF Zero, Config
<1>1. TypeOK  BY <1>z DEF Init, TypeOK
<1>2. LockOK /\ WorkerOK /\ CancelFuncOK  BY <1>n DEF Init, LockOK, WorkerOK, CancelFuncOK, InRestart
<1>3. CountOK /\ LimitKept  BY <1>n DEF Init, CountOK, LimitKept, Zero
<1>4. LateOK /\ CancelStopsSoon  BY DEF Init, LateOK, CancelStopsSoon
<1>5. SettlingOK /\ OneWorker  BY <1>n DEF Init, SettlingOK, OneWorker, Zero
<1>6. HistoryContiguous  BY <1>n DEF Init, HistoryContiguous
<1>7. ExitJustified  BY <1>n DEF Init, ExitJustified
<1>q. QED  BY <1>1, <1>2, <1>3, <1>4, <1>5, <1>6, <1>7 DEF IInv

\* The inductive invariant: it holds in every reachable state.
THEOREM Invariance == Spec => []IInv
<1>1. Init => IInv  BY InitIInv
<1>2. IInv /\ [Next]_vars => IInv'
  <2>1. CASE IInv /\ Next
    BY <2>1, TypeStep, LockOKStep, WorkerOKStep, CancelFuncOKStep, CountOKStep, LateOKStep,
       SettlingOKStep, OneWorkerStep, HistoryStep, LimitKeptStep, CancelStopsSoonStep,
       ExitJustifiedStep DEF IInv
  <2>2. CASE IInv /\ UNCHANGED vars
    BY <2>2 DEF vars, requests, shared, work, IInv, TypeOK, LockOK, WorkerOK, CancelFuncOK,
       CountOK, LateOK, SettlingOK, OneWorker, HistoryContiguous, LimitKept, CancelStopsSoon,
       ExitJustified, InRestart
  <2>q. QED  BY <2>1, <2>2
<1>q. QED  BY <1>1, <1>2, PTL DEF Spec

\* Type correctness of the key generator.
THEOREM Typing == Spec => []TypeOK
<1>1. IInv => TypeOK  BY DEF IInv
<1>q. QED  BY <1>1, Invariance, PTL

\* At most one worker has not been cancelled, and Restart can cancel it.
THEOREM WorkerInReach == Spec => []OneWorker
<1>1. IInv => OneWorker  BY DEF IInv
<1>q. QED  BY <1>1, Invariance, PTL

\* Once no LoadConfig is under way, the worker in charge runs kg.config.
THEOREM ConfigSettles == Spec => []Settled
<1>1. IInv => Settled
  <2> SUFFICES ASSUME IInv, \A p \in Puts : ~InLoadConfig(p)
               PROVE  /\ (cancelFunc # Nil) = config.enable
                      /\ cancelFunc # Nil =>
                           /\ c[cancelFunc] = config
                           /\ kind[cancelFunc] = (IF config.memq THEN "memq" ELSE "key")
    BY DEF Settled
  <2>1. \A p \in Puts : ppc[p] \notin {"write", "lock"} /\ ~InRestart(p)
    BY DEF InLoadConfig, InRestart
  <2>2. LockOK /\ SettlingOK /\ mu \in Puts \cup {Nil}  BY DEF IInv, TypeOK
  <2>3. mu = Nil  BY <2>1, <2>2 DEF LockOK
  <2>q. QED  BY <2>1, <2>2, <2>3 DEF SettlingOK
<1>q. QED  BY <1>1, Invariance, PTL

\* The history holds the newest outputs with consecutive IDs.
THEOREM HistoryKept == Spec => []HistoryContiguous
<1>1. IInv => HistoryContiguous  BY DEF IInv
<1>q. QED  BY <1>1, Invariance, PTL

\* No workload generates more than NumToGen keys, and a cancelled worker no
\* more than the key it was busy with.
THEOREM LimitsKept == Spec => [](LimitKept /\ CancelStopsSoon)
<1>1. IInv => LimitKept /\ CancelStopsSoon  BY DEF IInv
<1>q. QED  BY <1>1, Invariance, PTL

\* The process exits only for a reason that a worker's config gives.
THEOREM ExitsJustified == Spec => []ExitJustified
<1>1. IInv => ExitJustified  BY DEF IInv
<1>q. QED  BY <1>1, Invariance, PTL
=============================================================================
