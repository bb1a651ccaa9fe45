------------------------------- MODULE KeyGen -------------------------------
(***************************************************************************)
(* kuard's key generation workload (pkg/keygen).  A PUT of a new Config    *)
(* cancels the running worker and starts another one; the workers, the     *)
(* handlers and the process share one KeyGen object.                       *)
(*                                                                         *)
(* A member of Puts is one call of LoadConfig: a PUT request, or the call  *)
(* main makes at startup.  Put p also names the worker that p starts, a    *)
(* goroutine that runs a workload (kind "key") or a memQWorker (kind       *)
(* "memq").  A cancelled worker notices only when it looks at its context: *)
(* until then it goes on beside its successor.                             *)
(*                                                                         *)
(* KeyGen.mu protects everything but the assignment in LoadConfig, which   *)
(* copies a struct of several words with no lock: its fields are written   *)
(* one by one and others may read between them.  A critical section that   *)
(* reads no field twice is one step; Restart, which reads the config three *)
(* times, is three.                                                        *)
(***************************************************************************)
EXTENDS Integers, Sequences, FiniteSets

CONSTANTS
  Puts,       \* calls of LoadConfig, and the workers they start
  Configs,    \* the values a client may send
  MaxHistory, \* the const maxHistory, 20 in the code
  MaxRounds,  \* bound: the rounds of a worker without a limit of its own
  Nil

\* Config.  timed stands for TimeToRun > 0, memq for both MemQ fields set.
Config == [enable : BOOLEAN, num : Nat, timed : BOOLEAN, memq : BOOLEAN, exit : BOOLEAN]
Fields == {"enable", "num", "timed", "memq", "exit"}
Zero == [enable |-> FALSE, num |-> 0, timed |-> FALSE, memq |-> FALSE, exit |-> FALSE]

ASSUME KeyGenAssumption ==
  /\ Configs \subseteq Config
  /\ MaxHistory \in Nat \ {0}
  /\ MaxRounds \in Nat
  /\ Nil \notin Puts

VARIABLES
  ppc,        \* ppc[p]: where the goroutine of PUT p is
  sent,       \* sent[p]: the Config p carries
  left,       \* left[p]: the fields of kg.config that p has yet to write
  config, history, nextHistoryID, nextWorkloadID,
  cancelFunc, \* the worker that kg.cancelFunc cancels, or Nil
  mu,         \* the goroutine in Restart's critical section, or Nil
  wpc,        \* wpc[w]: where worker w is
  kind,       \* kind[w]: "key" or "memq"
  id,         \* id[w]: workload.id
  c,          \* c[w]: the worker's copy of the config
  generated,  \* generated[w]: workload.generated; a memQWorker has no count:
              \* the answers it got from the queue server
  timeout,    \* timeout[w]: workload.timeout has fired
  canceled,   \* canceled[w]: ctx.Done() is closed
  late,       \* history: the keys w generated after it was cancelled
  exited      \* the worker that called os.Exit, or Nil

shared == <<config, history, nextHistoryID, nextWorkloadID, cancelFunc, mu>>
requests == <<ppc, sent, left>>
work == <<kind, id, c>>
vars == <<requests, shared, wpc, work, generated, timeout, canceled, late, exited>>

Init ==
  /\ ppc = [p \in Puts |-> "new"]
  /\ sent = [p \in Puts |-> Zero]
  /\ left = [p \in Puts |-> {}]
  /\ config = Zero
  /\ history = <<>>
  /\ nextHistoryID = 0
  /\ nextWorkloadID = 0
  /\ cancelFunc = Nil
  /\ mu = Nil
  /\ wpc = [w \in Puts |-> "none"]
  /\ kind = [w \in Puts |-> "none"]
  /\ id = [w \in Puts |-> 0]
  /\ c = [w \in Puts |-> Zero]
  /\ generated = [w \in Puts |-> 0]
  /\ timeout = [w \in Puts |-> FALSE]
  /\ canceled = [w \in Puts |-> FALSE]
  /\ late = [w \in Puts |-> 0]
  /\ exited = Nil

Alive == exited = Nil
Goto(p, from, to) == ppc[p] = from /\ ppc' = [ppc EXCEPT ![p] = to]
Step(w, from, to) == wpc[w] = from /\ wpc' = [wpc EXCEPT ![w] = to]

-----------------------------------------------------------------------------
(* APIPut: decode, LoadConfig, Restart, APIGet *)

Put(p) ==
  /\ Goto(p, "new", "write")
  /\ sent' \in {[sent EXCEPT ![p] = x] : x \in Configs}
  /\ left' = [left EXCEPT ![p] = Fields]
  /\ UNCHANGED <<shared, wpc, work, generated, timeout, canceled, late, exited>>

\* The body is not a Config: 400.
BadPut(p) ==
  /\ Goto(p, "new", "done")
  /\ UNCHANGED <<sent, left, shared, wpc, work, generated, timeout, canceled, late, exited>>

\* Mutant: the limit is stored as the index of the last key.
BugWriteLastIndex(p) ==
  \E f \in left[p] :
    /\ Goto(p, "write", IF left[p] = {f} THEN "lock" ELSE "write")
    /\ left' = [left EXCEPT ![p] = @ \ {f}]
    /\ config' = [config EXCEPT ![f] = IF f = "num" THEN sent[p].num - 1 ELSE sent[p][f]]
    /\ UNCHANGED <<sent, history, nextHistoryID, nextWorkloadID, cancelFunc, mu, wpc,
                   work, generated, timeout, canceled, late, exited>>

\* kg.config = c, outside the lock, one field after the other in any order.
WriteConfig(p) ==
  \E f \in left[p] :
    /\ Goto(p, "write", IF left[p] = {f} THEN "lock" ELSE "write")
    /\ left' = [left EXCEPT ![p] = @ \ {f}]
    /\ config' = [config EXCEPT ![f] = sent[p][f]]
    /\ UNCHANGED <<sent, history, nextHistoryID, nextWorkloadID, cancelFunc, mu, wpc,
                   work, generated, timeout, canceled, late, exited>>

\* Mutant: the running worker is forgotten, not cancelled.
BugForget(p) ==
  /\ Goto(p, "lock", "enable")
  /\ mu = Nil /\ mu' = p
  /\ cancelFunc' = Nil
  /\ UNCHANGED <<sent, left, config, history, nextHistoryID, nextWorkloadID, wpc, work,
                 generated, timeout, canceled, late, exited>>

\* Restart takes the lock and cancels the running worker.
Cancel(p) ==
  /\ Goto(p, "lock", "enable")
  /\ mu = Nil /\ mu' = p
  /\ canceled' = [w \in Puts |-> w = cancelFunc \/ canceled[w]]
  /\ cancelFunc' = Nil
  /\ UNCHANGED <<sent, left, config, history, nextHistoryID, nextWorkloadID, wpc, work,
                 generated, timeout, late, exited>>

\* Mutant: Restart waits under the lock for the cancelled workers to end.
BugEnableWaits(p) ==
  /\ ppc[p] = "enable"
  /\ IF \E w \in Puts : canceled[w] /\ wpc[w] # "stopped"
     THEN UNCHANGED vars
     ELSE /\ \/ config.enable /\ Goto(p, "enable", "choose") /\ cancelFunc' = p /\ mu' = mu
             \/ ~config.enable /\ Goto(p, "enable", "get") /\ mu' = Nil /\ cancelFunc' = cancelFunc
          /\ UNCHANGED <<sent, left, config, history, nextHistoryID, nextWorkloadID, wpc, work,
                         generated, timeout, canceled, late, exited>>

\* Restart makes a new context, or leaves if the workload is not enabled.
Enable(p) ==
  /\ \/ config.enable /\ Goto(p, "enable", "choose") /\ cancelFunc' = p /\ mu' = mu
     \/ ~config.enable /\ Goto(p, "enable", "get") /\ mu' = Nil /\ cancelFunc' = cancelFunc
  /\ UNCHANGED <<sent, left, config, history, nextHistoryID, nextWorkloadID, wpc, work,
                 generated, timeout, canceled, late, exited>>

Choose(p) ==
  /\ Goto(p, "choose", "spawn")
  /\ kind' = [kind EXCEPT ![p] = IF config.memq THEN "memq" ELSE "key"]
  /\ UNCHANGED <<sent, left, shared, wpc, id, c, generated, timeout, canceled, late, exited>>

\* Mutant: the worker gets the config of the request, not the one of kg.
BugSpawnSent(p) ==
  /\ Goto(p, "spawn", "get")
  /\ c' = [c EXCEPT ![p] = sent[p]]
  /\ wpc' = [wpc EXCEPT ![p] = "start"]
  /\ id' = [id EXCEPT ![p] = IF kind[p] = "key" THEN nextWorkloadID ELSE 0]
  /\ nextWorkloadID' = nextWorkloadID + (IF kind[p] = "key" THEN 1 ELSE 0)
  /\ mu' = Nil
  /\ UNCHANGED <<sent, left, config, history, nextHistoryID, cancelFunc, kind, generated,
                 timeout, canceled, late, exited>>

\* Restart copies the config into the worker, starts it and unlocks.
Spawn(p) ==
  /\ Goto(p, "spawn", "get")
  /\ c' = [c EXCEPT ![p] = config]
  /\ wpc' = [wpc EXCEPT ![p] = "start"]
  /\ IF kind[p] = "key"
     THEN id' = [id EXCEPT ![p] = nextWorkloadID] /\ nextWorkloadID' = nextWorkloadID + 1
     ELSE UNCHANGED <<id, nextWorkloadID>>
  /\ mu' = Nil
  /\ UNCHANGED <<sent, left, config, history, nextHistoryID, cancelFunc, kind, generated,
                 timeout, canceled, late, exited>>

\* APIGet answers under the lock with the config and the history.
Get(p) ==
  /\ Goto(p, "get", "done")
  /\ mu = Nil
  /\ UNCHANGED <<sent, left, shared, wpc, work, generated, timeout, canceled, late, exited>>

-----------------------------------------------------------------------------
(* WorkloadOutput *)

\* Mutant: the trim keeps the oldest outputs.
BugTrimNewest(h) == IF Len(h) > MaxHistory THEN SubSeq(h, 1, MaxHistory) ELSE h

Trim(h) ==
  IF Len(h) > MaxHistory THEN SubSeq(h, Len(h) - MaxHistory + 1, Len(h)) ELSE h

\* A goroutine outside Restart takes the lock, appends a line and unlocks.
WorkloadOutput ==
  /\ mu = Nil
  /\ history' = Trim(Append(history, nextHistoryID))
  /\ nextHistoryID' = nextHistoryID + 1
  /\ UNCHANGED <<config, nextWorkloadID, cancelFunc, mu>>

\* A step of w that writes a line and changes nothing else.
Say(w, from, to) ==
  /\ Step(w, from, to)
  /\ WorkloadOutput
  /\ UNCHANGED <<requests, work, generated, timeout, canceled, late, exited>>

-----------------------------------------------------------------------------
(* The workers: startWork, isDone, itemDone *)

Start(w) == Say(w, "start", "loop")

\* A step of w that looks at the shared state and changes nothing of it.
Look(w, from, to) ==
  /\ Step(w, from, to)
  /\ UNCHANGED <<requests, shared, work, generated, timeout, canceled, late, exited>>

\* TimeToRun has passed.
Expire(w) ==
  /\ kind[w] = "key" /\ c[w].timed /\ ~timeout[w]
  /\ wpc[w] \notin {"none", "start", "bye", "exit", "stopped"}
  /\ timeout' = [timeout EXCEPT ![w] = TRUE]
  /\ UNCHANGED <<requests, shared, wpc, work, generated, canceled, late, exited>>

\* Mutant: the break in a case leaves the select, not the loop.
BugSelectBreaks(w) ==
  \/ canceled[w] /\ Look(w, "loop", "loop")
  \/ kind[w] = "key" /\ timeout[w] /\ Look(w, "loop", "over")
  \/ ~canceled[w] /\ kind[w] = "key" /\ ~timeout[w] /\ Look(w, "loop", "count")
  \/ ~canceled[w] /\ kind[w] = "memq" /\ Look(w, "loop", "dequeue")

\* The select of isDone.  When both channels are ready Go picks one at random.
Select(w) ==
  \/ canceled[w] /\ Look(w, "loop", "bye")
  \/ kind[w] = "key" /\ timeout[w] /\ Look(w, "loop", "over")
  \/ ~canceled[w] /\ kind[w] = "key" /\ ~timeout[w] /\ Look(w, "loop", "count")
  \/ ~canceled[w] /\ kind[w] = "memq" /\ Look(w, "loop", "dequeue")

\* workload.isDone after the select: NumToGen.
Count(w) ==
  \/ c[w].num > 0 /\ generated[w] >= c[w].num /\ Look(w, "count", "over")
  \/ ~(c[w].num > 0 /\ generated[w] >= c[w].num) /\ Look(w, "count", "generate")

\* The bound on what the environment lets a worker do, where the config has
\* no limit; it ends when the worker is cancelled.
MayGoOn(w) == \/ kind[w] = "key" /\ c[w].num > 0
              \/ generated[w] < MaxRounds
              \/ canceled[w]

\* generateKey, and the increment of itemDone.
Generate(w) ==
  /\ MayGoOn(w) \/ kind[w] = "memq"
  /\ Step(w, "generate", "report")
  /\ generated' = IF kind[w] = "key" THEN [generated EXCEPT ![w] = @ + 1] ELSE generated
  /\ late' = IF canceled[w] THEN [late EXCEPT ![w] = @ + 1] ELSE late
  /\ UNCHANGED <<requests, shared, work, timeout, canceled, exited>>

\* Mutant: the loop goes on with the next item without a look at the context.
BugReportAgain(w) == Say(w, "report", IF kind[w] = "key" THEN "count" ELSE "dequeue")

\* itemDone writes its line.
Report(w) == Say(w, "report", "loop")

\* memQWorker: the request is in flight until the server answers with a
\* message, with an error or with an empty queue.
Dequeue(w) ==
  /\ MayGoOn(w)
  /\ \E answer \in {"generate", "retry", "empty"} :
       Step(w, "dequeue", IF answer # "empty" THEN answer
                          ELSE IF c[w].exit THEN "exit" ELSE "retry")
  /\ generated' = [generated EXCEPT ![w] = @ + 1]
  /\ UNCHANGED <<requests, shared, work, timeout, canceled, late, exited>>

\* The line about the error or the empty queue, and the pause of a second.
Retry(w) == Say(w, "retry", "loop")

\* Mutant: done() exits for every workload that ends, cancelled or not.
BugByeExits(w) == Say(w, "bye", IF c[w].exit THEN "exit" ELSE "stopped")

\* done(true), or the memQWorker's last line: the worker ends.
Bye(w) == Say(w, "bye", "stopped")

\* done(false): ExitOnComplete.
Over(w) == Say(w, "over", IF c[w].exit THEN "exit" ELSE "stopped")

\* os.Exit: nothing runs any more.
Exit(w) ==
  /\ Step(w, "exit", "stopped")
  /\ exited' = w
  /\ UNCHANGED <<requests, shared, work, generated, timeout, canceled, late>>

-----------------------------------------------------------------------------
Handle(p) == \/ WriteConfig(p) \/ Cancel(p) \/ Enable(p) \/ Choose(p) \/ Spawn(p) \/ Get(p)

Work(w) == \/ Start(w) \/ Select(w) \/ Count(w) \/ Generate(w) \/ Report(w) \/ Retry(w)
           \/ Bye(w) \/ Over(w) \/ Exit(w)

\* Nothing is left to do: the process has exited, or every request is
\* answered and every worker has stopped or is at its bound.
AtRest ==
  \/ ~Alive
  \/ \A p \in Puts : /\ ppc[p] = "done"
                     /\ wpc[p] \in {"none", "stopped"} \/ ~MayGoOn(p)
Quiescent == AtRest /\ UNCHANGED vars

Next ==
  \/ Alive /\ \E p \in Puts : Put(p) \/ BadPut(p) \/ Handle(p) \/ Work(p) \/ Dequeue(p) \/ Expire(p)
  \/ Quiescent

Spec == Init /\ [][Next]_vars

\* The Go scheduler runs every goroutine that can run, and sync.Mutex hands
\* itself to a goroutine that has waited for more than a millisecond.  Nothing
\* makes a queue server answer: http.DefaultClient has no timeout.
Fairness == \A p \in Puts : SF_vars(Alive /\ Handle(p)) /\ SF_vars(Alive /\ Work(p))
FairSpec == Spec /\ Fairness

-----------------------------------------------------------------------------
(* Properties *)

\* Type correctness.
TypeOK ==
  /\ ppc \in [Puts -> {"new", "write", "lock", "enable", "choose", "spawn", "get", "done"}]
  /\ sent \in [Puts -> Config]
  /\ left \in [Puts -> SUBSET Fields]
  /\ config \in Config
  /\ history \in Seq(Nat)
  /\ nextHistoryID \in Nat
  /\ nextWorkloadID \in Nat
  /\ cancelFunc \in Puts \cup {Nil}
  /\ mu \in Puts \cup {Nil}
  /\ wpc \in [Puts -> {"none", "start", "loop", "count", "generate", "report", "dequeue",
                       "retry", "bye", "over", "exit", "stopped"}]
  /\ kind \in [Puts -> {"none", "key", "memq"}]
  /\ id \in [Puts -> Nat]
  /\ c \in [Puts -> Config]
  /\ generated \in [Puts -> Nat]
  /\ timeout \in [Puts -> BOOLEAN]
  /\ canceled \in [Puts -> BOOLEAN]
  /\ late \in [Puts -> Nat]
  /\ exited \in Puts \cup {Nil}

\* Every worker but the one kg.cancelFunc cancels has been cancelled, however
\* PUTs interleave: no worker is ever out of reach of the next Restart.
OneWorker == \A w \in Puts : wpc[w] # "none" => canceled[w] \/ cancelFunc = w

InLoadConfig(p) == ppc[p] \in {"write", "lock", "enable", "choose", "spawn"}

\* Although LoadConfig writes the config without the lock, so that a worker
\* may start with a mixture of two configs, the last Restart repairs it: when
\* no LoadConfig is under way the worker that is not cancelled runs the
\* config GET shows, with the kind and the enabling it asks for.
Settled ==
  (\A p \in Puts : ~InLoadConfig(p)) =>
    /\ (cancelFunc # Nil) = config.enable
    /\ cancelFunc # Nil =>
         /\ c[cancelFunc] = config
         /\ kind[cancelFunc] = (IF config.memq THEN "memq" ELSE "key")

\* The history is the newest MaxHistory outputs, with consecutive IDs and
\* none left out, although every worker, cancelled or not, writes to it.
HistoryContiguous ==
  /\ Len(history) = (IF nextHistoryID < MaxHistory THEN nextHistoryID ELSE MaxHistory)
  /\ \A i \in 1..Len(history) : history[i] = nextHistoryID - Len(history) + i - 1

\* A workload generates no more than NumToGen keys (0 is infinity).
LimitKept ==
  \A w \in Puts : kind[w] = "key" /\ c[w].num > 0 => generated[w] <= c[w].num

\* A cancelled worker generates at most the key it was busy with.
CancelStopsSoon == \A w \in Puts : late[w] <= 1

\* os.Exit is called only with ExitOnComplete and a reason of the config: the
\* time is over, all keys are generated, or the worker drew on a queue.
ExitJustified ==
  \A w \in Puts :
    wpc[w] = "exit" \/ exited = w =>
      /\ c[w].exit
      /\ \/ kind[w] = "memq" \/ timeout[w]
         \/ c[w].num > 0 /\ generated[w] = c[w].num

\* A cancelled worker stops, unless the process exits or the worker waits for
\* ever for the answer of a queue server.
CanceledStops ==
  \A w \in Puts : canceled[w] ~> \/ wpc[w] = "stopped" \/ exited # Nil
                                 \/ [](wpc[w] = "dequeue")

\* Every PUT is answered, or the process exits first.
PutAnswered == \A p \in Puts : ppc[p] # "new" ~> (ppc[p] = "done" \/ exited # Nil)
=============================================================================
