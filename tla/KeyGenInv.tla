------------------------------ MODULE KeyGenInv ------------------------------
(***************************************************************************)
(* The inductive invariant of KeyGen: its safety properties and the facts  *)
(* about control that they rest on.                                        *)
(***************************************************************************)
EXTENDS KeyGen

InRestart(p) == ppc[p] \in {"enable", "choose", "spawn"}

\* Only the goroutine in Restart's critical section holds mu.
LockOK == \A p \in Puts : InRestart(p) <=> mu = p

\* A worker exists from the Spawn of its PUT; what it has is set by then.
WorkerOK ==
  \A w \in Puts :
    /\ wpc[w] # "none" => ppc[w] \in {"get", "done"}
    /\ wpc[w] # "none" \/ ppc[w] = "spawn" => kind[w] \in {"key", "memq"}
    /\ wpc[w] = "none" => generated[w] = 0 /\ ~canceled[w] /\ ~timeout[w]
    /\ wpc[w] \in {"dequeue", "retry"} => kind[w] = "memq"
    /\ wpc[w] \in {"count", "over"} => kind[w] = "key"

\* kg.cancelFunc is nil between the cancellation and the new context, and is
\* otherwise the function of a worker that runs or is about to.
CancelFuncOK ==
  \A p \in Puts :
    /\ ppc[p] = "enable" => cancelFunc = Nil
    /\ ppc[p] \in {"choose", "spawn"} => cancelFunc = p
    /\ cancelFunc = p => wpc[p] # "none" \/ ppc[p] \in {"choose", "spawn"}

\* A workload that goes on to generate is below its limit, one that is over
\* has reached it or its time.
CountOK ==
  \A w \in Puts :
    /\ kind[w] = "key" /\ c[w].num > 0 /\ wpc[w] = "generate" => generated[w] < c[w].num
    /\ wpc[w] = "over" => timeout[w] \/ (c[w].num > 0 /\ generated[w] = c[w].num)

\* A worker that generated a key after its cancellation is on its way out.
LateOK ==
  \A w \in Puts :
    late[w] > 0 => /\ canceled[w]
                   /\ wpc[w] \in {"report", "loop", "bye", "over", "exit", "stopped"}

\* When every LoadConfig has written its config and none waits for the lock,
\* what Restart has done or is doing follows from the config.
SettlingOK ==
  (\A p \in Puts : ppc[p] \notin {"write", "lock"}) =>
    /\ mu = Nil => (cancelFunc # Nil) = config.enable
    /\ \A p \in Puts : ppc[p] \in {"choose", "spawn"} => config.enable
    /\ \A p \in Puts : ppc[p] = "spawn" => kind[p] = (IF config.memq THEN "memq" ELSE "key")
    /\ mu = Nil /\ cancelFunc # Nil =>
         /\ c[cancelFunc] = config
         /\ kind[cancelFunc] = (IF config.memq THEN "memq" ELSE "key")

IInv == /\ TypeOK
        /\ LockOK
        /\ WorkerOK
        /\ CancelFuncOK
        /\ CountOK
        /\ LateOK
        /\ SettlingOK
        /\ OneWorker
        /\ HistoryContiguous
        /\ LimitKept
        /\ CancelStopsSoon
        /\ ExitJustified
=============================================================================
