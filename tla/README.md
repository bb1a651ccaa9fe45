# Verification of the programs of k8s-AKS-primer

The repository is a course on Kubernetes: manifests, scripts and text, and under `apps/` the programs that
the course deploys. This project models the programs that keep state while several things happen at once:
goroutines behind one server, pages that poll, replicas that die. Paths below are relative to `src/`.

## 1. The system

| Component | State | Operations | Talks to |
|---|---|---|---|
| **memq broker** `apps/kuard/pkg/memq/server` | a map of named queues; per queue its messages and four counters; one `RWMutex` for the map, one per queue | create, delete, drain, enqueue, dequeue, stats over HTTP | memq client, pages |
| **memq client** `apps/kuard/pkg/memq/client` | none | one HTTP call per operation | broker; used by the key generator |
| **key generator** `apps/kuard/pkg/keygen` | config, output history, counters, the cancel function of the running worker, one mutex; per worker a copy of the config | PUT and GET of the config; a worker that generates keys, by itself or for items of a queue | its pages; a broker through the client; may end the process |
| **debug probe** `apps/kuard/pkg/debugprobe` | how many probes are still to fail, the last 20 probes, one mutex | probe (kubelet), PUT and GET of the config | kubelet, its pages |
| **kuard pages** `apps/kuard/client/src` | what each page shows, the sign for a lost connection | poll each second, configure | the servers above |
| **memory leaker** `apps/kuard/pkg/memory` | a slice of leaks, without a lock | leak, clear | its page |
| **DNS query** `apps/kuard/pkg/dnsapi` | none between requests | query along a search list | its page, a DNS server |
| **application** `apps/kuard/pkg/app`, `htmlutils`, `sitedata` | the listeners; the parsed templates behind a mutex | load the configuration, listen on HTTPS and HTTP, render the root page | the parts above, Kubernetes |
| **graceful shutdown demo** `apps/go` | an HTTP server, its shutdown | serve, signal, shut down | clients, kubelet |
| **wordsmith** `apps/wordsmith` | the page's words; a memoized word per replica and kind; the database | load a page, forward, answer, retry | page -> forwarder -> replicas -> database |
| **kubeview server** `apps/kubeview/cmd/server` | none | scrape: ten Lists of the Kubernetes API | viewer, Kubernetes |
| **kubeview viewer** `apps/kubeview/web/client` | stored data, drawn graph, spinner, selected namespace, a refresh timer | hard and soft refresh | kubeview server |

The remaining programs (a CPU and RAM demo, a database operator that does not load, an image classifier, OCR,
load generators, one-line servers) keep nothing between requests. `PROJECT.json` lists them with the reason
why each is left out.

What is hard in this code, and what correctness means for each part:

* **memq.** Two levels of locks, and a pointer that is used after the map's lock is released: a Put or Get may
  act on a queue that was deleted or created anew meanwhile. Counters and slices change in separate
  statements. *Correct* means: counters balance and agree with what clients were told, FIFO order, no message
  delivered twice or silently lost, Stats never shows a half-done update, no deadlock, and answers that have a
  sequential reading.
* **memq client, queue worker and Job.** A call whose connection broke may have been done, may be done later or
  never; workers and server are killed and start again. *Correct*: no item is worked on twice, a fault costs one
  item at most, a worker exits only when what it could see is gone, and the Job completes.
* **keygen.** The config is assigned outside the lock, a cancelled worker notices late, `select` picks at
  random. *Correct*: one worker within reach of the next Restart, the torn config is repaired, limits are
  kept, history is contiguous, `os.Exit` only for a reason that the config gives, cancelled workers stop.
* **debug probe and pages.** PUT is two critical sections; replies overtake each other; a PUT is still acted on
  after its page reported a lost connection; the container restarts. *Correct*: as many failures as ordered, a history that says so, pages that end up right.
* **kuard application.** The leaks are a Go slice that requests change without a lock, templates are loaded
  while a developer edits the files, the HTTPS listener starts beside the HTTP one, and the process ends for many
  reasons. *Correct*: leaks that were acknowledged are held, a page is never
  older than its request, no panic keeps a mutex, every request ends.
* **graceful shutdown.** `ListenAndServe` returns when a shutdown begins or when Accept fails, the deadline races the
  requests, a signal may find nobody waiting. *Correct*: nothing is cut off before the deadline, and the server ends.
* **wordsmith.** A word is memoized, the database fails, replicas die, only the page retries, and requests of a page
  that was left or loaded again still reach the replicas. *Correct*: words
  with one living source agree, every page ends up complete.
* **kubeview.** Ten Lists are no snapshot, one of them may fail unnoticed, refreshes overtake each other, an
  exception in a callback leaves the rest undone. *Correct*: the graph is never a mixture of two answers, and
  auto refresh brings what is in the cluster.

`PROJECT.json` lists these as hazards, each at its line with the properties that watch it, or with a note why
none does yet.

## 2. Modules

Every model follows one convention: a step is what one actor does between two points where another one can
see or disturb it. Definitions keep the names of the code; each is preceded by a comment that names the code
it stands for. Definitions called `Bug...` are plausible mistakes in the definition after them: replacing the
definition by its `Bug...` form makes TLC report the property that `PROJECT.json` names, which shows that the
property depends on that code.

### kuard memq

* `RWMutex`: Go's `sync.RWMutex` as a value. `Lock` first announces a writer and owns the mutex when the
  readers of that time have left; an announced writer blocks new readers; `Unlock` admits the queued readers.
* `MemqBroker`: `server/api.go` and `server/broker.go`. A member of `Requests` is one HTTP request, a
  goroutine with program counter `pc`. The name of a request also names what it allocates: the Queue object of
  a create, the uuid of an enqueue, so objects outlive their names as they do in Go. `table` is
  `Broker.Queues`; `depth, enqueued, dequeued, drained, messages` are the fields of Queue; `q`, `m`, `todo`,
  `stat` are locals. Assignments inside a critical section are separate steps (`AppendMessage` then
  `CountEnqueued`, `Clear` then `Zero`, `ReadHead`, `Pop`, `CountDequeued`), so the exclusion that the locks
  provide is checked, not assumed. `log` is a history variable.
* `MemqBrokerInv`: the inductive invariant, who waits for whom (`Ready`, `NobodyStuck`) and how much a request has
  left (`Nearer`). `MemqBrokerProofs`: the lemmas about `RWMutex`, the invariant, that every step of the broker is a
  step of `QueueService` or none, that its answers are linearizable, and that it neither blocks nor goes back.
* `QueueService`: what the broker promises, without locks or half-done updates. Create, delete and drain act
  in one step; Put and Get find their queue in one step and use it in a later one; Stats lists the names,
  visits each queue on its own and lets no name come or go meanwhile.
* `MemqRefinement`: the mapping. An operation takes effect at its first assignment to shared state; `STally`
  adds the count that an operation still owes.
* `MemqLinearizability`: the broker beside an observer who sees only arrivals and answers and keeps every
  state of a sequential server that explains them. Stats is no operation of that server, because it locks one
  queue after another (`broker.go:182`); the observer watches it collect each record. `MemqLinearizabilityInv`:
  why the observer always has such a state left.

### kuard work queue

* `MemqClient`: `memq/client/client.go` over a network that breaks connections, with `QueueService`, the abstract
  server, as the server: what the broker is shown to implement is what its client may rely on. A member of
  `Calls` is one call of a client function. `http.DefaultClient` sends a PUT, POST or DELETE once, so `Do` either
  reaches the server or breaks; `Break` cuts an open connection without telling the server, which may still act
  (`Forget` ends such a call). `ServerRestarts` is the queue pod's restart with an empty broker. A Dequeue's name is
  given back when nothing of it is left (`Recycled`), so that workers ask without limit.
* `WorkQueue`: the Job of `examples-yaml/10-7-job-consumers.yaml`: a script (`10-6-load-queue.sh` and what an
  administrator may add) and the workers of `keygen/memq.go` with ExitOnComplete: `Ask`, then `GetItem`, `Fails` or
  `Exit`, then `Work`. `Kill` is a pod that dies and is started again (restartPolicy OnFailure). An item is the
  Enqueue that brings it; `done` and `seen` are history variables.
* `WorkQueueProofs`: the two inductive invariants, where an item is and what is lost, and their proofs.

### kuard application

* `KuardApp`: `cmd/kuard/main.go`, `pkg/app`: the steps of `main` and `Run` in their order, the HTTPS listener in
  its own goroutine, the ends of the process (a setting, a certificate or a port that fails, an Accept that fails, the
  key generator, a kill) and its restart. The pages below are INSTANCEs that share the
  goroutines of requests (`Handlers`: `pc` and `answer` of each request, a panic included, which `net/http` turns
  into a dropped connection). Ending the process resets each of them.
* `MemoryLeak`: `pkg/memory`. The slice header is three words, read and written one at a time, in any order, as the
  data race between two `append`s and a clear allows; `growslice` and its copy are one step.
* `TemplateGroup`: `htmlutils.TemplateGroup` and `sitedata`: the mutex, loading from the binary or from a directory
  that is listed first and read file by file while it changes, parsing, and the panics that leave the mutex by
  its deferred unlock.
* `DnsQuery`: `dnsQuery`'s loop over the search list, one Exchange at a time.
* `KuardAppProofs`: the inductive invariant of the process with its three pages, one section per page, and its proof.

### kuard keygen

* `KeyGen`: `pkg/keygen`. A member of `Puts` is a call of `LoadConfig` and the worker it starts. `WriteConfig`
  assigns `kg.config` field by field without the lock. `Restart` is three steps under `mu` because it reads
  the config three times while another PUT may write it: `Cancel`, `Enable`, then `Choose` and `Spawn`. A
  worker is `Start`, `Select` (both cases of `isDone`'s select, at random when both are ready), `Count`,
  `Generate`, `Report`, and for a queue worker `Dequeue` and `Retry`; `Bye`, `Over` and `Exit` are its ends.
  The broker appears as the possible outcomes of one Dequeue.
* `KeyGenInv`, `KeyGenProofs`: the inductive invariant and its proof.

### kuard debug probe and its pages

* `DebugProbe`: `pkg/debugprobe`. Each handler holds the mutex from its first access to its last, so it is one
  step, except `APIPut`: `SetConfig`, then `APIGet`. `ordered` and `since` are history variables. As a
  specification of its own (`ProbeSpec`) it also serves as the abstract view of the composition.
* `ProbePage`: `client/src/probe.jsx` and `disconnected.jsx` with `DebugProbe` as the server, the kubelet as
  prober and restarter, and a network that loses requests and replies. Fetches are answered in any order. A
  connection that breaks may leave a PUT with the server, which acts on it later (`PutStray`).
* `ProbePageProofs`: the proofs about the probe alone, and about the pages that use it.

### graceful shutdown demo

* `GoServer`: `apps/go/main.go`, with `main` and `serveHTTP` as two actors, the timer of the context, signals
  and requests. `net/http` is modelled as Go 1.9 has it, which the Dockerfile builds with: a server that was
  shut down before it listened still listens, and an Accept that fails for good closes the listener (`AcceptFails`)
  before `serveHTTP` learns of it and ends the process (`Fatal`). A connection is registered as it is accepted. The metrics and
  probe servers keep no state. `GoServerProofs` has the proof.

### wordsmith

* `Wordsmith`: the page (`Load`, `Show`, `Retry`, `Refresh` at any time), the forwarder (`Forward`), the replicas (`Accept`, `Recall`,
  `RandomWord`, `NoSuchElement`) and faults of pods and database. A replica's `HttpServer` has no executor, so
  one thread serves one request at a time; requests of others and of pages that are gone take their turn
  (`AcceptOther`, `HandleOther`) and may be the ones that fill a memo. `web2`, `words2` and `db2` are the same programs with other texts.
* `WordsmithProofs`: the proof, for any number of replicas, loads, crashes and outages.

### kubeview

* `KubeviewScrape`: `routeScrapeData`, one List at a time while the cluster changes; each List overwrites the
  error of the one before. Ten kinds become three that behave differently: pods, listed first; claims, which
  the viewer looks up for a pod; ingresses, listed last.
* `KubeviewViewer`: `refreshData`, `detectChange`, the timer and the namespace of `Viewer.vue` and `App.vue`.
  `Draw` and `Raises` say how far `refreshNodes` gets; links, groups, icons and the filter are left out.
* `KubeviewProofs`: the proof, over any set of namespaces and any number of versions, failures and clicks.

## 3. What is checked

All runs check for deadlock. Bounds on environments are CONSTANTS named `Max...` and appear in guards.

| Run | Instance | Shows |
|---|---|---|
| `memq_safety` | 4 requests, 2 queue names | `TypeOK`, `Conservation`, `StatsBalanced`, `FIFO`, `NamedQueue`; the answers are `Linearizable`; the broker `ImplementsService` |
| `memq_liveness` | 3 requests, 2 names | every request is `Answered` |
| `work_queue` | 3 scripts of 3 or 4 calls, 2 workers, 3 Dequeue calls in flight, 1 fault | `TypeOK`, `OneWorkerPerItem`, `LossBounded`, `ExitsWhenEmpty`; `JobCompletes` |
| `keygen_safety` | 2 PUTs of 4 configs, history of 2, 2 rounds | `TypeOK`, `OneWorker`, `Settled`, `HistoryContiguous`, `CancelStopsSoon`, `ExitJustified` |
| `keygen_liveness` | 2 PUTs of 2 configs, 1 round | `CanceledStops`, `PutAnswered` |
| `probe` | 1 page with 2 fetches in flight, 2 clicks, 3 probes, 1 restart, 1 loss, history of 2 | `FailsAsOrdered`, `CodesAsOrdered`, `ReadsOwnWrite`; `PagesCatchUp`, `SignGoes` |
| `kuard_app` | 8 scenarios of 2 requests, 2 leaks, 2 edits, a search list of 2, 1 kill | `TypeOK`, `LeaksHeld`, `PageIsCurrent`, `PanicNeedsMissing`, `FirstAnswerWins`; every request is `Answered` |
| `goserver` | 3 requests, 2 signals | `GoInv`, `Graceful`; `ShutdownEnds` |
| `goserver_signal_lost` | 2 requests, 1 signal | **violated**: `SignalEnds` |
| `wordsmith` | 2 replicas, 2 words of one kind, 2 loads, 2 faults | `SourceKeepsWord`; `PageCompletes` |
| `kubeview` | 2 namespaces, 2 requests in flight, 2 changes, 1 failure, 1 click | `TypeOK`, `DrawnFromData`; `DataSettles` |
| `kubeview_partial_failure` | same | **violated**: `DataUpdated` |

`LossBounded` counts what is lost against the faults so far, so it says of each fault what it may cost, and
excepts queues that somebody drained or deleted and servers that lost their memory. `JobCompletes` has one
exception, and the example's text states it: with its queue gone a worker retries for ever. `LeaksHeld` excepts
requests that overlap, where the unlocked slice promises nothing, and says that a clear that overlaps none
repairs everything. `DrawnFromData` says besides that without failures the graph is empty only while a refresh
that cleared it waits for its answer.

Why the bounds are enough:

* *memq*: a hazard needs a create, a second operation on the queue, and one or two that get in between; four
  requests hold every pair of operations racing on a queue that was created, and a delete or a second create
  besides. With two names Stats visits two queues and a drain of one meets a create of another. Symmetry is
  used for safety only; requests and names are interchangeable in every definition. The proofs have no such bound.
* *work queue*: two workers and two items let one worker hold an item while the other asks, fails or exits; a
  third Dequeue lets a call that its caller gave up linger while both workers ask anew. One fault is either a
  connection broken before or after the server acted, a killed pod, or a server restart. The three scripts load, drain
  what was loaded, and take the queue away and bring it back under Stats. The proof has no such bound.
* *application*: each scenario puts two pages that share something side by side (two leaks; two loads of the
  template), or the ends of the process beside one. Two leaks and a clear are enough for every order of words;
  two edits put a swap file there and take it away, or take the template away and bring it back.
* *keygen*: two PUTs give a cancelled worker and its successor, and a torn config. The four configs are a
  limited and a timed workload and a queue worker that exit on completion, and the disabled one. `MaxRounds`
  bounds only what a worker without a limit does before it is cancelled. `MaxHistory` is 2 instead of 20, so
  that trimming happens.
* *probe*: two fetches suffice for replies that overtake each other; whether two PUTs come from one page or from
  two makes no difference to the probe. A count of 2 is longer than one probe and shorter than three; -1 and
  the flag's 1 are the other cases. Two errors while the sign is visible come from the restart and the loss;
  a lost PUT and a second click are a configuration that is overwritten by an older one.
* *goserver*: one request that is done, one that is refused and one that is cut fit into one behaviour; the
  second signal comes while the first is handled. Accept fails once at most, because the listener is closed then.
* *wordsmith*: two words of one kind with two replicas show both sharing and not sharing a source; two
  faults are two replicas that are down together, a replica that crashes again, or a crash during an outage. Others ask
  without bound.
* *kubeview*: two requests overtake each other, two versions make an object that is replaced or a pod whose
  claim is gone.

Fairness, and why the code justifies it:

* Goroutines that can run do run: weak fairness. Taking a `sync.Mutex` is strongly fair because Go hands the
  mutex to a goroutine that waited for a millisecond; writers of an `RWMutex` go through such a mutex.
* Browsers fire timers and hand over what arrived; the Go timer of a context fires; the kubelet restarts
  pods, and the database comes back: weak fairness. A replica takes waiting connections in turn (strong
  fairness of `Accept`), because one thread serves its backlog.
* In `WorkQueue` the script, *some* worker and *some* request of the server go on (weak fairness of each
  disjunction): no worker and no request is favoured. In `KuardApp` a request's goroutine is strongly fair,
  because `TemplateGroup`'s mutex is handed to a waiter; starting goes on, and Kubernetes restarts the pod.
* No fairness for users, probes, faults, a failing Accept, or changes of the cluster, and none for a client that reads its response
  (`Respond` in `GoServer`) or for the answer to a Dequeue: `http.DefaultClient` has no timeout, which is why
  `CanceledStops` excepts a worker that waits for it for ever.

`DataSettles` assumes that every failed List is answered as a failure (`FailuresAnswered`);
`kubeview_partial_failure` shows that the code does not do so, and what follows.

## 4. What the runs found

* `goserver_signal_lost`: the channel for signals has no buffer, so a signal that comes after `Notify` and
  before main receives is dropped, and the server runs on.
* `kubeview_partial_failure`: a List that failed, other than the last, is answered 200 with a null; once stored,
  every soft refresh raises in `detectChange` and the viewer never updates again.

Noticed while modelling, and visible in the models without a run of their own: a cancelled queue worker that waits
in Dequeue still exits the process on an empty queue, and a timed workload whose timer fired too may
pick that case of the select (`KeyGen`; `ExitJustified` judges by the worker's own config). After a failed load or
a failed hard refresh of kubeview, `detectChange` compares with nothing or with data whose drawing was cleared, so
auto refresh stores data and the graph stays empty (the first conjunct of `DrawnFromData` is all that holds then).
An item whose Dequeue was answered is gone when the answer or its worker is lost (`LossBounded` says how many).

The proof of `Linearizable` failed at first, and rightly: the property said that the answer of Stats as a whole is of
one instant. With one name it is; with two, Stats can record a queue before an Enqueue to it is answered and the
other queue after a later Enqueue was, and five requests show that no sequential server answers so. Nothing in the
repository promises otherwise. The property now says what the code does, one instant for each record, and
`memq_safety` checks it with two names.

## 5. What is proved

The theorems hold for every value of the constants, under the assumptions that the modules state: `Nil` is none
of the requests, PUTs or queues, `MaxHistory` is a positive number, configs and counts are what their types say.

* **memq** (`Invariance`, and from it `Typing`, `CountersConserved`, `StatsConsistent`, `FirstInFirstOut`,
  `DrainsNamedQueue`). `Conservation` is not inductive: that a queue at rest balances follows only from where
  each half-done update has got to (`UpdateOK`), from the fact that one goroutine at a time is inside a
  critical section of a queue (`QueueLockOK`, `BrokerLockOK`, over the announced writer and the readers of each
  mutex), and from the fact that Queue objects are fresh until their create is answered (`FreshOK`,
  `TableOK`, `PointersOK`). One lemma per part, one step per action.
  `BrokerImplementsService` is the refinement, for every set of requests and names: the mapping is in
  `MemqRefinement`, `Owed` adds the counts that are due, and `StepMaps` shows for each of the broker's actions which one
  of the service it is, or that it is none. What it needs of the invariant is who is inside which critical section,
  and that Queue objects and requests that were never used are untouched (`AbsentOK`, `UntouchedOK`).
* **memq, the clients' view** (`ObserverInvariance`, `AnswersAreLinearizable`): the observer never runs out of
  sequential servers. While a queue has its name, a request that uses it can be run at its last assignment.
  A Put or Get whose queue was deleted meanwhile is *late*: the sequential server must have run it just before that
  Delete, when its answer was not yet settled. So `Explained` speaks of *futures*: some contents of the queues
  (`Fits`: what they hold, with whoever is in the middle of an update not run yet) are a world for every choice of
  answers that the late requests may still be given, one after another (`Schedule`). A Delete turns each order of
  its queue's users into a future; a step of a late request leaves fewer futures, each of which was one before. That
  running some waiting requests one by one stays within `Reachable`, which runs as many as there are, is an
  induction over their number (`ChainReaches`). The set of waiting requests is always finite because requests arrive
  one at a time.
* **memq, its locks** (`NoDeadlock`, `EveryStepIsNearer`): `BrokerWaitOK` and `QueueWaitOK` say that whoever a mutex names
  as its writer, reader or queued reader is at the place in its code where it holds or awaits that mutex. If nobody
  were `Ready`, no queue could have a reader, so no writer, so nobody would await one; then the same of `Broker.mu`. And
  every step leaves less code to run, or starts another round of Stats's loop with fewer names to visit, and sets no
  other request back. Together these are what `Answered` owes to the code; the rest is the scheduler's fairness.
  `Ready(r)` stands for ENABLED of r's next step, which TLC confirmed to be the same for four requests on one name.
* **keygen** (`Invariance`, `Typing`, `WorkerInReach`, `ConfigSettles`, `HistoryKept`, `LimitsKept`,
  `ExitsJustified`). `Settled` speaks of the time when no LoadConfig is under way; `SettlingOK` strengthens it
  to what holds as soon as every config is written and nobody waits for the lock. `CountOK`, `LateOK` and
  `CancelFuncOK` carry the limits, the late keys and the reach of the cancel function.
* **work queue** (`WInvariance`, `Typing`, `WorkedOnOnce`): that no item is worked on twice is not inductive. `Places`
  says where an accepted item can be, in one queue once, in one answer, with one worker, or done, and that these
  exclude each other; `CallsOK` ties an answer that carries an item to a Dequeue that succeeded, and an item to the
  Enqueue that is named after it. One lemma per action; `PlacesKept` covers all actions that move nothing.
  A second invariant (`LInvariance`) carries `LossIsBounded` and `EmptyOnExit`. Until the queue is removed there is
  one, and every message is in it (`OneQueue`); a worker that is told of an empty queue has nothing left of what it
  had seen (`ExitOK`). Counting what is lost is not inductive: a Dequeue that nobody waits for any more, and that the
  server has still to serve, will lose an item later. `LossOK` therefore counts it already (`AtRisk`), so that its
  fault pays when the connection breaks and nothing is left to pay when the item goes.
* **debug probe** (`ProbeFailsAsOrdered`): the code of each entry that is kept follows from its position since
  the last configuration; `Fail` and `RecordRequest` shift all positions by one. `PagesUseProbe` shows that the
  composition with pages, network and kubelet is one of the probe's behaviours, so the result carries over
  (`PagesSeeOrderedFailures`). `PutReadsItself` numbers configurations: what is in a reply is not older than its own.
* **kubeview** (`KInvariance`, `Typing`, `GraphShowsData`): `UpToDate` says that while nothing has failed a mounted viewer
  shows its data or a hard refresh is in flight. A soft refresh that finds no change stores data that draws the
  same (`SameData`, about `Scan`), and without failures nothing raises (`NoRaise`, from `FailureOK`: what a null or an
  error shows has been counted).
* **graceful shutdown** (`GoInvariance`, `ShutdownIsGraceful`): `Graceful` needs that nothing runs before the server
  listens (`StartupOK`), that a server that was shut down accepts nothing any more, and that a server that ends with an
  error was not listening when it was shut down (`ShutdownOK`).
* **wordsmith** (`SInvariance`, `WordsAreKept`): `SourceKeepsWord` is about the page; the invariant says the same of every
  answer on its way, because the replica may crash before the page shows it. `DrawFact`: whoever's request is the first
  for a kind of word, no answer has come from this life of the replica with such a word.
* **application** (`AInvariance`, and from it `Typing`, `LeaksAreHeld`, `PageCurrent`, `PanicJustified`,
  `QueryDecided`). `ProcessOK` says that requests run only in a process that is configured, so that both debug
  settings agree whenever somebody loads templates. *Root page*: `ListedOK` and `FromDirectory` say of each file that
  is listed, read or loaded that it was there while the request ran, or why the page is missing; without debug only
  the templates of the binary can be loaded. *Leaker*: a request that met no other is alone at the slice
  (`OverlapOK`); what it has read and written of the header is the header (`HeldBy`), the array it will point to holds
  the leaks that are due (`WritesGood`, through `growslice`'s copy), and its own leak is nobody else's (`LeakOK`).
  *DNS*: the names before the one that is asked next had empty replies (`QueryOK`). Each page has lemmas for its own
  steps; `OtherPages` says that a step at one page keeps what the others hold.
  The first attempt failed, and showed that the model was wrong: `during`, the directories that a request for the
  page has seen, was also kept for a DNS query while `--debug` was on, so `PanicNeedsMissing` blamed the directory
  for a resolver without servers. `Edit` now leaves it alone, and a scenario of `kuard_app` covers the case.

Only model-checked, and why:

* Liveness (`Answered`, `JobCompletes`, `CanceledStops`, `PutAnswered`, `PagesCatchUp`, `SignGoes`, `ShutdownEnds`,
  `PageCompletes`, `DataSettles`): the prover handles neither fairness nor ENABLED.
* The two properties that the code violates (section 4).

Every safety property of a passing run is thus stated by a theorem. Proved and not run: `HistoryIsRecent` of the
probe and `LimitKept` of the key generator, conjuncts of the invariants there, and `NobodyStuck` and `NearerTheAnswer` of the
broker. `LInv` is proved and not run either: it quantifies over all contents that queues could have, more than TLC can
enumerate; TLC checked it with the contents computed from the state.
The library's induction theorems take an operator as a parameter and no installed prover instantiates those, so what a
recursive definition computes for every input is in general beyond them. Where `Reachable` needs induction it is over
*sets* of numbers (`NatSets`: a set with 0 and the successor of each member has all numbers, from the well-foundedness
of `<`). No module that is proved about declares a RECURSIVE operator, and the listing of the directory in
`TemplateGroup` is a concatenation and not a `SelectSeq`.

## 6. Plan

Done: memq (the state that most of kuard shares), keygen, debug probe with pages, graceful shutdown, wordsmith,
kubeview, the work queue end to end, the application with the leaker, the root page and the DNS query. What
comes next, in order of importance:

1. **The key generator's form** (`keygen.jsx:72`): polls refresh only the history, so a form submits a config
   that another client has replaced.
2. **kubeview's other handlers**: `routeGetNamespaces` goes on after its error (`routes.go:98`).
3. **Pure algorithms**, as functions against a reference definition: the resize and crop bounds of `predict.py`, the
   links that `refreshNodes` draws.

Not modelled and not planned: how pages render, what flags and environment variables set, static files, the text
of templates, metrics, the JavaScript of the other pages, which poll as the probe pages do, and everything that
happens inside Kubernetes, DNS servers, the neural network or Postgres. Those appear as the outcomes that their
callers can see.
