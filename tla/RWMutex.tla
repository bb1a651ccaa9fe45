------------------------------ MODULE RWMutex ------------------------------
(***************************************************************************)
(* Go's sync.RWMutex as the broker uses it (Lock, Unlock, RLock, RUnlock), *)
(* a value held in a variable of the module that uses it.                  *)
(*                                                                         *)
(* Lock takes two moments: the caller first becomes the announced writer   *)
(* (the only one: writers exclude each other), and owns the mutex once the *)
(* readers of that time have left.  From the announcement on, a new RLock  *)
(* queues; Unlock admits every queued reader before the next writer.       *)
(***************************************************************************)

CONSTANTS Requests, \* the goroutines that lock
          Nil       \* Go's nil: here, no writer

ASSUME NilAssumption == Nil \notin Requests

Mutexes == [writer: Requests \cup {Nil}, readers: SUBSET Requests,
            queued: SUBSET Requests]

Mutex(w, rs, qs) == [writer |-> w, readers |-> rs, queued |-> qs]
Unlocked == Mutex(Nil, {}, {})

\* mu.Lock(): what the announcement needs, what it does, when the caller owns
\* the mutex.
MayAnnounce(mu) == mu.writer = Nil
Announce(mu, r) == Mutex(r, mu.readers, mu.queued)
WriteOwned(mu, r) == mu.writer = r /\ mu.readers = {}

\* mu.Unlock(): the readers that queued behind the writer hold the mutex.
Unlock(mu) == Mutex(Nil, mu.readers \cup mu.queued, {})

\* mu.RLock(): granted at once, or queued behind the announced writer.
RLock(mu, r) == IF mu.writer = Nil
                  THEN Mutex(Nil, mu.readers \cup {r}, mu.queued)
                  ELSE Mutex(mu.writer, mu.readers, mu.queued \cup {r})
ReadOwned(mu, r) == r \in mu.readers

\* mu.RUnlock()
RUnlock(mu, r) == Mutex(mu.writer, mu.readers \ {r}, mu.queued)
=============================================================================
