----------------------------- MODULE MemoryLeak -----------------------------
(***************************************************************************)
(* kuard's memory leaker (pkg/memory): POST alloc makes a slice and        *)
(* appends it to MemoryAPI.leaks, POST clear drops them all.  There is no  *)
(* lock.  leaks is three machine words, a pointer to an array, a length    *)
(* and a capacity, and each is read and written on its own, so requests    *)
(* that overlap see it half-written.                                       *)
(*                                                                         *)
(* Leaks and arrays are numbered in the order they are made.  A leak in an *)
(* array is one value, though it is a slice of three words, and a header   *)
(* whose length exceeds its array never crashes the process: what is       *)
(* claimed of the leaker holds only once such an overlap is repaired.      *)
(***************************************************************************)
EXTENDS Handlers

CONSTANT MaxLeaks \* bound: how many leaks the process makes

VARIABLES
  leaks,   \* the slice header: ptr, len and cap
  arrays,  \* arrays[p][k]: the leak in element k of array p, 0 for none
  made,    \* how many leaks were made
  leak,    \* leak[r]: the leak that r made, 0 for none
  words,   \* words[r]: the words of the header that r has read
  todo,    \* todo[r]: the words that r has still to write
  corrupt, \* whether an element was read or written beyond its array
  due,     \* history: the leaks that were acknowledged and not cleared since
  met,     \* history: the requests that ran while another did
  mixed    \* history: whether requests have overlapped, and no clear that
           \* overlapped none has run since

header == <<leaks, arrays, made, corrupt>>
local == <<leak, words, todo>>
history == <<due, met, mixed>>
memory == <<header, local, history>>

Word == {"ptr", "len", "cap"}
NilSlice == [ptr |-> 0, len |-> 0, cap |-> 0]
NoWords == [w \in {} |-> 0]

\* memory.New, in a new process.
MemoryInit ==
  /\ leaks = NilSlice
  /\ arrays = <<>>
  /\ made = 0
  /\ leak = [r \in Requests |-> 0]
  /\ words = [r \in Requests |-> NoWords]
  /\ todo = [r \in Requests |-> {}]
  /\ corrupt = FALSE
  /\ due = {}
  /\ met = {}
  /\ mixed = FALSE

\* The same, when the process is replaced by a new one.
MemoryReset ==
  /\ leaks' = NilSlice
  /\ arrays' = <<>>
  /\ made' = 0
  /\ leak' = [r \in Requests |-> 0]
  /\ words' = [r \in Requests |-> NoWords]
  /\ todo' = [r \in Requests |-> {}]
  /\ corrupt' = FALSE
  /\ due' = {}
  /\ met' = {}
  /\ mixed' = FALSE

\* The requests that are at the slice.
Touching == {r \in Requests : pc[r] \in {"read", "write"}}

\* r comes to the slice: it meets those that are there.
Meet(r) ==
  /\ met' = IF Touching = {} THEN met ELSE met \cup Touching \cup {r}
  /\ mixed' = (mixed \/ Touching # {})

-----------------------------------------------------------------------------
(* APIAlloc *)

\* No size: 400.
AllocNoSize(r) ==
  /\ Finish(r, "idle", "refused")
  /\ UNCHANGED memory

\* A negative size, or one that ParseInt puts at the end of its range: make
\* panics, and net/http drops the connection.
AllocPanics(r) ==
  /\ Finish(r, "idle", "panic")
  /\ UNCHANGED memory

\* The leak is made and append starts.  A size that is no number is refused,
\* and APIAlloc goes on with size 0.
Alloc(r, a) ==
  /\ Goto(r, "idle", "read")
  /\ made < MaxLeaks
  /\ made' = made + 1
  /\ leak' = [leak EXCEPT ![r] = made + 1]
  /\ words' = [words EXCEPT ![r] = NoWords]
  /\ answer' = [answer EXCEPT ![r] = a]
  /\ Meet(r)
  /\ UNCHANGED <<leaks, arrays, corrupt, todo, due>>

Read(r) ==
  /\ pc[r] = "read"
  /\ \E w \in Word \ DOMAIN words[r] :
       words' = [words EXCEPT ![r] = [v \in DOMAIN @ \cup {w} |-> IF v = w THEN leaks[w] ELSE @[v]]]
  /\ UNCHANGED <<pc, answer, header, leak, todo, history>>

Capacity(p) == IF p = 0 THEN 0 ELSE Len(arrays[p])

\* There is room: only the length changes.
Fits(r) ==
  /\ DOMAIN words[r] = Word
  /\ words[r].len < words[r].cap
  /\ Goto(r, "read", "write")
  /\ words' = [words EXCEPT ![r].len = @ + 1]
  /\ todo' = [todo EXCEPT ![r] = {"len"}]
  /\ UNCHANGED <<answer, header, leak, history>>

\* Mutant: one element too few is copied.
BugKept(r, k) == IF k < words[r].len THEN arrays[words[r].ptr][k] ELSE 0

\* What growslice copies into element k.
Kept(r, k) ==
  IF k <= words[r].len /\ k <= Capacity(words[r].ptr) THEN arrays[words[r].ptr][k] ELSE 0

\* There is none: growslice copies the elements into an array twice as large.
Grow(r) ==
  /\ DOMAIN words[r] = Word
  /\ words[r].len >= words[r].cap
  /\ Goto(r, "read", "write")
  /\ LET need == words[r].len + 1
         cap == IF need > 2 * words[r].cap THEN need ELSE 2 * words[r].cap
     IN /\ arrays' = Append(arrays, [k \in 1..cap |-> Kept(r, k)])
        /\ words' = [words EXCEPT ![r] = [ptr |-> Len(arrays) + 1, len |-> need, cap |-> cap]]
  /\ corrupt' = (corrupt \/ words[r].len > Capacity(words[r].ptr))
  /\ todo' = [todo EXCEPT ![r] = Word]
  /\ UNCHANGED <<answer, leaks, made, leak, history>>

\* A word of the header is written.
Write(r) ==
  /\ pc[r] = "write"
  /\ \E w \in todo[r] :
       /\ leaks' = [leaks EXCEPT ![w] = words[r][w]]
       /\ todo' = [todo EXCEPT ![r] = @ \ {w}]
  /\ UNCHANGED <<pc, answer, arrays, made, corrupt, leak, words, history>>

\* The element is written and APIAlloc returns: 200 unless it had refused.
Leaked(r) ==
  /\ pc[r] = "write" /\ leak[r] # 0
  /\ todo[r] = {}
  /\ LET p == words[r].ptr  k == words[r].len IN
       IF k <= Capacity(p)
       THEN arrays' = [arrays EXCEPT ![p][k] = leak[r]] /\ UNCHANGED corrupt
       ELSE corrupt' = TRUE /\ UNCHANGED arrays
  /\ Finish(r, "write", IF answer[r] = "refused" THEN "refused" ELSE "ok")
  /\ leak' = [leak EXCEPT ![r] = 0]
  /\ words' = [words EXCEPT ![r] = NoWords]
  /\ due' = due \cup {leak[r]}
  /\ met' = met \ {r}
  /\ UNCHANGED <<leaks, made, todo, mixed>>

-----------------------------------------------------------------------------
(* APIClear *)

Clear(r) ==
  /\ Begin(r, "write")
  /\ words' = [words EXCEPT ![r] = NilSlice]
  /\ todo' = [todo EXCEPT ![r] = Word]
  /\ Meet(r)
  /\ UNCHANGED <<header, leak, due>>

\* leaks is nil, and the collector has returned the memory.
Cleared(r) ==
  /\ pc[r] = "write" /\ leak[r] = 0
  /\ todo[r] = {}
  /\ Finish(r, "write", "ok")
  /\ words' = [words EXCEPT ![r] = NoWords]
  /\ due' = {}
  /\ met' = met \ {r}
  /\ mixed' = (mixed /\ r \in met)
  /\ UNCHANGED <<header, leak, todo>>

MemoryBegin(r) ==
  \/ AllocNoSize(r) \/ AllocPanics(r) \/ Alloc(r, "none") \/ Alloc(r, "refused") \/ Clear(r)
MemoryStep(r) == Read(r) \/ Fits(r) \/ Grow(r) \/ Write(r) \/ Leaked(r) \/ Cleared(r)

-----------------------------------------------------------------------------
(* Properties *)

MemoryTypeOK ==
  /\ leaks \in [Word -> Nat]
  /\ arrays \in Seq(Seq(0..MaxLeaks))
  /\ made \in 0..MaxLeaks
  /\ leak \in [Requests -> 0..MaxLeaks]
  /\ \A r \in Requests : DOMAIN words[r] \subseteq Word /\ todo[r] \subseteq DOMAIN words[r]
  /\ corrupt \in BOOLEAN /\ mixed \in BOOLEAN
  /\ due \subseteq 1..made
  /\ met \subseteq Touching

\* The leaks that the process holds.
Held == {arrays[leaks.ptr][k] : k \in 1..leaks.len}

\* Every leak that was acknowledged is held, and nothing else is, as long as no
\* two requests overlap; once they have, a clear that overlaps none makes it
\* true again.
LeaksHeld == Touching = {} /\ ~mixed /\ ~corrupt => Held = due /\ leaks.len = Cardinality(due)
=============================================================================
