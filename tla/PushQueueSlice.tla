---------------------------- MODULE PushQueueSlice ----------------------------
(***************************************************************************)
(* PushQueue at the level of the Go slice it is made of: the header (array *)
(* pointer, length, capacity) in the struct and the arrays on the heap.    *)
(* AddToQueue and RemoveFromQueueWithIndex read the header, work on their  *)
(* copy of it and write it back, with no lock; handlers, closer and worker *)
(* run them in parallel (the Mutex embedded in StaffHandler is not used).  *)
(*                                                                         *)
(* The stores of an append are in the order of the compiled code: new      *)
(* array and capacity if it had to grow, then the length, then the         *)
(* element.  Loads of the whole header are one step, and the words behind  *)
(* the end of an array are all alike, which leaves out some outcomes of a  *)
(* race but adds none.  Slices are as short as queues are: an array that   *)
(* is too small is doubled (Go does so up to 256 elements).                *)
(***************************************************************************)
EXTENDS Naturals, Sequences, FiniteSets, SequencesExt

CONSTANTS
    Requests,   \* pointers to channel requests; each is made once
    Adders,     \* goroutines that call AddToQueue: handlers and the closer
    Worker,     \* the goroutine of HandlePushRequest
    Nil         \* the zero pointer

ASSUME SliceAssumption ==
    /\ Worker \notin Adders
    /\ Nil \notin Requests

Threads == Adders \cup {Worker}

VARIABLES
    header,     \* pq.Queue: ptr is an index into arrays, 0 for the empty array
    arrays,     \* the arrays on the heap, in order of allocation
    pc,         \* where each goroutine is inside a call, "out" if in none
    local,      \* the copy of the header each goroutine works on
    arg,        \* the request each goroutine is adding
    wpc,        \* where the worker is between its calls
    i,          \* the worker's index
    request,    \* the request the worker has read
    made,       \* history: the requests that were ever allocated
    owed,       \* history: requests whose add has returned and whose removal has not
    overlapped  \* history: a call began while another was under way

vars == <<header, arrays, pc, local, arg, wpc, i, request, made, owed, overlapped>>

Header == [ptr : Nat, len : Nat, cap : Nat]
Empty  == [ptr |-> 0, len |-> 0, cap |-> 0]

Init ==
    /\ header = Empty
    /\ arrays = <<>>
    /\ pc = [t \in Threads |-> "out"]
    /\ local = [t \in Threads |-> Empty]
    /\ arg = [t \in Threads |-> Nil]
    /\ wpc = "check"
    /\ i = 0
    /\ request = Nil
    /\ made = {}
    /\ owed = {}
    /\ overlapped = FALSE

\* The elements below the length of a header.
Elements(h) == [k \in 1 .. h.len |-> arrays[h.ptr][k]]

\* Goroutine t begins a call; nothing keeps it from doing so inside another's.
Enter(t) ==
    /\ pc[t] = "out"
    /\ overlapped' = (overlapped \/ \E u \in Threads : pc[u] # "out")

Goto(t, label) == pc' = [pc EXCEPT ![t] = label]

\* The end of a call: the copy of the header is gone.
Return(t) ==
    /\ Goto(t, "out")
    /\ local' = [local EXCEPT ![t] = Empty]

\* What a load from behind the end of an array may give.  A length beyond the
\* capacity comes from calls that overlap, and the bound checks trust it.
Junk(h) == IF h.len > h.cap THEN made \cup {Nil} ELSE {Nil}

Word(h, k, junk) == IF k <= h.cap THEN arrays[h.ptr][k] ELSE junk

\* The capacity for n elements of an array that had too little of it.
GrownCap(cap, n) == IF n > 2 * cap THEN n ELSE 2 * cap

-------------------------------------------------------------------------------
(* pq.Queue = append(pq.Queue, request) *)

Allocate(t) ==
    \E r \in Requests \ made :
        /\ made' = made \cup {r}
        /\ arg' = [arg EXCEPT ![t] = r]

\* Faulty: room is tested for by equality, as if the length could not be beyond it.
AddLoadByEquality(t) ==
    /\ Enter(t)
    /\ IF t = Worker
       THEN wpc = "chain" /\ UNCHANGED <<arg, made>>
       ELSE Allocate(t)
    /\ local' = [local EXCEPT ![t] = header]
    /\ Goto(t, IF header.len = header.cap THEN "grow" ELSE "setlen")
    /\ UNCHANGED <<header, arrays, wpc, i, request, owed>>

AddLoad(t) ==
    /\ Enter(t)
    /\ IF t = Worker
       THEN wpc = "chain" /\ UNCHANGED <<arg, made>>
       ELSE Allocate(t)
    /\ local' = [local EXCEPT ![t] = header]
    /\ Goto(t, IF header.len >= header.cap THEN "grow" ELSE "setlen")
    /\ UNCHANGED <<header, arrays, wpc, i, request, owed>>

AddGrow(t) ==
    LET cap == GrownCap(local[t].cap, local[t].len + 1)
        ptr == Len(arrays) + 1
    IN
    /\ pc[t] = "grow"
    /\ \E junk \in Junk(local[t]) :
          arrays' = Append(arrays, [k \in 1 .. cap |->
                       IF k <= local[t].len THEN Word(local[t], k, junk) ELSE Nil])
    /\ header' = [header EXCEPT !.ptr = ptr, !.cap = cap]
    /\ local' = [local EXCEPT ![t].ptr = ptr, ![t].cap = cap]
    /\ Goto(t, "setlen")
    /\ UNCHANGED <<arg, wpc, i, request, made, owed, overlapped>>

AddSetLen(t) ==
    /\ pc[t] = "setlen"
    /\ header' = [header EXCEPT !.len = local[t].len + 1]
    /\ Goto(t, "store")
    /\ UNCHANGED <<arrays, local, arg, wpc, i, request, made, owed, overlapped>>

AddStore(t) ==
    /\ pc[t] = "store"
    /\ arrays' = [arrays EXCEPT ![local[t].ptr][local[t].len + 1] = arg[t]]
    /\ owed' = owed \cup {arg[t]}
    /\ Return(t)
    /\ arg' = [arg EXCEPT ![t] = Nil]
    /\ wpc' = IF t = Worker THEN "remove" ELSE wpc
    /\ UNCHANGED <<header, i, request, made, overlapped>>

-------------------------------------------------------------------------------
(* RemoveFromQueueWithIndex(i), called by the worker only *)

RemoveCheck ==
    /\ Enter(Worker)
    /\ wpc = "remove"
    /\ IF header.len > i
       THEN Goto(Worker, "splice") /\ UNCHANGED <<wpc, owed>>
       ELSE wpc' = "check" /\ owed' = owed \ {request} /\ UNCHANGED pc
    /\ UNCHANGED <<header, arrays, local, arg, i, request, made>>

\* Faulty: append(pq.Queue[:i-1], pq.Queue[i:]...).
RemoveSpliceOneEarly ==
    /\ pc[Worker] = "splice"
    /\ header.len > i /\ header.len <= header.cap
    /\ local' = [local EXCEPT ![Worker] = header]
    /\ arrays' = [arrays EXCEPT ![header.ptr] =
                     [k \in DOMAIN @ |-> IF k >= i /\ k < header.len THEN @[k + 1] ELSE @[k]]]
    /\ Goto(Worker, "shrink")
    /\ UNCHANGED <<header, arg, wpc, i, request, made, owed, overlapped>>

\* What is at place k when the element at i + 1 is left out of the slice.
Spliced(k, junk) ==
    IF k > i /\ k < header.len THEN Word(header, k + 1, junk) ELSE Word(header, k, junk)

\* append(pq.Queue[:i], pq.Queue[i+1:]...): the elements above i move down in
\* place, or into a new array if the length was so far beyond the capacity that
\* they would not fit.
RemoveSplice ==
    LET len == header.len - 1
        cap == GrownCap(header.cap, len)
    IN
    /\ pc[Worker] = "splice"
    /\ i < header.len /\ i <= header.cap
    /\ \E junk \in Junk(header) :
          IF len <= header.cap
          THEN /\ arrays' = [arrays EXCEPT ![header.ptr] = [k \in DOMAIN @ |-> Spliced(k, junk)]]
               /\ local' = [local EXCEPT ![Worker] = header]
          ELSE /\ arrays' = Append(arrays, [k \in 1 .. cap |->
                               IF k <= len THEN Spliced(k, junk) ELSE Nil])
               /\ local' = [local EXCEPT ![Worker] =
                               [header EXCEPT !.ptr = Len(arrays) + 1, !.cap = cap]]
    /\ Goto(Worker, "shrink")
    /\ UNCHANGED <<header, arg, wpc, i, request, made, owed, overlapped>>

\* A slice expression panics: the length fell to i, or i is beyond the capacity.
RemovePanic ==
    /\ pc[Worker] = "splice"
    /\ i >= header.len \/ i > header.cap
    /\ wpc' = "panic"
    /\ UNCHANGED <<header, arrays, pc, local, arg, i, request, made, owed, overlapped>>

\* Faulty: append(pq.Queue[:i+1], pq.Queue[i+1:]...), nothing gets shorter.
RemoveStoreSameLength ==
    /\ pc[Worker] = "shrink"
    /\ header' = local[Worker]
    /\ owed' = owed \ {request}
    /\ Return(Worker)
    /\ wpc' = "check"
    /\ UNCHANGED <<arrays, arg, i, request, made, overlapped>>

\* The header of the result is written back, all three words of it.
RemoveStore ==
    /\ pc[Worker] = "shrink"
    /\ header' = [local[Worker] EXCEPT !.len = @ - 1]
    /\ owed' = owed \ {request}
    /\ Return(Worker)
    /\ wpc' = "check"
    /\ UNCHANGED <<arrays, arg, i, request, made, overlapped>>

-------------------------------------------------------------------------------
(* The worker's reads, HandlePushRequest *)

\* Faulty: i > len(GetQueue()).
WorkerCheckOneLate ==
    /\ Enter(Worker)
    /\ wpc = "check"
    /\ IF i > header.len
       THEN i' = 0 /\ UNCHANGED wpc
       ELSE wpc' = "get" /\ UNCHANGED i
    /\ UNCHANGED <<header, arrays, pc, local, arg, request, made, owed>>

\* i >= len(GetQueue()): the pass is over and the next one starts at 0.
WorkerCheck ==
    /\ Enter(Worker)
    /\ wpc = "check"
    /\ IF i >= header.len
       THEN i' = 0 /\ UNCHANGED wpc
       ELSE wpc' = "get" /\ UNCHANGED i
    /\ UNCHANGED <<header, arrays, pc, local, arg, request, made, owed>>

\* GetQueue()[i], then a look at its Type: out of range or nil is a panic.
WorkerGet ==
    /\ Enter(Worker)
    /\ wpc = "get"
    /\ IF i < header.len
       THEN \E junk \in Junk(header) :
               LET r == Word(header, i + 1, junk)
               IN  IF r # Nil
                   THEN wpc' = "answer" /\ request' = r
                   ELSE wpc' = "panic" /\ UNCHANGED request
       ELSE wpc' = "panic" /\ UNCHANGED request
    /\ UNCHANGED <<header, arrays, pc, local, arg, i, made, owed>>

\* Faulty: a request to retry moves the index back.
WorkerAnswerSteppingBack ==
    /\ wpc = "answer"
    /\ \/ wpc' = "chain" /\ Allocate(Worker) /\ UNCHANGED i
       \/ wpc' = "remove" /\ UNCHANGED <<i, arg, made>>
       \/ wpc' = "check" /\ i' = i - 1 /\ UNCHANGED <<arg, made>>
    /\ UNCHANGED <<header, arrays, pc, local, request, owed, overlapped>>

\* The bot handler accepts (with or without a next request), refuses, or asks to
\* retry.
WorkerAnswer ==
    /\ wpc = "answer"
    /\ \/ wpc' = "chain" /\ Allocate(Worker) /\ UNCHANGED i
       \/ wpc' = "remove" /\ UNCHANGED <<i, arg, made>>
       \/ wpc' = "check" /\ i' = i + 1 /\ UNCHANGED <<arg, made>>
    /\ UNCHANGED <<header, arrays, pc, local, request, owed, overlapped>>

Next ==
    /\ wpc # "panic"
    /\ \/ \E t \in Threads : AddLoad(t) \/ AddGrow(t) \/ AddSetLen(t) \/ AddStore(t)
       \/ RemoveCheck \/ RemoveSplice \/ RemovePanic \/ RemoveStore
       \/ WorkerCheck \/ WorkerGet \/ WorkerAnswer

Spec == Init /\ [][Next]_vars

-------------------------------------------------------------------------------
(* Properties *)

Quiet == \A t \in Threads : pc[t] = "out"

\* The types of the slice, its arrays and the goroutines' copies.
TypeOK ==
    /\ header \in Header
    /\ \A a \in DOMAIN arrays : \A k \in DOMAIN arrays[a] : arrays[a][k] \in Requests \cup {Nil}
    /\ pc \in [Threads -> {"out", "grow", "setlen", "store", "splice", "shrink"}]
    /\ local \in [Threads -> Header]
    /\ arg \in [Threads -> Requests \cup {Nil}]
    /\ wpc \in {"check", "get", "answer", "chain", "remove", "panic"}
    /\ i \in Nat
    /\ request \in Requests \cup {Nil}
    /\ made \subseteq Requests
    /\ owed \subseteq made
    /\ overlapped \in BOOLEAN

\* However calls overlap, the header names an array of the capacity it says, and an
\* append that is about to store its element has a place for it inside the array it
\* loaded or made: races lose requests and show holes, but write nothing outside.
StoresInside ==
    /\ header.ptr # 0 => header.ptr \in DOMAIN arrays /\ DOMAIN arrays[header.ptr] = 1 .. header.cap
    /\ \A t \in Threads : pc[t] \in {"setlen", "store"} =>
          local[t].ptr \in DOMAIN arrays /\ local[t].len + 1 \in DOMAIN arrays[local[t].ptr]

\* "PushQueue is a struct that holds all the requests that needs to be pushed"
\* (service.queue.go:8): between calls, every request that was added and is not
\* dealt with is an element of the queue.
HoldsAllRequests ==
    Quiet => \A r \in owed : \E k \in 1 .. header.len : Elements(header)[k] = r

\* That is what append and removal do as long as no two calls have overlapped.
HeldUntilOverlap == ~overlapped => HoldsAllRequests

\* The worker never indexes past the queue nor reads a hole in it, until calls
\* overlap: its check, its read and its removal are three calls, and adds come
\* between them.
WorkerStaysUp == ~overlapped => wpc # "panic"

\* What the list looks like from outside while a call is half done: an append
\* takes effect with its last store, a removal when its elements have moved.
Contents ==
    IF \E t \in Threads : pc[t] \in {"grow", "setlen", "store"}
    THEN LET t == CHOOSE u \in Threads : pc[u] \in {"grow", "setlen", "store"}
         IN  Elements(local[t])
    ELSE IF pc[Worker] = "shrink"
         THEN Elements([header EXCEPT !.len = @ - 1])
         ELSE Elements(header)

\* The requests whose append has taken effect.
Added == made \ {arg[t] : t \in Threads}

List == INSTANCE PushQueue WITH queue <- Contents, added <- Added, intact <- ~overlapped

\* Until calls overlap, slice and arrays are the list of PushQueue: growing, writing
\* in place and moving elements down show no request twice, lose none and reorder
\* none.
ImplementsList == List!Spec
===============================================================================
