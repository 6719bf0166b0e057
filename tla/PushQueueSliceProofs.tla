------------------------- MODULE PushQueueSliceProofs -------------------------
(***************************************************************************)
(* What holds of PushQueueSlice for every number of requests and           *)
(* goroutines and slices of any length: its memory keeps its shape however *)
(* calls overlap, and it is the list of PushQueue until they do.           *)
(***************************************************************************)
EXTENDS PushQueueSlice, QueueLemmas

Words == Requests \cup {Nil}

Adding == {"grow", "setlen", "store"}

Labels == {"out", "grow", "setlen", "store", "splice", "shrink"}

Array == UNION {[1 .. n -> Words] : n \in Nat}

\* A header names the array it has the capacity of.
Fits(h, A) ==
    /\ h.ptr \in 0 .. Len(A)
    /\ h.ptr = 0 => h.cap = 0
    /\ h.ptr # 0 => DOMAIN A[h.ptr] = 1 .. h.cap

\* Once there is an array the header always names one.
Begun ==
    header.ptr = 0 =>
        header.len = 0 /\ \A t \in Threads : pc[t] \in {"out", "grow", "splice"}

\* What a goroutine inside a call is doing, and the room it has made for it.
Places ==
    \A t \in Threads :
        /\ Fits(local[t], arrays)
        /\ pc[t] \in {"setlen", "store"} => local[t].len < local[t].cap
        /\ pc[t] = "shrink" => local[t].ptr # 0 /\ local[t].len > 0
        /\ pc[t] = "splice" => t = Worker /\ wpc \in {"remove", "panic"}
        /\ pc[t] = "shrink" => t = Worker /\ wpc = "remove"
        /\ pc[t] \in Adding /\ t = Worker => wpc = "chain"

\* A goroutine has a request to add until it has stored it, and no other has it.
ArgsOwn ==
    /\ \A t \in Adders : arg[t] # Nil <=> pc[t] \in Adding
    /\ arg[Worker] # Nil <=> wpc = "chain"
    /\ \A t, u \in Threads : arg[t] = arg[u] /\ arg[t] # Nil => t = u
    /\ \A t \in Threads : arg[t] # Nil => arg[t] \in made

\* The slice as a data structure, whatever overlaps.
Shape ==
    /\ TypeOK
    /\ arrays \in Seq(Array)
    /\ Fits(header, arrays)
    /\ Begun
    /\ Places
    /\ ArgsOwn

\* One goroutine at most is inside a call.
OneInside == \A t, u \in Threads : pc[t] # "out" /\ pc[u] # "out" => t = u

\* A goroutine inside a call has a copy of the header as it is, or as it was
\* before its own last store; the worker has not lost its index.
CopiesFresh ==
    \A t \in Threads :
        /\ pc[t] \in {"grow", "setlen", "shrink"} => local[t] = header
        /\ pc[t] = "grow" => header.len = header.cap
        /\ pc[t] = "store" => header = [local[t] EXCEPT !.len = @ + 1]
        /\ pc[t] \in {"splice", "shrink"} => i < header.len

\* The slice between the steps of calls that have not overlapped.
Alone ==
    /\ Shape
    /\ header.len <= header.cap
    /\ OneInside
    /\ CopiesFresh

\* The list from outside: no holes; what the worker reads and removes is in it,
\* and so is everything owed, up to the request whose removal has taken effect.
WorkersIndex ==
    /\ wpc # "panic"
    /\ wpc \in {"get", "answer", "chain", "remove"} /\ pc[Worker] # "shrink" => i < Len(Contents)
    /\ wpc \in {"answer", "chain", "remove"} =>
           /\ request \in Requests
           /\ pc[Worker] # "shrink" => Contents[i + 1] = request

OwedListed ==
    \A r \in owed :
        \/ \E k \in DOMAIN Contents : Contents[k] = r
        \/ pc[Worker] = "shrink" /\ r = request

\* The list until calls overlap.
ListInv ==
    /\ Alone
    /\ Contents \in Seq(Requests)
    /\ WorkersIndex
    /\ OwedListed

IInv ==
    /\ Shape
    /\ overlapped \/ ListInv

-------------------------------------------------------------------------------
(* Headers and arrays *)

\* Arrays of the heap hold requests or nothing.
LEMMA ArrayElements ==
    ASSUME NEW A \in Seq(Array), NEW a \in DOMAIN A
    PROVE  \A k \in DOMAIN A[a] : A[a][k] \in Words
<1>1. A[a] \in Array
  BY LenProperties, ElementOfSeq
<1>2. PICK n \in Nat : A[a] \in [1 .. n -> Words]
  BY <1>1 DEF Array
<1>3. QED
  BY <1>2

\* A new array is the last one, and the headers there are fit as they did.
LEMMA Grown ==
    ASSUME NEW A \in Seq(Array), NEW n \in Nat, NEW array \in [1 .. n -> Words]
    PROVE  /\ Append(A, array) \in Seq(Array)
           /\ Len(Append(A, array)) = Len(A) + 1 /\ Len(A) \in Nat
           /\ Append(A, array)[Len(A) + 1] = array
           /\ \A h : Fits(h, A) => Fits(h, Append(A, array))
<1>1. array \in Array
  BY DEF Array
<1>2. /\ Append(A, array) \in Seq(Array)
      /\ Len(Append(A, array)) = Len(A) + 1 /\ Len(A) \in Nat
      /\ \A a \in 1 .. Len(A) : Append(A, array)[a] = A[a]
      /\ Append(A, array)[Len(A) + 1] = array
  BY <1>1, AppendProperties, LenProperties
<1>3. ASSUME NEW h, Fits(h, A) PROVE Fits(h, Append(A, array))
  <2> DEFINE B == Append(A, array)
  <2>1. h.ptr \in 0 .. Len(A) /\ (h.ptr = 0 => h.cap = 0)
        /\ (h.ptr # 0 => DOMAIN A[h.ptr] = 1 .. h.cap)
    BY <1>3 DEF Fits
  <2>2. h.ptr # 0 => B[h.ptr] = A[h.ptr]
    BY <1>2, <2>1
  <2>3. h.ptr \in 0 .. Len(B)
    BY <1>2, <2>1
  <2> HIDE DEF B
  <2>4. QED
    BY <2>1, <2>2, <2>3 DEF Fits, B
<1>4. QED
  BY <1>2, <1>3

\* An array that is overwritten in place keeps its length.
LEMMA Replaced ==
    ASSUME NEW A \in Seq(Array), NEW a \in DOMAIN A, NEW array \in [DOMAIN A[a] -> Words]
    PROVE  /\ [A EXCEPT ![a] = array] \in Seq(Array)
           /\ [A EXCEPT ![a] = array][a] = array
           /\ \A h : Fits(h, A) => Fits(h, [A EXCEPT ![a] = array])
<1>1. a \in 1 .. Len(A) /\ A[a] \in Array /\ Len(A) \in Nat
  BY LenProperties, ElementOfSeq
<1>2. PICK n \in Nat : A[a] \in [1 .. n -> Words]
  BY <1>1 DEF Array
<1>3. array \in Array
  BY <1>2 DEF Array
<1> DEFINE B == [A EXCEPT ![a] = array]
<1>4. /\ B \in Seq(Array) /\ Len(B) = Len(A)
      /\ \A b \in 1 .. Len(A) : B[b] = IF b = a THEN array ELSE A[b]
  BY <1>1, <1>3, ExceptSeq, LenProperties
<1> HIDE DEF B
<1>5. \A b \in 1 .. Len(A) : DOMAIN B[b] = DOMAIN A[b]
  BY <1>4
<1>6. ASSUME NEW h, Fits(h, A) PROVE Fits(h, B)
  BY <1>1, <1>4, <1>5, <1>6 DEF Fits
<1>7. QED
  BY <1>1, <1>4, <1>6 DEF B

\* A header that fits finds requests or nothing at every place, inside and outside.
LEMMA WordsAreWords ==
    ASSUME TypeOK, arrays \in Seq(Array), NEW h \in Header, Fits(h, arrays),
           NEW junk \in Junk(h), NEW k \in Nat \ {0}
    PROVE  Word(h, k, junk) \in Words
<1>1. CASE k <= h.cap
  <2>1. h.ptr \in 1 .. Len(arrays) /\ k \in DOMAIN arrays[h.ptr]
    BY <1>1 DEF Fits, Header
  <2>2. h.ptr \in DOMAIN arrays
    BY <2>1, LenProperties
  <2>3. QED
    BY <1>1, <2>1, <2>2, ArrayElements DEF Word
<1>2. CASE ~(k <= h.cap)
  BY <1>2 DEF Word, Junk, Words, TypeOK
<1>3. QED
  BY <1>1, <1>2

-------------------------------------------------------------------------------
(* The slice as a data structure, whatever overlaps *)

LEMMA InitShape == Init => Alone
<1> SUFFICES ASSUME Init PROVE Alone
  OBVIOUS
<1>0. arrays \in Seq(Array) /\ Len(arrays) = 0
  BY EmptySeq DEF Init
<1>1. TypeOK
  <2>1. overlapped \in BOOLEAN
    BY Zenon DEF Init
  <2>2. QED
    BY <2>1 DEF Init, TypeOK, Empty, Header
<1>2. Fits(header, arrays) /\ Begun /\ Places
  BY <1>0 DEF Init, Fits, Begun, Places, Empty, Adding
<1>3. ArgsOwn
  BY DEF Init, ArgsOwn, Threads, Adding
<1>4. header.len <= header.cap /\ OneInside /\ CopiesFresh
  BY DEF Init, Empty, OneInside, CopiesFresh
<1>5. QED
  BY <1>0, <1>1, <1>2, <1>3, <1>4 DEF Alone, Shape

\* The history variable has a value that is true or false.
LEMMA EnterTyped ==
    ASSUME NEW t \in Threads, Enter(t)
    PROVE  overlapped' \in BOOLEAN
BY Zenon DEF Enter

\* A call begins with a copy of the header.
LEMMA AddLoadKeepsShape ==
    ASSUME Shape, NEW t \in Threads, AddLoad(t)
    PROVE  Shape'
<1>1. /\ pc[t] = "out" /\ local' = [local EXCEPT ![t] = header]
      /\ UNCHANGED <<header, arrays, wpc, i, request, owed>>
  BY DEF AddLoad, Enter
<1>2. /\ pc' = [pc EXCEPT ![t] = IF header.len >= header.cap THEN "grow" ELSE "setlen"]
      /\ header \in Header /\ pc \in [Threads -> Labels] /\ local \in [Threads -> Header]
  BY DEF AddLoad, Goto, Shape, TypeOK, Labels
<1>3. TypeOK'
  <2>1. overlapped' \in BOOLEAN
    BY EnterTyped DEF AddLoad
  <2>2. /\ arg' \in [Threads -> Requests \cup {Nil}]
        /\ made' \subseteq Requests /\ owed \subseteq made'
    BY DEF Shape, TypeOK, AddLoad, Allocate
  <2>3. QED
    BY <1>1, <1>2, <2>1, <2>2 DEF Shape, TypeOK, Labels
<1>4. arrays' \in Seq(Array) /\ Fits(header, arrays)'
  BY <1>1 DEF Shape
<1>5. Begun'
  BY <1>1, <1>2 DEF Shape, Begun, Fits, Header
<1>6. Places'
  <2>1. t = Worker => wpc = "chain"
    BY DEF AddLoad
  <2>2. QED
    BY <1>1, <1>2, <2>1 DEF Shape, Places, Fits, Header, Adding
<1>7. ArgsOwn'
  BY <1>1, <1>2, SliceAssumption
     DEF Shape, TypeOK, ArgsOwn, Threads, Adding, AddLoad, Allocate
<1>8. QED
  BY <1>3, <1>4, <1>5, <1>6, <1>7 DEF Shape

\* The new array has a place for the request.
LEMMA AddGrowKeepsShape ==
    ASSUME Shape, NEW t \in Threads, AddGrow(t)
    PROVE  Shape'
<1> DEFINE cap == GrownCap(local[t].cap, local[t].len + 1)
           ptr == Len(arrays) + 1
<1>1. /\ pc[t] = "grow" /\ header \in Header /\ local[t] \in Header
      /\ pc \in [Threads -> Labels] /\ local \in [Threads -> Header]
      /\ Fits(local[t], arrays)
  BY DEF AddGrow, Shape, TypeOK, Labels, Places
<1>2. cap \in Nat /\ cap > local[t].len
  BY <1>1 DEF GrownCap, Header
<1>3. PICK junk \in Junk(local[t]) :
         arrays' = Append(arrays, [k \in 1 .. cap |->
                      IF k <= local[t].len THEN Word(local[t], k, junk) ELSE Nil])
  BY DEF AddGrow
<1> DEFINE array == [k \in 1 .. cap |-> IF k <= local[t].len THEN Word(local[t], k, junk) ELSE Nil]
<1>4. /\ header' = [header EXCEPT !.ptr = ptr, !.cap = cap]
      /\ local' = [local EXCEPT ![t].ptr = ptr, ![t].cap = cap]
      /\ pc' = [pc EXCEPT ![t] = "setlen"]
      /\ UNCHANGED <<arg, wpc, i, request, made, owed, overlapped>>
  BY DEF AddGrow, Goto
<1>5. array \in [1 .. cap -> Words]
  <2>1. \A k \in 1 .. cap : Word(local[t], k, junk) \in Words
    BY <1>1, <1>2, WordsAreWords DEF Shape
  <2>2. QED
    BY <2>1 DEF Words
<1>6. /\ arrays' \in Seq(Array) /\ Len(arrays') = ptr /\ ptr \in Nat \ {0}
      /\ DOMAIN arrays'[ptr] = 1 .. cap
      /\ \A h : Fits(h, arrays) => Fits(h, arrays')
  <2>1. arrays' = Append(arrays, array) /\ DOMAIN array = 1 .. cap
    BY <1>3
  <2> HIDE DEF cap, array
  <2>2. QED
    BY <1>2, <1>5, <2>1, Grown DEF Shape
<1> HIDE DEF cap, array
<1> HIDE DEF ptr
<1>7. /\ header' \in Header /\ header'.ptr = ptr /\ header'.cap = cap /\ header'.len = header.len
      /\ local'[t] \in Header /\ local'[t].ptr = ptr /\ local'[t].cap = cap
      /\ local'[t].len = local[t].len
  BY <1>1, <1>2, <1>4, <1>6 DEF Header
<1>8. TypeOK'
  <2>1. \A a \in DOMAIN arrays' : \A k \in DOMAIN arrays'[a] : arrays'[a][k] \in Requests \cup {Nil}
    BY <1>6, ArrayElements DEF Words
  <2>2. local' \in [Threads -> Header]
    BY <1>1, <1>4, <1>7
  <2>3. QED
    BY <1>1, <1>4, <1>7, <2>1, <2>2 DEF Shape, TypeOK, Labels
<1>9. Fits(header, arrays)' /\ Fits(local[t], arrays)'
  BY <1>6, <1>7 DEF Fits
<1>10. Begun'
  BY <1>6, <1>7 DEF Begun
<1>11. Places'
  <2>1. ASSUME NEW u \in Threads, u # t PROVE local'[u] = local[u] /\ pc'[u] = pc[u]
    BY <1>1, <1>4, <2>1
  <2>2. t = Worker => wpc = "chain"
    BY <1>1 DEF Shape, Places, Adding
  <2>3. \A u \in Threads : Fits(local[u], arrays)'
    BY <1>6, <1>9, <2>1 DEF Shape, Places
  <2>4. pc'[t] = "setlen" /\ local'[t].len < local'[t].cap
    BY <1>1, <1>2, <1>4, <1>7 DEF Header
  <2>5. QED
    BY <1>4, <2>1, <2>2, <2>3, <2>4 DEF Shape, Places, Adding
<1>12. ArgsOwn'
  BY <1>1, <1>4 DEF Shape, ArgsOwn, Adding, Threads
<1>13. QED
  BY <1>6, <1>8, <1>9, <1>10, <1>11, <1>12 DEF Shape

\* The length is stored, whatever the header has become.
LEMMA AddSetLenKeepsShape ==
    ASSUME Shape, NEW t \in Threads, AddSetLen(t)
    PROVE  Shape'
<1>1. /\ pc[t] = "setlen" /\ local[t] \in Header /\ header \in Header
      /\ pc \in [Threads -> Labels]
      /\ header' = [header EXCEPT !.len = local[t].len + 1]
      /\ pc' = [pc EXCEPT ![t] = "store"]
      /\ UNCHANGED <<arrays, local, arg, wpc, i, request, made, owed, overlapped>>
  BY DEF AddSetLen, Goto, Shape, TypeOK, Labels
<1>2. header' \in Header /\ header'.ptr = header.ptr /\ header'.cap = header.cap
  BY <1>1 DEF Header
<1>3. TypeOK'
  BY <1>1, <1>2 DEF Shape, TypeOK, Labels
<1>4. arrays' \in Seq(Array) /\ Fits(header, arrays)'
  BY <1>1, <1>2 DEF Shape, Fits
<1>5. Begun'
  BY <1>1, <1>2 DEF Shape, Begun
<1>6. Places'
  BY <1>1 DEF Shape, Places, Adding
<1>7. ArgsOwn'
  BY <1>1 DEF Shape, ArgsOwn, Adding, Threads
<1>8. QED
  BY <1>3, <1>4, <1>5, <1>6, <1>7 DEF Shape

\* The element goes to a place of the array the goroutine loaded or made.
LEMMA AddStoreKeepsShape ==
    ASSUME Shape, NEW t \in Threads, AddStore(t)
    PROVE  Shape'
<1>1. /\ pc[t] = "store" /\ local[t] \in Header /\ Fits(local[t], arrays)
      /\ local[t].len < local[t].cap
      /\ t = Worker => wpc = "chain"
      /\ pc \in [Threads -> Labels] /\ local \in [Threads -> Header]
  BY DEF AddStore, Shape, TypeOK, Labels, Places, Adding
<1>2. arg[t] # Nil /\ arg[t] \in made /\ arg[t] \in Requests
  BY <1>1 DEF Shape, TypeOK, ArgsOwn, Adding, Threads
<1>3. local[t].ptr \in DOMAIN arrays /\ local[t].len + 1 \in DOMAIN arrays[local[t].ptr]
  <2>1. local[t].ptr \in 1 .. Len(arrays) /\ local[t].len + 1 \in 1 .. local[t].cap
    BY <1>1 DEF Fits, Header
  <2>2. local[t].ptr \in DOMAIN arrays /\ local[t].ptr # 0
    BY <2>1, LenProperties DEF Shape
  <2>3. QED
    BY <1>1, <2>1, <2>2 DEF Fits
<1> DEFINE array == [arrays[local[t].ptr] EXCEPT ![local[t].len + 1] = arg[t]]
<1>4. array \in [DOMAIN arrays[local[t].ptr] -> Words]
  BY <1>2, <1>3, ArrayElements DEF Shape, Words
<1>5. /\ arrays' = [arrays EXCEPT ![local[t].ptr] = array]
      /\ pc' = [pc EXCEPT ![t] = "out"] /\ local' = [local EXCEPT ![t] = Empty]
      /\ arg' = [arg EXCEPT ![t] = Nil] /\ owed' = owed \cup {arg[t]}
      /\ wpc' = IF t = Worker THEN "remove" ELSE wpc
      /\ UNCHANGED <<header, i, request, made, overlapped>>
  BY DEF AddStore, Return, Goto
<1> HIDE DEF array
<1>6. arrays' \in Seq(Array) /\ \A h : Fits(h, arrays) => Fits(h, arrays')
  BY <1>3, <1>4, <1>5, Replaced DEF Shape
<1>7. Empty \in Header /\ Fits(Empty, arrays')
  BY <1>6, LenProperties DEF Empty, Header, Fits
<1>8. TypeOK'
  <2>1. \A a \in DOMAIN arrays' : \A k \in DOMAIN arrays'[a] : arrays'[a][k] \in Requests \cup {Nil}
    BY <1>6, ArrayElements DEF Words
  <2>2. QED
    BY <1>1, <1>2, <1>5, <1>7, <2>1 DEF Shape, TypeOK, Labels
<1>9. Fits(header, arrays)' /\ Begun'
  BY <1>1, <1>5, <1>6 DEF Shape, Begun
<1>10. Places'
  <2>1. \A u \in Threads : Fits(local[u], arrays)'
    BY <1>1, <1>5, <1>6, <1>7 DEF Shape, Places
  <2>2. \A u \in Threads \ {t} : pc'[u] = pc[u] /\ local'[u] = local[u]
    BY <1>1, <1>5
  <2>3. pc'[t] = "out"
    BY <1>1, <1>5
  <2>4. QED
    BY <1>1, <1>5, <2>1, <2>2, <2>3 DEF Shape, Places, Adding
<1>11. ArgsOwn'
  BY <1>1, <1>5, SliceAssumption DEF Shape, TypeOK, ArgsOwn, Adding, Threads
<1>12. QED
  BY <1>6, <1>8, <1>9, <1>10, <1>11 DEF Shape

\* The elements move inside the array, or into a new one.
LEMMA RemoveSpliceKeepsShape ==
    ASSUME Shape, wpc # "panic", RemoveSplice
    PROVE  Shape'
<1> DEFINE len == header.len - 1
           cap == GrownCap(header.cap, len)
<1>1. /\ pc[Worker] = "splice" /\ Worker \in Threads /\ wpc = "remove"
      /\ i < header.len /\ i \in Nat
      /\ header \in Header /\ Fits(header, arrays)
      /\ pc \in [Threads -> Labels] /\ local \in [Threads -> Header]
  BY DEF RemoveSplice, Shape, TypeOK, Labels, Places, Threads
<1>2. /\ pc' = [pc EXCEPT ![Worker] = "shrink"]
      /\ UNCHANGED <<header, arg, wpc, i, request, made, owed, overlapped>>
  BY DEF RemoveSplice, Goto
<1>3. PICK junk \in Junk(header) :
         IF len <= header.cap
         THEN /\ arrays' = [arrays EXCEPT ![header.ptr] = [k \in DOMAIN @ |-> Spliced(k, junk)]]
              /\ local' = [local EXCEPT ![Worker] = header]
         ELSE /\ arrays' = Append(arrays, [k \in 1 .. cap |->
                              IF k <= len THEN Spliced(k, junk) ELSE Nil])
              /\ local' = [local EXCEPT ![Worker] =
                              [header EXCEPT !.ptr = Len(arrays) + 1, !.cap = cap]]
  BY DEF RemoveSplice
<1>4. header.len \in Nat \ {0} /\ header.cap \in Nat /\ header.ptr # 0
  BY <1>1 DEF Shape, Begun, Header
<1>5. \A k \in Nat \ {0} : Spliced(k, junk) \in Words
  BY <1>1, WordsAreWords DEF Spliced, Shape
\* What is left to show of either case.
<1> DEFINE Moved ==
        /\ arrays' \in Seq(Array)
        /\ \A h : Fits(h, arrays) => Fits(h, arrays')
        /\ local'[Worker] \in Header /\ local' = [local EXCEPT ![Worker] = local'[Worker]]
        /\ Fits(local[Worker], arrays)'
        /\ local'[Worker].ptr # 0 /\ local'[Worker].len > 0
<1>6. ASSUME len <= header.cap PROVE Moved
  <2> DEFINE array == [k \in DOMAIN arrays[header.ptr] |-> Spliced(k, junk)]
  <2>1. header.ptr \in DOMAIN arrays /\ DOMAIN arrays[header.ptr] = 1 .. header.cap
    <3>1. header.ptr \in 1 .. Len(arrays) /\ DOMAIN arrays[header.ptr] = 1 .. header.cap
      BY <1>1, <1>4 DEF Fits
    <3>2. QED
      BY <3>1, LenProperties DEF Shape
  <2>2. array \in [DOMAIN arrays[header.ptr] -> Words]
    <3>1. \A k \in DOMAIN arrays[header.ptr] : k \in Nat \ {0}
      BY <1>4, <2>1
    <3>2. QED
      BY <1>5, <3>1
  <2>3. arrays' = [arrays EXCEPT ![header.ptr] = array] /\ local' = [local EXCEPT ![Worker] = header]
    BY <1>3, <1>6
  <2> HIDE DEF array
  <2>4. arrays' \in Seq(Array) /\ \A h : Fits(h, arrays) => Fits(h, arrays')
    BY <2>1, <2>2, <2>3, Replaced DEF Shape
  <2>5. local'[Worker] = header
    BY <1>1, <2>3
  <2>6. Fits(local[Worker], arrays)'
    BY <1>1, <2>4, <2>5 DEF Fits
  <2>7. local' = [local EXCEPT ![Worker] = local'[Worker]]
    BY <2>3, <2>5
  <2>8. local'[Worker] \in Header /\ local'[Worker].ptr # 0 /\ local'[Worker].len > 0
    BY <1>1, <1>4, <2>5
  <2>9. QED
    BY <2>4, <2>6, <2>7, <2>8
<1>7. ASSUME ~(len <= header.cap) PROVE Moved
  <2> DEFINE array == [k \in 1 .. cap |-> IF k <= len THEN Spliced(k, junk) ELSE Nil]
             copy == [header EXCEPT !.ptr = Len(arrays) + 1, !.cap = cap]
  <2>1. cap \in Nat
    BY <1>4 DEF GrownCap
  <2>2. array \in [1 .. cap -> Words]
    <3>1. \A k \in 1 .. cap : Spliced(k, junk) \in Words
      BY <1>5, <2>1
    <3>2. QED
      BY <3>1 DEF Words
  <2>3. arrays' = Append(arrays, array) /\ local' = [local EXCEPT ![Worker] = copy]
    BY <1>3, <1>7
  <2>4. Len(arrays) \in Nat
    BY LenProperties DEF Shape
  <2>5. DOMAIN array = 1 .. cap
    OBVIOUS
  <2> HIDE DEF array, cap
  <2>6. /\ copy \in Header /\ copy.ptr = Len(arrays) + 1 /\ copy.ptr # 0 /\ copy.cap = cap
        /\ copy.len = header.len
    <3> DEFINE ptr == Len(arrays) + 1
    <3>1. header \in Header /\ ptr \in Nat /\ ptr # 0
      BY <1>1, <2>4
    <3> HIDE DEF ptr
    <3>2. copy = [header EXCEPT !.ptr = ptr, !.cap = cap]
      BY DEF ptr
    <3> HIDE DEF copy
    <3>3. copy \in Header /\ copy.ptr = ptr /\ copy.cap = cap /\ copy.len = header.len
      BY <2>1, <3>1, <3>2 DEF Header
    <3>4. QED
      BY <3>1, <3>3 DEF ptr
  <2> HIDE DEF copy
  <2>7. /\ arrays' \in Seq(Array) /\ \A h : Fits(h, arrays) => Fits(h, arrays')
        /\ Len(arrays') = Len(arrays) + 1
        /\ DOMAIN arrays'[Len(arrays) + 1] = 1 .. cap
    BY <2>1, <2>2, <2>3, <2>5, Grown DEF Shape
  <2>8. local'[Worker] = copy
    BY <1>1, <2>3
  <2>9. Fits(copy, arrays')
    BY <2>4, <2>6, <2>7 DEF Fits
  <2>10. QED
    BY <1>1, <1>4, <2>3, <2>6, <2>7, <2>8, <2>9
<1>8. Moved
  BY <1>6, <1>7
<1> HIDE DEF Moved, len, cap
<1>9. TypeOK'
  <2>1. \A a \in DOMAIN arrays' : \A k \in DOMAIN arrays'[a] : arrays'[a][k] \in Requests \cup {Nil}
    BY <1>8, ArrayElements DEF Words, Moved
  <2>2. local' \in [Threads -> Header]
    BY <1>1, <1>8 DEF Moved
  <2>3. QED
    BY <1>1, <1>2, <2>1, <2>2 DEF Shape, TypeOK, Labels
<1>10. Fits(header, arrays)' /\ Begun'
  BY <1>1, <1>2, <1>4, <1>8 DEF Begun, Moved
<1>11. Places'
  <2>1. \A u \in Threads \ {Worker} : pc'[u] = pc[u] /\ local'[u] = local[u]
    BY <1>1, <1>2, <1>8 DEF Moved
  <2>2. \A u \in Threads : Fits(local[u], arrays)'
    BY <1>8, <2>1 DEF Shape, Places, Moved
  <2>3. pc'[Worker] = "shrink" /\ wpc' = "remove"
    BY <1>1, <1>2
  <2>4. QED
    BY <1>1, <1>2, <1>8, <2>1, <2>2, <2>3 DEF Shape, Places, Adding, Moved
<1>12. ArgsOwn'
  BY <1>1, <1>2, SliceAssumption DEF Shape, ArgsOwn, Adding, Threads
<1>13. QED
  BY <1>8, <1>9, <1>10, <1>11, <1>12 DEF Shape, Moved

\* The worker's other steps do not touch the arrays.
LEMMA WorkerKeepsShape ==
    ASSUME Shape, wpc # "panic",
           RemoveCheck \/ RemovePanic \/ RemoveStore \/ WorkerCheck \/ WorkerGet \/ WorkerAnswer
    PROVE  Shape'
<1>1. /\ Worker \in Threads /\ i \in Nat /\ header \in Header
      /\ pc \in [Threads -> Labels] /\ local \in [Threads -> Header]
  BY DEF Threads, Shape, TypeOK, Labels
<1>2. CASE RemoveCheck
  <2>1. /\ pc[Worker] = "out" /\ wpc = "remove"
        /\ UNCHANGED <<header, arrays, local, arg, i, request, made>>
        /\ \/ pc' = [pc EXCEPT ![Worker] = "splice"] /\ UNCHANGED <<wpc, owed>>
           \/ wpc' = "check" /\ owed' = owed \ {request} /\ UNCHANGED pc
    BY <1>2 DEF RemoveCheck, Enter, Goto
  <2>2. overlapped' \in BOOLEAN
    BY <1>1, <1>2, EnterTyped DEF RemoveCheck
  <2>3. TypeOK'
    BY <1>1, <2>1, <2>2 DEF Shape, TypeOK
  <2>4. arrays' \in Seq(Array) /\ Fits(header, arrays)' /\ Begun'
    BY <1>1, <2>1 DEF Shape, Begun
  <2>5. Places'
    BY <1>1, <2>1 DEF Shape, Places, Adding
  <2>6. ArgsOwn'
    BY <1>1, <2>1, SliceAssumption DEF Shape, ArgsOwn, Adding, Threads
  <2>7. QED
    BY <2>3, <2>4, <2>5, <2>6 DEF Shape
<1>3. CASE RemoveStore
  <2>1. /\ pc[Worker] = "shrink" /\ local[Worker].ptr # 0 /\ local[Worker].len > 0
        /\ wpc = "remove" /\ local[Worker] \in Header /\ Fits(local[Worker], arrays)
    BY <1>1, <1>3 DEF RemoveStore, Shape, Places
  <2>2. /\ header' = [local[Worker] EXCEPT !.len = @ - 1]
        /\ pc' = [pc EXCEPT ![Worker] = "out"] /\ local' = [local EXCEPT ![Worker] = Empty]
        /\ wpc' = "check" /\ owed' = owed \ {request}
        /\ UNCHANGED <<arrays, arg, i, request, made, overlapped>>
    BY <1>3 DEF RemoveStore, Return, Goto
  <2>3. /\ header' \in Header /\ header'.ptr = local[Worker].ptr
        /\ header'.cap = local[Worker].cap
    BY <2>1, <2>2 DEF Header
  <2>4. Empty \in Header /\ Fits(Empty, arrays)
    BY LenProperties DEF Empty, Header, Fits, Shape
  <2>5. TypeOK'
    BY <1>1, <2>2, <2>3, <2>4 DEF Shape, TypeOK
  <2>6. arrays' \in Seq(Array) /\ Fits(header, arrays)' /\ Begun'
    BY <2>1, <2>2, <2>3 DEF Shape, Begun, Fits
  <2>7. Places'
    <3>1. \A u \in Threads : Fits(local[u], arrays)'
      BY <1>1, <2>2, <2>4 DEF Shape, Places
    <3>2. \A u \in Threads \ {Worker} : pc'[u] = pc[u] /\ local'[u] = local[u]
      BY <1>1, <2>2
    <3>3. QED
      BY <1>1, <2>1, <2>2, <3>1, <3>2 DEF Shape, Places, Adding
  <2>8. ArgsOwn'
    BY <1>1, <2>1, <2>2, SliceAssumption DEF Shape, ArgsOwn, Adding, Threads
  <2>9. QED
    BY <2>5, <2>6, <2>7, <2>8 DEF Shape
<1>4. CASE RemovePanic \/ WorkerCheck \/ WorkerGet
  <2>1. UNCHANGED <<header, arrays, pc, local, arg, made, owed>>
    BY <1>4 DEF RemovePanic, WorkerCheck, WorkerGet
  <2>2. \/ pc[Worker] = "splice" /\ wpc' = "panic"
        \/ pc[Worker] = "out" /\ wpc' \in {"check", "get", "answer", "panic"}
    BY <1>4 DEF RemovePanic, WorkerCheck, WorkerGet, Enter
  <2>3. wpc \in {"remove", "check", "get"}
    BY <1>4, <1>1 DEF RemovePanic, WorkerCheck, WorkerGet, Shape, Places
  <2>4. overlapped' \in BOOLEAN
    <3>1. CASE WorkerCheck \/ WorkerGet
      BY <1>1, <3>1, EnterTyped DEF WorkerCheck, WorkerGet
    <3>2. CASE RemovePanic
      BY <3>2 DEF RemovePanic, Shape, TypeOK
    <3>3. QED
      BY <1>4, <3>1, <3>2
  <2>5. i' \in Nat
    BY <1>1, <1>4 DEF RemovePanic, WorkerCheck, WorkerGet
  <2>6. request' \in Requests \cup {Nil}
    <3>1. CASE WorkerGet
      <4>1. i + 1 \in Nat \ {0} /\ i < header.len =>
                \A junk \in Junk(header) : Word(header, i + 1, junk) \in Words
        BY WordsAreWords DEF Shape, TypeOK
      <4>2. QED
        BY <1>1, <3>1, <4>1 DEF WorkerGet, Words, Shape, TypeOK
    <3>2. CASE RemovePanic \/ WorkerCheck
      BY <3>2 DEF RemovePanic, WorkerCheck, Shape, TypeOK
    <3>3. QED
      BY <1>4, <3>1, <3>2
  <2>7. TypeOK'
    BY <2>1, <2>2, <2>4, <2>5, <2>6 DEF Shape, TypeOK
  <2>8. Fits(header, arrays)' /\ Begun'
    BY <2>1 DEF Shape, Begun
  <2>9. Places'
    BY <2>1, <2>2, <2>3 DEF Shape, Places, Adding
  <2>10. ArgsOwn'
    BY <2>1, <2>2, <2>3 DEF Shape, ArgsOwn, Adding
  <2>11. QED
    BY <2>1, <2>7, <2>8, <2>9, <2>10 DEF Shape
<1>5. CASE WorkerAnswer
  <2>1. UNCHANGED <<header, arrays, pc, local, request, owed, overlapped>>
        /\ wpc = "answer" /\ wpc' \in {"chain", "remove", "check"}
    BY <1>5 DEF WorkerAnswer
  <2>2. \A t \in Threads : pc[t] \notin {"splice", "shrink"}
    BY <2>1 DEF Shape, Places
  <2>3. TypeOK'
    BY <1>1, <1>5, <2>1 DEF Shape, TypeOK, WorkerAnswer, Allocate
  <2>4. Fits(header, arrays)' /\ Begun'
    BY <2>1 DEF Shape, Begun
  <2>5. Places'
    BY <2>1, <2>2 DEF Shape, Places, Adding
  <2>6. ArgsOwn'
    BY <1>1, <1>5, SliceAssumption
       DEF Shape, TypeOK, ArgsOwn, Adding, Threads, WorkerAnswer, Allocate
  <2>7. QED
    BY <2>1, <2>3, <2>4, <2>5, <2>6 DEF Shape
<1>6. QED
  BY <1>2, <1>3, <1>4, <1>5

LEMMA NextKeepsShape == Shape /\ [Next]_vars => Shape'
<1> SUFFICES ASSUME Shape, [Next]_vars PROVE Shape'
  OBVIOUS
<1>1. CASE UNCHANGED vars
  BY <1>1 DEF vars, Shape, TypeOK, Fits, Begun, Places, Adding, ArgsOwn
<1>2. CASE Next
  <2>1. ASSUME NEW t \in Threads, AddLoad(t) \/ AddGrow(t) \/ AddSetLen(t) \/ AddStore(t)
        PROVE  Shape'
    BY <2>1, AddLoadKeepsShape, AddGrowKeepsShape, AddSetLenKeepsShape, AddStoreKeepsShape
  <2>2. QED
    BY <1>2, <2>1, RemoveSpliceKeepsShape, WorkerKeepsShape DEF Next
<1>3. QED
  BY <1>1, <1>2

-------------------------------------------------------------------------------
(* Until calls overlap *)

\* A call that overlaps none begins when no other is under way.
LEMMA EnterAlone ==
    ASSUME NEW t \in Threads, Enter(t), ~overlapped'
    PROVE  ~overlapped /\ \A u \in Threads : pc[u] = "out"
BY Zenon DEF Enter

LEMMA OverlappedStays == Next /\ ~overlapped' => ~overlapped
<1> SUFFICES ASSUME Next, ~overlapped' PROVE ~overlapped
  OBVIOUS
<1>1. Worker \in Threads
  BY DEF Threads
<1>2. ASSUME NEW t \in Threads, AddLoad(t) PROVE ~overlapped
  BY <1>2, EnterAlone DEF AddLoad
<1>3. ASSUME NEW t \in Threads, AddGrow(t) \/ AddSetLen(t) \/ AddStore(t) PROVE ~overlapped
  <2>1. overlapped' = overlapped
    BY <1>3 DEF AddGrow, AddSetLen, AddStore
  <2>2. QED
    BY <2>1
<1>4. CASE RemoveCheck \/ WorkerCheck \/ WorkerGet
  BY <1>1, <1>4, EnterAlone DEF RemoveCheck, WorkerCheck, WorkerGet
<1>5. CASE RemoveSplice \/ RemovePanic \/ RemoveStore \/ WorkerAnswer
  <2>1. overlapped' = overlapped
    BY <1>5 DEF RemoveSplice, RemovePanic, RemoveStore, WorkerAnswer
  <2>2. QED
    BY <2>1
<1>6. QED
  BY <1>2, <1>3, <1>4, <1>5 DEF Next

\* With a length inside the capacity every place of the slice is inside the array,
\* and the moves of a removal are made in place.
LEMMA WordsInside ==
    ASSUME Alone, NEW junk \in Junk(header)
    PROVE  /\ \A k \in 1 .. header.len : Word(header, k, junk) = arrays[header.ptr][k]
           /\ header.len - 1 <= header.cap
<1>1. header \in Header /\ header.len <= header.cap
  BY DEF Alone, Shape, TypeOK
<1>2. header.len \in Nat /\ header.cap \in Nat
  BY <1>1 DEF Header
<1>3. QED
  BY <1>1, <1>2 DEF Word

LEMMA SpliceInPlace ==
    ASSUME Alone, RemoveSplice
    PROVE  /\ header.ptr \in DOMAIN arrays /\ DOMAIN arrays[header.ptr] = 1 .. header.cap
           /\ LET old == arrays[header.ptr]
              IN  arrays' = [arrays EXCEPT ![header.ptr] =
                     [k \in DOMAIN old |-> IF k > i /\ k < header.len THEN old[k + 1] ELSE old[k]]]
           /\ local' = [local EXCEPT ![Worker] = header]
<1>1. /\ header \in Header /\ header.len <= header.cap /\ i < header.len /\ i \in Nat
      /\ Fits(header, arrays)
  BY DEF Alone, Shape, TypeOK, RemoveSplice
<1>2. header.len \in Nat /\ header.cap \in Nat /\ header.len - 1 <= header.cap
  BY <1>1 DEF Header
<1>3. PICK junk \in Junk(header) :
         /\ arrays' = [arrays EXCEPT ![header.ptr] = [k \in DOMAIN @ |-> Spliced(k, junk)]]
         /\ local' = [local EXCEPT ![Worker] = header]
  BY <1>2 DEF RemoveSplice
<1>4. header.ptr \in DOMAIN arrays /\ DOMAIN arrays[header.ptr] = 1 .. header.cap
  <2>1. header.ptr \in 1 .. Len(arrays) /\ DOMAIN arrays[header.ptr] = 1 .. header.cap
    BY <1>1, <1>2 DEF Fits, Header
  <2>2. QED
    BY <2>1, LenProperties DEF Alone, Shape
<1> DEFINE old == arrays[header.ptr]
<1>5. \A k \in DOMAIN old :
         Spliced(k, junk) = IF k > i /\ k < header.len THEN old[k + 1] ELSE old[k]
  <2>1. \A k \in 1 .. header.cap :
           Spliced(k, junk) = IF k > i /\ k < header.len THEN old[k + 1] ELSE old[k]
    BY <1>1, <1>2 DEF Spliced, Word
  <2>2. QED
    BY <1>4, <2>1
<1>6. QED
  BY <1>3, <1>4, <1>5

\* The header's room, and the copies of it, until calls overlap.
LEMMA NextKeepsAlone == Alone /\ [Next]_vars /\ ~overlapped' => Alone'
<1> SUFFICES ASSUME Alone, [Next]_vars, ~overlapped' PROVE Alone'
  OBVIOUS
<1> USE DEF Alone
<1> DEFINE Kept == (header.len <= header.cap)' /\ OneInside' /\ CopiesFresh'
<1>1. Shape'
  BY NextKeepsShape
<1>2. /\ Worker \in Threads /\ header \in Header /\ i \in Nat
      /\ header.len \in Nat /\ header.cap \in Nat /\ header.len <= header.cap
      /\ pc \in [Threads -> Labels] /\ local \in [Threads -> Header]
  BY DEF Shape, TypeOK, Labels, Threads, Header
<1>3. ASSUME NEW t \in Threads, AddLoad(t) PROVE Kept
  <2>1. \A u \in Threads : pc[u] = "out"
    BY <1>3, EnterAlone DEF AddLoad
  <2>2. /\ pc' = [pc EXCEPT ![t] = IF header.len >= header.cap THEN "grow" ELSE "setlen"]
        /\ local' = [local EXCEPT ![t] = header] /\ UNCHANGED header
    BY <1>3 DEF AddLoad, Goto
  <2>3. QED
    BY <1>2, <2>1, <2>2 DEF OneInside, CopiesFresh
<1>4. ASSUME NEW t \in Threads, AddGrow(t) PROVE Kept
  <2> DEFINE cap == GrownCap(local[t].cap, local[t].len + 1)
             ptr == Len(arrays) + 1
  <2>1. /\ pc[t] = "grow" /\ local[t] = header /\ header.len = header.cap
        /\ \A u \in Threads \ {t} : pc[u] = "out"
    BY <1>4 DEF AddGrow, CopiesFresh, OneInside
  <2>2. cap \in Nat /\ cap > header.len /\ ptr \in Nat
    BY <1>2, <2>1, LenProperties DEF GrownCap, Shape
  <2>3. /\ header' = [header EXCEPT !.ptr = ptr, !.cap = cap]
        /\ local' = [local EXCEPT ![t].ptr = ptr, ![t].cap = cap]
        /\ pc' = [pc EXCEPT ![t] = "setlen"] /\ UNCHANGED i
    BY <1>4 DEF AddGrow, Goto
  <2> HIDE DEF cap, ptr
  <2>4. header'.len = header.len /\ header'.cap = cap /\ local'[t] = header'
    BY <1>2, <2>1, <2>2, <2>3 DEF Header
  <2>5. \A u \in Threads \ {t} : pc'[u] = "out"
    BY <1>2, <2>1, <2>3
  <2>6. pc'[t] = "setlen"
    BY <1>2, <2>3
  <2>7. QED
    BY <1>2, <2>2, <2>4, <2>5, <2>6 DEF OneInside, CopiesFresh
<1>5. ASSUME NEW t \in Threads, AddSetLen(t) PROVE Kept
  <2>1. /\ pc[t] = "setlen" /\ local[t] = header /\ header.len < header.cap
        /\ \A u \in Threads \ {t} : pc[u] = "out"
    BY <1>5 DEF AddSetLen, CopiesFresh, OneInside, Shape, Places
  <2>2. /\ header' = [header EXCEPT !.len = header.len + 1] /\ UNCHANGED <<local, i>>
        /\ pc' = [pc EXCEPT ![t] = "store"]
    BY <1>5, <2>1 DEF AddSetLen, Goto
  <2>3. header'.len = header.len + 1 /\ header'.cap = header.cap
    BY <1>2, <2>2 DEF Header
  <2>4. (\A u \in Threads \ {t} : pc'[u] = "out") /\ pc'[t] = "store"
    BY <1>2, <2>1, <2>2
  <2>5. header' = [local'[t] EXCEPT !.len = @ + 1]
    BY <2>1, <2>2
  <2>6. QED
    BY <1>2, <2>1, <2>3, <2>4, <2>5 DEF OneInside, CopiesFresh
<1>6. ASSUME NEW t \in Threads, AddStore(t) PROVE Kept
  <2>1. UNCHANGED <<header, i>> /\ pc' = [pc EXCEPT ![t] = "out"] /\ pc[t] = "store"
    BY <1>6 DEF AddStore, Return, Goto
  <2>2. \A u \in Threads : pc'[u] = "out"
    BY <1>2, <2>1 DEF OneInside
  <2>3. QED
    BY <1>2, <2>1, <2>2 DEF OneInside, CopiesFresh
<1>7. ASSUME RemoveCheck \/ WorkerCheck \/ WorkerGet PROVE Kept
  <2>1. \A u \in Threads : pc[u] = "out"
    BY <1>2, <1>7, EnterAlone DEF RemoveCheck, WorkerCheck, WorkerGet
  <2>2. /\ UNCHANGED <<header, local>>
        /\ \/ pc' = pc
           \/ pc' = [pc EXCEPT ![Worker] = "splice"] /\ header.len > i /\ i' = i
    BY <1>7 DEF RemoveCheck, WorkerCheck, WorkerGet, Goto
  <2>3. QED
    BY <1>2, <2>1, <2>2 DEF OneInside, CopiesFresh
<1>8. ASSUME RemoveSplice PROVE Kept
  <2>1. /\ local' = [local EXCEPT ![Worker] = header] /\ UNCHANGED <<header, i>>
        /\ pc' = [pc EXCEPT ![Worker] = "shrink"] /\ i < header.len /\ pc[Worker] = "splice"
    BY <1>8, SpliceInPlace DEF RemoveSplice, Goto
  <2>2. \A u \in Threads \ {Worker} : pc'[u] = "out"
    BY <1>2, <2>1 DEF OneInside
  <2>3. QED
    BY <1>2, <2>1, <2>2 DEF OneInside, CopiesFresh
<1>9. ASSUME RemovePanic PROVE Kept
  BY <1>2, <1>9 DEF RemovePanic, CopiesFresh
<1>10. ASSUME RemoveStore PROVE Kept
  <2>1. /\ pc[Worker] = "shrink" /\ local[Worker] = header /\ header.len > 0
        /\ \A u \in Threads \ {Worker} : pc[u] = "out"
    BY <1>2, <1>10 DEF RemoveStore, CopiesFresh, OneInside, Shape, Places
  <2>2. header' = [header EXCEPT !.len = header.len - 1] /\ pc' = [pc EXCEPT ![Worker] = "out"]
    BY <1>10, <2>1 DEF RemoveStore, Return, Goto
  <2>3. header'.len = header.len - 1 /\ header'.cap = header.cap
    BY <1>2, <2>2 DEF Header
  <2>4. \A u \in Threads : pc'[u] = "out"
    BY <1>2, <2>1, <2>2
  <2>5. QED
    BY <1>2, <2>1, <2>3, <2>4 DEF OneInside, CopiesFresh
<1>11. ASSUME WorkerAnswer PROVE Kept
  <2>1. UNCHANGED <<header, pc, local>> /\ wpc = "answer"
    BY <1>11 DEF WorkerAnswer
  <2>2. \A t \in Threads : pc[t] \notin {"splice", "shrink"}
    BY <2>1 DEF Shape, Places
  <2>3. QED
    BY <1>2, <2>1, <2>2 DEF OneInside, CopiesFresh
<1>12. ASSUME UNCHANGED vars PROVE Kept
  BY <1>2, <1>12 DEF vars, OneInside, CopiesFresh
<1>13. Kept
  <2> HIDE DEF Kept
  <2>1. CASE UNCHANGED vars
    BY <1>12, <2>1
  <2>2. CASE Next
    BY <1>3, <1>4, <1>5, <1>6, <1>7, <1>8, <1>9, <1>10, <1>11, <2>2 DEF Next
  <2>3. QED
    BY <2>1, <2>2
<1>14. QED
  BY <1>1, <1>13

-------------------------------------------------------------------------------
(* The list from outside, and what each step does to it *)

\* Which goroutine is inside a call decides which copy of the header shows the list.
ContentsShown ==
    /\ \A t \in Threads : pc[t] \in Adding => Contents = Elements(local[t])
    /\ pc[Worker] = "shrink" => Contents = Elements([header EXCEPT !.len = @ - 1])
    /\ (\A t \in Threads : pc[t] \notin Adding) /\ pc[Worker] # "shrink"
          => Contents = Elements(header)

LEMMA ContentsAreShown == Alone => ContentsShown
<1> SUFFICES ASSUME Alone PROVE ContentsShown
  OBVIOUS
<1>1. Worker \in Threads
  BY DEF Threads
<1>2. ASSUME NEW t \in Threads, pc[t] \in Adding PROVE Contents = Elements(local[t])
  <2>1. \A u \in Threads : pc[u] \in {"grow", "setlen", "store"} => u = t
    BY <1>2 DEF Alone, Shape, OneInside, Adding
  <2>2. t = CHOOSE u \in Threads : pc[u] \in {"grow", "setlen", "store"}
    BY <1>2, <2>1 DEF Adding
  <2>3. QED
    BY <1>2, <2>2 DEF Contents, Adding
<1>3. ASSUME pc[Worker] = "shrink" PROVE \A t \in Threads : pc[t] \notin Adding
  BY <1>1, <1>3 DEF Alone, Shape, OneInside, Adding
<1>4. (\A t \in Threads : pc[t] \notin Adding) =>
          Contents = IF pc[Worker] = "shrink"
                     THEN Elements([header EXCEPT !.len = @ - 1])
                     ELSE Elements(header)
  BY DEF Contents, Adding
<1>5. QED
  BY <1>2, <1>3, <1>4 DEF ContentsShown

\* The same, before and after a step.
LEMMA ShownAroundStep ==
    Alone /\ [Next]_vars /\ ~overlapped' => Alone' /\ ContentsShown /\ ContentsShown'
<1>1. (Alone => ContentsShown) /\ (Alone => ContentsShown)'
  BY ContentsAreShown, PTL
<1>2. QED
  BY <1>1, NextKeepsAlone

\* No step but the last store of an append and the moves of a removal shows.
Hidden ==
    \/ \E t \in Threads : AddLoad(t) \/ AddGrow(t) \/ AddSetLen(t)
    \/ RemoveCheck \/ RemoveStore \/ WorkerCheck \/ WorkerGet \/ WorkerAnswer

LEMMA HiddenKeepsContents ==
    ASSUME Alone, ContentsShown, ContentsShown', ~overlapped', Hidden
    PROVE  Contents' = Contents
<1>1. Worker \in Threads
  BY DEF Threads
<1>2. pc \in [Threads -> {"out", "grow", "setlen", "store", "splice", "shrink"}]
      /\ local \in [Threads -> Header] /\ header \in Header
  BY DEF Alone, Shape, TypeOK
<1>3. ASSUME NEW t \in Threads, AddLoad(t) PROVE Contents' = Contents
  <2>1. \A u \in Threads : pc[u] = "out"
    BY <1>3, EnterAlone DEF AddLoad
  <2>2. Contents = Elements(header)
    BY <1>1, <2>1 DEF ContentsShown, Adding
  <2>3. pc'[t] \in Adding /\ local'[t] = header /\ arrays' = arrays
    BY <1>2, <1>3 DEF AddLoad, Goto, Adding
  <2>4. Contents' = Elements(local[t])'
    BY <2>3 DEF ContentsShown
  <2>5. QED
    BY <2>2, <2>3, <2>4 DEF Elements
<1>4. ASSUME NEW t \in Threads, AddGrow(t) PROVE Contents' = Contents
  <2>1. pc[t] = "grow" /\ local[t] = header /\ header.len = header.cap
    BY <1>4 DEF AddGrow, Alone, Shape, CopiesFresh
  <2>2. Contents = Elements(header)
    BY <2>1 DEF ContentsShown, Adding
  <2> DEFINE cap == GrownCap(local[t].cap, local[t].len + 1)
             ptr == Len(arrays) + 1
  <2> PICK junk \in Junk(local[t]) :
         arrays' = Append(arrays, [k \in 1 .. cap |->
                      IF k <= local[t].len THEN Word(local[t], k, junk) ELSE Nil])
    BY <1>4 DEF AddGrow
  <2> DEFINE array == [k \in 1 .. cap |-> IF k <= local[t].len THEN Word(local[t], k, junk) ELSE Nil]
  <2>3. /\ arrays' = Append(arrays, array)
        /\ local'[t].ptr = ptr /\ local'[t].len = header.len
        /\ pc'[t] = "setlen"
    BY <1>2, <1>4, <2>1 DEF AddGrow, Goto, Header
  <2>4. arrays'[ptr] = array
    BY <2>3 DEF Alone, Shape
  <2>5. header.len \in Nat /\ header.len < cap /\ cap \in Nat
    BY <1>2, <2>1 DEF GrownCap, Header
  <2> HIDE DEF cap
  <2>6. \A k \in 1 .. header.len : array[k] = arrays[header.ptr][k]
    BY <2>1, <2>5, WordsInside
  <2> HIDE DEF array, ptr
  <2>7. Contents' = Elements(local[t])'
    BY <2>3 DEF ContentsShown, Adding
  <2>8. Elements(local[t])' = [k \in 1 .. header.len |-> array[k]]
    BY <2>3, <2>4 DEF Elements
  <2>9. QED
    BY <2>2, <2>6, <2>7, <2>8 DEF Elements
<1>5. ASSUME NEW t \in Threads, AddSetLen(t) PROVE Contents' = Contents
  <2>1. pc[t] \in Adding /\ pc'[t] \in Adding /\ UNCHANGED <<local, arrays>>
    BY <1>2, <1>5 DEF AddSetLen, Goto, Adding
  <2>2. Contents = Elements(local[t]) /\ Contents' = Elements(local[t])'
    BY <2>1 DEF ContentsShown
  <2>3. QED
    BY <2>1, <2>2 DEF Elements
<1>6. CASE RemoveStore
  <2>1. /\ pc[Worker] = "shrink" /\ local[Worker] = header
        /\ \A u \in Threads \ {Worker} : pc[u] = "out"
    BY <1>1, <1>6 DEF Alone, Shape, CopiesFresh, OneInside, RemoveStore
  <2>2. /\ header' = [header EXCEPT !.len = @ - 1] /\ arrays' = arrays
        /\ \A u \in Threads : pc'[u] = "out"
    BY <1>1, <1>2, <1>6, <2>1 DEF RemoveStore, Return, Goto
  <2>3. Contents' = Elements(header)' /\ Contents = Elements([header EXCEPT !.len = @ - 1])
    BY <1>1, <2>1, <2>2 DEF ContentsShown, Adding
  <2>4. QED
    BY <2>2, <2>3 DEF Elements
<1>7. CASE RemoveCheck \/ WorkerCheck \/ WorkerGet
  <2>1. /\ \A u \in Threads : pc[u] = "out"
        /\ UNCHANGED <<header, arrays>>
        /\ \A u \in Threads : pc'[u] \in {"out", "splice"}
    <3>1. \A u \in Threads : pc[u] = "out"
      BY <1>1, <1>7, EnterAlone DEF RemoveCheck, WorkerCheck, WorkerGet
    <3>2. QED
      BY <1>1, <1>2, <1>7, <3>1 DEF RemoveCheck, WorkerCheck, WorkerGet, Goto
  <2>2. Contents = Elements(header) /\ Contents' = Elements(header)'
    BY <1>1, <2>1 DEF ContentsShown, Adding
  <2>3. QED
    BY <2>1, <2>2 DEF Elements
<1>8. CASE WorkerAnswer
  <2>1. UNCHANGED <<header, arrays, pc, local>>
    BY <1>8 DEF WorkerAnswer
  <2>2. QED
    BY <2>1 DEF Contents, Elements
<1>9. QED
  BY <1>3, <1>4, <1>5, <1>6, <1>7, <1>8 DEF Hidden

LEMMA HiddenKeepsAdded ==
    ASSUME Alone, ~overlapped', Hidden
    PROVE  Added' = Added
<1>1. Worker \in Threads /\ arg \in [Threads -> Requests \cup {Nil}] /\ Nil \notin made
  BY SliceAssumption DEF Alone, Shape, TypeOK, Threads
<1>2. ASSUME NEW t \in Threads, Allocate(t), arg[t] = Nil PROVE Added' = Added
  <2>1. PICK r \in Requests \ made : made' = made \cup {r} /\ arg' = [arg EXCEPT ![t] = r]
    BY <1>2 DEF Allocate
  <2>2. \A u \in Threads : arg'[u] = IF u = t THEN r ELSE arg[u]
    BY <1>1, <2>1
  <2>3. ASSUME NEW x \in made \cup {r}
        PROVE  (\E u \in Threads : x = arg'[u]) <=> x = r \/ \E u \in Threads : x = arg[u]
    BY <1>1, <1>2, <2>2, <2>3
  <2>4. \A u \in Threads : arg[u] # r
    BY <1>1, <2>1, SliceAssumption DEF Alone, Shape, ArgsOwn
  <2>5. QED
    BY <2>1, <2>3, <2>4 DEF Added
<1>3. ASSUME NEW t \in Threads, AddLoad(t) PROVE Added' = Added
  <2>1. CASE t = Worker
    BY <1>3, <2>1 DEF AddLoad, Added
  <2>2. CASE t # Worker
    <3>1. Allocate(t) /\ t \in Adders /\ pc[t] = "out"
      BY <1>3, <2>2 DEF AddLoad, Enter, Threads
    <3>2. arg[t] = Nil
      BY <3>1 DEF Alone, Shape, ArgsOwn, Adding
    <3>3. QED
      BY <1>2, <3>1, <3>2
  <2>3. QED
    BY <2>1, <2>2
<1>4. CASE WorkerAnswer
  <2>1. arg[Worker] = Nil
    BY <1>4 DEF Alone, Shape, ArgsOwn, WorkerAnswer
  <2>2. Allocate(Worker) \/ UNCHANGED <<arg, made>>
    BY <1>4 DEF WorkerAnswer
  <2>3. QED
    BY <1>1, <1>2, <2>1, <2>2 DEF Added
<1>5. CASE \/ \E t \in Threads : AddGrow(t) \/ AddSetLen(t)
           \/ RemoveCheck \/ RemoveStore \/ WorkerCheck \/ WorkerGet
  <2>1. UNCHANGED <<arg, made>>
    BY <1>5 DEF AddGrow, AddSetLen, RemoveCheck, RemoveStore, WorkerCheck, WorkerGet
  <2>2. QED
    BY <2>1 DEF Added
<1>6. QED
  BY <1>3, <1>4, <1>5 DEF Hidden

\* The last store of an append puts its request at the end of the list.
LEMMA StoreAppends ==
    ASSUME Alone, ContentsShown, ContentsShown', Contents \in Seq(Requests),
           NEW t \in Threads, AddStore(t)
    PROVE  /\ arg[t] \in Requests \ Added
           /\ Contents' = Append(Contents, arg[t])
           /\ Added' = Added \cup {arg[t]}
<1>1. /\ pc[t] = "store" /\ header = [local[t] EXCEPT !.len = @ + 1]
      /\ \A u \in Threads \ {t} : pc[u] = "out"
      /\ pc \in [Threads -> {"out", "grow", "setlen", "store", "splice", "shrink"}]
      /\ arg \in [Threads -> Requests \cup {Nil}] /\ Nil \notin made /\ made \subseteq Requests
  BY SliceAssumption DEF Alone, Shape, TypeOK, CopiesFresh, OneInside, AddStore
<1>2. local[t] \in Header /\ header \in Header /\ header.len <= header.cap
  BY DEF Alone, Shape, TypeOK
<1>3. /\ header.ptr = local[t].ptr /\ header.len = local[t].len + 1 /\ local[t].len \in Nat
      /\ local[t].ptr \in DOMAIN arrays /\ header.len \in DOMAIN arrays[local[t].ptr]
  BY <1>1, <1>2 DEF Alone, Shape, Fits, Header
<1>4. arg[t] \in made /\ \A u \in Threads : arg[u] = arg[t] => u = t
  <2>1. arg[t] # Nil
    BY <1>1 DEF Alone, Shape, Places, ArgsOwn, Adding, Threads
  <2>2. QED
    BY <2>1 DEF Alone, Shape, ArgsOwn
<1>5. Contents = Elements(local[t])
  BY <1>1 DEF ContentsShown, Adding
<1>6. Contents' = Elements(header)'
  <2>1. \A u \in Threads : pc'[u] = "out"
    BY <1>1 DEF AddStore, Return, Goto
  <2>2. Worker \in Threads
    BY DEF Threads
  <2>3. QED
    BY <2>1, <2>2 DEF ContentsShown, Adding
<1> DEFINE n == local[t].len
           old == arrays[local[t].ptr]
           new == [old EXCEPT ![n + 1] = arg[t]]
<1>7. arrays'[local[t].ptr] = new
  BY <1>3 DEF AddStore
<1>8. Contents = [k \in 1 .. n |-> old[k]] /\ Contents' = [k \in 1 .. n + 1 |-> new[k]]
  BY <1>3, <1>5, <1>6, <1>7 DEF Elements, AddStore
<1>9. new[n + 1] = arg[t] /\ \A k \in 1 .. n : new[k] = old[k]
  BY <1>3
<1> HIDE DEF old, new
<1>10. Contents' = Append(Contents, arg[t])
  <2>1. Len(Contents) = n
    BY <1>3, <1>8
  <2>2. /\ Append(Contents, arg[t]) \in Seq(Requests) /\ Len(Append(Contents, arg[t])) = n + 1
        /\ \A k \in 1 .. n : Append(Contents, arg[t])[k] = Contents[k]
        /\ Append(Contents, arg[t])[n + 1] = arg[t]
    BY <1>1, <1>4, <2>1, AppendProperties
  <2>3. ASSUME NEW k \in 1 .. n + 1 PROVE Append(Contents, arg[t])[k] = new[k]
    <3>1. CASE k = n + 1
      BY <1>9, <2>2, <3>1
    <3>2. CASE k \in 1 .. n
      BY <1>8, <1>9, <2>2, <3>2
    <3>3. k = n + 1 \/ k \in 1 .. n
      BY <1>3, <2>3
    <3>4. QED
      BY <3>1, <3>2, <3>3
  <2>4. Contents' \in Seq(Requests) /\ Len(Contents') = n + 1
    <3>1. \A k \in 1 .. n + 1 : new[k] \in Requests
      BY <1>3, <2>2, <2>3, ElementOfSeq, LenProperties
    <3>2. Contents' \in [1 .. n + 1 -> Requests] /\ n + 1 \in Nat
      BY <1>3, <1>8, <3>1
    <3>3. QED
      BY <3>2, FunctionIsSeq
  <2>5. \A k \in 1 .. n + 1 : Contents'[k] = Append(Contents, arg[t])[k]
    BY <1>8, <2>3
  <2>6. QED
    BY <2>2, <2>4, <2>5, SeqEqual
<1>11. Added' = Added \cup {arg[t]}
  <2>1. made' = made /\ \A u \in Threads : arg'[u] = IF u = t THEN Nil ELSE arg[u]
    BY <1>1 DEF AddStore
  <2>2. ASSUME NEW x \in made
        PROVE  (\A u \in Threads : x # arg'[u]) <=> x = arg[t] \/ \A u \in Threads : x # arg[u]
    BY <1>1, <1>4, <2>1, <2>2
  <2>3. QED
    BY <1>4, <2>1, <2>2 DEF Added
<1>12. QED
  BY <1>1, <1>4, <1>10, <1>11 DEF Added

\* The moves of a removal take the element at the worker's index out of the list.
LEMMA SpliceRemoves ==
    ASSUME Alone, ContentsShown, ContentsShown', Contents \in Seq(Requests), RemoveSplice
    PROVE  /\ i + 1 \in 1 .. Len(Contents)
           /\ Contents' = RemoveAt(Contents, i + 1)
           /\ Added' = Added
<1>1. /\ pc[Worker] = "splice" /\ Worker \in Threads /\ i < header.len
      /\ \A u \in Threads \ {Worker} : pc[u] = "out"
      /\ pc \in [Threads -> {"out", "grow", "setlen", "store", "splice", "shrink"}]
  BY DEF Alone, Shape, TypeOK, CopiesFresh, OneInside, RemoveSplice, Threads
<1>2. header \in Header /\ i \in Nat /\ header.len <= header.cap
  BY DEF Alone, Shape, TypeOK
<1>3. /\ header.len \in Nat /\ header.ptr \in DOMAIN arrays
      /\ DOMAIN arrays[header.ptr] = 1 .. header.cap /\ header.cap \in Nat
  BY <1>1, <1>2 DEF Alone, Shape, Fits, Header
<1> DEFINE n == header.len
           old == arrays[header.ptr]
           new == [k \in DOMAIN old |-> IF k > i /\ k < header.len THEN old[k + 1] ELSE old[k]]
<1>4. /\ arrays' = [arrays EXCEPT ![header.ptr] = new]
      /\ pc' = [pc EXCEPT ![Worker] = "shrink"]
      /\ UNCHANGED <<header, arg, made>>
  BY SpliceInPlace DEF RemoveSplice, Goto
<1>5. Contents = [k \in 1 .. n |-> old[k]]
  BY <1>1 DEF ContentsShown, Adding, Elements
<1>6. Contents' = [k \in 1 .. n - 1 |-> new[k]]
  <2>1. Contents' = Elements([header EXCEPT !.len = @ - 1])'
    BY <1>1, <1>4 DEF ContentsShown
  <2>2. arrays'[header.ptr] = new
    BY <1>3, <1>4
  <2>3. [header' EXCEPT !.len = @ - 1].len = n - 1 /\ [header' EXCEPT !.len = @ - 1].ptr = header.ptr
    BY <1>2, <1>4 DEF Header
  <2> HIDE DEF new, old
  <2>4. QED
    BY <2>1, <2>2, <2>3 DEF Elements
<1>7. \A k \in 1 .. n - 1 : new[k] = IF k < i + 1 THEN old[k] ELSE old[k + 1]
  BY <1>1, <1>2, <1>3
<1> HIDE DEF old, new
<1>8. Len(Contents) = n /\ i + 1 \in 1 .. n
  BY <1>1, <1>2, <1>3, <1>5
<1>9. /\ RemoveAt(Contents, i + 1) \in Seq(Requests)
      /\ Len(RemoveAt(Contents, i + 1)) = n - 1
      /\ \A j \in 1 .. (n - 1) :
            RemoveAt(Contents, i + 1)[j] = IF j < i + 1 THEN Contents[j] ELSE Contents[j + 1]
  BY <1>8, RemoveAtElements
<1>10. \A k \in 1 .. n - 1 : Contents'[k] = RemoveAt(Contents, i + 1)[k]
  BY <1>2, <1>3, <1>5, <1>6, <1>7, <1>9
<1>11. Contents' \in Seq(Requests) /\ Len(Contents') = n - 1
  <2>1. n - 1 \in Nat
    BY <1>1, <1>2, <1>3
  <2>2. \A k \in 1 .. n - 1 : RemoveAt(Contents, i + 1)[k] \in Requests
    BY <1>9, <2>1, ElementOfSeq, LenProperties
  <2>3. Contents' \in [1 .. n - 1 -> Requests]
    BY <1>6, <1>10, <2>2
  <2>4. QED
    BY <2>1, <2>3, FunctionIsSeq
<1>12. Contents' = RemoveAt(Contents, i + 1)
  BY <1>9, <1>10, <1>11, SeqEqual
<1>13. QED
  BY <1>4, <1>8, <1>12 DEF Added

-------------------------------------------------------------------------------
(* The worker and the list *)

\* What the lemmas about a step have in common.
Step == ~overlapped' /\ ListInv /\ ContentsShown /\ ContentsShown'

LEMMA StoreKeepsList ==
    ASSUME Step, NEW t \in Threads, AddStore(t)
    PROVE  Contents' \in Seq(Requests) /\ WorkersIndex' /\ OwedListed'
<1>1. arg[t] \in Requests /\ Contents \in Seq(Requests) /\ Contents' = Append(Contents, arg[t])
  BY StoreAppends DEF Step, ListInv
<1>2. /\ Contents' \in Seq(Requests) /\ Len(Contents') = Len(Contents) + 1
      /\ \A k \in DOMAIN Contents : k \in DOMAIN Contents' /\ Contents'[k] = Contents[k]
      /\ Len(Contents) + 1 \in DOMAIN Contents' /\ Contents'[Len(Contents) + 1] = arg[t]
      /\ DOMAIN Contents = 1 .. Len(Contents) /\ Len(Contents) \in Nat
  BY <1>1, AppendKeepsOthers, AppendProperties, LenProperties
<1>3. /\ i \in Nat /\ i' = i /\ request' = request
      /\ owed' = owed \cup {arg[t]}
      /\ pc[t] = "store" /\ \A u \in Threads \ {t} : pc[u] = "out"
      /\ t = Worker => wpc = "chain" /\ wpc' = "remove"
      /\ t # Worker => wpc' = wpc
      /\ pc'[Worker] = "out"
  BY DEF Step, ListInv, Alone, Shape, TypeOK, Places, OneInside, Adding, Threads, AddStore, Return, Goto
<1>4. pc[Worker] # "shrink"
  BY <1>3 DEF Threads
<1>5. WorkersIndex'
  <2>1. wpc' # "panic" /\ (wpc' \in {"answer", "chain", "remove"} => wpc \in {"answer", "chain", "remove"})
        /\ (wpc' \in {"get", "answer", "chain", "remove"} => wpc \in {"get", "answer", "chain", "remove"})
    BY <1>3 DEF Step, ListInv, WorkersIndex
  <2>2. wpc' \in {"get", "answer", "chain", "remove"} => i < Len(Contents)
    BY <1>4, <2>1 DEF Step, ListInv, WorkersIndex
  <2>3. wpc' \in {"answer", "chain", "remove"} =>
            request \in Requests /\ Contents'[i + 1] = request
    BY <1>2, <1>3, <1>4, <2>1, <2>2 DEF Step, ListInv, WorkersIndex
  <2>4. QED
    BY <1>2, <1>3, <2>1, <2>2, <2>3 DEF WorkersIndex
<1>6. OwedListed'
  BY <1>2, <1>3, <1>4 DEF Step, ListInv, OwedListed
<1>7. QED
  BY <1>2, <1>5, <1>6

LEMMA SpliceKeepsList ==
    ASSUME Step, RemoveSplice
    PROVE  Contents' \in Seq(Requests) /\ WorkersIndex' /\ OwedListed'
<1>1. /\ Contents \in Seq(Requests) /\ i + 1 \in 1 .. Len(Contents)
      /\ Contents' = RemoveAt(Contents, i + 1)
  BY SpliceRemoves DEF Step, ListInv
<1>2. /\ Contents' \in Seq(Requests)
      /\ \A k \in DOMAIN Contents :
            k # i + 1 => \E j \in DOMAIN Contents' : Contents'[j] = Contents[k]
  BY <1>1, RemoveAtKeepsOthers, LenProperties
<1>3. /\ wpc = "remove" /\ pc[Worker] = "splice" /\ pc'[Worker] = "shrink"
      /\ UNCHANGED <<wpc, i, request, owed>>
  BY DEF Step, ListInv, Alone, Shape, TypeOK, Places, WorkersIndex, Threads, RemoveSplice, Goto
<1>4. request \in Requests /\ Contents[i + 1] = request
  BY <1>3 DEF Step, ListInv, WorkersIndex
<1>5. WorkersIndex'
  BY <1>3, <1>4 DEF WorkersIndex
<1>6. OwedListed'
  BY <1>2, <1>3, <1>4 DEF Step, ListInv, OwedListed
<1>7. QED
  BY <1>2, <1>5, <1>6

LEMMA HiddenKeepsList ==
    ASSUME Step, Hidden
    PROVE  Contents' \in Seq(Requests) /\ WorkersIndex' /\ OwedListed'
<1>1. Contents' = Contents /\ Contents \in Seq(Requests)
  BY HiddenKeepsContents DEF Step, ListInv
<1>2. /\ Worker \in Threads /\ i \in Nat /\ header.len \in Nat
      /\ pc \in [Threads -> {"out", "grow", "setlen", "store", "splice", "shrink"}]
  BY DEF Step, ListInv, Alone, Shape, TypeOK, Threads, Header
<1>3. ASSUME NEW t \in Threads, AddLoad(t) \/ AddGrow(t) \/ AddSetLen(t)
      PROVE  WorkersIndex' /\ OwedListed'
  <2>1. UNCHANGED <<wpc, i, request, owed>> /\ pc'[Worker] # "shrink" /\ pc[Worker] # "shrink"
    <3>1. UNCHANGED <<wpc, i, request, owed>>
      BY <1>3 DEF AddLoad, AddGrow, AddSetLen
    <3>2. pc[Worker] # "shrink"
      BY <1>2, <1>3, EnterAlone DEF Step, ListInv, Alone, OneInside, AddLoad, AddGrow, AddSetLen
    <3>3. pc' = [pc EXCEPT ![t] = "grow"] \/ pc' = [pc EXCEPT ![t] = "setlen"]
          \/ pc' = [pc EXCEPT ![t] = "store"]
      BY <1>3 DEF AddLoad, AddGrow, AddSetLen, Goto
    <3>4. QED
      BY <1>2, <3>1, <3>2, <3>3
  <2>2. QED
    BY <1>1, <2>1 DEF Step, ListInv, WorkersIndex, OwedListed
\* Between calls the header shows the list.
<1>4. ASSUME \A u \in Threads : pc[u] = "out"
      PROVE  /\ Contents = Elements(header) /\ Len(Contents) = header.len
             /\ \A k \in 1 .. header.len : arrays[header.ptr][k] = Contents[k] /\ Contents[k] \in Requests
  <2>1. Contents = Elements(header)
    BY <1>2, <1>4 DEF Step, ContentsShown, Adding
  <2>2. Len(Contents) = header.len /\ DOMAIN Contents = 1 .. header.len
    BY <1>1, <1>2, <2>1 DEF Elements
  <2>3. \A k \in 1 .. header.len : Contents[k] \in Requests
    BY <1>1, <2>2, ElementOfSeq
  <2>4. QED
    BY <2>1, <2>2, <2>3 DEF Elements
<1>5. CASE RemoveCheck
  <2>1. (\A u \in Threads : pc[u] = "out") /\ wpc = "remove"
    BY <1>2, <1>5, EnterAlone DEF Step, RemoveCheck
  <2>2. header.len > i
    BY <1>2, <1>4, <2>1 DEF Step, ListInv, WorkersIndex
  <2>3. UNCHANGED <<wpc, i, request, owed>> /\ pc[Worker] = "out" /\ pc'[Worker] = "splice"
    BY <1>2, <1>5, <2>1, <2>2 DEF RemoveCheck, Goto
  <2>4. QED
    BY <1>1, <2>3 DEF Step, ListInv, WorkersIndex, OwedListed
<1>6. CASE RemoveStore
  <2>1. pc[Worker] = "shrink" /\ wpc' = "check" /\ owed' = owed \ {request}
    BY <1>6 DEF RemoveStore
  <2>2. QED
    BY <1>1, <2>1 DEF Step, ListInv, WorkersIndex, OwedListed
<1>7. CASE WorkerCheck
  <2>1. (\A u \in Threads : pc[u] = "out") /\ wpc = "check" /\ UNCHANGED <<pc, request, owed>>
        /\ (\/ wpc' = "check"
            \/ wpc' = "get" /\ i' = i /\ i < header.len)
    BY <1>2, <1>7, EnterAlone DEF Step, WorkerCheck
  <2>2. QED
    BY <1>1, <1>4, <2>1 DEF Step, ListInv, WorkersIndex, OwedListed
<1>8. CASE WorkerGet
  <2>1. (\A u \in Threads : pc[u] = "out") /\ wpc = "get" /\ UNCHANGED <<pc, i, owed>>
    BY <1>2, <1>8, EnterAlone DEF Step, WorkerGet
  <2>2. i < header.len /\ i + 1 \in 1 .. header.len
    BY <1>2, <1>4, <2>1 DEF Step, ListInv, WorkersIndex
  <2>3. arrays[header.ptr][i + 1] = Contents[i + 1] /\ Contents[i + 1] \in Requests
    BY <1>4, <2>1, <2>2
  <2>4. wpc' = "answer" /\ request' = Contents[i + 1]
    <3>1. \A junk \in Junk(header) : Word(header, i + 1, junk) = Contents[i + 1]
      BY <2>2, <2>3, WordsInside DEF Step, ListInv
    <3>2. QED
      BY <1>8, <2>2, <2>3, <3>1, SliceAssumption DEF WorkerGet
  <2>5. WorkersIndex'
    BY <1>1, <1>4, <2>1, <2>2, <2>3, <2>4 DEF WorkersIndex
  <2>6. pc[Worker] = "out"
    BY <1>2, <2>1
  <2>7. OwedListed'
    BY <1>1, <2>1, <2>6 DEF Step, ListInv, OwedListed
  <2>8. QED
    BY <1>1, <2>5, <2>7
<1>9. CASE WorkerAnswer
  <2>1. wpc = "answer" /\ UNCHANGED <<pc, request, owed>>
        /\ (\/ wpc' \in {"chain", "remove"} /\ i' = i
            \/ wpc' = "check")
    BY <1>9 DEF WorkerAnswer
  <2>2. QED
    BY <1>1, <2>1 DEF Step, ListInv, WorkersIndex, OwedListed
<1>10. QED
  BY <1>1, <1>3, <1>5, <1>6, <1>7, <1>8, <1>9 DEF Hidden

-------------------------------------------------------------------------------
(* The invariant, and what follows from it *)

LEMMA InitIInv == Init => IInv
<1> SUFFICES ASSUME Init PROVE IInv
  OBVIOUS
<1>1. Alone /\ ContentsShown
  BY InitShape, ContentsAreShown
<1>2. Contents = Elements(header) /\ header.len = 0
  BY <1>1 DEF Init, ContentsShown, Adding, Threads, Empty
<1>3. Contents \in Seq(Requests)
  <2>1. Contents \in [1 .. 0 -> Requests]
    BY <1>2 DEF Elements
  <2>2. QED
    BY <2>1, FunctionIsSeq
<1>4. WorkersIndex /\ OwedListed
  BY DEF Init, WorkersIndex, OwedListed
<1>5. QED
  BY <1>1, <1>3, <1>4 DEF IInv, ListInv, Alone

\* A step of Next hides, stores or moves; the worker's removal does not panic.
LEMMA StepIsSeenOrHidden ==
    Alone /\ Next => Hidden \/ RemoveSplice \/ \E t \in Threads : AddStore(t)
<1>1. ASSUME Alone PROVE ~RemovePanic
  <2>1. pc[Worker] = "splice" => i < header.len
    BY <1>1 DEF Alone, CopiesFresh, Threads
  <2>2. i \in Nat /\ header.len \in Nat /\ header.cap \in Nat /\ header.len <= header.cap
    BY <1>1 DEF Alone, Shape, TypeOK, Header
  <2>3. QED
    BY <2>1, <2>2 DEF RemovePanic
<1>2. QED
  BY <1>1 DEF Next, Hidden

\* A step after which calls have not overlapped follows states in which they had not.
LEMMA AroundStep == IInv /\ [Next]_vars /\ ~overlapped' => Alone' /\ Step
<1> SUFFICES ASSUME IInv, [Next]_vars, ~overlapped' PROVE Alone' /\ Step
  OBVIOUS
<1>1. ~overlapped
  BY OverlappedStays DEF vars
<1>2. ListInv
  BY <1>1 DEF IInv
<1>3. QED
  BY <1>2, ShownAroundStep DEF Step, ListInv

LEMMA NextKeepsIInv == IInv /\ [Next]_vars => IInv'
<1> SUFFICES ASSUME IInv, [Next]_vars PROVE IInv'
  OBVIOUS
<1>1. Shape'
  BY NextKeepsShape DEF IInv
<1>2. ASSUME ~overlapped' PROVE ListInv'
  <2>1. Alone' /\ Step
    BY <1>2, AroundStep
  <2>2. CASE Next
    <3>1. Contents' \in Seq(Requests) /\ WorkersIndex' /\ OwedListed'
      BY <2>1, <2>2, StepIsSeenOrHidden, StoreKeepsList, SpliceKeepsList, HiddenKeepsList
         DEF Step, ListInv
    <3>2. QED
      BY <2>1, <3>1 DEF ListInv
  <2>3. CASE UNCHANGED vars
    <3>1. Contents' = Contents
      BY <2>3 DEF vars, Contents, Elements
    <3>2. WorkersIndex' /\ OwedListed'
      BY <2>1, <2>3, <3>1 DEF vars, Step, ListInv, WorkersIndex, OwedListed
    <3>3. QED
      BY <2>1, <3>1, <3>2 DEF Step, ListInv
  <2>4. QED
    BY <2>2, <2>3
<1>3. QED
  BY <1>1, <1>2 DEF IInv

LEMMA Invariance == Spec => []IInv
<1>1. IInv /\ [Next]_vars => IInv'
  BY NextKeepsIInv
<1>2. QED
  BY <1>1, InitIInv, PTL DEF Spec

\* Type correctness.
THEOREM TypeCorrect == Spec => []TypeOK
<1>1. IInv => TypeOK
  BY DEF IInv, Shape
<1>2. QED
  BY <1>1, Invariance, PTL

\* However calls overlap, the header describes the array it names, and no append
\* stores its element outside of one.
THEOREM StoresStayInside == Spec => []StoresInside
<1>1. IInv => StoresInside
  <2> SUFFICES ASSUME Shape PROVE StoresInside
    BY DEF IInv
  <2>1. ASSUME NEW h \in Header, Fits(h, arrays), h.ptr # 0
        PROVE  h.ptr \in DOMAIN arrays /\ DOMAIN arrays[h.ptr] = 1 .. h.cap
    <3>1. h.ptr \in 1 .. Len(arrays) /\ DOMAIN arrays[h.ptr] = 1 .. h.cap
      BY <2>1 DEF Fits
    <3>2. QED
      BY <3>1, LenProperties DEF Shape
  <2>2. header \in Header /\ Fits(header, arrays)
    BY DEF Shape, TypeOK
  <2>3. ASSUME NEW t \in Threads, pc[t] \in {"setlen", "store"}
        PROVE  /\ local[t].ptr \in DOMAIN arrays
               /\ local[t].len + 1 \in DOMAIN arrays[local[t].ptr]
    <3>1. local[t] \in Header /\ Fits(local[t], arrays) /\ local[t].len < local[t].cap
      BY <2>3 DEF Shape, TypeOK, Places
    <3>2. local[t].ptr # 0 /\ local[t].len + 1 \in 1 .. local[t].cap
      BY <3>1 DEF Fits, Header
    <3>3. QED
      BY <2>1, <3>1, <3>2
  <2>4. QED
    BY <2>1, <2>2, <2>3 DEF StoresInside
<1>2. QED
  BY <1>1, Invariance, PTL

\* Until calls overlap, every request whose AddToQueue has returned and that the
\* worker has not dealt with is, between calls, an element of the slice.
THEOREM QueueHoldsRequests == Spec => []HeldUntilOverlap
<1>1. IInv => HeldUntilOverlap
  <2> SUFFICES ASSUME ListInv, Quiet
               PROVE  \A r \in owed : \E k \in 1 .. header.len : Elements(header)[k] = r
    BY DEF IInv, HeldUntilOverlap, HoldsAllRequests
  <2>1. \A t \in Threads : pc[t] = "out"
    BY DEF Quiet
  <2>2. Worker \in Threads /\ ContentsShown
    BY ContentsAreShown DEF ListInv, Threads
  <2>3. Contents = Elements(header)
    BY <2>1, <2>2 DEF ContentsShown, Adding
  <2>4. \A r \in owed : \E k \in DOMAIN Contents : Contents[k] = r
    BY <2>1, <2>2 DEF ListInv, OwedListed
  <2>5. QED
    BY <2>3, <2>4 DEF Elements
<1>2. QED
  BY <1>1, Invariance, PTL

\* Until calls overlap, the worker's index is inside the queue, and there is a request
\* at it, whenever it reads or removes.
THEOREM WorkerNeverPanics == Spec => []WorkerStaysUp
<1>1. IInv => WorkerStaysUp
  BY DEF IInv, ListInv, WorkersIndex, WorkerStaysUp
<1>2. QED
  BY <1>1, Invariance, PTL

\* The slice is a list to which each call does what it does in PushQueue, in one
\* step, until calls overlap: the last store of an append, the moves of a removal.
THEOREM SliceIsList == Spec => ImplementsList
<1>1. Init => List!Init
  <2> SUFFICES ASSUME Init PROVE List!Init
    OBVIOUS
  <2>1. Alone /\ ContentsShown
    BY InitShape, ContentsAreShown
  <2>2. Contents = Elements(header) /\ header.len = 0
    BY <2>1 DEF Init, ContentsShown, Adding, Threads, Empty
  <2>3. Contents = <<>>
    BY <2>2 DEF Elements
  <2>4. Added = {}
    BY DEF Init, Added
  <2>5. (~overlapped) = TRUE
    BY Zenon DEF Init
  <2>6. QED
    BY <2>3, <2>4, <2>5 DEF List!Init
<1>2. IInv /\ [Next]_vars => [List!Next]_(List!vars)
  <2> SUFFICES ASSUME IInv, [Next]_vars, ~overlapped'
               PROVE  List!Next \/ UNCHANGED <<Contents, Added, ~overlapped>>
    BY DEF List!Next, List!vars
  <2>1. Step /\ ~overlapped
    BY AroundStep, OverlappedStays DEF vars
  <2>2. (~overlapped') = (~overlapped)
    BY <2>1
  <2>3. CASE Hidden
    BY <2>1, <2>2, <2>3, HiddenKeepsContents, HiddenKeepsAdded DEF Step, ListInv
  <2>4. ASSUME NEW t \in Threads, AddStore(t) PROVE List!AddToQueue
    BY <2>1, <2>4, StoreAppends DEF Step, ListInv, List!AddToQueue
  <2>5. CASE RemoveSplice
    <3>1. /\ i + 1 \in 1 .. Len(Contents) /\ i \in Nat /\ Len(Contents) \in Nat
          /\ Contents' = RemoveAt(Contents, i + 1) /\ Added' = Added
      BY <2>1, <2>5, SpliceRemoves, LenProperties DEF Step, ListInv, Alone, Shape, TypeOK
    <3>2. i \in 0 .. (Len(Contents) - 1)
      BY <3>1
    <3>3. List!RemoveFromQueueWithIndex
      BY <3>1, <3>2 DEF List!RemoveFromQueueWithIndex, List!RemoveAt, RemoveAt
    <3>4. QED
      BY <2>1, <3>3 DEF List!Next
  <2>6. CASE UNCHANGED vars
    BY <2>2, <2>6 DEF vars, Contents, Elements, Added
  <2>7. QED
    BY <2>1, <2>3, <2>4, <2>5, <2>6, StepIsSeenOrHidden DEF Step, ListInv, List!Next
<1>3. QED
  BY <1>1, <1>2, Invariance, PTL
     DEF Spec, ImplementsList, List!Spec, List!vars, Contents, Added
===============================================================================
