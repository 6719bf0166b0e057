----------------------------- MODULE QueueLemmas ------------------------------
(***************************************************************************)
(* Facts about sequences of requests from which one is taken that need not *)
(* be the first: the queue of the worker, the requests of a page.          *)
(***************************************************************************)
EXTENDS Naturals, Sequences, SequencesExt, SequenceTheorems, TLAPS

\* A function on 1 .. n is a sequence.
LEMMA FunctionIsSeq ==
    ASSUME NEW S, NEW n \in Nat, NEW f \in [1 .. n -> S]
    PROVE  f \in Seq(S) /\ Len(f) = n
OBVIOUS

\* append(q[:k-1], q[k:]...) drops the element at k and moves the later ones down.
LEMMA RemoveAtElements ==
    ASSUME NEW S, NEW q \in Seq(S), NEW k \in 1 .. Len(q)
    PROVE  /\ RemoveAt(q, k) \in Seq(S)
           /\ Len(RemoveAt(q, k)) = Len(q) - 1
           /\ \A j \in 1 .. (Len(q) - 1) :
                 RemoveAt(q, k)[j] = IF j < k THEN q[j] ELSE q[j + 1]
<1> DEFINE left == SubSeq(q, 1, k - 1)
           right == SubSeq(q, k + 1, Len(q))
<1>1. left \in Seq(S) /\ Len(left) = k - 1 /\ \A j \in 1 .. (k - 1) : left[j] = q[j]
  OBVIOUS
<1>2. right \in Seq(S) /\ Len(right) = Len(q) - k
      /\ \A j \in 1 .. (Len(q) - k) : right[j] = q[j + k]
  OBVIOUS
<1>3. RemoveAt(q, k) = left \o right
  BY DEF RemoveAt
<1> HIDE DEF left, right
<1>4. /\ left \o right \in Seq(S)
      /\ Len(left \o right) = Len(left) + Len(right)
      /\ \A j \in 1 .. (Len(left) + Len(right)) :
            (left \o right)[j] = IF j <= Len(left) THEN left[j] ELSE right[j - Len(left)]
  BY <1>1, <1>2, ConcatProperties
<1>5. ASSUME NEW j \in 1 .. (Len(q) - 1)
      PROVE  (left \o right)[j] = IF j < k THEN q[j] ELSE q[j + 1]
  <2>1. CASE j < k
    BY <1>1, <1>2, <1>4, <2>1
  <2>2. CASE j >= k
    <3>1. j - (k - 1) \in 1 .. (Len(q) - k) /\ ~(j <= k - 1)
      BY <2>2
    <3>2. (left \o right)[j] = right[j - (k - 1)]
      BY <1>1, <1>2, <1>4, <3>1
    <3>3. right[j - (k - 1)] = q[(j - (k - 1)) + k]
      BY <1>2, <3>1
    <3>4. (j - (k - 1)) + k = j + 1
      OBVIOUS
    <3>5. QED
      BY <2>2, <3>2, <3>3, <3>4
  <2>3. j < k \/ j >= k
    OBVIOUS
  <2>4. QED
    BY <2>1, <2>2, <2>3
<1>6. QED
  BY <1>1, <1>2, <1>3, <1>4, <1>5

\* The others stay, and nothing but them is left.
LEMMA RemoveAtKeepsOthers ==
    ASSUME NEW S, NEW q \in Seq(S), NEW k \in DOMAIN q
    PROVE  /\ RemoveAt(q, k) \in Seq(S)
           /\ \A j \in DOMAIN q : j # k => \E i \in DOMAIN RemoveAt(q, k) : RemoveAt(q, k)[i] = q[j]
           /\ \A i \in DOMAIN RemoveAt(q, k) : \E j \in DOMAIN q : j # k /\ RemoveAt(q, k)[i] = q[j]
<1> DEFINE r == RemoveAt(q, k)
<1>1. k \in 1 .. Len(q) /\ DOMAIN q = 1 .. Len(q) /\ Len(q) \in Nat
  OBVIOUS
<1>2. /\ r \in Seq(S) /\ Len(r) = Len(q) - 1
      /\ \A j \in 1 .. (Len(q) - 1) : r[j] = IF j < k THEN q[j] ELSE q[j + 1]
  BY <1>1, RemoveAtElements
<1>3. DOMAIN r = 1 .. (Len(q) - 1)
  BY <1>1, <1>2
<1> HIDE DEF r
<1>4. ASSUME NEW j \in DOMAIN q, j # k PROVE \E i \in DOMAIN r : r[i] = q[j]
  <2>1. CASE j < k
    <3>1. j \in DOMAIN r /\ r[j] = q[j]
      BY <1>1, <1>2, <1>3, <2>1
    <3>2. QED
      BY <3>1
  <2>2. CASE j > k
    <3>1. j - 1 \in DOMAIN r /\ ~(j - 1 < k) /\ (j - 1) + 1 = j
      BY <1>1, <1>3, <2>2
    <3>2. r[j - 1] = q[j]
      BY <1>2, <1>3, <3>1
    <3>3. QED
      BY <3>1, <3>2
  <2>3. QED
    BY <1>1, <1>4, <2>1, <2>2
<1>5. ASSUME NEW i \in DOMAIN r PROVE \E j \in DOMAIN q : j # k /\ r[i] = q[j]
  <2>1. CASE i < k
    <3>1. i \in DOMAIN q /\ i # k /\ r[i] = q[i]
      BY <1>1, <1>2, <1>3, <2>1
    <3>2. QED
      BY <3>1
  <2>2. CASE ~(i < k)
    <3>1. i + 1 \in DOMAIN q /\ i + 1 # k /\ r[i] = q[i + 1]
      BY <1>1, <1>2, <1>3, <2>2
    <3>2. QED
      BY <3>1
  <2>3. QED
    BY <2>1, <2>2
<1>6. QED
  BY <1>2, <1>4, <1>5 DEF r

\* What was there before an element is appended is there after it.
LEMMA AppendKeepsOthers ==
    ASSUME NEW S, NEW q \in Seq(S), NEW e \in S
    PROVE  /\ Append(q, e) \in Seq(S)
           /\ Append(q, e) # <<>>
           /\ \A j \in DOMAIN q : j \in DOMAIN Append(q, e) /\ Append(q, e)[j] = q[j]
           /\ Len(q) + 1 \in DOMAIN Append(q, e) /\ Append(q, e)[Len(q) + 1] = e
           /\ \A i \in DOMAIN Append(q, e) : i \in DOMAIN q \/ i = Len(q) + 1
<1>1. /\ Append(q, e) \in Seq(S) /\ Len(Append(q, e)) = Len(q) + 1
      /\ \A j \in 1 .. Len(q) : Append(q, e)[j] = q[j]
      /\ Append(q, e)[Len(q) + 1] = e
  BY AppendProperties
<1>2. /\ DOMAIN q = 1 .. Len(q) /\ Len(q) \in Nat
      /\ DOMAIN Append(q, e) = 1 .. (Len(q) + 1)
  BY <1>1
<1>3. Append(q, e) # <<>>
  BY <1>1, <1>2, EmptySeq
<1>4. QED
  BY <1>1, <1>2, <1>3

===============================================================================
