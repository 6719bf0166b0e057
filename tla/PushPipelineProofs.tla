-------------------------- MODULE PushPipelineProofs --------------------------
(***************************************************************************)
(* What holds of PushPipeline for every set of notifications and senders,  *)
(* every channel capacity and every pause window.                          *)
(***************************************************************************)
EXTENDS PushPipeline, QueueLemmas, FiniteSetTheorems, TLAPS

\* A sender in its loop has something left to enqueue; an idle one has nothing.
\* Only the worker makes requests of the kind Subscribers.
SenderShape ==
    \A s \in Senders :
        /\ spc[s] = "add" => todo[s] # <<>>
        /\ spc[s] = "idle" => todo[s] = <<>>
        /\ \A k \in DOMAIN todo[s] : todo[s][k].type \in Ladder!Entries

\* With a call under way the count leaves room for one more request.
CountShape == wpc \in {"call", "remove"} => requestCount <= Window

\* The inductive invariant: AnswerMatchesIndex keeps the removal inside the
\* queue, SenderShape keeps Head and a new call away from what is not there.
IInv ==
    /\ TypeOK
    /\ SenderShape
    /\ CountShape
    /\ NoStrandedRequest
    /\ AnswerMatchesIndex
    /\ NoDoublePush

-------------------------------------------------------------------------------
(* Lemmas about the queue operations *)

\* A list of free notifications is a sequence of notifications without repeats.
LEMMA FreeListsAreSequences ==
    ASSUME NEW ns \in FreeLists
    PROVE  /\ ns \in Seq(Notifications)
           /\ \A k \in 1 .. Len(ns) : ~Pushing(ns[k])
           /\ \A k, l \in 1 .. Len(ns) : ns[k] = ns[l] => k = l
<1> DEFINE free == {n \in Notifications : ~Pushing(n)}
<1>1. Cardinality(free) \in Nat
  BY PipelineAssumption, FS_Subset, FS_CardinalityType
<1>2. ns \in SeqOf(free, Cardinality(free)) /\ IsInjective(ns)
  BY DEF FreeLists
<1>3. PICK m \in 0 .. Cardinality(free) : ns \in [1 .. m -> free]
  BY <1>2 DEF SeqOf
<1>4. m \in Nat
  BY <1>1, <1>3
<1>5. ns \in Seq(free) /\ Len(ns) = m /\ DOMAIN ns = 1 .. m
  BY <1>3, <1>4
<1>6. \A k, l \in 1 .. m : ns[k] = ns[l] => k = l
  BY <1>2, <1>5 DEF IsInjective
<1>7. QED
  BY <1>3, <1>4, <1>5, <1>6

\* The pushes of a list of notifications are requests for them, in its order.
LEMMA PushesAreRequests ==
    ASSUME NEW kind \in Kinds, NEW ns \in Seq(Notifications)
    PROVE  /\ PushesOf(kind, ns) \in Seq(Requests)
           /\ Len(PushesOf(kind, ns)) = Len(ns)
           /\ \A k \in 1 .. Len(ns) : /\ PushesOf(kind, ns)[k].value = ns[k]
                                     /\ PushesOf(kind, ns)[k].type = kind
<1>1. DOMAIN ns = 1 .. Len(ns) /\ Len(ns) \in Nat
  OBVIOUS
<1>2. PushesOf(kind, ns) \in [1 .. Len(ns) -> Requests]
  BY <1>1 DEF PushesOf, Requests
<1>3. QED
  BY <1>1, <1>2 DEF PushesOf

\* Whatever handler runs, its list holds free notifications, each once.
LEMMA CallTakesFreeNotifications ==
    ASSUME NEW s \in Senders, Call(s)
    PROVE  \E p \in Seq(Requests), each \in BOOLEAN :
              /\ Take(s, p, each)
              /\ \A k \in 1 .. Len(p) : /\ p[k].value \in Notifications
                                       /\ ~Pushing(p[k].value)
                                       /\ p[k].type \in Ladder!Entries
              /\ \A k, l \in 1 .. Len(p) : p[k].value = p[l].value => k = l
<1>1. PICK ns \in FreeLists, kind \in Ladder!Entries, each \in BOOLEAN :
         Take(s, PushesOf(kind, ns), each)
  BY DEF Call, TakeApproval, TakeRePush, TakeMultiple, TakeDue, Ladder!Entries
<1> DEFINE p == PushesOf(kind, ns)
<1>2. /\ ns \in Seq(Notifications)
      /\ \A k \in 1 .. Len(ns) : ~Pushing(ns[k])
      /\ \A k, l \in 1 .. Len(ns) : ns[k] = ns[l] => k = l
  BY FreeListsAreSequences
<1>3. /\ p \in Seq(Requests)
      /\ Len(p) = Len(ns)
      /\ \A k \in 1 .. Len(ns) : p[k].value = ns[k] /\ p[k].type = kind
  BY <1>2, PushesAreRequests DEF Ladder!Entries, Kinds
<1>4. /\ \A k \in 1 .. Len(p) : /\ p[k].value \in Notifications
                               /\ ~Pushing(p[k].value)
                               /\ p[k].type \in Ladder!Entries
      /\ \A k, l \in 1 .. Len(p) : p[k].value = p[l].value => k = l
  BY <1>2, <1>3
<1>5. QED
  BY <1>1, <1>3, <1>4

-------------------------------------------------------------------------------
(* The invariant *)

\* The empty queue and the idle senders satisfy the invariant.
LEMMA InitEstablishesIInv == Init => IInv
<1> SUFFICES ASSUME Init PROVE IInv
  OBVIOUS
<1>1. TypeOK
  <2>1. life \in BOOLEAN
    BY Zenon DEF Init
  <2>2. QED
    BY <2>1, PipelineAssumption DEF Init, Fresh, TypeOK
<1>2. SenderShape /\ CountShape /\ NoStrandedRequest /\ AnswerMatchesIndex
  BY DEF Init, Fresh, SenderShape, CountShape, NoStrandedRequest, AnswerMatchesIndex
<1>3. NoDoublePush
  BY DEF Init, Fresh, NoDoublePush, Live
<1>4. QED
  BY <1>1, <1>2, <1>3 DEF IInv

\* A handler or the closer starts: its list is new to everybody.
LEMMA CallKeepsIInv ==
    ASSUME IInv, NEW s \in Senders, Call(s)
    PROVE  IInv'
<1> USE DEF IInv
<1>1. PICK p \in Seq(Requests), each \in BOOLEAN :
         /\ Take(s, p, each)
         /\ \A k \in 1 .. Len(p) : /\ p[k].value \in Notifications
                                  /\ ~Pushing(p[k].value)
                                  /\ p[k].type \in Ladder!Entries
         /\ \A k, l \in 1 .. Len(p) : p[k].value = p[l].value => k = l
  BY CallTakesFreeNotifications
<1>2. /\ spc[s] = "idle"
      /\ todo' = [todo EXCEPT ![s] = p]
      /\ perItem' = [perItem EXCEPT ![s] = each]
      /\ spc' = [spc EXCEPT ![s] = IF p = <<>> THEN "signal" ELSE "add"]
      /\ UNCHANGED <<queue, pushChan, wpc, i, requestCount, request, life>>
  BY <1>1 DEF Take, workerVars
<1>3. TypeOK'
  BY <1>2 DEF TypeOK
<1>4. SenderShape' /\ CountShape'
  BY <1>1, <1>2 DEF TypeOK, SenderShape, CountShape
<1>5. NoStrandedRequest'
  BY <1>2 DEF TypeOK, NoStrandedRequest
<1>6. AnswerMatchesIndex'
  BY <1>2 DEF AnswerMatchesIndex
<1>7. NoDoublePush'
  <2>1. Live' = Live /\ Live \subseteq DOMAIN queue
    BY <1>2 DEF Live
  <2>2. \A t \in Senders : todo'[t] = IF t = s THEN p ELSE todo[t]
    BY <1>2 DEF TypeOK
  <2>3. DOMAIN p = 1 .. Len(p)
    OBVIOUS
  <2>4. \A k \in DOMAIN p : /\ \A l \in DOMAIN queue : p[k].value # queue[l].value
                           /\ \A t \in Senders : \A l \in DOMAIN todo[t] :
                                 p[k].value # todo[t][l].value
    BY <1>1, <2>3 DEF Pushing
  <2>5. QED
    BY <1>1, <1>2, <2>1, <2>2, <2>3, <2>4 DEF NoDoublePush
<1>8. QED
  BY <1>3, <1>4, <1>5, <1>6, <1>7

\* A sender appends the head of its list.
LEMMA EnqueueKeepsIInv ==
    ASSUME IInv, NEW s \in Senders, Enqueue(s)
    PROVE  IInv'
<1> USE DEF IInv
<1> DEFINE r == Head(todo[s])
<1>1. /\ todo[s] \in Seq(Requests)
      /\ todo[s] # <<>>
      /\ r \in Requests
      /\ r = todo[s][1]
      /\ Tail(todo[s]) \in Seq(Requests)
      /\ Len(Tail(todo[s])) = Len(todo[s]) - 1
      /\ \A k \in 1 .. Len(Tail(todo[s])) : Tail(todo[s])[k] = todo[s][k + 1]
  BY HeadTailProperties DEF Enqueue, TypeOK, SenderShape
<1>2. /\ queue' \in Seq(Requests)
      /\ queue' # <<>>
      /\ Len(queue') = Len(queue) + 1
      /\ \A k \in 1 .. Len(queue) : queue'[k] = queue[k]
      /\ queue'[Len(queue) + 1] = r
  BY <1>1, AppendProperties DEF Enqueue, AddToQueue, TypeOK
<1>3. /\ spc[s] = "add"
      /\ todo' = [todo EXCEPT ![s] = Tail(@)]
      /\ spc' = [spc EXCEPT ![s] =
                    IF perItem[s] \/ Tail(todo[s]) = <<>> THEN "signal" ELSE "add"]
      /\ UNCHANGED <<pushChan, perItem, wpc, i, requestCount, request, life>>
  BY DEF Enqueue, workerVars
<1>4. TypeOK'
  BY <1>1, <1>2, <1>3 DEF TypeOK
<1>5. SenderShape' /\ CountShape'
  BY <1>1, <1>3 DEF TypeOK, SenderShape, CountShape
<1>6. NoStrandedRequest'
  BY <1>3 DEF TypeOK, NoStrandedRequest
<1>7. AnswerMatchesIndex'
  <2>1. Len(queue) \in Nat /\ i \in Nat
    BY DEF TypeOK
  <2>2. CASE wpc \in {"call", "remove"}
    <3>1. i + 1 \in 1 .. Len(queue) /\ queue[i + 1] = request
      BY <2>1, <2>2 DEF AnswerMatchesIndex
    <3>2. QED
      BY <1>2, <1>3, <2>1, <3>1 DEF AnswerMatchesIndex
  <2>3. QED
    BY <1>3, <2>2 DEF AnswerMatchesIndex
<1>8. NoDoublePush'
  <2>1. Len(queue) \in Nat /\ DOMAIN queue = 1 .. Len(queue)
        /\ DOMAIN queue' = 1 .. (Len(queue) + 1)
    BY <1>2 DEF TypeOK
  <2>2. Live' = Live \cup {Len(queue) + 1} /\ Live \subseteq 1 .. Len(queue)
    BY <1>3, <2>1 DEF Live, AnswerMatchesIndex, TypeOK
  <2>3. \A k \in Live : queue'[k] = queue[k] /\ queue[k].value # r.value
    BY <1>1, <1>2, <2>2 DEF NoDoublePush
  <2>4. \A k, l \in Live' : queue'[k].value = queue'[l].value => k = l
    BY <1>2, <2>2, <2>3 DEF NoDoublePush
  <2> DEFINE at(t, k) == IF t = s THEN k + 1 ELSE k
  <2>5. ASSUME NEW t \in Senders, NEW k \in DOMAIN todo'[t]
        PROVE  /\ at(t, k) \in DOMAIN todo[t]
               /\ todo'[t][k] = todo[t][at(t, k)]
               /\ t = s => at(t, k) # 1
    <3>1. CASE t = s
      <4>1. todo'[s] = Tail(todo[s])
        BY <1>3 DEF TypeOK
      <4>2. k \in 1 .. (Len(todo[s]) - 1)
        BY <1>1, <3>1, <4>1
      <4>3. k + 1 \in 1 .. Len(todo[s]) /\ k + 1 # 1
        BY <1>1, <4>2
      <4>4. QED
        BY <1>1, <3>1, <4>1, <4>2, <4>3
    <3>2. CASE t # s
      BY <1>3, <3>2 DEF TypeOK
    <3>3. QED
      BY <3>1, <3>2
  <2>6. \A t \in Senders : \A k \in DOMAIN todo'[t] : todo'[t][k].value # r.value
    <3>1. 1 \in DOMAIN todo[s]
      BY <1>1
    <3>2. QED
      BY <1>1, <2>5, <3>1 DEF NoDoublePush
  <2>7. \A t \in Senders : \A k \in DOMAIN todo'[t] : \A l \in Live' :
          todo'[t][k].value # queue'[l].value
    BY <1>2, <2>2, <2>3, <2>5, <2>6 DEF NoDoublePush
  <2>8. \A t, u \in Senders : \A k \in DOMAIN todo'[t], l \in DOMAIN todo'[u] :
          todo'[t][k].value = todo'[u][l].value => t = u /\ k = l
    <3> SUFFICES ASSUME NEW t \in Senders, NEW u \in Senders,
                        NEW k \in DOMAIN todo'[t], NEW l \in DOMAIN todo'[u],
                        todo'[t][k].value = todo'[u][l].value
                 PROVE  t = u /\ k = l
      OBVIOUS
    <3>1. t = u /\ at(t, k) = at(u, l)
      BY <2>5 DEF NoDoublePush
    <3>2. k \in Int /\ l \in Int
      BY <1>1, <1>3 DEF TypeOK
    <3>3. QED
      BY <3>1, <3>2
  <2>9. QED
    BY <2>4, <2>7, <2>8 DEF NoDoublePush
<1>9. QED
  BY <1>4, <1>5, <1>6, <1>7, <1>8

\* A sender gets its token into the channel.
LEMMA SignalKeepsIInv ==
    ASSUME IInv, NEW s \in Senders, Signal(s)
    PROVE  IInv'
<1> USE DEF IInv
<1>1. /\ spc[s] = "signal" /\ pushChan < ChanCap
      /\ pushChan' = pushChan + 1
      /\ spc' = [spc EXCEPT ![s] = IF todo[s] = <<>> THEN "idle" ELSE "add"]
      /\ UNCHANGED <<queue, todo, perItem, wpc, i, requestCount, request, life>>
  BY DEF Signal, workerVars
<1>2. TypeOK'
  BY <1>1, PipelineAssumption DEF TypeOK
<1>3. SenderShape' /\ CountShape'
  BY <1>1 DEF TypeOK, SenderShape, CountShape
<1>4. NoStrandedRequest'
  BY <1>1 DEF TypeOK, NoStrandedRequest
<1>5. AnswerMatchesIndex' /\ NoDoublePush'
  BY <1>1 DEF AnswerMatchesIndex, NoDoublePush, Live
<1>6. QED
  BY <1>2, <1>3, <1>4, <1>5

\* The steps of the worker that only read the queue.
LEMMA WorkerReadKeepsIInv ==
    ASSUME IInv, Receive \/ StartPass \/ EndPass \/ Ask \/ Refused \/ Retry
    PROVE  IInv'
<1> USE DEF IInv, senderVars
<1>1. CASE Receive
  <2>1. TypeOK'
    BY <1>1, PipelineAssumption DEF Receive, TypeOK
  <2>2. SenderShape' /\ CountShape' /\ NoStrandedRequest'
    BY <1>1, PipelineAssumption DEF Receive, SenderShape, CountShape, NoStrandedRequest, TypeOK
  <2>3. AnswerMatchesIndex' /\ NoDoublePush'
    BY <1>1 DEF Receive, AnswerMatchesIndex, NoDoublePush, Live
  <2>4. QED
    BY <2>1, <2>2, <2>3
<1>2. CASE StartPass
  <2>1. TypeOK'
    BY <1>2, PipelineAssumption DEF StartPass, TypeOK
  <2>2. SenderShape' /\ CountShape' /\ NoStrandedRequest'
    BY <1>2, PipelineAssumption DEF StartPass, SenderShape, CountShape, NoStrandedRequest, TypeOK
  <2>3. AnswerMatchesIndex' /\ NoDoublePush'
    BY <1>2 DEF StartPass, AnswerMatchesIndex, NoDoublePush, Live
  <2>4. QED
    BY <2>1, <2>2, <2>3
<1>3. CASE EndPass
  <2>1. TypeOK'
    BY <1>3 DEF EndPass, TypeOK
  <2>2. SenderShape' /\ CountShape' /\ NoStrandedRequest'
    BY <1>3, PipelineAssumption DEF EndPass, SenderShape, CountShape, NoStrandedRequest, TypeOK
  <2>3. AnswerMatchesIndex' /\ NoDoublePush'
    BY <1>3 DEF EndPass, AnswerMatchesIndex, NoDoublePush, Live
  <2>4. QED
    BY <2>1, <2>2, <2>3
<1>4. CASE Ask
  <2>1. TypeOK'
    BY <1>4, PipelineAssumption DEF Ask, TypeOK
  <2>2. SenderShape' /\ CountShape' /\ NoStrandedRequest'
    BY <1>4, PipelineAssumption DEF Ask, SenderShape, CountShape, NoStrandedRequest, TypeOK
  <2>3. AnswerMatchesIndex' /\ NoDoublePush'
    BY <1>4 DEF Ask, AnswerMatchesIndex, NoDoublePush, Live
  <2>4. QED
    BY <2>1, <2>2, <2>3
<1>5. CASE Refused
  <2>1. TypeOK'
    BY <1>5 DEF Refused, TypeOK
  <2>2. SenderShape' /\ CountShape' /\ NoStrandedRequest'
    BY <1>5, PipelineAssumption DEF Refused, SenderShape, CountShape, NoStrandedRequest, TypeOK
  <2>3. AnswerMatchesIndex' /\ NoDoublePush'
    BY <1>5 DEF Refused, AnswerMatchesIndex, NoDoublePush, Live
  <2>4. QED
    BY <2>1, <2>2, <2>3
<1>6. CASE Retry
  <2>1. TypeOK'
    BY <1>6, PipelineAssumption DEF Retry, TypeOK, CountShape, AnswerMatchesIndex
  <2>2. SenderShape' /\ CountShape' /\ NoStrandedRequest'
    BY <1>6, PipelineAssumption DEF Retry, SenderShape, CountShape, NoStrandedRequest, TypeOK
  <2>3. AnswerMatchesIndex' /\ NoDoublePush'
    BY <1>6 DEF Retry, AnswerMatchesIndex, NoDoublePush, Live
  <2>4. QED
    BY <2>1, <2>2, <2>3
<1>7. QED
  BY <1>1, <1>2, <1>3, <1>4, <1>5, <1>6

\* Status 200: the answered request leaves Live in the step that appends the
\* next one of its chain.
LEMMA AcceptedKeepsIInv ==
    ASSUME IInv, Accepted
    PROVE  IInv'
<1> USE DEF IInv
<1> DEFINE n == Len(queue)
<1>1. /\ wpc = "call" /\ wpc' = "remove"
      /\ UNCHANGED <<pushChan, spc, todo, perItem, i, requestCount, request, life>>
  BY DEF Accepted, senderVars
<1>2. /\ n \in Nat /\ DOMAIN queue = 1 .. n /\ i \in Nat
      /\ i + 1 \in 1 .. n /\ queue[i + 1] = request /\ request \in Requests
  BY <1>1 DEF TypeOK, AnswerMatchesIndex
<1>3. Live = 1 .. n
  BY <1>1, <1>2 DEF Live
<1>4. CASE request.type \in DOMAIN Successor
  <2> DEFINE r == Chained(request)
  <2>1. queue' = Append(queue, r)
    BY <1>4 DEF Accepted, AddToQueue
  <2>2. r \in Requests /\ r.value = request.value
    BY <1>2, <1>4 DEF Chained, Successor, Requests, Kinds
  <2>3. /\ queue' \in Seq(Requests) /\ Len(queue') = n + 1
        /\ \A k \in 1 .. n : queue'[k] = queue[k]
        /\ queue'[n + 1] = r
    BY <2>1, <2>2, AppendProperties DEF TypeOK
  <2>4. TypeOK' /\ SenderShape' /\ CountShape' /\ NoStrandedRequest'
    BY <1>1, <2>3 DEF TypeOK, SenderShape, CountShape, NoStrandedRequest
  <2>5. AnswerMatchesIndex'
    BY <1>1, <1>2, <2>3 DEF AnswerMatchesIndex
  <2>6. Live' = ((1 .. n) \ {i + 1}) \cup {n + 1}
    BY <1>1, <1>2, <2>3 DEF Live
  <2>7. \A k \in (1 .. n) \ {i + 1} :
           queue'[k] = queue[k] /\ queue[k].value # r.value
    BY <1>2, <1>3, <2>2, <2>3 DEF NoDoublePush
  <2>8. \A k, l \in Live' : queue'[k].value = queue'[l].value => k = l
    BY <1>3, <2>3, <2>6, <2>7 DEF NoDoublePush
  <2>9. \A s \in Senders : \A k \in DOMAIN todo[s] : \A l \in Live' :
           todo[s][k].value # queue'[l].value
    BY <1>2, <1>3, <2>2, <2>3, <2>6, <2>7 DEF NoDoublePush
  <2>10. NoDoublePush'
    BY <1>1, <2>8, <2>9 DEF NoDoublePush
  <2>11. QED
    BY <2>4, <2>5, <2>10
<1>5. CASE request.type \notin DOMAIN Successor
  <2>1. queue' = queue
    BY <1>5 DEF Accepted
  <2>2. TypeOK' /\ SenderShape' /\ CountShape' /\ NoStrandedRequest' /\ AnswerMatchesIndex'
    BY <1>1, <2>1
       DEF TypeOK, SenderShape, CountShape, NoStrandedRequest, AnswerMatchesIndex
  <2>3. NoDoublePush'
    BY <1>1, <2>1 DEF NoDoublePush, Live
  <2>4. QED
    BY <2>2, <2>3
<1>6. QED
  BY <1>4, <1>5

\* The removal: what is left in the queue is exactly what was live.
LEMMA RemovalKeepsLive ==
    ASSUME IInv, RemoveAnswered
    PROVE  /\ i + 1 \in 1 .. Len(queue) /\ Len(queue) \in Nat /\ i \in Nat
           /\ queue' \in Seq(Requests) /\ Len(queue') = Len(queue) - 1
           /\ Live = (1 .. Len(queue)) \ {i + 1}
           /\ Live' = 1 .. (Len(queue) - 1)
           /\ \A k \in Live' : queue'[k] = queue[IF k < i + 1 THEN k ELSE k + 1]
<1> USE DEF IInv
<1>1. /\ wpc = "remove" /\ wpc' = "inner"
      /\ queue \in Seq(Requests) /\ i \in Nat /\ i < Len(queue) /\ Len(queue) \in Nat
  BY DEF RemoveAnswered, TypeOK, AnswerMatchesIndex
<1>2. i + 1 \in 1 .. Len(queue)
  BY <1>1
<1>3. queue' = RemoveAt(queue, i + 1)
  BY <1>1 DEF RemoveAnswered, RemoveFromQueueWithIndex
<1>4. /\ queue' \in Seq(Requests)
      /\ Len(queue') = Len(queue) - 1
      /\ \A k \in 1 .. (Len(queue) - 1) :
            queue'[k] = IF k < i + 1 THEN queue[k] ELSE queue[k + 1]
  BY <1>1, <1>2, <1>3, RemoveAtElements
<1>5. Live = (1 .. Len(queue)) \ {i + 1} /\ Live' = 1 .. (Len(queue) - 1)
  BY <1>1, <1>4 DEF Live
<1>6. QED
  BY <1>1, <1>2, <1>4, <1>5

\* RemoveFromQueueWithIndex keeps the invariant.
LEMMA RemoveAnsweredKeepsIInv ==
    ASSUME IInv, RemoveAnswered
    PROVE  IInv'
<1> USE DEF IInv
<1> DEFINE at(k) == IF k < i + 1 THEN k ELSE k + 1
<1>1. /\ wpc = "remove" /\ wpc' = "inner"
      /\ requestCount' = requestCount + 1 /\ request' = NoRequest
      /\ UNCHANGED <<pushChan, spc, todo, perItem, i, life>>
  BY DEF RemoveAnswered, senderVars
<1>2. TypeOK'
  BY <1>1, RemovalKeepsLive, PipelineAssumption DEF TypeOK, CountShape
<1>3. SenderShape' /\ CountShape' /\ NoStrandedRequest' /\ AnswerMatchesIndex'
  BY <1>1 DEF SenderShape, CountShape, NoStrandedRequest, AnswerMatchesIndex
<1>4. \A k \in Live' : k \in Int /\ at(k) \in Live /\ queue'[k] = queue[at(k)]
  BY RemovalKeepsLive
<1>5. \A k, l \in Live' : at(k) = at(l) => k = l
  BY <1>4, RemovalKeepsLive
<1>6. NoDoublePush'
  BY <1>1, <1>4, <1>5 DEF NoDoublePush
<1>7. QED
  BY <1>2, <1>3, <1>6

\* A restart leaves an empty queue, no token and idle senders.
LEMMA RestartKeepsIInv ==
    ASSUME Restart
    PROVE  IInv'
<1>1. TypeOK'
  BY PipelineAssumption DEF Restart, TypeOK
<1>2. SenderShape' /\ CountShape' /\ NoStrandedRequest' /\ AnswerMatchesIndex'
  BY DEF Restart, SenderShape, CountShape, NoStrandedRequest, AnswerMatchesIndex
<1>3. NoDoublePush'
  BY DEF Restart, NoDoublePush, Live
<1>4. QED
  BY <1>1, <1>2, <1>3 DEF IInv

\* Every step of the pipeline keeps the invariant.
LEMMA NextKeepsIInv == IInv /\ [Next]_vars => IInv'
<1> SUFFICES ASSUME IInv, [Next]_vars PROVE IInv'
  OBVIOUS
<1>1. ASSUME NEW s \in Senders, Call(s) \/ Enqueue(s) \/ Signal(s) PROVE IInv'
  BY <1>1, CallKeepsIInv, EnqueueKeepsIInv, SignalKeepsIInv
<1>2. CASE Worker
  BY <1>2, WorkerReadKeepsIInv, AcceptedKeepsIInv, RemoveAnsweredKeepsIInv DEF Worker
<1>3. CASE UNCHANGED vars
  BY <1>3 DEF vars, senderVars, workerVars, IInv, TypeOK, SenderShape, CountShape,
              NoStrandedRequest, AnswerMatchesIndex, NoDoublePush, Live
<1>4. CASE Restart
  BY <1>4, RestartKeepsIInv
<1>5. QED
  BY <1>1, <1>2, <1>3, <1>4 DEF Next

-------------------------------------------------------------------------------
(* Theorems *)

\* The invariant holds of every execution.
LEMMA Invariance == Spec => []IInv
  BY InitEstablishesIInv, NextKeepsIInv, PTL DEF Spec

\* Every variable keeps its type; the worker's index never passes the end of the
\* queue, nor its count of requests between two pauses the window
\* (handler.push.request.go, i and requestCount).
THEOREM TypeCorrect == Spec => []TypeOK
<1>1. IInv => TypeOK
  BY DEF IInv
<1>2. QED
  BY Invariance, <1>1, PTL

\* No wake-up is lost: a queue that is not empty has the worker in a pass, a
\* token in pushChan, or a sender on its way to the send.
THEOREM NoLostWakeUp == Spec => []NoStrandedRequest
<1>1. IInv => NoStrandedRequest
  BY DEF IInv
<1>2. QED
  BY Invariance, <1>1, PTL

\* SendToBotHandler removes by index after the call, and the index still holds
\* the request that was sent, whatever was appended during the call.
THEOREM RemovesWhatWasAnswered == Spec => []AnswerMatchesIndex
<1>1. IInv => AnswerMatchesIndex
  BY DEF IInv
<1>2. QED
  BY Invariance, <1>1, PTL

\* One push in flight per notification, chained requests included.
THEOREM PushedOnce == Spec => []NoDoublePush
<1>1. IInv => NoDoublePush
  BY DEF IInv
<1>2. QED
  BY Invariance, <1>1, PTL

-------------------------------------------------------------------------------
(* Implementation of the ladder *)

InLine(n) == \E k \in Live : queue[k].value = n
OnList(n) == \E s \in Senders : \E k \in DOMAIN todo[s] : todo[s][k].value = n

\* What the refinement mapping amounts to when no push is doubled.
StageFacts ==
    \A n \in Notifications :
        /\ \A k \in Live : queue[k].value = n => StageOf(n) = queue[k].type
        /\ ~InLine(n) /\ OnList(n) => StageOf(n) = "offered"
        /\ ~InLine(n) /\ ~OnList(n) => StageOf(n) = "idle"

\* Without double pushes the stage of a notification can be read off the place
\* of its only request.
LEMMA StagesAreWhereRequestsAre == NoDoublePush => StageFacts
<1> SUFFICES ASSUME NoDoublePush, NEW n \in Notifications, NEW k \in Live,
                    queue[k].value = n
             PROVE  StageOf(n) = queue[k].type
  BY DEF StageFacts, StageOf, InLine, OnList
<1>1. \A l \in Live : queue[l].value = n => l = k
  BY DEF NoDoublePush
<1>2. (CHOOSE l \in Live : queue[l].value = n) = k
  BY <1>1
<1>3. QED
  BY <1>2 DEF StageOf

\* The same, before and after a step.
LEMMA StagesAroundStep ==
    IInv /\ [Next]_vars => StageFacts /\ StageFacts'
<1>1. (NoDoublePush => StageFacts) /\ (NoDoublePush => StageFacts)'
  BY StagesAreWhereRequestsAre, PTL
<1>2. IInv /\ [Next]_vars => NoDoublePush /\ NoDoublePush'
  BY NextKeepsIInv DEF IInv
<1>3. QED
  BY <1>1, <1>2

\* A notification keeps its stage when its live request moves at most and the
\* lists of the senders have it as before.
LEMMA StageKept ==
    ASSUME StageFacts, StageFacts', NEW n \in Notifications,
           \A k \in Live' : queue'[k].value = n => \E l \in Live : queue[l] = queue'[k],
           \A l \in Live : queue[l].value = n => \E k \in Live' : queue'[k] = queue[l],
           OnList(n)' <=> OnList(n)
    PROVE  StageOf(n)' = StageOf(n)
<1>1. CASE InLine(n)
  <2>1. PICK l \in Live : queue[l].value = n
    BY <1>1 DEF InLine
  <2>2. PICK k \in Live' : queue'[k] = queue[l]
    BY <2>1
  <2>3. StageOf(n) = queue[l].type /\ StageOf(n)' = queue'[k].type
    BY <2>1, <2>2 DEF StageFacts
  <2>4. QED
    BY <2>2, <2>3
<1>2. CASE ~InLine(n)
  <2>1. ~InLine(n)'
    BY <1>2 DEF InLine
  <2>2. QED
    BY <1>2, <2>1 DEF StageFacts
<1>3. QED
  BY <1>1, <1>2

StageMap == [n \in Notifications |-> StageOf(n)]
AskedMap == IF wpc = "call" THEN {request.value} ELSE {}

\* A call offers the notifications of its list.
LEMMA CallIsOffer ==
    ASSUME IInv, StageFacts, StageFacts', NEW s \in Senders, Call(s)
    PROVE  Ladder!Next
<1>1. PICK p \in Seq(Requests), each \in BOOLEAN :
         /\ Take(s, p, each)
         /\ \A k \in 1 .. Len(p) : /\ p[k].value \in Notifications
                                  /\ ~Pushing(p[k].value)
                                  /\ p[k].type \in Ladder!Entries
         /\ \A k, l \in 1 .. Len(p) : p[k].value = p[l].value => k = l
  BY CallTakesFreeNotifications DEF IInv
<1> DEFINE S == {p[k].value : k \in DOMAIN p}
<1>2. /\ UNCHANGED <<queue, wpc, i, request, life>> /\ Live' = Live
      /\ todo[s] = <<>>
      /\ \A t \in Senders : todo'[t] = IF t = s THEN p ELSE todo[t]
  BY <1>1 DEF Take, workerVars, Live, IInv, TypeOK, SenderShape
<1>3. \A n \in Notifications : OnList(n)' <=> OnList(n) \/ n \in S
  BY <1>2 DEF OnList
<1>4. S \in SUBSET Notifications
  BY <1>1
<1>5. ASSUME NEW n \in S PROVE StageOf(n) = "idle" /\ StageOf(n)' = "offered"
  <2>1. n \in Notifications /\ ~InLine(n) /\ ~OnList(n)
    BY <1>1, <1>4 DEF Pushing, InLine, OnList, Live
  <2>2. ~InLine(n)' /\ OnList(n)'
    BY <1>2, <1>3, <2>1 DEF InLine
  <2>3. QED
    BY <2>1, <2>2 DEF StageFacts
<1>6. ASSUME NEW n \in Notifications \ S PROVE StageOf(n)' = StageOf(n)
  BY <1>2, <1>3, StageKept
<1>7. Ladder!Offer(S)
  BY <1>2, <1>4, <1>5, <1>6 DEF Ladder!Offer, Ladder!Idle, Ladder!Offered
<1>8. QED
  BY <1>4, <1>7 DEF Ladder!Next

\* The append of a sender submits the notification of the appended request.
LEMMA EnqueueIsSubmit ==
    ASSUME IInv, IInv', StageFacts, StageFacts', NEW s \in Senders, Enqueue(s)
    PROVE  Ladder!Next
<1>0. Head(todo[s]) \in Requests
  BY HeadTailProperties DEF Enqueue, IInv, TypeOK, SenderShape
<1> PICK r \in Requests : r = Head(todo[s])
  BY <1>0
<1> PICK n \in Notifications : n = r.value
  BY DEF Requests
<1>1. /\ todo[s] \in Seq(Requests) /\ todo[s] # <<>>
      /\ r \in Requests /\ r = todo[s][1] /\ 1 \in DOMAIN todo[s]
      /\ r.type \in Ladder!Entries
      /\ Tail(todo[s]) \in Seq(Requests) /\ Len(Tail(todo[s])) = Len(todo[s]) - 1
      /\ \A k \in 1 .. Len(Tail(todo[s])) : Tail(todo[s])[k] = todo[s][k + 1]
  BY HeadTailProperties DEF Enqueue, IInv, TypeOK, SenderShape
<1>2. /\ queue' \in Seq(Requests) /\ Len(queue') = Len(queue) + 1
      /\ \A k \in 1 .. Len(queue) : queue'[k] = queue[k]
      /\ queue'[Len(queue) + 1] = r
  BY <1>1, AppendProperties DEF Enqueue, AddToQueue, IInv, TypeOK
<1>3. /\ UNCHANGED <<wpc, i, request, life>>
      /\ \A t \in Senders : todo'[t] = IF t = s THEN Tail(todo[s]) ELSE todo[t]
  BY DEF Enqueue, workerVars, IInv, TypeOK
<1>4. Len(queue) \in Nat /\ DOMAIN queue = 1 .. Len(queue)
      /\ DOMAIN queue' = 1 .. (Len(queue) + 1)
  BY <1>2 DEF IInv, TypeOK
<1>5. Live' = Live \cup {Len(queue) + 1} /\ Live \subseteq 1 .. Len(queue)
  BY <1>3, <1>4 DEF Live, AnswerMatchesIndex, IInv, TypeOK
<1>6. n \in Notifications /\ StageOf(n) = "offered" /\ StageOf(n)' = r.type
  <2>1. n \in Notifications
    BY <1>1 DEF Requests
  <2>2. OnList(n) /\ ~InLine(n)
    BY <1>1 DEF OnList, InLine, IInv, NoDoublePush
  <2>3. StageOf(n) = "offered"
    BY <2>1, <2>2 DEF StageFacts
  <2>4. Len(queue) + 1 \in Live' /\ queue'[Len(queue) + 1].value = n
    BY <1>2, <1>5
  <2>5. StageOf(n)' = queue'[Len(queue) + 1].type
    BY <2>1, <2>4 DEF StageFacts
  <2>6. QED
    BY <1>2, <2>1, <2>3, <2>5
<1>7. ASSUME NEW m \in Notifications, m # n PROVE StageOf(m)' = StageOf(m)
  <2>1. \A k \in Live' : queue'[k].value = m => \E l \in Live : queue[l] = queue'[k]
    BY <1>2, <1>5, <1>7
  <2>2. \A l \in Live : queue[l].value = m => \E k \in Live' : queue'[k] = queue[l]
    BY <1>2, <1>5
  <2>3. OnList(m)' => OnList(m)
    <3>1. \A k \in DOMAIN Tail(todo[s]) :
             k + 1 \in DOMAIN todo[s] /\ Tail(todo[s])[k] = todo[s][k + 1]
      BY <1>1
    <3>2. QED
      BY <1>3, <3>1 DEF OnList
  <2>4. OnList(m) => OnList(m)'
    <3>1. \A k \in DOMAIN todo[s] : k # 1 =>
             k - 1 \in DOMAIN Tail(todo[s]) /\ Tail(todo[s])[k - 1] = todo[s][k]
      <4>1. \A k \in DOMAIN todo[s] : k # 1 =>
               k - 1 \in 1 .. Len(Tail(todo[s])) /\ (k - 1) + 1 = k
        BY <1>1
      <4>2. QED
        BY <1>1, <4>1
    <3>2. SUFFICES ASSUME NEW t \in Senders, NEW k \in DOMAIN todo[t],
                          todo[t][k].value = m
                   PROVE  \E j \in DOMAIN todo'[t] : todo'[t][j].value = m
      BY DEF OnList
    <3>3. CASE t = s
      <4>1. k # 1
        BY <1>1, <1>7, <3>2, <3>3
      <4>2. QED
        BY <1>3, <3>1, <3>2, <3>3, <4>1
    <3>4. CASE t # s
      BY <1>3, <3>2, <3>4
    <3>5. QED
      BY <3>3, <3>4
  <2>5. QED
    BY <2>1, <2>2, <2>3, <2>4, StageKept
<1>8. Ladder!Submit(n)
  <2>1. [m \in Notifications |-> StageOf(m)]'
           = [[m \in Notifications |-> StageOf(m)] EXCEPT ![n] = r.type]
    BY <1>6, <1>7
  <2>2. QED
    BY <1>1, <1>3, <1>6, <2>1 DEF Ladder!Submit, Ladder!Offered
<1>9. QED
  BY <1>6, <1>8 DEF Ladder!Next

\* The answered request gives up its place in the queue, and to the next one of
\* its chain if there is one.
LEMMA AnswerMovesItsNotification ==
    ASSUME IInv, IInv', StageFacts, StageFacts', Accepted \/ Refused
    PROVE  Ladder!Next
<1> PICK r \in Requests : r = request /\ i + 1 \in 1 .. Len(queue) /\ queue[i + 1] = r
  BY DEF Accepted, Refused, IInv, TypeOK, AnswerMatchesIndex
<1> PICK n \in Notifications : n = r.value
  BY DEF Requests
<1>1. /\ wpc = "call" /\ wpc' = "remove" /\ UNCHANGED <<todo, i, request, life>>
      /\ DOMAIN queue = 1 .. Len(queue) /\ Len(queue) \in Nat /\ i \in Nat
  BY DEF Accepted, Refused, senderVars, IInv, TypeOK
<1>2. Live = 1 .. Len(queue) /\ i + 1 \in Live /\ StageOf(n) = r.type
  BY <1>1 DEF Live, StageFacts
<1>3. ~OnList(n) /\ (~OnList(n))'
  BY <1>1, <1>2 DEF OnList, IInv, NoDoublePush
<1>4. \A k \in (1 .. Len(queue)) \ {i + 1} : queue[k].value # n
  BY <1>2 DEF IInv, NoDoublePush
<1>5. CASE Accepted /\ r.type \in DOMAIN Successor
  <2>1. /\ queue' \in Seq(Requests) /\ Len(queue') = Len(queue) + 1
        /\ \A k \in 1 .. Len(queue) : queue'[k] = queue[k]
        /\ queue'[Len(queue) + 1] = Chained(r)
    <3>1. queue' = Append(queue, Chained(r))
      BY <1>5 DEF Accepted, AddToQueue
    <3>2. Chained(r) \in Requests
      BY <1>5 DEF Chained, Successor, Requests, Kinds
    <3>3. QED
      BY <3>1, <3>2, AppendProperties DEF IInv, TypeOK
  <2>2. Live' = ((1 .. Len(queue)) \ {i + 1}) \cup {Len(queue) + 1}
    BY <1>1, <2>1 DEF Live
  <2>3. Chained(r).value = n /\ Chained(r).type = Ladder!Successor[r.type]
    BY <1>5 DEF Chained, Successor, Ladder!Successor
  <2>4. StageOf(n)' = Ladder!Successor[r.type]
    <3>1. Len(queue) + 1 \in Live' /\ queue'[Len(queue) + 1].value = n
      BY <2>1, <2>2, <2>3
    <3>2. StageOf(n)' = queue'[Len(queue) + 1].type
      BY <3>1 DEF StageFacts
    <3>3. QED
      BY <2>1, <2>3, <3>2
  <2>5. ASSUME NEW m \in Notifications, m # n PROVE StageOf(m)' = StageOf(m)
    <3>1. \A k \in Live' : queue'[k].value = m => \E l \in Live : queue[l] = queue'[k]
      BY <1>2, <2>1, <2>2, <2>3, <2>5
    <3>2. \A l \in Live : queue[l].value = m => \E k \in Live' : queue'[k] = queue[l]
      BY <1>2, <2>1, <2>2, <2>5
    <3>3. OnList(m)' <=> OnList(m)
      BY <1>1 DEF OnList
    <3>4. QED
      BY <3>1, <3>2, <3>3, StageKept
  <2>6. [m \in Notifications |-> StageOf(m)]'
           = [[m \in Notifications |-> StageOf(m)] EXCEPT ![n] = Ladder!Successor[@]]
    BY <1>2, <2>4, <2>5
  <2>7. Ladder!Advance(n)
    BY <1>1, <1>2, <1>5, <2>6 DEF Ladder!Advance, Ladder!Successor, Successor
  <2>8. QED
    BY <2>7 DEF Ladder!Next
<1>6. CASE ~(Accepted /\ r.type \in DOMAIN Successor)
  <2>1. queue' = queue
    BY <1>6 DEF Accepted, Refused
  <2>2. Live' = (1 .. Len(queue)) \ {i + 1}
    BY <1>1, <2>1 DEF Live
  <2>3. StageOf(n)' = "idle"
    BY <1>3, <1>4, <2>1, <2>2 DEF StageFacts, InLine
  <2>4. ASSUME NEW m \in Notifications, m # n PROVE StageOf(m)' = StageOf(m)
    <3>1. OnList(m)' <=> OnList(m)
      BY <1>1 DEF OnList
    <3>2. QED
      BY <1>2, <2>1, <2>2, <2>4, <3>1, StageKept
  <2>5. [m \in Notifications |-> StageOf(m)]'
           = [[m \in Notifications |-> StageOf(m)] EXCEPT ![n] = "idle"]
    BY <2>3, <2>4
  <2>6. Ladder!Leave(n)
    BY <1>1, <1>2, <2>5 DEF Ladder!Leave, Ladder!Idle, Ladder!Kinds, Requests, Kinds
  <2>7. QED
    BY <2>6 DEF Ladder!Next
<1>7. QED
  BY <1>5, <1>6

\* The removal takes away what no longer counted.
LEMMA RemovalIsStutter ==
    ASSUME IInv, StageFacts, StageFacts', RemoveAnswered
    PROVE  UNCHANGED <<StageMap, AskedMap, life>>
<1> DEFINE at(k) == IF k < i + 1 THEN k ELSE k + 1
<1>1. /\ \A k \in Live' : at(k) \in Live /\ queue'[k] = queue[at(k)]
      /\ \A l \in Live : \E k \in Live' : l = at(k)
  <2>1. \A k \in Live' : at(k) \in Live /\ queue'[k] = queue[at(k)]
    BY RemovalKeepsLive
  <2>2. ASSUME NEW l \in Live PROVE \E k \in Live' : l = at(k)
    <3>1. CASE l < i + 1
      <4>1. l \in Live'
        BY <3>1, RemovalKeepsLive
      <4>2. QED
        BY <3>1, <4>1
    <3>2. CASE l > i + 1
      <4>1. l - 1 \in Live' /\ ~(l - 1 < i + 1) /\ (l - 1) + 1 = l
        BY <3>2, RemovalKeepsLive
      <4>2. QED
        BY <4>1
    <3>3. l < i + 1 \/ l > i + 1
      BY RemovalKeepsLive
    <3>4. QED
      BY <3>1, <3>2, <3>3
  <2>3. QED
    BY <2>1, <2>2
<1>2. UNCHANGED todo
  BY DEF RemoveAnswered, senderVars
<1>3. ASSUME NEW n \in Notifications PROVE StageOf(n)' = StageOf(n)
  <2>1. OnList(n)' <=> OnList(n)
    BY <1>2 DEF OnList
  <2>2. \A l \in Live : \E k \in Live' : queue'[k] = queue[l]
    BY <1>1
  <2>3. QED
    BY <1>1, <2>1, <2>2, StageKept
<1>4. UNCHANGED <<AskedMap, life>>
  BY DEF RemoveAnswered, AskedMap
<1>5. QED
  BY <1>3, <1>4 DEF StageMap

\* Steps that leave the queue and the lists alone, and mark no request answered.
LEMMA OtherStepsKeepStages ==
    ASSUME IInv,
           \/ \E s \in Senders : Signal(s)
           \/ Receive \/ StartPass \/ EndPass \/ Ask \/ Retry
           \/ UNCHANGED vars
    PROVE  UNCHANGED <<StageMap, life>>
<1>1. UNCHANGED <<queue, todo, life>>
  BY DEF Signal, Receive, StartPass, EndPass, Ask, Retry, vars, senderVars, workerVars
<1>2. Live' = Live
  BY DEF Live, Signal, Receive, StartPass, EndPass, Ask, Retry, vars, senderVars, workerVars
<1>3. ASSUME NEW n \in Notifications PROVE StageOf(n)' = StageOf(n)
  BY <1>1, <1>2 DEF StageOf
<1>4. QED
  BY <1>1, <1>3 DEF StageMap

\* Of these, the ones that neither start nor end a call are no steps at all.
LEMMA OtherStepsAreStutters ==
    ASSUME IInv,
           \/ \E s \in Senders : Signal(s)
           \/ Receive \/ StartPass \/ EndPass
           \/ UNCHANGED vars
    PROVE  UNCHANGED <<StageMap, AskedMap, life>>
<1>1. UNCHANGED <<StageMap, life>>
  BY OtherStepsKeepStages
<1>2. UNCHANGED AskedMap
  BY DEF AskedMap, Signal, Receive, StartPass, EndPass, vars, workerVars
<1>3. QED
  BY <1>1, <1>2

\* The call is about the notification of the request at the index, which is live.
LEMMA AskIsAsk ==
    ASSUME IInv, StageFacts, Ask
    PROVE  Ladder!Next
<1>1. /\ wpc = "inner" /\ wpc' = "call" /\ request' = queue[i + 1]
      /\ i + 1 \in 1 .. Len(queue) /\ DOMAIN queue = 1 .. Len(queue)
      /\ queue[i + 1] \in Requests
  BY DEF Ask, IInv, TypeOK
<1> PICK n \in Notifications, k \in Kinds : queue[i + 1] = [type |-> k, value |-> n]
  BY <1>1 DEF Requests
<1>2. i + 1 \in Live
  BY <1>1 DEF Live
<1>3. StageOf(n) = k
  BY <1>2 DEF StageFacts
<1>4. UNCHANGED <<StageMap, life>>
  BY OtherStepsKeepStages
<1>5. Ladder!Ask(n)
  BY <1>1, <1>3, <1>4 DEF Ladder!Ask, Ladder!Kinds, Kinds, StageMap
<1>6. QED
  BY <1>5 DEF Ladder!Next

\* The answer "retry" ends the call and leaves the request where it is.
LEMMA RetryIsPostpone ==
    ASSUME IInv, Retry
    PROVE  Ladder!Next
<1>1. /\ wpc = "call" /\ wpc' = "inner" /\ request \in Requests
  BY DEF Retry, IInv, TypeOK, AnswerMatchesIndex
<1> PICK n \in Notifications : request.value = n
  BY <1>1 DEF Requests
<1>2. UNCHANGED <<StageMap, life>>
  BY OtherStepsKeepStages
<1>3. Ladder!Postpone(n)
  BY <1>1, <1>2 DEF Ladder!Postpone, StageMap
<1>4. QED
  BY <1>3 DEF Ladder!Next

\* A restart takes every notification off the ladder.
LEMMA RestartIsLoss ==
    ASSUME Restart
    PROVE  Ladder!LoseAll
<1>1. ASSUME NEW n \in Notifications PROVE StageOf(n)' = "idle"
  BY DEF Restart, StageOf, Live
<1>2. wpc' = "recv" /\ life' = ~life
  BY DEF Restart
<1>3. QED
  BY <1>1, <1>2 DEF Ladder!LoseAll, Ladder!Idle

\* Every behaviour of handlers, closer and worker is a behaviour of the ladder: a
\* notification is submitted once per call, each accepted request is followed by
\* the next of its chain and no other, and nothing leaves but by an answer of the
\* bot handler to a call about it, or by a restart.
THEOREM PipelineImplementsLadder == Spec => ImplementsLadder
<1> DEFINE mapped == <<StageMap, AskedMap, life>>
<1>1. Init => Ladder!Init
  BY DEF Init, Fresh, Ladder!Init, StageOf, Live, Ladder!Idle
<1>2. IInv /\ [Next]_vars => Ladder!Next \/ UNCHANGED mapped
  <2> SUFFICES ASSUME IInv, [Next]_vars PROVE Ladder!Next \/ UNCHANGED mapped
    OBVIOUS
  <2>1. IInv' /\ StageFacts /\ StageFacts'
    BY NextKeepsIInv, StagesAroundStep
  <2>2. ASSUME NEW s \in Senders, Call(s) \/ Enqueue(s) PROVE Ladder!Next
    BY <2>1, <2>2, CallIsOffer, EnqueueIsSubmit
  <2>3. CASE Accepted \/ Refused
    BY <2>1, <2>3, AnswerMovesItsNotification
  <2>4. CASE RemoveAnswered
    BY <2>1, <2>4, RemovalIsStutter
  <2>5. CASE Restart
    BY <2>5, RestartIsLoss DEF Ladder!Next
  <2>6. CASE Ask \/ Retry
    BY <2>1, <2>6, AskIsAsk, RetryIsPostpone
  <2>7. QED
    BY <2>2, <2>3, <2>4, <2>5, <2>6, OtherStepsAreStutters DEF Next, Worker
<1>3. IInv /\ [Next]_vars => [Ladder!Next]_mapped
  BY <1>2
<1>4. QED
  BY <1>1, <1>3, Invariance, PTL
     DEF Spec, ImplementsLadder, Ladder!Spec, Ladder!vars, StageMap, AskedMap
===============================================================================
