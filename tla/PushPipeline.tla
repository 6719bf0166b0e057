----------------------------- MODULE PushPipeline -----------------------------
(***************************************************************************)
(* The notification pipeline of the admin server: HTTP handlers and the    *)
(* closer goroutine append requests to the in-memory PushQueue and drop a  *)
(* wake-up token in pushChan; one worker goroutine (HandlePushRequest)     *)
(* receives tokens, walks the queue by index and calls the bot handler     *)
(* for each request, one at a time.                                        *)
(*                                                                         *)
(* A call of AddToQueue, GetQueue or RemoveFromQueueWithIndex is one step  *)
(* here.  The calls are not synchronised in the code: PushQueueSlice opens *)
(* them up and says when one step is what they amount to.                  *)
(***************************************************************************)
EXTENDS Naturals, Sequences, FiniteSets, SequencesExt

CONSTANTS
    Notifications,  \* the values of requests: one per pending push of a job
    Senders,        \* the goroutines that enqueue: handlers and the closer
    ChanCap,        \* capacity of pushChan (1000 in main.go)
    Window          \* requests between two pauses of the worker (15)

ASSUME PipelineAssumption ==
    /\ IsFiniteSet(Notifications)
    /\ ChanCap \in Nat \ {0}
    /\ Window \in Nat

VARIABLES
    queue,          \* PushQueue.Queue
    pushChan,       \* number of tokens in the channel
    spc,            \* where each sender is
    todo,           \* what each sender has still to enqueue
    perItem,        \* whether it sends a token after each request or one at the end
    wpc,            \* where the worker is
    i,              \* the worker's index into the queue, from 0
    requestCount,   \* the worker's count of requests since the last pause
    request,        \* the request the worker is dealing with
    life            \* history: flips at every restart of the process

senderVars == <<spc, todo, perItem>>
workerVars == <<wpc, i, requestCount, request>>
vars == <<queue, pushChan, senderVars, workerVars, life>>

Kinds     == {"Approval", "Channel", "Subscribers"}
Requests  == [type : Kinds, value : Notifications]
NoRequest == [type |-> "Subscribers", value |-> "none"]

\* The kind of request that an accepted one enqueues (newPushRequest).
Successor == [Approval |-> "Channel", Channel |-> "Subscribers"]
\* Faulty: an approved job goes to the subscribers at once.
ChainedToSubscribers(r) == [type |-> "Subscribers", value |-> r.value]

Chained(r) == [type |-> Successor[r.type], value |-> r.value]

\* What main.go starts with: nothing in memory, every goroutine at its start.
Fresh ==
    /\ queue = <<>>
    /\ pushChan = 0
    /\ spc = [s \in Senders |-> "idle"]
    /\ todo = [s \in Senders |-> <<>>]
    /\ perItem = [s \in Senders |-> TRUE]
    /\ wpc = "recv"
    /\ i = 0
    /\ requestCount = 0
    /\ request = NoRequest

Init == Fresh /\ life = FALSE

-------------------------------------------------------------------------------
(* The queue *)

\* Faulty: the new request goes to the front.
AddToQueueInFront(r) == queue' = <<r>> \o queue

AddToQueue(r) == queue' = Append(queue, r)

\* Faulty: the index is taken to count from 1.
RemoveFromQueueCountingFromOne(index) ==
    queue' = IF Len(queue) > index THEN RemoveAt(queue, index) ELSE queue

\* Faulty: the bound check spares the last request.
RemoveFromQueueSparingLast(index) ==
    queue' = IF Len(queue) > index + 1 THEN RemoveAt(queue, index + 1) ELSE queue

\* Faulty: the rest of the queue is taken from one place too far.
RemoveFromQueueWithNext(index) ==
    queue' = SubSeq(queue, 1, index) \o SubSeq(queue, index + 3, Len(queue))

RemoveFromQueueWithIndex(index) ==
    queue' = IF Len(queue) > index THEN RemoveAt(queue, index + 1) ELSE queue

-------------------------------------------------------------------------------
(* Senders.  A notification is the push of one job by one call; it can be  *)
(* taken by a new call when no earlier push of it is left.                 *)

Pushing(n) ==
    \/ \E s \in Senders : \E k \in DOMAIN todo[s] : todo[s][k].value = n
    \/ \E k \in DOMAIN queue : queue[k].value = n

\* A list of pushes of one kind for the notifications of a list.
PushesOf(kind, ns) == [k \in DOMAIN ns |-> [type |-> kind, value |-> ns[k]]]

\* Lists of distinct notifications that are free to be pushed.
FreeLists ==
    LET free == {n \in Notifications : ~Pushing(n)}
    IN  {ns \in SeqOf(free, Cardinality(free)) : IsInjective(ns)}

Take(s, pushes, each) ==
    /\ spc[s] = "idle"
    /\ todo' = [todo EXCEPT ![s] = pushes]
    /\ perItem' = [perItem EXCEPT ![s] = each]
    /\ spc' = [spc EXCEPT ![s] = IF pushes = <<>> THEN "signal" ELSE "add"]
    /\ UNCHANGED <<queue, pushChan, workerVars, life>>

\* HandleAddJob and HandleChangeJobStatus, once the job is saved.
TakeApproval(s) ==
    \E ns \in FreeLists : Len(ns) = 1 /\ Take(s, PushesOf("Approval", ns), TRUE)

\* HandleRePushJob, for a job that exists.
TakeRePush(s) ==
    \E ns \in FreeLists : Len(ns) = 1 /\ Take(s, PushesOf("Channel", ns), TRUE)

\* HandleAddMultipleJobs: all the added jobs, none of them if every insert
\* failed, and one token for the lot.
TakeMultiple(s) ==
    \E ns \in FreeLists : Take(s, PushesOf("Approval", ns), FALSE)

\* HandleCloseable: the jobs CloseDueJobs returned, a token for each.
TakeDue(s) ==
    \E ns \in FreeLists : Len(ns) > 0 /\ Take(s, PushesOf("Channel", ns), TRUE)

Call(s) == TakeApproval(s) \/ TakeRePush(s) \/ TakeMultiple(s) \/ TakeDue(s)

Enqueue(s) ==
    /\ spc[s] = "add"
    /\ AddToQueue(Head(todo[s]))
    /\ todo' = [todo EXCEPT ![s] = Tail(@)]
    /\ spc' = [spc EXCEPT ![s] =
                  IF perItem[s] \/ Tail(todo[s]) = <<>> THEN "signal" ELSE "add"]
    /\ UNCHANGED <<pushChan, perItem, workerVars, life>>

\* pushChan <- StartPush: blocks while the channel is full.
Signal(s) ==
    /\ spc[s] = "signal"
    /\ pushChan < ChanCap
    /\ pushChan' = pushChan + 1
    /\ spc' = [spc EXCEPT ![s] = IF todo[s] = <<>> THEN "idle" ELSE "add"]
    /\ UNCHANGED <<queue, todo, perItem, workerVars, life>>

-------------------------------------------------------------------------------
(* The worker: HandlePushRequest and SendToBotHandler *)

Receive ==
    /\ wpc = "recv"
    /\ pushChan > 0
    /\ pushChan' = pushChan - 1
    /\ wpc' = "outer"
    /\ UNCHANGED <<queue, senderVars, i, requestCount, request, life>>

\* Faulty: an empty queue is polled again instead of waiting for a token.
StartPassPolling ==
    /\ wpc = "outer"
    /\ i' = 0
    /\ requestCount' = 0
    /\ wpc' = IF queue = <<>> THEN "outer" ELSE "inner"
    /\ UNCHANGED <<queue, pushChan, senderVars, request, life>>

\* The head of the outer loop: start a pass, or wait for the next token.
StartPass ==
    /\ wpc = "outer"
    /\ i' = 0
    /\ requestCount' = 0
    /\ wpc' = IF queue = <<>> THEN "recv" ELSE "inner"
    /\ UNCHANGED <<queue, pushChan, senderVars, request, life>>

\* Faulty: one pass per token, with no second look at the queue.
EndPassWithoutSecondLook ==
    /\ wpc = "inner"
    /\ i >= Len(queue)
    /\ wpc' = "recv"
    /\ UNCHANGED <<queue, pushChan, senderVars, i, requestCount, request, life>>

EndPass ==
    /\ wpc = "inner"
    /\ i >= Len(queue)
    /\ wpc' = "outer"
    /\ UNCHANGED <<queue, pushChan, senderVars, i, requestCount, request, life>>

\* Faulty: the pause does not reset the count.
AskWithoutReset ==
    /\ wpc = "inner"
    /\ i < Len(queue)
    /\ request' = queue[i + 1]
    /\ wpc' = "call"
    /\ UNCHANGED <<queue, pushChan, senderVars, i, requestCount, life>>

\* Read the request at i, pause if the window is used up, call the bot handler.
Ask ==
    /\ wpc = "inner"
    /\ i < Len(queue)
    /\ request' = queue[i + 1]
    /\ requestCount' = IF requestCount > Window THEN 0 ELSE requestCount
    /\ wpc' = "call"
    /\ UNCHANGED <<queue, pushChan, senderVars, i, life>>

\* Status 200: the next request of the chain is enqueued first.
Accepted ==
    /\ wpc = "call"
    /\ wpc' = "remove"
    /\ IF request.type \in DOMAIN Successor
       THEN AddToQueue(Chained(request))
       ELSE UNCHANGED queue
    /\ UNCHANGED <<pushChan, senderVars, i, requestCount, request, life>>

\* A transport error, a 400 whose error is not "retry", or another status.
Refused ==
    /\ wpc = "call"
    /\ wpc' = "remove"
    /\ UNCHANGED <<queue, pushChan, senderVars, i, requestCount, request, life>>

\* Faulty: the index is not moved past the request to retry.
RetryInPlace ==
    /\ wpc = "call"
    /\ requestCount' = requestCount + 1
    /\ wpc' = "inner"
    /\ request' = NoRequest
    /\ UNCHANGED <<queue, pushChan, senderVars, i, life>>

\* A 400 whose error is "retry": leave the request where it is and go on.
Retry ==
    /\ wpc = "call"
    /\ i' = i + 1
    /\ requestCount' = requestCount + 1
    /\ wpc' = "inner"
    /\ request' = NoRequest
    /\ UNCHANGED <<queue, pushChan, senderVars, life>>

\* The end of SendToBotHandler for an answer other than "retry".
RemoveAnswered ==
    /\ wpc = "remove"
    /\ RemoveFromQueueWithIndex(i)
    /\ requestCount' = requestCount + 1
    /\ wpc' = "inner"
    /\ request' = NoRequest
    /\ UNCHANGED <<pushChan, senderVars, i, life>>

Worker ==
    \/ Receive \/ StartPass \/ EndPass \/ Ask
    \/ Accepted \/ Refused \/ Retry \/ RemoveAnswered

\* The process is restarted: the queue, the channel and every goroutine live in
\* memory and start afresh, whatever was still to be pushed.
Restart ==
    /\ queue' = <<>>
    /\ pushChan' = 0
    /\ spc' = [s \in Senders |-> "idle"]
    /\ todo' = [s \in Senders |-> <<>>]
    /\ perItem' = [s \in Senders |-> TRUE]
    /\ wpc' = "recv"
    /\ i' = 0
    /\ requestCount' = 0
    /\ request' = NoRequest
    /\ life' = ~life

Next ==
    \/ \E s \in Senders : Call(s) \/ Enqueue(s) \/ Signal(s)
    \/ Worker
    \/ Restart

Spec == Init /\ [][Next]_vars

-------------------------------------------------------------------------------
(* Safety *)

\* The type of every variable; the worker's index stays in the queue or just
\* behind its end, and no more than Window + 1 requests go without a pause.
TypeOK ==
    /\ queue \in Seq(Requests)
    /\ pushChan \in 0 .. ChanCap
    /\ spc \in [Senders -> {"idle", "add", "signal"}]
    /\ todo \in [Senders -> Seq(Requests)]
    /\ perItem \in [Senders -> BOOLEAN]
    /\ wpc \in {"recv", "outer", "inner", "call", "remove"}
    /\ i \in 0 .. Len(queue)
    /\ requestCount \in 0 .. (Window + 1)
    /\ request \in Requests \cup {NoRequest}
    /\ life \in BOOLEAN

\* No lost wake-up: when the worker waits for a token and there is none, a
\* request in the queue belongs to a sender that has yet to send its token.
\* The order AddToQueue, then pushChan <- StartPush, in every handler, and the
\* worker's second look at the queue before it waits, are what this rests on.
NoStrandedRequest ==
    queue # <<>> /\ wpc = "recv" /\ pushChan = 0 => \E s \in Senders : spc[s] # "idle"

\* The answer of the bot handler is applied to the request it answers: while
\* the call is out and the handlers go on appending, index i still holds it, so
\* the removal takes that request and no other.
AnswerMatchesIndex ==
    wpc \in {"call", "remove"} => i < Len(queue) /\ queue[i + 1] = request

\* The positions of the queue that are still to be pushed: all of them but the
\* answered one the worker is about to remove.
Live == {k \in DOMAIN queue : ~(wpc = "remove" /\ k = i + 1)}

\* No notification is in two places, senders' lists and live queue entries
\* together: a request and the one chained to it are never both waiting to be
\* pushed, and the worker's remove-by-index resurrects no answered request.
NoDoublePush ==
    /\ \A k, l \in Live : queue[k].value = queue[l].value => k = l
    /\ \A s \in Senders : \A k \in DOMAIN todo[s] :
          /\ \A l \in Live : todo[s][k].value # queue[l].value
          /\ \A t \in Senders : \A l \in DOMAIN todo[t] :
                todo[s][k].value = todo[t][l].value => s = t /\ k = l

\* The pipeline implements the ladder of PushStages.
StageOf(n) ==
    IF \E k \in Live : queue[k].value = n
    THEN queue[CHOOSE k \in Live : queue[k].value = n].type
    ELSE IF \E s \in Senders : \E k \in DOMAIN todo[s] : todo[s][k].value = n
         THEN "offered" ELSE "idle"

Ladder == INSTANCE PushStages WITH
              stage <- [n \in Notifications |-> StageOf(n)],
              asked <- IF wpc = "call" THEN {request.value} ELSE {},
              life  <- life

\* Every step of handlers and worker is a step of the ladder or none.  No push is
\* lost between its submission and an answer of the bot handler to it: what leaves
\* the queue was asked about and answered, whatever index it had by then, unless
\* the process restarts, which loses them all.  None is made twice, before or after
\* a restart, and none skips a stage of Approval -> Channel -> Subscribers.
ImplementsLadder == Ladder!Spec

-------------------------------------------------------------------------------
(* Liveness *)

\* The worker goroutine runs, and every call of the bot handler ends: some
\* answer or a transport error (http.Client has no timeout of its own).
WorkerFairness == WF_vars(Worker)

\* Handlers run, and a sender blocked on the channel is served in turn.
SenderFairness == \A s \in Senders : WF_vars(Enqueue(s)) /\ SF_vars(Signal(s))

\* The bot handler does not answer "retry" to one request for ever: assumed by
\* the properties that need it, not by the specification.
Settle(n) == request.value = n /\ (Accepted \/ Refused)
BotFairness == \A n \in Notifications : SF_vars(Settle(n))

\* A request in front of the worker is eventually put to the bot handler, even
\* if handlers never stop adding others and earlier ones are refused or retried:
\* removing at i and stepping over a retried request skip nobody.  Only a restart,
\* which leaves the fresh state, comes between a request and its call.
EveryRequestAsked ==
    \A n \in Notifications :
        (\E k \in Live : k > i /\ queue[k].value = n)
            ~> (wpc = "call" /\ request.value = n) \/ Fresh

\* Every notification leaves the pipeline, if no request is retried for ever.
\* Retried requests are taken up again by a new pass with no new token, and a
\* pass cannot be kept going by new load for ever: a sender needs a slot of the
\* channel for its token, and slots are freed between passes only.
EveryNotificationSettles ==
    BotFairness => \A n \in Notifications : StageOf(n) # "idle" ~> StageOf(n) = "idle"

\* A handler or the closer always gets back from its send on pushChan, however
\* full the channel is, if no request is retried for ever: the worker cannot
\* stay in its passes for ever.
SendersReturn ==
    BotFairness => \A s \in Senders : spc[s] # "idle" ~> spc[s] = "idle"

FairSpec == Spec /\ WorkerFairness /\ SenderFairness
===============================================================================
