-------------------------- MODULE JobLifecycleProofs --------------------------
(***************************************************************************)
(* What holds of JobLifecycle for every set of jobs, users and handlers.   *)
(***************************************************************************)
EXTENDS JobLifecycle, TLAPS

\* What a handler has still to insert has no row and is no other handler's.
DraftsAreFree ==
    \A h \in Handlers : pc[h] = "insert" =>
        \A j \in work[h] :
            /\ status[j] = "none"
            /\ \A k \in Handlers : k # h => j \notin work[k]

\* What a staff handler has inserted, is about to push or to close was decided.
StaffWorkIsDecided ==
    \A s \in Staff :
        /\ pc[s] \in {"push", "close"} => \A j \in work[s] : Decided(j)
        /\ \A j \in added[s] : Decided(j)

\* What ChangeJobStatus is about to save is a decision about one job with a row.
SavesDecide ==
    \A s \in Staff : pc[s] = "save" =>
        /\ target[s] \in {"O", "C", "D"}
        /\ \E j \in Jobs : work[s] = {j}
        /\ \A j \in work[s] : status[j] # "none"

\* The inductive invariant: DraftsAreFree keeps an insert from taking back a
\* decision, the other two tie the handlers' local copies to the rows.
IInv ==
    /\ TypeOK
    /\ DraftsAreFree
    /\ StaffWorkIsDecided
    /\ SavesDecide
    /\ EveryDecisionPushed
    /\ OnlyDecidedPushed

-------------------------------------------------------------------------------
(* The initial states and the steps of one handler each *)

\* The empty tables satisfy the invariant.
LEMMA InitEstablishesIInv == Init => IInv
<1> SUFFICES ASSUME Init PROVE IInv
  OBVIOUS
<1>1. TypeOK
  BY DEF Init, TypeOK, Statuses, Handlers
<1>2. DraftsAreFree /\ StaffWorkIsDecided /\ SavesDecide
  BY DEF Init, DraftsAreFree, StaffWorkIsDecided, SavesDecide, Handlers
<1>3. EveryDecisionPushed /\ OnlyDecidedPushed
  BY DEF Init, EveryDecisionPushed, OnlyDecidedPushed, Decided
<1>4. QED
  BY <1>1, <1>2, <1>3 DEF IInv

\* The drafts of a staff handler are free jobs.
LEMMA HandleAddJobsKeepsIInv ==
    ASSUME IInv, NEW s \in Staff, HandleAddJobs(s)
    PROVE  IInv'
<1>1. TypeOK'
  BY DEF IInv, TypeOK, historyVars, Handlers, HandleAddJobs, Draft, ValidateJob, FreeJobs, closerVars
<1>2. DraftsAreFree'
  BY DEF IInv, TypeOK, DraftsAreFree, HandleAddJobs, Draft, FreeJobs
<1>3. StaffWorkIsDecided'
  BY DEF IInv, StaffWorkIsDecided, Decided, HandleAddJobs, Draft
<1>4. SavesDecide'
  BY DEF IInv, SavesDecide, HandleAddJobs, Draft
<1>5. EveryDecisionPushed'
  BY DEF IInv, EveryDecisionPushed, AboutToPush, Decided, HandleAddJobs, Draft
<1>6. OnlyDecidedPushed'
  BY DEF IInv, OnlyDecidedPushed, Decided, HandleAddJobs, Draft
<1>7. QED
  BY <1>1, <1>2, <1>3, <1>4, <1>5, <1>6 DEF IInv

\* So is the draft of the external form.
LEMMA HandleAddJobExternalKeepsIInv ==
    ASSUME IInv, NEW p \in Posters, HandleAddJobExternal(p)
    PROVE  IInv'
<1>1. TypeOK'
  BY DEF IInv, TypeOK, historyVars, Handlers, HandleAddJobExternal, Draft, ValidateJob, FreeJobs,
     closerVars
<1>2. DraftsAreFree'
  BY DEF IInv, TypeOK, DraftsAreFree, HandleAddJobExternal, Draft, FreeJobs
<1>3. StaffWorkIsDecided'
  BY DEF IInv, StaffWorkIsDecided, Decided, HandleAddJobExternal, Draft
<1>4. SavesDecide'
  BY DEF IInv, SavesDecide, HandleAddJobExternal, Draft
<1>5. EveryDecisionPushed'
  BY DEF IInv, EveryDecisionPushed, AboutToPush, Decided, HandleAddJobExternal, Draft
<1>6. OnlyDecidedPushed'
  BY DEF IInv, OnlyDecidedPushed, Decided, HandleAddJobExternal, Draft
<1>7. QED
  BY <1>1, <1>2, <1>3, <1>4, <1>5, <1>6 DEF IInv

\* A staff insert opens a draft that its handler will push.
LEMMA AddJobKeepsIInv ==
    ASSUME IInv, NEW s \in Staff, AddJob(s)
    PROVE  IInv'
<1>1. TypeOK'
  <2>1. status' \in [Jobs -> Statuses \cup {"none"}] /\ slipped' \in SUBSET Jobs
    BY DEF IInv, TypeOK, Statuses, Handlers, AddJob, Opened
  <2>2. /\ pc' \in [Handlers -> {"idle", "insert", "save", "push", "close", "delete"}]
        /\ work' \in [Handlers -> SUBSET Jobs] /\ added' \in [Handlers -> SUBSET Jobs]
    BY DEF IInv, TypeOK, Handlers, AddJob, AfterInserts
  <2>3. QED
    BY <2>1, <2>2 DEF IInv, TypeOK, AddJob, closerVars
<1>2. DraftsAreFree'
  <2>1. PICK j \in work[s] :
            \/ /\ status' = [status EXCEPT ![j] = "O"]
               /\ AfterInserts(s, work[s] \ {j}, added[s] \cup {j})
            \/ /\ UNCHANGED status
               /\ AfterInserts(s, work[s] \ {j}, added[s])
    BY DEF AddJob, Opened
  <2>2. \A k \in Jobs : k # j => status'[k] = status[k]
    BY <2>1 DEF IInv, TypeOK
  <2>3. \A h \in Handlers : h # s => pc'[h] = pc[h] /\ work'[h] = work[h]
    BY <2>1 DEF IInv, TypeOK, AfterInserts
  <2>4. pc'[s] = "insert" => work'[s] = work[s] \ {j}
    BY <2>1 DEF IInv, TypeOK, Handlers, AfterInserts
  <2>5. work'[s] \subseteq work[s] \cup added[s]
    BY <2>1 DEF IInv, TypeOK, Handlers, AfterInserts
  <2>6. pc[s] = "insert"
    BY DEF AddJob
  <2>7. QED
    BY <2>1, <2>2, <2>3, <2>4, <2>5, <2>6
       DEF IInv, TypeOK, DraftsAreFree, StaffWorkIsDecided, Handlers, Decided
<1>3. StaffWorkIsDecided'
  BY DEF IInv, TypeOK, StaffWorkIsDecided, Handlers, Decided, AddJob, Opened, AfterInserts
<1>4. SavesDecide'
  BY DEF IInv, TypeOK, SavesDecide, Handlers, AddJob, Opened, AfterInserts
<1>5. EveryDecisionPushed'
  BY DEF IInv, TypeOK, EveryDecisionPushed, AboutToPush, Handlers, Decided, AddJob, Opened,
     AfterInserts
<1>6. OnlyDecidedPushed'
  BY DEF IInv, TypeOK, OnlyDecidedPushed, Decided, AddJob, Opened
<1>7. QED
  BY <1>1, <1>2, <1>3, <1>4, <1>5, <1>6 DEF IInv

\* The external form's insert decides nothing.
LEMMA AddPendingKeepsIInv ==
    ASSUME IInv, NEW p \in Posters, AddPending(p)
    PROVE  IInv'
<1>1. TypeOK'
  BY DEF IInv, TypeOK, historyVars, Statuses, AddPending, closerVars
<1>2. DraftsAreFree'
  BY DEF IInv, TypeOK, DraftsAreFree, Handlers, AddPending
<1>3. StaffWorkIsDecided'
  <2>1. ASSUME NEW j \in Jobs, Decided(j) PROVE Decided(j)'
    BY <2>1 DEF IInv, TypeOK, DraftsAreFree, Decided, Handlers, AddPending
  <2>2. QED
    BY <2>1 DEF IInv, TypeOK, StaffWorkIsDecided, Handlers, AddPending
<1>4. SavesDecide'
  <2>1. ASSUME NEW j \in Jobs, status[j] # "none" PROVE status'[j] # "none"
    BY <2>1 DEF IInv, TypeOK, AddPending
  <2>2. QED
    BY <2>1 DEF IInv, TypeOK, SavesDecide, Handlers, AddPending
<1>5. EveryDecisionPushed'
  <2>1. ASSUME NEW j \in Jobs, Decided(j)' PROVE Decided(j)
    BY <2>1 DEF IInv, TypeOK, Decided, AddPending
  <2>2. ASSUME NEW s \in Staff, NEW j \in Jobs, AboutToPush(s, j) PROVE AboutToPush(s, j)'
    BY <2>2, LifecycleAssumption DEF AboutToPush, AddPending
  <2>3. QED
    BY <2>1, <2>2 DEF IInv, EveryDecisionPushed, AddPending
<1>6. OnlyDecidedPushed'
  BY DEF IInv, TypeOK, DraftsAreFree, OnlyDecidedPushed, Handlers, Decided, AddPending
<1>7. QED
  BY <1>1, <1>2, <1>3, <1>4, <1>5, <1>6 DEF IInv

\* A handler pushes what was decided.
LEMMA PushForApprovalKeepsIInv ==
    ASSUME IInv, NEW s \in Staff, PushForApproval(s)
    PROVE  IInv'
<1>1. TypeOK'
  BY DEF IInv, TypeOK, historyVars, Handlers, PushForApproval, Request, rowVars, closerVars
<1>2. DraftsAreFree'
  BY DEF IInv, DraftsAreFree, PushForApproval, rowVars
<1>3. StaffWorkIsDecided'
  BY DEF IInv, StaffWorkIsDecided, Decided, PushForApproval, rowVars
<1>4. SavesDecide'
  BY DEF IInv, SavesDecide, PushForApproval, rowVars
<1>5. EveryDecisionPushed'
  BY DEF IInv, EveryDecisionPushed, AboutToPush, Decided, PushForApproval, rowVars
<1>6. OnlyDecidedPushed'
  BY DEF IInv, StaffWorkIsDecided, OnlyDecidedPushed, Decided, Request,
     PushForApproval, rowVars
<1>7. QED
  BY <1>1, <1>2, <1>3, <1>4, <1>5, <1>6 DEF IInv

\* A change of status is read from a row.
LEMMA HandleChangeJobStatusKeepsIInv ==
    ASSUME IInv, NEW s \in Staff, HandleChangeJobStatus(s)
    PROVE  IInv'
<1>1. TypeOK'
  BY DEF IInv, TypeOK, historyVars, Handlers, HandleChangeJobStatus, rowVars, closerVars
<1>2. DraftsAreFree'
  BY DEF IInv, DraftsAreFree, HandleChangeJobStatus, MayChange, rowVars
<1>3. StaffWorkIsDecided'
  BY DEF IInv, StaffWorkIsDecided, Decided, HandleChangeJobStatus, rowVars
<1>4. SavesDecide'
  BY DEF IInv, TypeOK, SavesDecide, HandleChangeJobStatus, MayChange, rowVars
<1>5. EveryDecisionPushed'
  BY DEF IInv, EveryDecisionPushed, AboutToPush, Decided, HandleChangeJobStatus, rowVars
<1>6. OnlyDecidedPushed'
  BY DEF IInv, OnlyDecidedPushed, Decided, HandleChangeJobStatus, rowVars
<1>7. QED
  BY <1>1, <1>2, <1>3, <1>4, <1>5, <1>6 DEF IInv

\* A saved status is a decision that its handler will push.
LEMMA SaveStatusKeepsIInv ==
    ASSUME IInv, NEW s \in Staff, SaveStatus(s)
    PROVE  IInv'
<1>0. /\ \A j \in Jobs : Decided(j) => Decided(j)'
      /\ \A k \in Handlers \ {s} : pc'[k] = pc[k] /\ work'[k] = work[k]
  BY DEF IInv, TypeOK, SavesDecide, Handlers, Decided, SaveStatus, Opened
<1>1. TypeOK'
  BY DEF IInv, TypeOK, historyVars, Statuses, Handlers, SaveStatus, Opened, closerVars
<1>2. DraftsAreFree'
  BY DEF IInv, TypeOK, DraftsAreFree, Handlers, SaveStatus, Opened
<1>3. StaffWorkIsDecided'
  <2>1. pc'[s] = "push" => \A j \in work'[s] : Decided(j)'
    BY DEF IInv, TypeOK, SavesDecide, Handlers, Decided, SaveStatus, Opened
  <2>2. pc'[s] # "close" /\ added' = added
    BY DEF IInv, TypeOK, Handlers, SaveStatus
  <2>3. QED
    BY <1>0, <2>1, <2>2 DEF IInv, TypeOK, StaffWorkIsDecided, Handlers
<1>4. SavesDecide'
  BY DEF IInv, TypeOK, SavesDecide, Handlers, SaveStatus, Opened
<1>5. EveryDecisionPushed'
  BY DEF IInv, TypeOK, EveryDecisionPushed, AboutToPush, Handlers, Decided, SaveStatus, Opened
<1>6. OnlyDecidedPushed'
  BY <1>0 DEF IInv, TypeOK, OnlyDecidedPushed, SaveStatus
<1>7. QED
  BY <1>1, <1>2, <1>3, <1>4, <1>5, <1>6 DEF IInv

\* A second push is no approval request.
LEMMA HandleRePushJobKeepsIInv ==
    ASSUME IInv, NEW s \in Staff, HandleRePushJob(s)
    PROVE  IInv'
<1>1. TypeOK'
  BY DEF IInv, TypeOK, historyVars, HandleRePushJob, Request, rowVars, handlerVars, closerVars
<1>2. DraftsAreFree'
  BY DEF IInv, DraftsAreFree, HandleRePushJob, rowVars, handlerVars
<1>3. StaffWorkIsDecided'
  BY DEF IInv, StaffWorkIsDecided, Decided, HandleRePushJob, rowVars, handlerVars
<1>4. SavesDecide'
  BY DEF IInv, SavesDecide, HandleRePushJob, rowVars, handlerVars
<1>5. EveryDecisionPushed'
  BY DEF IInv, EveryDecisionPushed, AboutToPush, Decided, HandleRePushJob, rowVars,
     handlerVars
<1>6. OnlyDecidedPushed'
  BY DEF IInv, OnlyDecidedPushed, Decided, Request, HandleRePushJob, rowVars
<1>7. QED
  BY <1>1, <1>2, <1>3, <1>4, <1>5, <1>6 DEF IInv

\* The jobs DeleteUser will close were opened.
LEMMA HandleDeleteUserKeepsIInv ==
    ASSUME IInv, NEW s \in Staff, HandleDeleteUser(s)
    PROVE  IInv'
<1>1. TypeOK'
  BY DEF IInv, TypeOK, historyVars, Handlers, HandleDeleteUser, OpenedJobs, NextToClose, rowVars, closerVars
<1>2. DraftsAreFree'
  BY DEF IInv, TypeOK, DraftsAreFree, HandleDeleteUser, OpenedJobs, NextToClose, rowVars
<1>3. StaffWorkIsDecided'
  BY DEF IInv, TypeOK, StaffWorkIsDecided, Handlers, Decided, HandleDeleteUser,
     OpenedJobs, NextToClose, rowVars
<1>4. SavesDecide'
  BY DEF IInv, TypeOK, SavesDecide, Handlers, HandleDeleteUser, OpenedJobs, NextToClose, rowVars
<1>5. EveryDecisionPushed'
  BY DEF IInv, TypeOK, EveryDecisionPushed, AboutToPush, Handlers, Decided,
     HandleDeleteUser, OpenedJobs, NextToClose, rowVars
<1>6. OnlyDecidedPushed'
  BY DEF IInv, OnlyDecidedPushed, Decided, HandleDeleteUser, rowVars
<1>7. QED
  BY <1>1, <1>2, <1>3, <1>4, <1>5, <1>6 DEF IInv

\* Closing an opened job takes no decision back.
LEMMA CloseJobKeepsIInv ==
    ASSUME IInv, NEW s \in Staff, CloseJob(s)
    PROVE  IInv'
<1>1. TypeOK'
  BY DEF IInv, TypeOK, historyVars, Statuses, Handlers, CloseJob, NextToClose, closerVars
<1>2. DraftsAreFree'
  BY DEF IInv, TypeOK, DraftsAreFree, Handlers, CloseJob, NextToClose
<1>3. StaffWorkIsDecided'
  BY DEF IInv, TypeOK, StaffWorkIsDecided, Handlers, Decided, CloseJob, NextToClose
<1>4. SavesDecide'
  BY DEF IInv, TypeOK, SavesDecide, Handlers, CloseJob, NextToClose
<1>5. EveryDecisionPushed'
  BY DEF IInv, TypeOK, StaffWorkIsDecided, EveryDecisionPushed, AboutToPush,
     Decided, CloseJob, NextToClose
<1>6. OnlyDecidedPushed'
  BY DEF IInv, TypeOK, OnlyDecidedPushed, Decided, CloseJob
<1>7. QED
  BY <1>1, <1>2, <1>3, <1>4, <1>5, <1>6 DEF IInv

\* Deleting a user touches no job.
LEMMA DeleteUserKeepsIInv ==
    ASSUME IInv, NEW s \in Staff, DeleteUser(s)
    PROVE  IInv'
<1>1. TypeOK'
  BY DEF IInv, TypeOK, historyVars, DeleteUser, closerVars
<1>2. DraftsAreFree'
  BY DEF IInv, DraftsAreFree, DeleteUser
<1>3. StaffWorkIsDecided'
  BY DEF IInv, StaffWorkIsDecided, Decided, DeleteUser
<1>4. SavesDecide'
  BY DEF IInv, SavesDecide, DeleteUser
<1>5. EveryDecisionPushed'
  BY DEF IInv, EveryDecisionPushed, AboutToPush, Decided, DeleteUser
<1>6. OnlyDecidedPushed'
  BY DEF IInv, OnlyDecidedPushed, Decided, DeleteUser
<1>7. QED
  BY <1>1, <1>2, <1>3, <1>4, <1>5, <1>6 DEF IInv

\* The clock moves due dates only.
LEMMA DueDatePassesKeepsIInv ==
    ASSUME IInv, NEW i \in Jobs, DueDatePasses(i)
    PROVE  IInv'
<1>1. TypeOK'
  BY DEF IInv, TypeOK, historyVars, DueDatePasses, handlerVars, closerVars
<1>2. DraftsAreFree'
  BY DEF IInv, DraftsAreFree, DueDatePasses, handlerVars
<1>3. StaffWorkIsDecided'
  BY DEF IInv, StaffWorkIsDecided, Decided, DueDatePasses, handlerVars
<1>4. SavesDecide'
  BY DEF IInv, SavesDecide, DueDatePasses, handlerVars
<1>5. EveryDecisionPushed'
  BY DEF IInv, EveryDecisionPushed, AboutToPush, Decided, DueDatePasses, handlerVars
<1>6. OnlyDecidedPushed'
  BY DEF IInv, OnlyDecidedPushed, Decided, DueDatePasses
<1>7. QED
  BY <1>1, <1>2, <1>3, <1>4, <1>5, <1>6 DEF IInv

\* The closer's select reads.
LEMMA SelectDueJobsKeepsIInv ==
    ASSUME IInv, SelectDueJobs
    PROVE  IInv'
<1>1. TypeOK'
  BY DEF IInv, TypeOK, historyVars, SelectDueJobs, DueJobs, rowVars, handlerVars, closerVars
<1>2. DraftsAreFree'
  BY DEF IInv, DraftsAreFree, SelectDueJobs, rowVars, handlerVars
<1>3. StaffWorkIsDecided'
  BY DEF IInv, StaffWorkIsDecided, Decided, SelectDueJobs, rowVars, handlerVars
<1>4. SavesDecide'
  BY DEF IInv, SavesDecide, SelectDueJobs, rowVars, handlerVars
<1>5. EveryDecisionPushed'
  BY DEF IInv, EveryDecisionPushed, AboutToPush, Decided, SelectDueJobs, rowVars,
     handlerVars
<1>6. OnlyDecidedPushed'
  BY DEF IInv, OnlyDecidedPushed, Decided, SelectDueJobs, rowVars
<1>7. QED
  BY <1>1, <1>2, <1>3, <1>4, <1>5, <1>6 DEF IInv

\* The closer's update closes opened jobs.
LEMMA UpdateDueJobsKeepsIInv ==
    ASSUME IInv, UpdateDueJobs
    PROVE  IInv'
<1>1. TypeOK'
  BY DEF IInv, TypeOK, historyVars, Statuses, UpdateDueJobs, handlerVars
<1>2. DraftsAreFree'
  BY DEF IInv, TypeOK, DraftsAreFree, UpdateDueJobs, DueJobs, handlerVars
<1>3. StaffWorkIsDecided'
  BY DEF IInv, TypeOK, StaffWorkIsDecided, Handlers, Decided, UpdateDueJobs, handlerVars
<1>4. SavesDecide'
  BY DEF IInv, TypeOK, SavesDecide, Handlers, UpdateDueJobs, handlerVars
<1>5. EveryDecisionPushed'
  BY DEF IInv, EveryDecisionPushed, AboutToPush, Decided, UpdateDueJobs, DueJobs,
     handlerVars
<1>6. OnlyDecidedPushed'
  BY DEF IInv, OnlyDecidedPushed, Decided, UpdateDueJobs
<1>7. QED
  BY <1>1, <1>2, <1>3, <1>4, <1>5, <1>6 DEF IInv

\* The closer makes no approval requests.
LEMMA PushToChannelKeepsIInv ==
    ASSUME IInv, PushToChannel
    PROVE  IInv'
<1>1. TypeOK'
  BY DEF IInv, TypeOK, historyVars, PushToChannel, Request, rowVars, handlerVars
<1>2. DraftsAreFree'
  BY DEF IInv, DraftsAreFree, PushToChannel, rowVars, handlerVars
<1>3. StaffWorkIsDecided'
  BY DEF IInv, StaffWorkIsDecided, Decided, PushToChannel, rowVars, handlerVars
<1>4. SavesDecide'
  BY DEF IInv, SavesDecide, PushToChannel, rowVars, handlerVars
<1>5. EveryDecisionPushed'
  BY DEF IInv, EveryDecisionPushed, AboutToPush, Decided, PushToChannel, rowVars,
     handlerVars
<1>6. OnlyDecidedPushed'
  BY DEF IInv, OnlyDecidedPushed, Decided, Request, PushToChannel, rowVars
<1>7. QED
  BY <1>1, <1>2, <1>3, <1>4, <1>5, <1>6 DEF IInv

-------------------------------------------------------------------------------
(* What holds however many staff members work and whatever fails *)

\* Every step of the handlers, the clock and the closer keeps the invariant.
LEMMA NextKeepsIInv == IInv /\ [Next]_vars => IInv'
<1> SUFFICES ASSUME IInv, [Next]_vars PROVE IInv'
  OBVIOUS
<1>1. ASSUME NEW s \in Staff, StaffStep(s) PROVE IInv'
  BY <1>1, HandleAddJobsKeepsIInv, AddJobKeepsIInv, PushForApprovalKeepsIInv,
     HandleChangeJobStatusKeepsIInv, SaveStatusKeepsIInv, HandleRePushJobKeepsIInv,
     HandleDeleteUserKeepsIInv, CloseJobKeepsIInv, DeleteUserKeepsIInv DEF StaffStep
<1>2. ASSUME NEW p \in Posters, PosterStep(p) PROVE IInv'
  BY <1>2, HandleAddJobExternalKeepsIInv, AddPendingKeepsIInv DEF PosterStep
<1>3. ASSUME NEW i \in Jobs, DueDatePasses(i) PROVE IInv'
  BY <1>3, DueDatePassesKeepsIInv
<1>4. CASE Closer
  BY <1>4, SelectDueJobsKeepsIInv, UpdateDueJobsKeepsIInv, PushToChannelKeepsIInv
     DEF Closer
<1>5. CASE UNCHANGED vars
  BY <1>5 DEF vars, rowVars, handlerVars, closerVars, historyVars, IInv, TypeOK, DraftsAreFree,
     StaffWorkIsDecided, SavesDecide, EveryDecisionPushed, OnlyDecidedPushed, AboutToPush, Decided
<1>6. QED
  BY <1>1, <1>2, <1>3, <1>4, <1>5 DEF Next

\* The invariant holds in every reachable state.
LEMMA Invariance == Spec => []IInv
<1>1. QED
  BY InitEstablishesIInv, NextKeepsIInv, PTL DEF Spec

\* Every variable keeps its type, for any jobs, users and handlers.
THEOREM TypeCorrect == Spec => []TypeOK
<1>1. IInv => TypeOK
  BY DEF IInv
<1>2. QED
  BY <1>1, Invariance, PTL

\* A job that staff decided about is pushed for approval, or its handler is
\* about to: no interleaving of handlers and no failed statement loses it.
THEOREM NoSilentDecision == Spec => []EveryDecisionPushed
<1>1. IInv => EveryDecisionPushed
  BY DEF IInv
<1>2. QED
  BY <1>1, Invariance, PTL

\* No request for approval is queued for a job still pending or without a row.
THEOREM NoPushBeforeDecision == Spec => []OnlyDecidedPushed
<1>1. IInv => OnlyDecidedPushed
  BY DEF IInv
<1>2. QED
  BY <1>1, Invariance, PTL

-------------------------------------------------------------------------------
(* What a handler read and what it writes *)

\* The status a staff handler read is still what its write relies on: unless another
\* request decided on the job too, it can only have been closed meanwhile.
FreshCopies ==
    \A s \in Staff :
        /\ pc[s] = "save" => \A j \in work[s] \ contested :
              IF target[s] = "C" THEN status[j] \in {"O", "C"} ELSE status[j] = "P"
        /\ pc[s] = "close" => \A j \in work[s] \ contested : status[j] \in {"O", "C"}

\* Two requests about to save a decision on one job are two that decided at once.
LoneDecisions ==
    \A s, k \in Staff : \A j \in Jobs :
        /\ s # k /\ pc[s] = "save" /\ pc[k] = "save"
        /\ j \in work[s] /\ j \in work[k] /\ target[s] # "C" /\ target[k] # "C"
        => j \in contested

LegalStep == \A j \in Jobs \ contested' : Legal(j)

\* Only the handler itself and the closer touch a job that staff can change, or else
\* two requests decide on it.
LEMMA FreshCopiesKept ==
    ASSUME LifecycleAssumption, IInv, FreshCopies, LoneDecisions, [Next]_vars
    PROVE  FreshCopies'
<1>1. ASSUME NEW s \in Staff, HandleAddJobs(s) PROVE FreshCopies'
  BY <1>1 DEF HandleAddJobs, Draft, historyVars, IInv, TypeOK, Handlers, FreshCopies
<1>2. ASSUME NEW s \in Staff, AddJob(s) PROVE FreshCopies'
  BY <1>2 DEF AddJob, Opened, AfterInserts, DraftsAreFree, IInv, TypeOK, Handlers,
     FreshCopies
<1>3. ASSUME NEW s \in Staff, PushForApproval(s) PROVE FreshCopies'
  BY <1>3 DEF PushForApproval, rowVars, historyVars, IInv, TypeOK, Handlers,
     FreshCopies
<1>4. ASSUME NEW s \in Staff, HandleChangeJobStatus(s) PROVE FreshCopies'
  BY <1>4 DEF HandleChangeJobStatus, rowVars, MayChange, IInv, TypeOK, Handlers,
     FreshCopies
<1>5. ASSUME NEW s \in Staff, SaveStatus(s) PROVE FreshCopies'
  BY <1>5 DEF SaveStatus, Opened, SavesDecide, LoneDecisions, IInv, TypeOK, Handlers,
     FreshCopies
<1>6. ASSUME NEW s \in Staff, HandleRePushJob(s) PROVE FreshCopies'
  BY <1>6 DEF HandleRePushJob, rowVars, handlerVars, historyVars, IInv, TypeOK,
     Handlers, FreshCopies
<1>7. ASSUME NEW s \in Staff, HandleDeleteUser(s) PROVE FreshCopies'
  BY <1>7 DEF HandleDeleteUser, NextToClose, rowVars, OpenedJobs, IInv, TypeOK,
     Handlers, FreshCopies
<1>8. ASSUME NEW s \in Staff, CloseJob(s) PROVE FreshCopies'
  BY <1>8 DEF CloseJob, NextToClose, IInv, TypeOK, Handlers, FreshCopies
<1>9. ASSUME NEW s \in Staff, DeleteUser(s) PROVE FreshCopies'
  BY <1>9 DEF DeleteUser, historyVars, IInv, TypeOK, Handlers, FreshCopies
<1>10. ASSUME NEW p \in Posters, HandleAddJobExternal(p) PROVE FreshCopies'
  BY <1>10 DEF HandleAddJobExternal, Draft, historyVars, IInv, TypeOK, Handlers,
     FreshCopies
<1>11. ASSUME NEW p \in Posters, AddPending(p) PROVE FreshCopies'
  BY <1>11 DEF AddPending, historyVars, DraftsAreFree, IInv, TypeOK, Handlers,
     FreshCopies
<1>12. ASSUME NEW i \in Jobs, DueDatePasses(i) PROVE FreshCopies'
  BY <1>12 DEF DueDatePasses, handlerVars, historyVars, IInv, TypeOK, Handlers,
     FreshCopies
<1>13. CASE SelectDueJobs
  BY <1>13 DEF SelectDueJobs, rowVars, handlerVars, IInv, TypeOK, Handlers,
     FreshCopies
<1>14. CASE UpdateDueJobs
  BY <1>14 DEF UpdateDueJobs, DueJobs, handlerVars, IInv, TypeOK, Handlers,
     FreshCopies
<1>15. CASE PushToChannel
  BY <1>15 DEF PushToChannel, rowVars, handlerVars, historyVars, IInv, TypeOK,
     Handlers, FreshCopies
<1>16. CASE UNCHANGED vars
  BY <1>16 DEF vars, rowVars, handlerVars, historyVars, IInv, TypeOK, Handlers,
     FreshCopies
<1>17. QED
  BY <1>1, <1>2, <1>3, <1>4, <1>5, <1>6, <1>7, <1>8, <1>9,
     <1>10, <1>11, <1>12, <1>13, <1>14, <1>15, <1>16
     DEF Next, StaffStep, PosterStep, Closer

\* A second decision on a pending job is one of two requests at once.
LEMMA LoneDecisionsKept ==
    ASSUME LifecycleAssumption, IInv, FreshCopies, LoneDecisions, [Next]_vars
    PROVE  LoneDecisions'
<1>1. ASSUME NEW s \in Staff, HandleAddJobs(s) PROVE LoneDecisions'
  BY <1>1 DEF HandleAddJobs, Draft, historyVars, IInv, TypeOK, Handlers, LoneDecisions
<1>2. ASSUME NEW s \in Staff, AddJob(s) PROVE LoneDecisions'
  BY <1>2 DEF AddJob, Opened, AfterInserts, IInv, TypeOK, Handlers, LoneDecisions
<1>3. ASSUME NEW s \in Staff, PushForApproval(s) PROVE LoneDecisions'
  BY <1>3 DEF PushForApproval, rowVars, historyVars, IInv, TypeOK, Handlers,
     LoneDecisions
<1>4. ASSUME NEW s \in Staff, HandleChangeJobStatus(s) PROVE LoneDecisions'
  BY <1>4 DEF HandleChangeJobStatus, rowVars, MayChange, DecidedByOther, FreshCopies,
     IInv, TypeOK, Handlers, LoneDecisions
<1>5. ASSUME NEW s \in Staff, SaveStatus(s) PROVE LoneDecisions'
  BY <1>5 DEF SaveStatus, Opened, IInv, TypeOK, Handlers, LoneDecisions
<1>6. ASSUME NEW s \in Staff, HandleRePushJob(s) PROVE LoneDecisions'
  BY <1>6 DEF HandleRePushJob, rowVars, handlerVars, historyVars, IInv, TypeOK,
     Handlers, LoneDecisions
<1>7. ASSUME NEW s \in Staff, HandleDeleteUser(s) PROVE LoneDecisions'
  BY <1>7 DEF HandleDeleteUser, NextToClose, rowVars, IInv, TypeOK, Handlers,
     LoneDecisions
<1>8. ASSUME NEW s \in Staff, CloseJob(s) PROVE LoneDecisions'
  BY <1>8 DEF CloseJob, NextToClose, IInv, TypeOK, Handlers, LoneDecisions
<1>9. ASSUME NEW s \in Staff, DeleteUser(s) PROVE LoneDecisions'
  BY <1>9 DEF DeleteUser, historyVars, IInv, TypeOK, Handlers, LoneDecisions
<1>10. ASSUME NEW p \in Posters, HandleAddJobExternal(p) PROVE LoneDecisions'
  BY <1>10 DEF HandleAddJobExternal, Draft, historyVars, IInv, TypeOK, Handlers,
     LoneDecisions
<1>11. ASSUME NEW p \in Posters, AddPending(p) PROVE LoneDecisions'
  BY <1>11 DEF AddPending, historyVars, IInv, TypeOK, Handlers, LoneDecisions
<1>12. ASSUME NEW i \in Jobs, DueDatePasses(i) PROVE LoneDecisions'
  BY <1>12 DEF DueDatePasses, handlerVars, historyVars, IInv, TypeOK, Handlers,
     LoneDecisions
<1>13. CASE SelectDueJobs
  BY <1>13 DEF SelectDueJobs, rowVars, handlerVars, IInv, TypeOK, Handlers,
     LoneDecisions
<1>14. CASE UpdateDueJobs
  BY <1>14 DEF UpdateDueJobs, DueJobs, handlerVars, IInv, TypeOK, Handlers,
     LoneDecisions
<1>15. CASE PushToChannel
  BY <1>15 DEF PushToChannel, rowVars, handlerVars, historyVars, IInv, TypeOK,
     Handlers, LoneDecisions
<1>16. CASE UNCHANGED vars
  BY <1>16 DEF vars, rowVars, handlerVars, historyVars, IInv, TypeOK, Handlers,
     LoneDecisions
<1>17. QED
  BY <1>1, <1>2, <1>3, <1>4, <1>5, <1>6, <1>7, <1>8, <1>9,
     <1>10, <1>11, <1>12, <1>13, <1>14, <1>15, <1>16
     DEF Next, StaffStep, PosterStep, Closer

\* From fresh copies every write is a move the guards allow.
LEMMA StepsAreLegal ==
    ASSUME IInv, FreshCopies, [Next]_vars
    PROVE  LegalStep
<1>1. ASSUME NEW s \in Staff, HandleAddJobs(s) PROVE LegalStep
  BY <1>1 DEF HandleAddJobs, Draft, historyVars, IInv, TypeOK, Handlers, Legal,
     LegalStep
<1>2. ASSUME NEW s \in Staff, AddJob(s) PROVE LegalStep
  BY <1>2 DEF AddJob, Opened, AfterInserts, DraftsAreFree, IInv, TypeOK, Handlers,
     Legal, LegalStep
<1>3. ASSUME NEW s \in Staff, PushForApproval(s) PROVE LegalStep
  BY <1>3 DEF PushForApproval, rowVars, historyVars, IInv, TypeOK, Handlers, Legal,
     LegalStep
<1>4. ASSUME NEW s \in Staff, HandleChangeJobStatus(s) PROVE LegalStep
  BY <1>4 DEF HandleChangeJobStatus, rowVars, IInv, TypeOK, Handlers, Legal, LegalStep
<1>5. ASSUME NEW s \in Staff, SaveStatus(s) PROVE LegalStep
  BY <1>5 DEF SaveStatus, Opened, FreshCopies, Statuses, IInv, TypeOK, Handlers,
     Legal, LegalStep
<1>6. ASSUME NEW s \in Staff, HandleRePushJob(s) PROVE LegalStep
  BY <1>6 DEF HandleRePushJob, rowVars, handlerVars, historyVars, IInv, TypeOK,
     Handlers, Legal, LegalStep
<1>7. ASSUME NEW s \in Staff, HandleDeleteUser(s) PROVE LegalStep
  BY <1>7 DEF HandleDeleteUser, NextToClose, rowVars, IInv, TypeOK, Handlers, Legal,
     LegalStep
<1>8. ASSUME NEW s \in Staff, CloseJob(s) PROVE LegalStep
  BY <1>8 DEF CloseJob, NextToClose, FreshCopies, IInv, TypeOK, Handlers, Legal,
     LegalStep
<1>9. ASSUME NEW s \in Staff, DeleteUser(s) PROVE LegalStep
  BY <1>9 DEF DeleteUser, historyVars, IInv, TypeOK, Handlers, Legal, LegalStep
<1>10. ASSUME NEW p \in Posters, HandleAddJobExternal(p) PROVE LegalStep
  BY <1>10 DEF HandleAddJobExternal, Draft, historyVars, IInv, TypeOK, Handlers,
     Legal, LegalStep
<1>11. ASSUME NEW p \in Posters, AddPending(p) PROVE LegalStep
  BY <1>11 DEF AddPending, historyVars, DraftsAreFree, IInv, TypeOK, Handlers, Legal,
     LegalStep
<1>12. ASSUME NEW i \in Jobs, DueDatePasses(i) PROVE LegalStep
  BY <1>12 DEF DueDatePasses, handlerVars, historyVars, IInv, TypeOK, Handlers, Legal,
     LegalStep
<1>13. CASE SelectDueJobs
  BY <1>13 DEF SelectDueJobs, rowVars, handlerVars, IInv, TypeOK, Handlers, Legal,
     LegalStep
<1>14. CASE UpdateDueJobs
  BY <1>14 DEF UpdateDueJobs, DueJobs, handlerVars, IInv, TypeOK, Handlers, Legal,
     LegalStep
<1>15. CASE PushToChannel
  BY <1>15 DEF PushToChannel, rowVars, handlerVars, historyVars, IInv, TypeOK,
     Handlers, Legal, LegalStep
<1>16. CASE UNCHANGED vars
  BY <1>16 DEF vars, rowVars, handlerVars, historyVars, IInv, TypeOK, Handlers, Legal,
     LegalStep
<1>17. QED
  BY <1>1, <1>2, <1>3, <1>4, <1>5, <1>6, <1>7, <1>8, <1>9,
     <1>10, <1>11, <1>12, <1>13, <1>14, <1>15, <1>16
     DEF Next, StaffStep, PosterStep, Closer

\* For any number of handlers, external posts, deletions and failed statements, a job
\* that no two requests decided on at once moves only along the guards of
\* ChangeJobStatus (the closer's and the deletions' writes included).
THEOREM LegalForUncontested == Spec => LegalUnlessContested
<1>1. Init => FreshCopies /\ LoneDecisions
  BY DEF Init, FreshCopies, LoneDecisions, Handlers
<1>2. IInv /\ FreshCopies /\ LoneDecisions /\ [Next]_vars => FreshCopies'
  BY LifecycleAssumption, FreshCopiesKept
<1>3. IInv /\ FreshCopies /\ LoneDecisions /\ [Next]_vars => LoneDecisions'
  BY LifecycleAssumption, LoneDecisionsKept
<1>4. IInv /\ FreshCopies /\ [Next]_vars => [LegalStep]_status
  BY StepsAreLegal
<1>5. QED
  BY <1>1, <1>2, <1>3, <1>4, Invariance, PTL DEF Spec, LegalUnlessContested, LegalStep

-------------------------------------------------------------------------------
(* What a deletion and a round of the closer have listed *)

\* Between its select and its delete, DeleteUser's list holds every job of the user
\* that is still opened and has not slipped.
OwnersJobsListed ==
    \A s \in Staff : pc[s] \in {"close", "delete"} =>
        \A j \in Jobs : employer[j] = owner[s] /\ status[j] = "O" =>
            j \in slipped \/ (pc[s] = "close" /\ j \in work[s])

SlippedStep == \A u \in users \ users' : OpenedJobs(u) \subseteq slipped

\* What the closer selected is due and, unless two requests decided on it, opened or
\* closed; after the update it is closed.
ListIsDue ==
    /\ cpc = "update" => \A j \in listed :
          /\ status[j] # "none" /\ due[j] = "passed"
          /\ j \notin contested => status[j] \in {"O", "C"}
    /\ ListedAreClosed

\* Whoever opens a job meanwhile lets it slip.
LEMMA OwnersJobsListedKept ==
    ASSUME LifecycleAssumption, IInv, OwnersJobsListed, [Next]_vars
    PROVE  OwnersJobsListed'
<1>1. ASSUME NEW s \in Staff, HandleAddJobs(s) PROVE OwnersJobsListed'
  BY <1>1 DEF HandleAddJobs, Draft, historyVars, ValidateJob, FreeJobs, IInv, TypeOK,
     Handlers, OwnersJobsListed
<1>2. ASSUME NEW s \in Staff, AddJob(s) PROVE OwnersJobsListed'
  BY <1>2 DEF AddJob, Opened, AfterInserts, BeingDeleted, IInv, TypeOK, Handlers,
     OwnersJobsListed
<1>3. ASSUME NEW s \in Staff, PushForApproval(s) PROVE OwnersJobsListed'
  BY <1>3 DEF PushForApproval, rowVars, historyVars, IInv, TypeOK, Handlers,
     OwnersJobsListed
<1>4. ASSUME NEW s \in Staff, HandleChangeJobStatus(s) PROVE OwnersJobsListed'
  BY <1>4 DEF HandleChangeJobStatus, rowVars, IInv, TypeOK, Handlers, OwnersJobsListed
<1>5. ASSUME NEW s \in Staff, SaveStatus(s) PROVE OwnersJobsListed'
  BY <1>5 DEF SaveStatus, Opened, BeingDeleted, IInv, TypeOK, Handlers,
     OwnersJobsListed
<1>6. ASSUME NEW s \in Staff, HandleRePushJob(s) PROVE OwnersJobsListed'
  BY <1>6 DEF HandleRePushJob, rowVars, handlerVars, historyVars, IInv, TypeOK,
     Handlers, OwnersJobsListed
<1>7. ASSUME NEW s \in Staff, HandleDeleteUser(s) PROVE OwnersJobsListed'
  BY <1>7 DEF HandleDeleteUser, NextToClose, rowVars, OpenedJobs, IInv, TypeOK,
     Handlers, OwnersJobsListed
<1>8. ASSUME NEW s \in Staff, CloseJob(s) PROVE OwnersJobsListed'
  BY <1>8 DEF CloseJob, NextToClose, IInv, TypeOK, Handlers, OwnersJobsListed
<1>9. ASSUME NEW s \in Staff, DeleteUser(s) PROVE OwnersJobsListed'
  BY <1>9 DEF DeleteUser, historyVars, IInv, TypeOK, Handlers, OwnersJobsListed
<1>10. ASSUME NEW p \in Posters, HandleAddJobExternal(p) PROVE OwnersJobsListed'
  BY <1>10 DEF HandleAddJobExternal, Draft, historyVars, ValidateJob, FreeJobs, IInv,
     TypeOK, Handlers, OwnersJobsListed
<1>11. ASSUME NEW p \in Posters, AddPending(p) PROVE OwnersJobsListed'
  BY <1>11 DEF AddPending, historyVars, IInv, TypeOK, Handlers, OwnersJobsListed
<1>12. ASSUME NEW i \in Jobs, DueDatePasses(i) PROVE OwnersJobsListed'
  BY <1>12 DEF DueDatePasses, handlerVars, historyVars, IInv, TypeOK, Handlers,
     OwnersJobsListed
<1>13. CASE SelectDueJobs
  BY <1>13 DEF SelectDueJobs, rowVars, handlerVars, IInv, TypeOK, Handlers,
     OwnersJobsListed
<1>14. CASE UpdateDueJobs
  BY <1>14 DEF UpdateDueJobs, DueJobs, handlerVars, IInv, TypeOK, Handlers,
     OwnersJobsListed
<1>15. CASE PushToChannel
  BY <1>15 DEF PushToChannel, rowVars, handlerVars, historyVars, IInv, TypeOK,
     Handlers, OwnersJobsListed
<1>16. CASE UNCHANGED vars
  BY <1>16 DEF vars, rowVars, handlerVars, historyVars, IInv, TypeOK, Handlers,
     OwnersJobsListed
<1>17. QED
  BY <1>1, <1>2, <1>3, <1>4, <1>5, <1>6, <1>7, <1>8, <1>9,
     <1>10, <1>11, <1>12, <1>13, <1>14, <1>15, <1>16
     DEF Next, StaffStep, PosterStep, Closer

\* A user's row is deleted when the list of its opened jobs is used up.
LEMMA SlippedOutlive ==
    ASSUME IInv, OwnersJobsListed, [Next]_vars
    PROVE  SlippedStep
<1>1. ASSUME NEW s \in Staff, HandleAddJobs(s) PROVE SlippedStep
  BY <1>1 DEF HandleAddJobs, Draft, historyVars, IInv, TypeOK, Handlers, SlippedStep,
     OpenedJobs
<1>2. ASSUME NEW s \in Staff, AddJob(s) PROVE SlippedStep
  BY <1>2 DEF AddJob, Opened, AfterInserts, IInv, TypeOK, Handlers, SlippedStep,
     OpenedJobs
<1>3. ASSUME NEW s \in Staff, PushForApproval(s) PROVE SlippedStep
  BY <1>3 DEF PushForApproval, rowVars, historyVars, IInv, TypeOK, Handlers,
     SlippedStep, OpenedJobs
<1>4. ASSUME NEW s \in Staff, HandleChangeJobStatus(s) PROVE SlippedStep
  BY <1>4 DEF HandleChangeJobStatus, rowVars, IInv, TypeOK, Handlers, SlippedStep,
     OpenedJobs
<1>5. ASSUME NEW s \in Staff, SaveStatus(s) PROVE SlippedStep
  BY <1>5 DEF SaveStatus, Opened, IInv, TypeOK, Handlers, SlippedStep, OpenedJobs
<1>6. ASSUME NEW s \in Staff, HandleRePushJob(s) PROVE SlippedStep
  BY <1>6 DEF HandleRePushJob, rowVars, handlerVars, historyVars, IInv, TypeOK,
     Handlers, SlippedStep, OpenedJobs
<1>7. ASSUME NEW s \in Staff, HandleDeleteUser(s) PROVE SlippedStep
  BY <1>7 DEF HandleDeleteUser, NextToClose, rowVars, IInv, TypeOK, Handlers,
     SlippedStep, OpenedJobs
<1>8. ASSUME NEW s \in Staff, CloseJob(s) PROVE SlippedStep
  BY <1>8 DEF CloseJob, NextToClose, IInv, TypeOK, Handlers, SlippedStep, OpenedJobs
<1>9. ASSUME NEW s \in Staff, DeleteUser(s) PROVE SlippedStep
  BY <1>9 DEF DeleteUser, historyVars, OwnersJobsListed, IInv, TypeOK, Handlers,
     SlippedStep, OpenedJobs
<1>10. ASSUME NEW p \in Posters, HandleAddJobExternal(p) PROVE SlippedStep
  BY <1>10 DEF HandleAddJobExternal, Draft, historyVars, IInv, TypeOK, Handlers,
     SlippedStep, OpenedJobs
<1>11. ASSUME NEW p \in Posters, AddPending(p) PROVE SlippedStep
  BY <1>11 DEF AddPending, historyVars, IInv, TypeOK, Handlers, SlippedStep,
     OpenedJobs
<1>12. ASSUME NEW i \in Jobs, DueDatePasses(i) PROVE SlippedStep
  BY <1>12 DEF DueDatePasses, handlerVars, historyVars, IInv, TypeOK, Handlers,
     SlippedStep, OpenedJobs
<1>13. CASE SelectDueJobs
  BY <1>13 DEF SelectDueJobs, rowVars, handlerVars, IInv, TypeOK, Handlers,
     SlippedStep, OpenedJobs
<1>14. CASE UpdateDueJobs
  BY <1>14 DEF UpdateDueJobs, DueJobs, handlerVars, IInv, TypeOK, Handlers,
     SlippedStep, OpenedJobs
<1>15. CASE PushToChannel
  BY <1>15 DEF PushToChannel, rowVars, handlerVars, historyVars, IInv, TypeOK,
     Handlers, SlippedStep, OpenedJobs
<1>16. CASE UNCHANGED vars
  BY <1>16 DEF vars, rowVars, handlerVars, historyVars, IInv, TypeOK, Handlers,
     SlippedStep, OpenedJobs
<1>17. QED
  BY <1>1, <1>2, <1>3, <1>4, <1>5, <1>6, <1>7, <1>8, <1>9,
     <1>10, <1>11, <1>12, <1>13, <1>14, <1>15, <1>16
     DEF Next, StaffStep, PosterStep, Closer

\* A job the closer selected can only be closed by others, or two requests decide on it.
LEMMA ListIsDueKept ==
    ASSUME IInv, FreshCopies, ListIsDue, [Next]_vars
    PROVE  ListIsDue'
<1>1. ASSUME NEW s \in Staff, HandleAddJobs(s) PROVE ListIsDue'
  BY <1>1 DEF HandleAddJobs, Draft, historyVars, closerVars, ValidateJob, FreeJobs,
     IInv, TypeOK, Handlers, ListIsDue, ListedAreClosed
<1>2. ASSUME NEW s \in Staff, AddJob(s) PROVE ListIsDue'
  BY <1>2 DEF AddJob, Opened, AfterInserts, closerVars, DraftsAreFree, IInv, TypeOK,
     Handlers, ListIsDue, ListedAreClosed
<1>3. ASSUME NEW s \in Staff, PushForApproval(s) PROVE ListIsDue'
  BY <1>3 DEF PushForApproval, rowVars, historyVars, closerVars, IInv, TypeOK,
     Handlers, ListIsDue, ListedAreClosed
<1>4. ASSUME NEW s \in Staff, HandleChangeJobStatus(s) PROVE ListIsDue'
  BY <1>4 DEF HandleChangeJobStatus, rowVars, closerVars, IInv, TypeOK, Handlers,
     ListIsDue, ListedAreClosed
<1>5. ASSUME NEW s \in Staff, SaveStatus(s) PROVE ListIsDue'
  BY <1>5 DEF SaveStatus, Opened, closerVars, FreshCopies, SavesDecide, IInv, TypeOK,
     Handlers, ListIsDue, ListedAreClosed
<1>6. ASSUME NEW s \in Staff, HandleRePushJob(s) PROVE ListIsDue'
  BY <1>6 DEF HandleRePushJob, rowVars, handlerVars, historyVars, closerVars, IInv,
     TypeOK, Handlers, ListIsDue, ListedAreClosed
<1>7. ASSUME NEW s \in Staff, HandleDeleteUser(s) PROVE ListIsDue'
  BY <1>7 DEF HandleDeleteUser, NextToClose, rowVars, closerVars, IInv, TypeOK,
     Handlers, ListIsDue, ListedAreClosed
<1>8. ASSUME NEW s \in Staff, CloseJob(s) PROVE ListIsDue'
  BY <1>8 DEF CloseJob, NextToClose, closerVars, IInv, TypeOK, Handlers, ListIsDue,
     ListedAreClosed
<1>9. ASSUME NEW s \in Staff, DeleteUser(s) PROVE ListIsDue'
  BY <1>9 DEF DeleteUser, historyVars, closerVars, IInv, TypeOK, Handlers, ListIsDue,
     ListedAreClosed
<1>10. ASSUME NEW p \in Posters, HandleAddJobExternal(p) PROVE ListIsDue'
  BY <1>10 DEF HandleAddJobExternal, Draft, historyVars, closerVars, ValidateJob,
     FreeJobs, IInv, TypeOK, Handlers, ListIsDue, ListedAreClosed
<1>11. ASSUME NEW p \in Posters, AddPending(p) PROVE ListIsDue'
  BY <1>11 DEF AddPending, historyVars, closerVars, DraftsAreFree, IInv, TypeOK,
     Handlers, ListIsDue, ListedAreClosed
<1>12. ASSUME NEW i \in Jobs, DueDatePasses(i) PROVE ListIsDue'
  BY <1>12 DEF DueDatePasses, handlerVars, historyVars, closerVars, IInv, TypeOK,
     Handlers, ListIsDue, ListedAreClosed
<1>13. CASE SelectDueJobs
  BY <1>13 DEF SelectDueJobs, rowVars, handlerVars, closerVars, DueJobs, IInv, TypeOK,
     Handlers, ListIsDue, ListedAreClosed
<1>14. CASE UpdateDueJobs
  BY <1>14 DEF UpdateDueJobs, DueJobs, handlerVars, IInv, TypeOK, Handlers, ListIsDue,
     ListedAreClosed
<1>15. CASE PushToChannel
  BY <1>15 DEF PushToChannel, rowVars, handlerVars, historyVars, IInv, TypeOK,
     Handlers, ListIsDue, ListedAreClosed
<1>16. CASE UNCHANGED vars
  BY <1>16 DEF vars, rowVars, handlerVars, historyVars, closerVars, IInv, TypeOK,
     Handlers, ListIsDue, ListedAreClosed
<1>17. QED
  BY <1>1, <1>2, <1>3, <1>4, <1>5, <1>6, <1>7, <1>8, <1>9,
     <1>10, <1>11, <1>12, <1>13, <1>14, <1>15, <1>16
     DEF Next, StaffStep, PosterStep, Closer

\* Whatever overlaps and fails, the opened jobs that outlive their employer's row are
\* those opened after DeleteUser listed them and those it failed to list or close.
THEOREM DeletionMissesOnlySlipped == Spec => OnlySlippedOutlive
<1>1. Init => OwnersJobsListed
  BY DEF Init, OwnersJobsListed, Handlers
<1>2. IInv /\ OwnersJobsListed /\ [Next]_vars => OwnersJobsListed'
  BY LifecycleAssumption, OwnersJobsListedKept
<1>3. IInv /\ OwnersJobsListed /\ [Next]_vars => [SlippedStep]_users
  BY SlippedOutlive
<1>4. QED
  BY <1>1, <1>2, <1>3, Invariance, PTL DEF Spec, OnlySlippedOutlive, SlippedStep

\* For any number of handlers and whatever fails, a job the closer announces is closed,
\* unless two requests decided on it at once or the round's update failed.
THEOREM ClosedWhenAnnounced == Spec => []ListedAreClosed
<1>1. Init => FreshCopies /\ LoneDecisions /\ ListIsDue
  BY DEF Init, FreshCopies, LoneDecisions, ListIsDue, ListedAreClosed, Handlers
<1>2. IInv /\ FreshCopies /\ LoneDecisions /\ [Next]_vars => FreshCopies' /\ LoneDecisions'
  BY LifecycleAssumption, FreshCopiesKept, LoneDecisionsKept
<1>3. IInv /\ FreshCopies /\ ListIsDue /\ [Next]_vars => ListIsDue'
  BY ListIsDueKept
<1>4. ListIsDue => ListedAreClosed
  BY DEF ListIsDue
<1>5. QED
  BY <1>1, <1>2, <1>3, <1>4, Invariance, PTL DEF Spec
===============================================================================
