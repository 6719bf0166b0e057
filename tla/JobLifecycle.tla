----------------------------- MODULE JobLifecycle -----------------------------
(***************************************************************************)
(* The life of a job row: posted by a user (pending), added by staff       *)
(* (opened), approved, declined, closed by staff, closed by the closer     *)
(* when it is due, closed when its employer is deleted.  Every handler     *)
(* runs in a goroutine of its own and its database statements interleave   *)
(* with those of the others: the code opens no transaction.  A step is one *)
(* statement that reads or writes a row, or one call of AddToQueue.        *)
(***************************************************************************)
EXTENDS Naturals

CONSTANTS
    Jobs,       \* job ids
    Users,      \* users who may employ (ValidateJob refuses a job seeker)
    Nobody,     \* the employer of a job that staff posts for a third party
    Staff,      \* handlers that serve staff members' requests
    Posters,    \* handlers that serve the external posting form
    DbFails     \* whether a database statement may return an error

ASSUME LifecycleAssumption ==
    /\ Nobody \notin Users
    /\ Staff \cap Posters = {}
    /\ DbFails \in BOOLEAN

VARIABLES
    status,     \* jobs.status: P, O, C, D; none while there is no row
    employer,   \* jobs.employer of a row or of the draft it comes from
    due,        \* its due date: none, ahead or passed
    users,      \* the rows of the users table
    pc,         \* where each handler is
    work,       \* the jobs its current loop has still to deal with
    added,      \* the jobs a staff handler has inserted in its current loop
    target,     \* the status ChangeJobStatus is about to save, else P
    owner,      \* the user DeleteUser is deleting, else Nobody
    cpc,        \* where the closer is
    listed,     \* the jobs CloseDueJobs selected
    pushed,     \* the requests handed to the push queue so far
    contested,  \* history: jobs that two requests decided on while they were pending
    slipped,    \* history: jobs that a deletion of their employer missed or failed to close
    unclosed    \* history: jobs the closer listed in a round whose update failed

rowVars == <<status, employer, due, users>>
handlerVars == <<pc, work, added, target, owner>>
closerVars == <<cpc, listed>>
historyVars == <<contested, slipped, unclosed>>
vars == <<rowVars, handlerVars, closerVars, pushed, historyVars>>

Handlers == Staff \cup Posters
Statuses == {"P", "O", "C", "D"}
Request(type, j) == [type |-> type, value |-> j]

Init ==
    /\ status = [j \in Jobs |-> "none"]
    /\ employer = [j \in Jobs |-> Nobody]
    /\ due = [j \in Jobs |-> "none"]
    /\ users = Users
    /\ pc = [h \in Handlers |-> "idle"]
    /\ work = [h \in Handlers |-> {}]
    /\ added = [h \in Handlers |-> {}]
    /\ target = [h \in Handlers |-> "P"]
    /\ owner = [h \in Handlers |-> Nobody]
    /\ cpc = "sleep"
    /\ listed = {}
    /\ pushed = {}
    /\ contested = {}
    /\ slipped = {}
    /\ unclosed = {}

-------------------------------------------------------------------------------
(* Adding jobs *)

\* Ids that no row and no handler's draft uses.
FreeJobs == {j \in Jobs : status[j] = "none" /\ \A h \in Handlers : j \notin work[h]}

\* ValidateJob: the drafts js name one of the employers and a due date that,
\* when there is one, is at least three hours ahead.
ValidateJob(js, employers) ==
    \E e \in [js -> employers], d \in [js -> {"none", "ahead"}] :
        /\ employer' = [j \in Jobs |-> IF j \in js THEN e[j] ELSE employer[j]]
        /\ due' = [j \in Jobs |-> IF j \in js THEN d[j] ELSE due[j]]

Draft(h, js, employers) ==
    /\ pc[h] = "idle"
    /\ js # {}
    /\ ValidateJob(js, employers)
    /\ pc' = [pc EXCEPT ![h] = "insert"]
    /\ work' = [work EXCEPT ![h] = js]
    /\ UNCHANGED <<status, users, added, target, owner, closerVars, pushed, historyVars>>

\* HandleAddJob for one draft, HandleAddMultipleJobs for several.
HandleAddJobs(s) == \E js \in SUBSET FreeJobs : Draft(s, js, users \cup {Nobody})

\* HandleAddJobExternal: one draft, whose post type defaults to User.
HandleAddJobExternal(p) == \E j \in FreeJobs : Draft(p, {j}, users)

\* Faulty: a failed insert ends the request, whatever was added before it.
AfterInsertsGivingUp(h, left, done) ==
    LET next == IF done = added[h] \/ (left = {} /\ done = {}) THEN "idle"
                ELSE IF left # {} THEN "insert" ELSE "push"
    IN  /\ pc' = [pc EXCEPT ![h] = next]
        /\ work' = [work EXCEPT ![h] = IF next = "idle" THEN {}
                                       ELSE IF left # {} THEN left ELSE done]
        /\ added' = [added EXCEPT ![h] = IF next = "insert" THEN done ELSE {}]

\* The end of a loop of inserts: on to the pushes, of the jobs added.
AfterInserts(h, left, done) ==
    LET next == IF left # {} THEN "insert" ELSE IF done # {} THEN "push" ELSE "idle"
    IN  /\ pc' = [pc EXCEPT ![h] = next]
        /\ work' = [work EXCEPT ![h] = IF left # {} THEN left ELSE done]
        /\ added' = [added EXCEPT ![h] = IF left # {} THEN done ELSE {}]

\* Whether some request is deleting the employer of j and has listed its jobs.
BeingDeleted(j) ==
    \E h \in Staff : pc[h] \in {"close", "delete"} /\ owner[h] = employer[j]

\* Job j is opened, late for a deletion that has listed the jobs of its employer.
Opened(j) ==
    /\ status' = [status EXCEPT ![j] = "O"]
    /\ slipped' = IF BeingDeleted(j) THEN slipped \cup {j} ELSE slipped

\* AddJob, called by a staff handler for the next draft of its map.
AddJob(s) ==
    /\ pc[s] = "insert"
    /\ \E j \in work[s] :
        \/ /\ Opened(j)
           /\ AfterInserts(s, work[s] \ {j}, added[s] \cup {j})
        \/ /\ DbFails
           /\ AfterInserts(s, work[s] \ {j}, added[s])
           /\ UNCHANGED <<status, slipped>>
    /\ UNCHANGED <<employer, due, users, target, owner, closerVars, pushed, contested, unclosed>>

\* AddJob, called for the external form: pending, and nothing is pushed.
AddPending(p) ==
    /\ pc[p] = "insert"
    /\ \E j \in work[p] :
        \/ status' = [status EXCEPT ![j] = "P"]
        \/ DbFails /\ UNCHANGED status
    /\ pc' = [pc EXCEPT ![p] = "idle"]
    /\ work' = [work EXCEPT ![p] = {}]
    /\ UNCHANGED <<employer, due, users, added, target, owner, closerVars, pushed, historyVars>>

\* The requests for approval, one job at a time.
PushForApproval(s) ==
    /\ pc[s] = "push"
    /\ \E j \in work[s] :
        /\ pushed' = pushed \cup {Request("Approval", j)}
        /\ work' = [work EXCEPT ![s] = @ \ {j}]
        /\ pc' = [pc EXCEPT ![s] = IF work[s] = {j} THEN "idle" ELSE "push"]
    /\ UNCHANGED <<rowVars, added, target, owner, closerVars, historyVars>>

-------------------------------------------------------------------------------
(* Changing the status of a job *)

\* Faulty: the guard forgets that an opened job can only be closed.
MayChangeFreely(from, to) == from \in {"P", "O"} /\ to \in {"O", "D", "C"} \ {from}

MayChange(from, to) ==
    \/ from = "P" /\ to \in {"O", "D"}
    \/ from = "O" /\ to = "C"

\* Faulty: the form's word is saved in the place of the status it stands for.
HandleChangeJobStatusUntranslated(s) ==
    /\ pc[s] = "idle"
    /\ \E j \in Jobs, to \in {"approve", "decline", "close"} :
        /\ status[j] \in {"P", "O"}
        /\ work' = [work EXCEPT ![s] = {j}]
        /\ target' = [target EXCEPT ![s] = to]
    /\ pc' = [pc EXCEPT ![s] = "save"]
    /\ UNCHANGED <<rowVars, added, owner, closerVars, pushed, historyVars>>

\* Faulty: the request is queued before the new status is saved.
HandleChangeJobStatusPushingFirst(s) ==
    /\ pc[s] = "idle"
    /\ \E j \in Jobs, to \in Statuses :
        /\ MayChange(status[j], to)
        /\ work' = [work EXCEPT ![s] = {j}]
        /\ target' = [target EXCEPT ![s] = to]
        /\ pushed' = pushed \cup {Request("Approval", j)}
    /\ pc' = [pc EXCEPT ![s] = "save"]
    /\ UNCHANGED <<rowVars, added, owner, closerVars, historyVars>>

\* Whether another request is about to save a decision on j.
DecidedByOther(s, j) == \E h \in Staff \ {s} : pc[h] = "save" /\ j \in work[h]

\* ChangeJobStatus reads the row; a change it may not make ends the request.
HandleChangeJobStatus(s) ==
    /\ pc[s] = "idle"
    /\ \E j \in Jobs, to \in Statuses :
        /\ MayChange(status[j], to)
        /\ work' = [work EXCEPT ![s] = {j}]
        /\ target' = [target EXCEPT ![s] = to]
        /\ contested' = IF status[j] = "P" /\ DecidedByOther(s, j)
                        THEN contested \cup {j} ELSE contested
    /\ pc' = [pc EXCEPT ![s] = "save"]
    /\ UNCHANGED <<rowVars, added, owner, closerVars, pushed, slipped, unclosed>>

\* The job is saved whole, with the new status, whatever the row holds now.
SaveStatus(s) ==
    /\ pc[s] = "save"
    /\ \/ /\ \E j \in work[s] :
                IF target[s] = "O" THEN Opened(j)
                ELSE status' = [status EXCEPT ![j] = target[s]] /\ UNCHANGED slipped
          /\ pc' = [pc EXCEPT ![s] = "push"]
          /\ UNCHANGED work
       \/ /\ DbFails
          /\ pc' = [pc EXCEPT ![s] = "idle"]
          /\ work' = [work EXCEPT ![s] = {}]
          /\ UNCHANGED <<status, slipped>>
    /\ target' = [target EXCEPT ![s] = "P"]
    /\ UNCHANGED <<employer, due, users, added, owner, closerVars, pushed, contested, unclosed>>

\* HandleRePushJob: any job that has a row; rows are never deleted, so the
\* look-up and the push are one step.
HandleRePushJob(s) ==
    /\ pc[s] = "idle"
    /\ \E j \in Jobs :
        /\ status[j] # "none"
        /\ pushed' = pushed \cup {Request("Channel", j)}
    /\ UNCHANGED <<rowVars, handlerVars, closerVars, historyVars>>

-------------------------------------------------------------------------------
(* Deleting a user *)

\* The end of the loop that closes a user's jobs: on to the user's row.
NextToClose(h, left) ==
    /\ work' = [work EXCEPT ![h] = left]
    /\ pc' = [pc EXCEPT ![h] = IF left = {} THEN "delete" ELSE "close"]

OpenedJobs(u) == {j \in Jobs : status[j] = "O" /\ employer[j] = u}

\* DeleteUser selects the user's jobs and keeps the opened ones; a failed
\* select reads as no jobs.
HandleDeleteUser(s) ==
    /\ pc[s] = "idle"
    /\ \E u \in Users :
        /\ owner' = [owner EXCEPT ![s] = u]
        /\ \/ NextToClose(s, OpenedJobs(u)) /\ UNCHANGED slipped
           \/ DbFails /\ NextToClose(s, {}) /\ slipped' = slipped \cup OpenedJobs(u)
    /\ UNCHANGED <<rowVars, added, target, closerVars, pushed, contested, unclosed>>

\* Faulty: the first opened job is closed and the others are left.
CloseJobOnce(s) ==
    /\ pc[s] = "close"
    /\ \E j \in work[s] :
        /\ \/ status' = [status EXCEPT ![j] = "C"] /\ UNCHANGED slipped
           \/ DbFails /\ slipped' = slipped \cup {j} /\ UNCHANGED status
        /\ NextToClose(s, {})
    /\ UNCHANGED <<employer, due, users, added, target, owner, closerVars, pushed, contested, unclosed>>

\* UpdateValue(job, "status", Closed), whose error nobody reads.
CloseJob(s) ==
    /\ pc[s] = "close"
    /\ \E j \in work[s] :
        /\ \/ status' = [status EXCEPT ![j] = "C"] /\ UNCHANGED slipped
           \/ DbFails /\ slipped' = slipped \cup {j} /\ UNCHANGED status
        /\ NextToClose(s, work[s] \ {j})
    /\ UNCHANGED <<employer, due, users, added, target, owner, closerVars, pushed, contested, unclosed>>

\* userRepo.Delete: nothing is pushed for the jobs that were closed.
DeleteUser(s) ==
    /\ pc[s] = "delete"
    /\ \/ users' = users \ {owner[s]}
       \/ DbFails /\ UNCHANGED users
    /\ pc' = [pc EXCEPT ![s] = "idle"]
    /\ owner' = [owner EXCEPT ![s] = Nobody]
    /\ UNCHANGED <<status, employer, due, work, added, target, closerVars, pushed, historyVars>>

-------------------------------------------------------------------------------
(* The closer and the clock *)

\* The due date passes the time of the closer's next look: CloseDueJobs uses
\* one reading of the clock for its two statements.
DueDatePasses(j) ==
    /\ due[j] = "ahead" /\ status[j] # "none" /\ cpc # "update"
    /\ due' = [due EXCEPT ![j] = "passed"]
    /\ UNCHANGED <<status, employer, users, handlerVars, closerVars, pushed, historyVars>>

\* Faulty: the jobs of users only, as a join with their table would select.
DueJobsOfUsers ==
    {j \in Jobs : status[j] = "O" /\ due[j] = "passed" /\ employer[j] \in users}

DueJobs == {j \in Jobs : status[j] = "O" /\ due[j] = "passed"}

\* Faulty: the jobs are selected whatever their status.
SelectDueJobsOfAnyStatus ==
    /\ cpc = "sleep"
    /\ listed' = {j \in Jobs : status[j] # "none" /\ due[j] = "passed"}
    /\ cpc' = "update"
    /\ unclosed' = {}
    /\ UNCHANGED <<rowVars, handlerVars, pushed, contested, slipped>>

\* CloseDueJobs, its SELECT: an error ends the round with no jobs.
SelectDueJobs ==
    /\ cpc = "sleep"
    /\ \/ listed' = DueJobs /\ cpc' = "update"
       \/ DbFails /\ UNCHANGED closerVars
    /\ unclosed' = {}
    /\ UNCHANGED <<rowVars, handlerVars, pushed, contested, slipped>>

\* CloseDueJobs, its UPDATE: every job due by now, listed or not; an error
\* of it goes unnoticed.
UpdateDueJobs ==
    /\ cpc = "update"
    /\ \/ /\ status' = [j \in Jobs |-> IF j \in DueJobs THEN "C" ELSE status[j]]
          /\ UNCHANGED unclosed
       \/ DbFails /\ unclosed' = listed /\ UNCHANGED status
    /\ cpc' = IF listed = {} THEN "sleep" ELSE "push"
    /\ UNCHANGED <<employer, due, users, handlerVars, listed, pushed, contested, slipped>>

\* HandleCloseable, its loop over the jobs it was returned.
PushToChannel ==
    /\ cpc = "push"
    /\ \E j \in listed :
        /\ pushed' = pushed \cup {Request("Channel", j)}
        /\ listed' = listed \ {j}
        /\ cpc' = IF listed = {j} THEN "sleep" ELSE "push"
    /\ UNCHANGED <<rowVars, handlerVars, historyVars>>
-------------------------------------------------------------------------------

StaffStep(s) ==
    \/ HandleAddJobs(s) \/ AddJob(s) \/ PushForApproval(s)
    \/ HandleChangeJobStatus(s) \/ SaveStatus(s) \/ HandleRePushJob(s)
    \/ HandleDeleteUser(s) \/ CloseJob(s) \/ DeleteUser(s)

PosterStep(p) == HandleAddJobExternal(p) \/ AddPending(p)

Closer == SelectDueJobs \/ UpdateDueJobs \/ PushToChannel

Next ==
    \/ \E s \in Staff : StaffStep(s)
    \/ \E p \in Posters : PosterStep(p)
    \/ \E j \in Jobs : DueDatePasses(j)
    \/ Closer

Spec == Init /\ [][Next]_vars

\* The closer's loop goes round as long as the server runs; nothing is
\* assumed of the handlers, which act when requests come.
LiveSpec == Spec /\ WF_vars(Closer)
-------------------------------------------------------------------------------
(* Properties *)

TypeOK ==
    /\ status \in [Jobs -> Statuses \cup {"none"}]
    /\ employer \in [Jobs -> Users \cup {Nobody}]
    /\ due \in [Jobs -> {"none", "ahead", "passed"}]
    /\ users \in SUBSET Users
    /\ pc \in [Handlers -> {"idle", "insert", "save", "push", "close", "delete"}]
    /\ work \in [Handlers -> SUBSET Jobs]
    /\ added \in [Handlers -> SUBSET Jobs]
    /\ target \in [Handlers -> Statuses]
    /\ owner \in [Handlers -> Users \cup {Nobody}]
    /\ cpc \in {"sleep", "update", "push"}
    /\ listed \in SUBSET Jobs
    /\ pushed \in SUBSET [type : {"Approval", "Channel"}, value : Jobs]
    /\ contested \in SUBSET Jobs
    /\ slipped \in SUBSET Jobs
    /\ unclosed \in SUBSET Jobs

Decided(j) == status[j] \in {"O", "C", "D"}

\* A handler has the push of j before it, once its inserts are done.
AboutToPush(h, j) ==
    \/ pc[h] = "push" /\ j \in work[h]
    \/ pc[h] = "insert" /\ j \in added[h]

\* Every job that staff opened, approved or declined is pushed for approval
\* by the handler that did it, also when other inserts of the same request
\* failed: a decision that nobody is told of is never left behind.
EveryDecisionPushed ==
    \A j \in Jobs : Decided(j) =>
        \/ Request("Approval", j) \in pushed
        \/ \E s \in Staff : AboutToPush(s, j)

\* The bot is asked to announce only jobs a decision was saved for: a job
\* still pending, or without a row, has no approval request in the queue,
\* whatever the handlers and failures around it.
OnlyDecidedPushed ==
    \A j \in Jobs : Request("Approval", j) \in pushed => Decided(j)

\* "unable to perform operation" (service.job.go:384-395): a job's status moves only
\* along the guards of ChangeJobStatus.
Legal(j) ==
    status'[j] # status[j] =>
        <<status[j], status'[j]>> \in
            {<<"none", "P">>, <<"none", "O">>, <<"P", "O">>, <<"P", "D">>, <<"O", "C">>}
LegalTransitions == [][\A j \in Jobs : Legal(j)]_status

\* It does for every job that no two requests decided on at once: neither closer nor
\* deletions, external posts, failed statements, nor changes of opened jobs by any
\* number of handlers can come between a guard and its save to any effect.
LegalUnlessContested == [][\A j \in Jobs \ contested' : Legal(j)]_status

\* "Closing opened jobs of a user" (service.user.go:254): when DeleteUser removes the
\* user's row, the user has no opened job.
ClosedBeforeDeletion == [][\A u \in users \ users' : OpenedJobs(u) = {}]_users

\* The opened jobs that do outlive their employer are those that were opened after the
\* deletion had listed its jobs, and those it failed to list or to close.
OnlySlippedOutlive == [][\A u \in users \ users' : OpenedJobs(u) \subseteq slipped]_users

\* The closer announces closed jobs: unless two requests decided on it at once or the
\* round's update failed, each job still on its list is closed, whatever staff has done
\* to it since it was selected, and none is opened again before its announcement.
ListedAreClosed ==
    cpc = "push" => \A j \in listed \ (contested \cup unclosed) : status[j] = "C"

\* An opened job whose due date has passed does not stay open.
DueJobsClose ==
    \A j \in Jobs : status[j] = "O" /\ due[j] = "passed" ~> status[j] # "O"
===============================================================================
