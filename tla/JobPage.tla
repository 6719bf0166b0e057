------------------------------- MODULE JobPage --------------------------------
(***************************************************************************)
(* The details of a job and the dialog that changes its status, on the     *)
(* page that lists the jobs.  Requests are under way for as long as they   *)
(* like and are answered in any order; both dialogs can be dismissed with  *)
(* a request under way, and the link that confirms a change can be clicked *)
(* twice.  The rows of the table can be clicked whenever no dialog covers  *)
(* them: the overlay of ListPage is lifted by any answer.                  *)
(***************************************************************************)
EXTENDS Naturals, Sequences, SequencesExt

CONSTANTS
    Jobs,       \* the jobs of the table
    Pending,    \* those that are pending at first
    Opened,     \* those that are opened at first, the others are closed
    Shared,     \* those that others change, too
    ListFilters,\* the statuses the table is asked for, "none" for all
    NoJob,      \* an empty #view-job-id
    MaxCalls    \* bound: requests under way at once, with those of others

ASSUME JobPageAssumption ==
    /\ Pending \subseteq Jobs /\ Opened \subseteq Jobs /\ Shared \subseteq Jobs
    /\ ListFilters \subseteq {"none", "P", "O", "D", "C"}
    /\ NoJob \notin Jobs
    /\ MaxCalls \in Nat \ {0}

VARIABLES
    status,     \* the server's jobs.status
    row,        \* the status and the menu of each job's row
    viewing,    \* whether the details are open
    details,    \* what they show: id and its colour, whose fields, which parts
    confirming, \* whether the dialog is open
    dialog,     \* the change it asks about, and whether an error took its place
    calls,      \* the requests under way, and the changes of others
    crossed,    \* history: two questions for details have been under way at once
    contested   \* history: two requests decided on these jobs while they were pending

jobVars == <<status, row, viewing, details, confirming, dialog, calls, crossed, contested>>

Statuses == {"P", "O", "D", "C"}
NoStatus == "none"
NoRow == [is |-> NoStatus, menu |-> NoStatus]

\* What the menu of a row, or the buttons under the details, may lead to.
Offers(s) == CASE s = "P" -> {"O", "D"} [] s = "O" -> {"C"} [] OTHER -> {}
MenuOf(s) == IF Offers(s) = {} THEN NoStatus ELSE s
RowOf(s) == [is |-> s, menu |-> MenuOf(s)]

\* The guard of the server, see JobLifecycle.
MayBecome(from, to) == to \in Offers(from)

Closed == [job |-> NoJob, to |-> NoStatus, from |-> "search", error |-> FALSE]

JobPageInit ==
    /\ status = [j \in Jobs |-> IF j \in Pending THEN "P" ELSE IF j \in Opened THEN "O" ELSE "C"]
    /\ row = [j \in Jobs |-> RowOf(status[j])]
    /\ viewing = FALSE
    /\ details = [id |-> NoJob, colour |-> NoStatus, of |-> NoJob, shown |-> TRUE, footer |-> FALSE]
    /\ confirming = FALSE
    /\ dialog = Closed
    /\ calls = <<>>
    /\ crossed = FALSE
    /\ contested = {}

NewCall(op, j, to, from, phase) ==
    /\ Len(calls) < MaxCalls
    /\ calls' = Append(calls, [op |-> op, job |-> j, to |-> to, from |-> from,
                               phase |-> phase, news |-> <<>>])
Call(op, j, to, from) == NewCall(op, j, to, from, "sent")
UnderWay(op) == \E i \in DOMAIN calls : calls[i].op = op

-------------------------------------------------------------------------------
(* What the staff member does. *)

\* Faulty: the buttons of the last job stay until the next one arrives.
ViewJobBelowButtons(j) ==
    /\ ~viewing /\ ~confirming /\ row[j] # NoRow
    /\ viewing' = TRUE
    /\ details' = [details EXCEPT !.id = NoJob, !.colour = NoStatus, !.of = NoJob]
    /\ crossed' = UnderWay("view")
    /\ Call("view", j, NoStatus, "search")
    /\ UNCHANGED <<status, row, confirming, dialog, contested>>

\* The eye of a row.  The border keeps its colour, of no meaning without an id.
ViewJob(j) ==
    /\ ~viewing /\ ~confirming /\ row[j] # NoRow
    /\ viewing' = TRUE
    /\ details' = [details EXCEPT !.id = NoJob, !.colour = NoStatus, !.of = NoJob,
                                   !.footer = FALSE]
    /\ crossed' = UnderWay("view")
    /\ Call("view", j, NoStatus, "search")
    /\ UNCHANGED <<status, row, confirming, dialog, contested>>

DismissView ==
    /\ viewing /\ ~confirming
    /\ viewing' = FALSE
    /\ UNCHANGED <<status, row, details, confirming, dialog, calls, crossed, contested>>

InitChangeJobStatus(j, to, from) ==
    /\ confirming' = TRUE
    /\ dialog' = [job |-> j, to |-> to, from |-> from, error |-> FALSE]
    /\ UNCHANGED <<status, row, viewing, details, calls, crossed, contested>>

\* From the menu of a row, or from the buttons under the details.
ChangeFromRow(j) ==
    /\ ~viewing /\ ~confirming
    /\ \E to \in Offers(row[j].menu) : InitChangeJobStatus(j, to, "search")

ChangeFromView ==
    /\ viewing /\ ~confirming /\ details.footer
    /\ \E to \in Offers("P") : InitChangeJobStatus(details.id, to, "view")

DismissDialog ==
    /\ confirming
    /\ confirming' = FALSE
    /\ dialog' = Closed
    /\ UNCHANGED <<status, row, viewing, details, calls, crossed, contested>>

\* "Proceed" is a link: the disabled property does not keep it from a second click.
ChangeJobStatus ==
    /\ confirming /\ ~dialog.error
    /\ Call("change", dialog.job, dialog.to, dialog.from)
    /\ UNCHANGED <<status, row, viewing, details, confirming, dialog, crossed, contested>>

\* ListPage asks for the table, of all jobs or of those with one status.
ListJobs(s) ==
    /\ Call("list", NoJob, s, "search")
    /\ UNCHANGED <<status, row, viewing, details, confirming, dialog, crossed, contested>>

-------------------------------------------------------------------------------
(* The server. *)

\* Nobody waits for the reply to a change of another's, or to one the page gave up.
Replied(i, phase, news) ==
    calls' = IF calls[i].from = "others" THEN RemoveAt(calls, i)
             ELSE [calls EXCEPT ![i].phase = phase, ![i].news = news]

serverOnly == <<row, viewing, details, confirming, dialog, crossed>>

Answer(i) ==
    LET c == calls[i]
        Listed == {j \in Jobs : c.to \in {NoStatus, status[j]}}
    IN  /\ i \in DOMAIN calls /\ c.phase = "sent"
        /\ \/ c.op = "view" /\ Replied(i, "done", [j \in {c.job} |-> status[j]])
           \/ c.op = "list" /\ Replied(i, "done", [j \in Listed |-> status[j]])
        /\ UNCHANGED <<status, contested, serverOnly>>

\* The jobs decided on by two requests, once the i-th has read job j.
Contest(i, j) ==
    contested' = IF status[j] = "P" /\ \E k \in DOMAIN calls \ {i} :
                        calls[k].op = "change" /\ calls[k].phase = "read" /\ calls[k].job = j
                 THEN contested \cup {j} ELSE contested

\* ChangeJobStatus reads the row; a change it may not make is refused.
ReadJob(i) ==
    LET c == calls[i]
    IN  /\ i \in DOMAIN calls /\ c.phase = "sent" /\ c.op = "change"
        /\ \/ /\ MayBecome(status[c.job], c.to)
              /\ calls' = [calls EXCEPT ![i].phase = "read"]
              /\ Contest(i, c.job)
           \/ /\ ~MayBecome(status[c.job], c.to)
              /\ Replied(i, "refused", <<>>)
              /\ UNCHANGED contested
        /\ UNCHANGED <<status, serverOnly>>

\* The job is saved whole, whatever the row holds by now, or the save fails.
SaveJob(i) ==
    LET c == calls[i]
    IN  /\ i \in DOMAIN calls /\ c.phase = "read"
        /\ \/ /\ status' = [status EXCEPT ![c.job] = c.to]
              /\ Replied(i, "done", [j \in {c.job} |-> c.to])
           \/ /\ Replied(i, "refused", <<>>)
              /\ UNCHANGED status
        /\ UNCHANGED <<contested, serverOnly>>

\* Another staff member's change, from where the server has read the row.
OthersChange(j) ==
    /\ j \in Shared
    /\ \E to \in Offers(status[j]) : NewCall("change", j, to, "others", "read")
    /\ Contest(0, j)
    /\ UNCHANGED <<status, serverOnly>>

\* The closer, or the deletion of the employer, which writes to what was opened when
\* it was listed.
OthersClose(j) ==
    /\ j \in Shared
    /\ status[j] = "O" \/ (j \in contested /\ status[j] = "D")
    /\ status' = [status EXCEPT ![j] = "C"]
    /\ UNCHANGED <<calls, contested, serverOnly>>

-------------------------------------------------------------------------------
(* Answers. *)

Heard(i, phases) ==
    /\ i \in DOMAIN calls /\ calls[i].phase \in phases
    /\ calls[i].from # "others"
    /\ UNCHANGED <<status, viewing, crossed, contested>>

Answered(i, phases) == Heard(i, phases) /\ calls' = RemoveAt(calls, i)

\* setViewDisplay shows the buttons for a pending job; it never hides them.
Viewed(i) ==
    LET j == calls[i].job
    IN  /\ Answered(i, {"done"})
        /\ calls[i].op = "view"
        /\ details' = [id |-> j, of |-> j, colour |-> calls[i].news[j], shown |-> TRUE,
                       footer |-> details.footer \/ calls[i].news[j] = "P"]
        /\ UNCHANGED <<row, confirming, dialog>>

\* Faulty: the row takes the status the dialog asks about by now.
ChangedByDialog(i) ==
    LET c == calls[i]
    IN  /\ Answered(i, {"done"})
        /\ c.op = "change"
        /\ row' = IF row[c.job] = NoRow \/ ~confirming THEN row
                  ELSE [row EXCEPT ![c.job] = RowOf(dialog.to)]
        /\ confirming' = FALSE
        /\ dialog' = Closed
        /\ details' = IF c.from = "view" THEN [details EXCEPT !.footer = FALSE] ELSE details

\* Status and menu of the row are replaced; a row without a menu gets none, and
\* there may be no row any more.  The dialog closes, whatever it asks by now.
Changed(i) ==
    LET c == calls[i]
        r == row[c.job]
    IN  /\ Answered(i, {"done"})
        /\ c.op = "change"
        /\ row' = IF r = NoRow THEN row
                  ELSE [row EXCEPT ![c.job].is = c.to,
                                   ![c.job].menu = IF r.menu = NoStatus THEN NoStatus ELSE MenuOf(c.to)]
        /\ confirming' = FALSE
        /\ dialog' = Closed
        /\ details' = IF c.from = "view"
                      THEN [details EXCEPT !.id = c.job, !.colour = c.to, !.footer = FALSE]
                      ELSE details

Listed(i) ==
    /\ Answered(i, {"done"})
    /\ calls[i].op = "list"
    /\ row' = [j \in Jobs |-> IF j \in DOMAIN calls[i].news THEN RowOf(calls[i].news[j]) ELSE NoRow]
    /\ UNCHANGED <<details, confirming, dialog>>

\* The session is over: the login page, or the empty answer to a change, is no JSON,
\* and each handler throws before it touches details, dialog or table.
JobSignedOut(i) ==
    /\ Answered(i, {"sent"})
    /\ UNCHANGED <<row, details, confirming, dialog>>

\* The server goes on with a change it has begun when the page gives it up; one it has
\* yet to begin is, from then on, a change like another's.
LeftBehind(i) ==
    IF calls[i].phase = "read" THEN [calls EXCEPT ![i].from = "others"] ELSE RemoveAt(calls, i)

\* A refusal, or a request or an answer that was lost: an error page in the
\* place of the details, the question or the table.
JobCallFailed(i) ==
    LET op == calls[i].op
    IN  /\ Heard(i, {"sent", "read", "done", "refused"})
        /\ calls' = LeftBehind(i)
        /\ details' = IF op = "view" THEN [details EXCEPT !.shown = FALSE] ELSE details
        /\ dialog' = IF op = "change" /\ confirming THEN [dialog EXCEPT !.error = TRUE] ELSE dialog
        /\ row' = IF op = "list" THEN [j \in Jobs |-> NoRow] ELSE row
        /\ UNCHANGED confirming

JobPageNext ==
    \/ \E j \in Jobs : ViewJob(j) \/ ChangeFromRow(j) \/ OthersChange(j) \/ OthersClose(j)
    \/ DismissView
    \/ ChangeFromView
    \/ DismissDialog
    \/ ChangeJobStatus
    \/ \E s \in ListFilters : ListJobs(s)
    \/ \E i \in 1 .. MaxCalls :
        \/ Answer(i) \/ ReadJob(i) \/ SaveJob(i)
        \/ Viewed(i) \/ Changed(i) \/ Listed(i) \/ JobSignedOut(i) \/ JobCallFailed(i)

-------------------------------------------------------------------------------
(* Properties. *)

JobPageTypeOK ==
    /\ status \in [Jobs -> Statuses]
    /\ row \in [Jobs -> [is : Statuses \cup {NoStatus}, menu : {"P", "O", NoStatus}]]
    /\ details \in [id : Jobs \cup {NoJob}, colour : Statuses \cup {NoStatus},
                    of : Jobs \cup {NoJob}, shown : BOOLEAN, footer : BOOLEAN]
    /\ dialog \in [job : Jobs \cup {NoJob}, to : Statuses \cup {NoStatus},
                   from : {"view", "search"}, error : BOOLEAN]
    /\ {viewing, confirming, crossed} \subseteq BOOLEAN
    /\ Len(calls) <= MaxCalls
    /\ contested \in SUBSET Jobs

\* Approve and Decline under the details act on the job whose fields are
\* shown, even after details, changes and lists were answered out of order;
\* and unless two jobs were looked up at once, the fields do show and the
\* colour says the job is pending.
FooterActsOnShown ==
    details.footer =>
        /\ details.id \in Jobs /\ details.id = details.of
        /\ crossed \/ (details.shown /\ details.colour = "P")

\* Whatever is answered when, no row claims a decision the server has not taken, unless
\* two requests decided on the job at once and each was told that it was done; and a
\* row offers what its own status allows or nothing.
NoDecisionInvented ==
    /\ \A j \in Jobs \ contested :
           row[j].is \in {NoStatus, "P", status[j]} \/ (row[j].is = "O" /\ status[j] = "C")
    /\ \A j \in Jobs : row[j].menu \in {NoStatus, row[j].is}

===============================================================================
