---------------------------- MODULE AttributePage -----------------------------
(***************************************************************************)
(* Job sectors, types and education levels: the page with a table of each, *)
(* the row in which a new name is typed, the dialog that deletes one, and  *)
(* the handlers of the server, which looks a name up and inserts it in two *)
(* statements.  Other staff members send requests, too, whose answers are  *)
(* shown elsewhere.                                                        *)
(***************************************************************************)
EXTENDS Naturals, Sequences, SequencesExt

CONSTANTS
    Categories, \* "sector", "type", "level"
    Names,      \* names of attributes
    MaxRequests,\* bound: requests under way at once
    MaxSame     \* bound: rows of one name

ASSUME AttributeAssumption == {MaxRequests, MaxSame} \subseteq Nat \ {0}

VARIABLES
    stored,     \* how many rows of its table have a name
    newRow,     \* the row for a new name: "none", "typing" or "busy"
    deleting,   \* whether the button of the delete dialog is disabled
    requests,   \* the requests under way
    together,   \* history: the categories of which two adds have been under way at once
    rowsStuck   \* history: those whose row an answer to a session that is over left busy

attributeVars == <<stored, newRow, deleting, requests, together, rowsStuck>>

AttributePageInit ==
    /\ stored = [c \in Categories |-> [n \in Names |-> 0]]
    /\ newRow = [c \in Categories |-> "none"]
    /\ deleting = FALSE
    /\ requests = <<[op |-> "all", mine |-> TRUE, c |-> "none", n |-> "none", phase |-> "sent"]>>
    /\ together = {}
    /\ rowsStuck = {}

AddUnderWay(c) == \E i \in DOMAIN requests : requests[i].op = "add" /\ requests[i].c = c

Request(op, mine, c, n) ==
    [op |-> op, mine |-> mine, c |-> c, n |-> n, phase |-> "sent"]
All == Request("all", TRUE, "none", "none")

Submit(q) ==
    /\ Len(requests) < MaxRequests
    /\ requests' = Append(requests, q)
    /\ together' = IF q.op = "add" /\ AddUnderWay(q.c) THEN together \cup {q.c} ELSE together

-------------------------------------------------------------------------------
(* What the staff member does. *)

\* A row that waits for its answer stays; any other is replaced by an empty one.
InitAddJobAttribute(c) ==
    /\ newRow[c] # "busy"
    /\ newRow' = [newRow EXCEPT ![c] = "typing"]
    /\ UNCHANGED <<stored, deleting, requests, together, rowsStuck>>

AddJobAttribute(c, n) ==
    /\ newRow[c] = "typing"
    /\ newRow' = [newRow EXCEPT ![c] = "busy"]
    /\ Submit(Request("add", TRUE, c, n))
    /\ UNCHANGED <<stored, deleting, rowsStuck>>

CancelNewRow(c) ==
    /\ newRow[c] = "typing"
    /\ newRow' = [newRow EXCEPT ![c] = "none"]
    /\ UNCHANGED <<stored, deleting, requests, together, rowsStuck>>

\* The dialog can be dismissed and opened for another row; its button stays.
\* The table may show a row that is deleted already.
DeleteAttribute(c, n) ==
    /\ ~deleting
    /\ deleting' = TRUE
    /\ Submit(Request("delete", TRUE, c, n))
    /\ UNCHANGED <<stored, newRow, rowsStuck>>

OthersAsk(op, c, n) ==
    /\ Submit(Request(op, FALSE, c, n))
    /\ UNCHANGED <<stored, newRow, deleting, rowsStuck>>

-------------------------------------------------------------------------------
(* The server. *)

Reach(i, op, from, to) ==
    /\ i \in DOMAIN requests /\ requests[i].op = op /\ requests[i].phase = from
    /\ requests' = [requests EXCEPT ![i].phase = to]
    /\ UNCHANGED <<newRow, deleting, together, rowsStuck>>

\* Faulty: the name is not looked up.
ValidateNothing(i) ==
    /\ Reach(i, "add", "sent", "valid")
    /\ UNCHANGED stored

ValidateJobAttribute(i) ==
    LET q == requests[i]
    IN  /\ \/ Reach(i, "add", "sent", "valid") /\ stored[q.c][q.n] = 0
           \/ Reach(i, "add", "sent", "refused") /\ stored[q.c][q.n] > 0
        /\ UNCHANGED stored

CreateJobAttribute(i) ==
    LET q == requests[i]
    IN  /\ Reach(i, "add", "valid", "done")
        /\ stored[q.c][q.n] < MaxSame
        /\ stored' = [stored EXCEPT ![q.c][q.n] = @ + 1]

\* By its id: one row of the name, if there still is one.
FindToDelete(i) ==
    LET q == requests[i]
    IN  /\ \/ Reach(i, "delete", "sent", "found") /\ stored[q.c][q.n] > 0
           \/ Reach(i, "delete", "sent", "refused") /\ stored[q.c][q.n] = 0
        /\ UNCHANGED stored

\* Somebody else may have deleted the row since, which is no error.
DeleteJobAttribute(i) ==
    LET q == requests[i]
    IN  /\ Reach(i, "delete", "found", "done")
        /\ \/ /\ stored[q.c][q.n] > 0
              /\ stored' = [stored EXCEPT ![q.c][q.n] = @ - 1]
           \/ UNCHANGED stored

ViewJobAttributes(i) ==
    /\ Reach(i, "all", "sent", "done")
    /\ UNCHANGED stored

-------------------------------------------------------------------------------
(* Answers. *)

\* The rows for new names once an answer was handled.
SetRows(rows) ==
    /\ newRow' = rows
    /\ rowsStuck' = {c \in rowsStuck : rows[c] = "busy"}

\* The request leaves, and if need be one that asks for the tables follows.
AttributeSuccess(i, op) ==
    /\ i \in DOMAIN requests /\ requests[i].phase = "done"
    /\ requests[i].mine /\ requests[i].op = op
    /\ requests' = IF op = "all" THEN RemoveAt(requests, i) ELSE Append(RemoveAt(requests, i), All)
    /\ UNCHANGED <<stored, together>>

OthersAnswer(i) ==
    /\ i \in DOMAIN requests /\ requests[i].phase \in {"done", "refused"}
    /\ ~requests[i].mine
    /\ requests' = RemoveAt(requests, i)
    /\ UNCHANGED <<stored, newRow, deleting, together, rowsStuck>>

\* Faulty: once added, the row is kept for the next name, as it is.
AddedKeepingRow(i) ==
    /\ AttributeSuccess(i, "add")
    /\ UNCHANGED <<newRow, deleting, rowsStuck>>

\* The new row goes, whichever add it belongs to by now.
Added(i) ==
    /\ AttributeSuccess(i, "add")
    /\ SetRows([newRow EXCEPT ![requests[i].c] = "none"])
    /\ UNCHANGED deleting

Deleted(i) ==
    /\ AttributeSuccess(i, "delete")
    /\ deleting' = FALSE
    /\ UNCHANGED <<newRow, rowsStuck>>

\* The tables are emptied, with the rows in which names are typed.
Shown(i) ==
    /\ AttributeSuccess(i, "all")
    /\ SetRows([c \in Categories |-> "none"])
    /\ UNCHANGED deleting

\* The session is over and the server does nothing.  The plain text of an add's refusal is
\* no JSON, and its row stays as it is, as do the tables under the login page; a delete
\* gets an empty success like any other.
AttributeSignedOut(i) ==
    LET q == requests[i]
        rest == RemoveAt(requests, i)
    IN  /\ i \in DOMAIN requests /\ q.mine /\ q.phase = "sent"
        /\ IF q.op = "delete"
           THEN requests' = Append(rest, All) /\ deleting' = FALSE
           ELSE requests' = rest /\ UNCHANGED deleting
        /\ rowsStuck' = IF q.op = "add" /\ newRow[q.c] = "busy" THEN rowsStuck \cup {q.c} ELSE rowsStuck
        /\ UNCHANGED <<stored, newRow, together>>

\* A refusal, a lost request or a lost connection: the server goes on with a
\* request that it has, as with one of somebody else's.
AttributeError(i) ==
    LET q == requests[i]
    IN  /\ i \in DOMAIN requests /\ q.mine
        /\ requests' \in {RemoveAt(requests, i), [requests EXCEPT ![i].mine = FALSE]}
        /\ SetRows(IF q.op = "add" /\ newRow[q.c] = "busy"
                   THEN [newRow EXCEPT ![q.c] = "typing"] ELSE newRow)
        /\ deleting' = (deleting /\ q.op # "delete")
        /\ UNCHANGED <<stored, together>>

AttributePageNext ==
    \/ \E c \in Categories : InitAddJobAttribute(c) \/ CancelNewRow(c)
    \/ \E c \in Categories, n \in Names :
        \/ AddJobAttribute(c, n)
        \/ DeleteAttribute(c, n)
        \/ \E op \in {"add", "delete"} : OthersAsk(op, c, n)
    \/ \E i \in 1 .. MaxRequests :
        \/ ValidateJobAttribute(i) \/ CreateJobAttribute(i) \/ ViewJobAttributes(i)
        \/ FindToDelete(i) \/ DeleteJobAttribute(i)
        \/ OthersAnswer(i) \/ Added(i) \/ Deleted(i) \/ Shown(i)
        \/ AttributeSignedOut(i) \/ AttributeError(i)

-------------------------------------------------------------------------------
(* Properties. *)

AttributeTypeOK ==
    /\ stored \in [Categories -> [Names -> 0 .. MaxSame]]
    /\ newRow \in [Categories -> {"none", "typing", "busy"}]
    /\ deleting \in BOOLEAN
    /\ together \subseteq Categories
    /\ rowsStuck \subseteq Categories
    /\ Len(requests) <= MaxRequests

\* As long as no two adds to a table overlap, on this page or another, its
\* names differ, which no index of the database sees to.
NamesDiffer ==
    \A c \in Categories \ together, n \in Names : stored[c][n] <= 1

\* A row or a button that keeps the staff member waiting waits for a request
\* of its own that is under way, however rows are wiped and typed anew while
\* older requests are answered; a row also after an add that was answered to
\* a session that was over, until another answer wipes or frees it.
BusyWaits ==
    /\ \A c \in Categories \ rowsStuck : newRow[c] = "busy" =>
           \E i \in DOMAIN requests : requests[i].mine /\ requests[i].op = "add" /\ requests[i].c = c
    /\ deleting => \E i \in DOMAIN requests : requests[i].mine /\ requests[i].op = "delete"

===============================================================================
