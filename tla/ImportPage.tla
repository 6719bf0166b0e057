------------------------------ MODULE ImportPage ------------------------------
(***************************************************************************)
(* Importing the jobs of a spreadsheet: the rows are posted in one request, *)
(* the server checks them all and adds them one by one, and the dialog      *)
(* tells the staff member what became of them and what to do next.  She may *)
(* do something else: the icon she imports with is in the page's header,   *)
(* which no overlay covers.  And a lost answer does not stop the server.   *)
(* The rows are those of the last sheet, the only one that is read; a row  *)
(* and its number are one here.                                            *)
(***************************************************************************)
EXTENDS Naturals, FiniteSets

CONSTANTS
    Postings,   \* the rows a file begins with
    MaxImports, \* bound: submissions under way at once
    MaxStrays   \* bound: imports nobody asked for, and answers lost

ASSUME ImportAssumption == IsFiniteSet(Postings) /\ MaxImports \in Nat \ {0} /\ MaxStrays \in Nat

VARIABLES
    file,       \* the rows of the file as it is now
    bad,        \* those that validation refuses
    copies,     \* how many jobs the server has of each row
    submissions,\* the requests under way
    told,       \* what the dialog says, and the rows it lists
    strays      \* history: the imports she made though another was under way or
                \* the dialog told her of added rows, and the answers that were
                \* lost to requests the server worked on

importVars == <<file, bad, copies, submissions, told, strays>>

Imports == 1 .. MaxImports
Nothing == [is |-> "nothing", rows |-> {}]
Says(what, rows) == [is |-> what, rows |-> rows]
Idle == [mine |-> FALSE, stray |-> FALSE, rows |-> {}, wrong |-> {}, phase |-> "idle", todo |-> {},
         errors |-> {}]
Waiting == \E i \in Imports : submissions[i].mine

ImportPageInit ==
    /\ file = Postings
    /\ bad \in SUBSET Postings
    /\ copies = [r \in Postings |-> 0]
    /\ submissions = [i \in Imports |-> Idle]
    /\ told = Nothing
    /\ strays = 0

-------------------------------------------------------------------------------
(* What the staff member does. *)

AddedRowsTold == told.is \in {"imported", "partial"}

\* A file that is empty or cannot be read is not sent.
HandleSelectedFile(i) ==
    LET stray == Waiting \/ AddedRowsTold
    IN  /\ stray => strays < MaxStrays
        /\ strays' = IF stray THEN strays + 1 ELSE strays
        /\ \/ /\ told' = Says("error", {})
              /\ UNCHANGED submissions
           \/ /\ submissions[i] = Idle
              /\ told' = Nothing
              /\ submissions' = [submissions EXCEPT ![i] =
                    [mine |-> TRUE, stray |-> stray, rows |-> file, wrong |-> file \cap bad,
                     phase |-> "sent", todo |-> {}, errors |-> {}]]
        /\ UNCHANGED <<file, bad, copies>>

\* "Validation error has occurred!  Please input valid data".
CorrectRows ==
    /\ told.is = "invalid"
    /\ bad' \in SUBSET (bad \ told.rows)
    /\ told' = Nothing
    /\ UNCHANGED <<file, copies, submissions, strays>>

\* "All jobs except the above one's have been added [...]  Please try again
\* removing the added once."
RemoveAdded ==
    /\ told.is = "partial"
    /\ file' = told.rows
    /\ told' = Nothing
    /\ UNCHANGED <<bad, copies, submissions, strays>>

\* Another file, when nobody works on this one any more.
NextFile ==
    /\ told.is = "imported" /\ \A i \in Imports : submissions[i] = Idle
    /\ file' = Postings
    /\ bad' \in SUBSET Postings
    /\ copies' = [r \in Postings |-> 0]
    /\ told' = Nothing
    /\ strays' = 0
    /\ UNCHANGED submissions

-------------------------------------------------------------------------------
(* The server. *)

\* Every row is checked before any is added.
ValidateJobs(i) ==
    LET s == submissions[i]
    IN  /\ s.phase = "sent"
        /\ submissions' = [submissions EXCEPT ![i] =
              IF s.wrong = {} THEN [s EXCEPT !.phase = "adding", !.todo = s.rows]
              ELSE [s EXCEPT !.phase = "invalid", !.errors = s.wrong]]
        /\ UNCHANGED <<file, bad, copies, told, strays>>

\* Faulty: goes on after an error without noting it.
AddJobDroppingError(i, r) ==
    /\ submissions[i].phase = "adding" /\ r \in submissions[i].todo
    /\ submissions' = [submissions EXCEPT ![i].todo = @ \ {r}]
    /\ \/ copies' = [copies EXCEPT ![r] = @ + 1]
       \/ UNCHANGED copies
    /\ UNCHANGED <<file, bad, told, strays>>

\* In the order of Go's map, which is any.
AddJob(i, r) ==
    /\ submissions[i].phase = "adding" /\ r \in submissions[i].todo
    /\ \/ /\ copies' = [copies EXCEPT ![r] = @ + 1]
          /\ submissions' = [submissions EXCEPT ![i].todo = @ \ {r}]
       \/ /\ submissions' = [submissions EXCEPT ![i].todo = @ \ {r}, ![i].errors = @ \cup {r}]
          /\ UNCHANGED copies
    /\ UNCHANGED <<file, bad, told, strays>>

-------------------------------------------------------------------------------
(* Answers. *)

\* Faulty: lists the rows that were added.
ReportAdded(s) ==
    IF s.phase = "invalid" THEN Says("invalid", s.errors)
    ELSE IF s.errors = {} THEN Says("imported", {})
    ELSE Says("partial", s.rows \ s.errors)

Report(s) ==
    IF s.phase = "invalid" THEN Says("invalid", s.errors)
    ELSE IF s.errors = {} THEN Says("imported", {})
    ELSE Says("partial", s.errors)

\* Its rows are checked and refused, or have all been tried.
Imported(i) ==
    LET s == submissions[i]
    IN  /\ s.phase = "invalid" \/ (s.phase = "adding" /\ s.todo = {})
        /\ submissions' = [submissions EXCEPT ![i] = Idle]
        /\ told' = IF s.mine THEN Report(s) ELSE told
        /\ UNCHANGED <<file, bad, copies, strays>>

\* The session is dead: the server does nothing and answers a POST with 400 and
\* a plain text.  The dialog is opened with an empty list before the text fails
\* to parse.
ImportSignedOut(i) ==
    /\ submissions[i].mine /\ submissions[i].phase = "sent"
    /\ submissions' = [submissions EXCEPT ![i] = Idle]
    /\ told' = Says("blank", {})
    /\ UNCHANGED <<file, bad, copies, strays>>

\* The connection breaks, and with it the request if it had not arrived or if
\* it was the server that stopped.
ImportLost(i) ==
    /\ submissions[i].mine
    /\ told' = Says("error", {})
    /\ \/ /\ submissions' = [submissions EXCEPT ![i] = Idle]
          /\ strays' = IF submissions[i].phase = "adding" THEN strays + 1 ELSE strays
       \/ /\ submissions' = [submissions EXCEPT ![i].mine = FALSE]
          /\ strays' = strays + 1
    /\ strays' <= MaxStrays
    /\ UNCHANGED <<file, bad, copies>>

ImportPageNext ==
    \/ CorrectRows
    \/ RemoveAdded
    \/ NextFile
    \/ \E i \in Imports :
        \/ HandleSelectedFile(i) \/ ValidateJobs(i)
        \/ Imported(i) \/ ImportSignedOut(i) \/ ImportLost(i)
        \/ \E r \in Postings : AddJob(i, r)

-------------------------------------------------------------------------------
(* Properties. *)

ImportTypeOK ==
    /\ {file, bad, told.rows} \subseteq SUBSET Postings
    /\ copies \in [Postings -> Nat]
    /\ told.is \in {"nothing", "blank", "error", "invalid", "partial", "imported"}
    /\ strays \in 0 .. MaxStrays
    /\ submissions \in [Imports -> [mine : BOOLEAN, stray : BOOLEAN, rows : SUBSET Postings,
            wrong : SUBSET Postings, phase : {"idle", "sent", "adding", "invalid"},
            todo : SUBSET Postings, errors : SUBSET Postings]]

\* The rows she submits next if she does what the dialog says.
Asked == CASE told.is = "imported" -> {}
           [] told.is = "partial" -> told.rows
           [] OTHER -> file

\* A row becomes more than one job only by an import nobody asked for or by an
\* answer that was lost, and each of them accounts for one copy: the dialog by
\* itself, whichever of two answers it shows, never has an added row sent again.
ImportedOnce ==
    /\ \A r \in Postings : copies[r] <= 1 + strays
    /\ ~Waiting => \A r \in Asked : copies[r] <= strays

\* Who goes by the dialog forgets no row: as long as the server has no job of
\* it, it is among those to submit again, and a dialog that says that all have
\* been imported, or all but the listed ones, says the truth, whatever
\* overlaps, fails or is lost.
NoneForgotten == {r \in Postings : copies[r] = 0} \subseteq Asked

-------------------------------------------------------------------------------
===============================================================================
