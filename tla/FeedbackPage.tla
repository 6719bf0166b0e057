----------------------------- MODULE FeedbackPage -----------------------------
(***************************************************************************)
(* The page of the users' feedback: the dots of its unread rows, the dialog *)
(* that shows one, and the request it then makes to have the feedback      *)
(* marked as seen, which the server serves by a look-up and a save of the  *)
(* whole row.  Other staff members mark, too, and users are deleted.       *)
(***************************************************************************)
EXTENDS Naturals, Sequences, SequencesExt

CONSTANTS
    Feedbacks,  \* the rows of the list
    MaxMarks    \* bound: requests under way at once

ASSUME FeedbackAssumption == MaxMarks \in Nat \ {0}

VARIABLES
    seen,       \* the server: the feedback marked as seen
    orphans,    \* the server: the feedback whose author was deleted
    dots,       \* the rows of the page that bear a dot
    read,       \* the feedback the dialog has shown
    marks,      \* the requests under way
    unmarked,   \* history: the feedback whose mark failed, but for a row without author
    feigned     \* history: the dots that the answer to a session that is over took away

feedbackVars == <<seen, orphans, dots, read, marks, unmarked, feigned>>

Mark(f, mine) == [op |-> "mark", of |-> f, mine |-> mine, phase |-> "sent", news |-> {}]

FeedbackPageInit ==
    /\ seen = {}
    /\ orphans \in SUBSET Feedbacks
    /\ dots = Feedbacks
    /\ read = {}
    /\ marks = <<>>
    /\ unmarked = {}
    /\ feigned = {}

AskServer(q) ==
    /\ Len(marks) < MaxMarks
    /\ marks' = Append(marks, q)

-------------------------------------------------------------------------------
(* What staff members do. *)

ViewFeedback(f) ==
    /\ AskServer([Mark(f, TRUE) EXCEPT !.op = "view"])
    /\ UNCHANGED <<seen, orphans, dots, read, unmarked, feigned>>

\* ListPage asks for the rows.
AllFeedbacks ==
    /\ \E f \in Feedbacks : AskServer([Mark(f, TRUE) EXCEPT !.op = "list"])
    /\ UNCHANGED <<seen, orphans, dots, read, unmarked, feigned>>

OthersMark(f) ==
    /\ AskServer(Mark(f, FALSE))
    /\ UNCHANGED <<seen, orphans, dots, read, unmarked, feigned>>

\* The foreign key sets user_id to NULL.
AuthorDeleted(f) ==
    /\ orphans' = orphans \cup {f}
    /\ UNCHANGED <<seen, dots, read, marks, unmarked, feigned>>

-------------------------------------------------------------------------------
(* The server. *)

FeedbackReach(i, ops, from, to, news) ==
    /\ i \in DOMAIN marks /\ marks[i].op \in ops /\ marks[i].phase = from
    /\ marks' = [marks EXCEPT ![i].phase = to, ![i].news = news]
    /\ UNCHANGED <<orphans, dots, read, unmarked, feigned>>

FindFeedback(i) ==
    /\ \/ FeedbackReach(i, {"view"}, "sent", "done", seen \cap {marks[i].of})
       \/ FeedbackReach(i, {"list"}, "sent", "done", seen)
    /\ UNCHANGED seen

MarkAsSeen(i) ==
    /\ \/ FeedbackReach(i, {"mark"}, "sent", "found", orphans \cap {marks[i].of}) /\ marks[i].of \notin seen
       \/ FeedbackReach(i, {"mark"}, "sent", "refused", {}) /\ marks[i].of \in seen
    /\ UNCHANGED seen

\* The row is written with the user_id it was read with; a NULL was read as an
\* empty one, and neither that nor the id of a deleted user is in users.
KeyHolds(i) == marks[i].of \notin marks[i].news \cup orphans

UpdateFeedback(i) ==
    \/ /\ FeedbackReach(i, {"mark"}, "found", "done", {})
       /\ KeyHolds(i)
       /\ seen' = seen \cup {marks[i].of}
    \/ /\ FeedbackReach(i, {"mark"}, "found", "refused", {})
       /\ ~KeyHolds(i)
       /\ UNCHANGED seen

-------------------------------------------------------------------------------
(* Answers. *)

FeedbackAnswer(i, op) ==
    /\ i \in DOMAIN marks /\ marks[i].phase = "done"
    /\ marks[i].mine /\ marks[i].op = op
    /\ UNCHANGED <<seen, orphans>>

\* Faulty: the dot goes with the dialog.
FeedbackShownWithoutDot(i) ==
    LET f == marks[i].of
    IN  /\ FeedbackAnswer(i, "view")
        /\ marks' = IF f \in marks[i].news THEN RemoveAt(marks, i)
                    ELSE Append(RemoveAt(marks, i), Mark(f, TRUE))
        /\ read' = read \cup {f}
        /\ unmarked' = unmarked \ {f}
        /\ dots' = dots \ {f}
        /\ UNCHANGED feigned

\* What was not seen when it was looked up is marked now.
FeedbackShown(i) ==
    LET f == marks[i].of
    IN  /\ FeedbackAnswer(i, "view")
        /\ marks' = IF f \in marks[i].news THEN RemoveAt(marks, i)
                    ELSE Append(RemoveAt(marks, i), Mark(f, TRUE))
        /\ read' = read \cup {f}
        /\ unmarked' = unmarked \ {f}
        /\ UNCHANGED <<dots, feigned>>

FeedbackListed(i) ==
    /\ FeedbackAnswer(i, "list")
    /\ marks' = RemoveAt(marks, i)
    /\ dots' = Feedbacks \ marks[i].news
    /\ feigned' = {}
    /\ UNCHANGED <<read, unmarked>>

FeedbackMarked(i) ==
    /\ FeedbackAnswer(i, "mark")
    /\ marks' = RemoveAt(marks, i)
    /\ dots' = dots \ {marks[i].of}
    /\ UNCHANGED <<read, unmarked, feigned>>

\* The page makes nothing of it.
FeedbackRefused(i) ==
    /\ i \in DOMAIN marks
    /\ marks[i].phase = "refused" \/ (marks[i].phase = "done" /\ ~marks[i].mine)
    /\ marks' = RemoveAt(marks, i)
    /\ UNCHANGED <<seen, orphans, dots, read, unmarked, feigned>>

\* A lost request, or a lost connection: the server goes on with what it has.
FeedbackLost(i) ==
    /\ i \in DOMAIN marks /\ marks[i].mine
    /\ marks' \in {RemoveAt(marks, i), [marks EXCEPT ![i].mine = FALSE]}
    /\ unmarked' = IF marks[i].op = "mark" THEN unmarked \cup {marks[i].of} ELSE unmarked
    /\ UNCHANGED <<seen, orphans, dots, read, feigned>>

\* The session is over and the server does nothing: the login page is not read as
\* feedback, but the empty success of a mark is taken for the mark.
FeedbackSignedOut(i) ==
    LET took == IF marks[i].op = "mark" THEN {marks[i].of} ELSE {}
    IN  /\ i \in DOMAIN marks /\ marks[i].mine /\ marks[i].phase = "sent"
        /\ marks' = RemoveAt(marks, i)
        /\ dots' = dots \ took
        /\ feigned' = feigned \cup took
        /\ unmarked' = unmarked \cup took
        /\ UNCHANGED <<seen, orphans, read>>

FeedbackPageNext ==
    \/ AllFeedbacks
    \/ \E f \in Feedbacks : ViewFeedback(f) \/ OthersMark(f) \/ AuthorDeleted(f)
    \/ \E i \in 1 .. MaxMarks :
        \/ FindFeedback(i) \/ MarkAsSeen(i) \/ UpdateFeedback(i)
        \/ FeedbackShown(i) \/ FeedbackListed(i) \/ FeedbackMarked(i)
        \/ FeedbackRefused(i) \/ FeedbackLost(i) \/ FeedbackSignedOut(i)

-------------------------------------------------------------------------------
(* Properties. *)

FeedbackTypeOK ==
    /\ {seen, orphans, dots, read, unmarked, feigned} \subseteq SUBSET Feedbacks
    /\ Len(marks) <= MaxMarks

\* A dot is not taken from a row before the server has it marked, but by the answer to
\* a session that was over, until the rows are listed again; and what was shown ends up
\* marked, whoever else marks it and in whatever order lists and answers arrive --
\* unless the mark was lost, or not made in such a session, or the author is no more.
ReadIsSeen ==
    /\ Feedbacks \ dots \subseteq seen \cup feigned
    /\ \A f \in read \ (unmarked \cup orphans \cup seen) :
           \E i \in DOMAIN marks : marks[i].op = "mark" /\ marks[i].of = f

===============================================================================
