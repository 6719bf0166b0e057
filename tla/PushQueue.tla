------------------------------- MODULE PushQueue -------------------------------
(***************************************************************************)
(* What PushQueue promises its callers: a list of requests that an add     *)
(* makes longer at the end and a removal makes shorter at an index, each   *)
(* call in one step.  The promise is good until two calls overlap; from    *)
(* then on the list may be anything.  PushPipeline relies on the list;     *)
(* PushQueueSlice shows that the Go slice behind the three methods keeps   *)
(* the promise, and what is left of it afterwards.                         *)
(***************************************************************************)
EXTENDS Naturals, Sequences, SequencesExt

CONSTANT Requests

VARIABLES
    queue,
    added,      \* the requests added so far; a caller adds a pointer once
    intact      \* whether the promise is still good

vars == <<queue, added, intact>>

Init == queue = <<>> /\ added = {} /\ intact = TRUE

AddToQueue ==
    \E r \in Requests \ added :
        /\ queue' = Append(queue, r)
        /\ added' = added \cup {r}

RemoveFromQueueWithIndex ==
    /\ \E index \in 0 .. (Len(queue) - 1) : queue' = RemoveAt(queue, index + 1)
    /\ UNCHANGED added

\* Once it is broken, the promise stays so.
Next ==
    \/ intact /\ intact' /\ (AddToQueue \/ RemoveFromQueueWithIndex)
    \/ ~intact'

Spec == Init /\ [][Next]_vars
===============================================================================
