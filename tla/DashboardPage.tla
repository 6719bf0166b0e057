----------------------------- MODULE DashboardPage -----------------------------
(***************************************************************************)
(* The curve of the dashboard: how many users, or jobs, were created on    *)
(* each day.  The script gets them all, counts them by day, and then fills *)
(* the days on which there was none while it walks over the days there     *)
(* are.  The chart only gets the first day and the counts, and puts one    *)
(* count on each day that follows.  A day has 24 hours, as it has where    *)
(* the clocks are not changed; the two curves are drawn alike.             *)
(***************************************************************************)
EXTENDS Naturals, Sequences, FiniteSets, SequencesExt

CONSTANTS
    LastDay,    \* the days are those from 0 to LastDay
    MaxCreated  \* bound: what is created on one day

ASSUME DashboardAssumption == {LastDay, MaxCreated} \subseteq Nat

VARIABLES
    created,    \* the server's answer: how many were created on each day
    dates,      \* usersDates, jobsDates
    counts,     \* usersData, jobsData
    at,         \* the loop's i, which counts from 1 here
    drawing     \* "waiting" for the answer, "filling", "drawn" or "failed"

dashboardVars == <<created, dates, counts, at, drawing>>

Days == 0 .. LastDay
NoCount == 0    \* null: on a day nobody is counted on nobody was created

DashboardInit ==
    /\ created = [d \in Days |-> 0]
    /\ dates = <<>>
    /\ counts = <<>>
    /\ at = 1
    /\ drawing = "waiting"

\* The days something was created on, in the order of their time stamps; all
\* have thirteen digits, so that to sort them as strings is to sort them.
GetGraphData(f) ==
    LET busy == {d \in Days : f[d] > 0}
    IN  CHOOSE s \in [1 .. Cardinality(busy) -> busy] : \A j, k \in DOMAIN s : j < k => s[j] < s[k]

InitSuccess ==
    /\ drawing = "waiting"
    /\ created' \in [Days -> 0 .. MaxCreated]
    /\ dates' = GetGraphData(created')
    /\ counts' = [k \in DOMAIN dates' |-> created'[dates'[k]]]
    /\ at' = 1
    /\ drawing' = "filling"

\* There is no handler, and the login page that answers a dead session does not
\* parse: the spinners keep turning.
InitError ==
    /\ drawing = "waiting"
    /\ drawing' = "failed"
    /\ UNCHANGED <<created, dates, counts, at>>

Gap == dates[at] + 1 < dates[at + 1]

\* Faulty: goes on behind the day that it has put in.
FillOneDay ==
    /\ drawing = "filling" /\ at < Len(dates)
    /\ IF Gap
       THEN /\ dates' = InsertAt(dates, at + 1, dates[at] + 1)
            /\ counts' = InsertAt(counts, at + 1, NoCount)
            /\ at' = at + 2
       ELSE at' = at + 1 /\ UNCHANGED <<dates, counts>>
    /\ UNCHANGED <<created, drawing>>

\* Once round the loop, which looks at the day it has put in next.
FillDay ==
    /\ drawing = "filling" /\ at < Len(dates)
    /\ IF Gap
       THEN /\ dates' = InsertAt(dates, at + 1, dates[at] + 1)
            /\ counts' = InsertAt(counts, at + 1, NoCount)
       ELSE UNCHANGED <<dates, counts>>
    /\ at' = at + 1
    /\ UNCHANGED <<created, drawing>>

CreateGraph ==
    /\ drawing = "filling" /\ at >= Len(dates)
    /\ drawing' = "drawn"
    /\ UNCHANGED <<created, dates, counts, at>>

\* The page is loaded again.
ReloadDashboard ==
    /\ drawing \in {"drawn", "failed"}
    /\ created' = [d \in Days |-> 0]
    /\ dates' = <<>>
    /\ counts' = <<>>
    /\ at' = 1
    /\ drawing' = "waiting"

DashboardNext == InitSuccess \/ InitError \/ FillDay \/ CreateGraph \/ ReloadDashboard

-------------------------------------------------------------------------------
(* Properties. *)

DashboardTypeOK ==
    /\ created \in [Days -> 0 .. MaxCreated]
    /\ dates \in Seq(Days) /\ counts \in Seq(0 .. MaxCreated)
    /\ at \in Nat \ {0}
    /\ drawing \in {"waiting", "filling", "drawn", "failed"}

\* The chart knows the first day only and counts on from there; yet what it
\* shows on a day is what was created on it, and it leaves no day out,
\* although the arrays are shifted while the loop walks over them.
CurveFitsDays ==
    drawing = "drawn" =>
        /\ counts = [k \in DOMAIN counts |-> created[dates[1] + k - 1]]
        /\ \A d \in Days : created[d] > 0 =>
               \E k \in DOMAIN counts : d = dates[1] + k - 1

-------------------------------------------------------------------------------
===============================================================================
