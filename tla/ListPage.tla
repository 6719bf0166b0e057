------------------------------- MODULE ListPage -------------------------------
(***************************************************************************)
(* The page that lists jobs or users, page by page: the variables of its   *)
(* script, the overlay, button and arrows it shows, and the requests under *)
(* way.  The server answers in any order.  The lists of staff members and  *)
(* of feedback run the script of the jobs.  A key is a member of a small   *)
(* set; what the rows say is left to the server, of which a page sees the  *)
(* number of pages.                                                        *)
(***************************************************************************)
EXTENDS Naturals, Sequences, SequencesExt

CONSTANTS
    Lists,      \* the lists there are: "jobs", "users"
    Filters,    \* statuses or categories one can ask for
    AnyFilter,  \* the filter that leaves nothing out
    Keys,       \* what can be typed into the search bar
    Blank,      \* the key of a search bar left empty
    PageCounts, \* the numbers of pages the server may find
    MaxAsked    \* bound: requests of the page under way at once

ASSUME ListAssumption ==
    /\ Lists \subseteq {"jobs", "users"}
    /\ AnyFilter \in Filters
    /\ Blank \in Keys
    /\ PageCounts \subseteq Nat
    /\ MaxAsked \in Nat \ {0}

VARIABLES
    list,       \* which list this is
    filter,     \* CURRENTSTATUS, CURRENTCATEGORY
    mode,       \* CURRENTPAGEMODE
    key,        \* CURRENTSEARCHKEY
    page,       \* CURRENTPAGEVALUE
    total,      \* CURRENTTOTALPAGECOUNT
    asked,      \* the requests under way, the oldest first
    loading,    \* whether the overlay keeps rows and arrows from being clicked
    searching,  \* whether the search button is disabled
    table,      \* what the result section shows, and the question it answers
    prevOn,     \* whether the arrow to the previous page shows
    nextOn,     \* whether the arrow to the next page shows
    reordered,  \* history: an answer has overtaken an older question
    stale,      \* history: the last answer to a question was the login page
    stuck       \* history: so was that of a search, and none was handled since

controls == <<list, filter, mode, key, page>>
result == <<total, table, prevOn, nextOn>>
signedOut == <<stale, stuck>>
listVars == <<controls, result, asked, loading, searching, reordered, signedOut>>

Queries == [mode : {"all", "search", "push"}, key : Keys, filter : Filters, page : Nat]
Query(m, k, f, p) == [mode |-> m, key |-> k, filter |-> f, page |-> p]
RePush == Query("push", Blank, AnyFilter, 0)
IsQuestion(q) == q.mode # "push"
Settled == \A i \in DOMAIN asked : ~IsQuestion(asked[i])

\* A request leaves the page, under the overlay.
Send(q) ==
    /\ Len(asked) < MaxAsked
    /\ asked' = Append(asked, q)
    /\ loading' = TRUE
    /\ reordered' = (reordered /\ ~(Settled /\ IsQuestion(q)))

AllJobs(f, p) ==
    /\ mode' = "all"
    /\ Send(Query("all", Blank, f, p))
    /\ UNCHANGED <<searching, signedOut>>

\* Faulty: a blank key leaves the overlay as it is.
SearchJobUnderOverlay(k, f, p, busy) ==
    /\ mode' = "search"
    /\ IF k = Blank
       THEN UNCHANGED <<asked, loading, reordered, signedOut>> /\ searching' = busy
       ELSE Send(Query("search", k, f, p)) /\ searching' = busy /\ UNCHANGED signedOut

\* A blank key asks nothing, and lifts overlay and button at once.
SearchJob(k, f, p, busy) ==
    /\ mode' = "search"
    /\ IF k = Blank
       THEN /\ loading' = FALSE
            /\ searching' = FALSE
            /\ stuck' = FALSE
            /\ UNCHANGED <<asked, reordered, stale>>
       ELSE Send(Query("search", k, f, p)) /\ searching' = busy /\ UNCHANGED signedOut

\* The script as the browser has just read it, and its first question.
ListInit ==
    /\ list \in Lists
    /\ filter = AnyFilter
    /\ mode = "all"
    /\ key = Blank
    /\ page = 0
    /\ total = 0
    /\ asked = <<Query("all", Blank, AnyFilter, 0)>>
    /\ loading = TRUE
    /\ searching = FALSE
    /\ table = [is |-> "blank", of |-> RePush]
    /\ prevOn = FALSE
    /\ nextOn = FALSE
    /\ reordered = FALSE
    /\ stale = FALSE
    /\ stuck = FALSE

-------------------------------------------------------------------------------
(* What the staff member does. *)

\* The search icon of the header, or Alt+S: from the start, under the old key.
InitSearchJob ==
    /\ page' = 0
    /\ total' = 0
    /\ filter' = AnyFilter
    /\ AllJobs(AnyFilter, 0)
    /\ UNCHANGED <<list, key, table, prevOn, nextOn>>

ViewAll ==
    /\ page' = 0
    /\ AllJobs(filter, 0)
    /\ UNCHANGED <<list, filter, key, result>>

\* The page asked again in the mode of the last question.
AskAgain(f, p) ==
    \/ mode = "all" /\ AllJobs(f, p)
    \/ mode = "search" /\ SearchJob(key, f, p, searching)

\* Faulty: asks for the page before it counts up.
NextPageTooEarly ==
    /\ nextOn /\ ~loading
    /\ page = 0 \/ page + 1 < total
    /\ page' = page + 1
    /\ AskAgain(filter, page)
    /\ UNCHANGED <<list, filter, key, result>>

NextPage ==
    /\ nextOn /\ ~loading
    /\ page = 0 \/ page + 1 < total
    /\ page' = page + 1
    /\ AskAgain(filter, page + 1)
    /\ UNCHANGED <<list, filter, key, result>>

\* Faulty: relies on the arrow not to show on the first page.
PreviousWhenShown ==
    /\ prevOn /\ ~loading
    /\ page' = page - 1
    /\ AskAgain(filter, page - 1)
    /\ UNCHANGED <<list, filter, key, result>>

Previous ==
    /\ prevOn /\ ~loading
    /\ page > 0
    /\ page' = page - 1
    /\ AskAgain(filter, page - 1)
    /\ UNCHANGED <<list, filter, key, result>>

ChangeStatus(f) ==
    /\ filter' = f
    /\ AskAgain(f, page)
    /\ UNCHANGED <<list, key, page, result>>

\* The users' search hands the page to searchUser where the category is
\* expected and no page at all: the server takes any category and page 0.
SearchedFilter == IF list = "users" THEN AnyFilter ELSE filter

Search(k) ==
    /\ ~searching
    /\ key' = k
    /\ page' = 0
    /\ SearchJob(k, SearchedFilter, 0, TRUE)
    /\ UNCHANGED <<list, filter, result>>

\* The menu of an opened job's row; the overlay covers the whole table.
RePushJob ==
    /\ list = "jobs"
    /\ table.is = "rows" /\ ~loading
    /\ Send(RePush)
    /\ UNCHANGED <<controls, result, searching, signedOut>>

-------------------------------------------------------------------------------
(* Answers. *)

\* The i-th request is over, whichever way.
Over(i) ==
    /\ i \in DOMAIN asked
    /\ asked' = RemoveAt(asked, i)
    /\ reordered' = (reordered \/ \E k \in 1 .. i - 1 : IsQuestion(asked[k]) /\ IsQuestion(asked[i]))
    /\ UNCHANGED controls

\* Every answer that is handled lifts the overlay, one to a search the button too.
Handled(i) ==
    /\ Over(i)
    /\ loading' = FALSE
    /\ searching' = (searching /\ asked[i].mode # "search")
    /\ stuck' = (stuck /\ asked[i].mode # "search")

\* The server found n pages; it returns the rows of the page it was asked for.
Found(i, n) ==
    /\ Handled(i)
    /\ IsQuestion(asked[i])
    /\ LET p == asked[i].page
       IN  /\ total' = n
           /\ prevOn' = (n > 1 /\ p > 0 /\ p < n)
           /\ nextOn' = (n > 1 /\ p + 1 < n)
           /\ table' = [is |-> IF p < n THEN "rows" ELSE "none", of |-> asked[i]]
    /\ stale' = FALSE

\* The error page takes the place of table and arrows; the count stays.
ListFailed(i) ==
    /\ Handled(i)
    /\ IsQuestion(asked[i])
    /\ prevOn' = FALSE
    /\ nextOn' = FALSE
    /\ table' = [is |-> "error", of |-> asked[i]]
    /\ stale' = FALSE
    /\ UNCHANGED total

\* The session is over and a question is answered with the login page, which is no
\* JSON: allJobs lifts the overlay before it throws, searchJob nothing at all.
ListSignedOut(i) ==
    /\ Over(i)
    /\ IsQuestion(asked[i])
    /\ IF asked[i].mode = "search"
       THEN stuck' = TRUE /\ UNCHANGED <<loading, searching>>
       ELSE loading' = FALSE /\ UNCHANGED <<searching, stuck>>
    /\ stale' = TRUE
    /\ UNCHANGED result

\* The answer to a push is not read, be it the login page.
RePushed(i) == Handled(i) /\ ~IsQuestion(asked[i]) /\ UNCHANGED <<result, stale>>

ListAnswer(i) ==
    ListFailed(i) \/ ListSignedOut(i) \/ RePushed(i) \/ \E n \in PageCounts : Found(i, n)

ListNext ==
    \/ InitSearchJob
    \/ ViewAll
    \/ NextPage
    \/ Previous
    \/ RePushJob
    \/ \E f \in Filters : ChangeStatus(f)
    \/ \E k \in Keys : Search(k)
    \/ \E i \in 1 .. MaxAsked : ListAnswer(i)

-------------------------------------------------------------------------------
(* Properties. *)

ListTypeOK ==
    /\ list \in Lists /\ filter \in Filters /\ mode \in {"all", "search"}
    /\ key \in Keys /\ page \in Nat /\ total \in Nat
    /\ asked \in Seq(Queries) /\ Len(asked) <= MaxAsked
    /\ {loading, searching, prevOn, nextOn, reordered, stale, stuck} \subseteq BOOLEAN
    /\ table.is \in {"blank", "rows", "none", "error"} /\ table.of \in Queries

\* The search that ignores the selected category, see Search.
SearchedEverywhere == list = "users" /\ table.of = Query("search", key, AnyFilter, 0)

\* Once the last question is answered, in order and not with the login page, the rows
\* are those of the mode, key, filter and page the script holds, and the arrows lead to
\* pages there are: whatever was clicked, changed, failed or signed out before.  A
\* search for nothing leaves the table of the question before it.
TableMatchesControls ==
    /\ Settled /\ ~reordered /\ ~stale
    /\ table.is \in {"rows", "none"} /\ ~(mode = "search" /\ key = Blank)
    =>  /\ \/ table.of = Query(mode, IF mode = "all" THEN Blank ELSE key, filter, page)
           \/ SearchedEverywhere
        /\ nextOn <=> page + 1 < total
        /\ prevOn <=> page > 0 /\ page < total

\* Overlay and search button keep the staff member waiting for nothing only after a
\* search that was answered with the login page: otherwise a request is under way under
\* the one and a search behind the other, however answers, failures, questions and keys
\* that ask nothing follow each other.
WaitsForAnAnswer ==
    /\ loading => asked # <<>> \/ stuck
    /\ searching => stuck \/ \E i \in DOMAIN asked : asked[i].mode = "search"

===============================================================================
