--------------------------- MODULE BrowserTabProofs ---------------------------
(***************************************************************************)
(* What holds of the pages for every number of jobs, filters, names, rows  *)
(* and requests under way.  A page's invariant is kept by its own actions  *)
(* and untouched by those of the others.                                   *)
(***************************************************************************)
EXTENDS BrowserTab, QueueLemmas

-------------------------------------------------------------------------------
(* The list *)

ListInv == ListTypeOK /\ WaitsForAnAnswer

\* A request of the list keeps those before it and is itself under way.
LEMMA ListSend ==
    ASSUME ListInv, NEW q \in Queries, Send(q)
    PROVE  /\ asked' \in Seq(Queries) /\ Len(asked') <= MaxAsked /\ asked' # <<>>
           /\ loading' = TRUE /\ reordered' \in BOOLEAN
           /\ (\E i \in DOMAIN asked : asked[i].mode = "search") \/ q.mode = "search" =>
                 \E i \in DOMAIN asked' : asked'[i].mode = "search"
<1>1. asked \in Seq(Queries) /\ Len(asked) \in Nat /\ Len(asked) < MaxAsked
  BY DEF ListInv, ListTypeOK, Send
<1>2. asked' = Append(asked, q) /\ loading' = TRUE /\ reordered' \in BOOLEAN
  BY DEF ListInv, ListTypeOK, Send
<1>3. /\ asked' \in Seq(Queries) /\ asked' # <<>>
      /\ \A j \in DOMAIN asked : j \in DOMAIN asked' /\ asked'[j] = asked[j]
      /\ Len(asked) + 1 \in DOMAIN asked' /\ asked'[Len(asked) + 1] = q
  BY <1>1, <1>2, AppendKeepsOthers
<1>4. Len(asked') = Len(asked) + 1
  BY <1>1, <1>2
<1>5. QED
  BY <1>1, <1>2, <1>3, <1>4, ListAssumption

\* A request that is over leaves the others.
LEMMA ListOver ==
    ASSUME ListInv, NEW i, Over(i)
    PROVE  /\ asked' \in Seq(Queries) /\ Len(asked') <= MaxAsked
           /\ reordered' \in BOOLEAN
           /\ \A j \in DOMAIN asked : j # i => \E k \in DOMAIN asked' : asked'[k] = asked[j]
           /\ asked[i] \in Queries
           /\ UNCHANGED controls
<1>1. /\ asked \in Seq(Queries) /\ i \in 1 .. Len(asked) /\ i \in DOMAIN asked
      /\ asked' = RemoveAt(asked, i)
  BY DEF ListInv, ListTypeOK, Over
<1>2. asked' \in Seq(Queries) /\ Len(asked') = Len(asked) - 1
  BY <1>1, RemoveAtElements
<1>3. \A j \in DOMAIN asked : j # i => \E k \in DOMAIN asked' : asked'[k] = asked[j]
  BY <1>1, RemoveAtKeepsOthers
<1>4. reordered' \in BOOLEAN /\ UNCHANGED controls
  BY DEF ListInv, ListTypeOK, Over
<1>5. Len(asked) <= MaxAsked /\ asked[i] \in Queries
  BY <1>1 DEF ListInv, ListTypeOK
<1>6. Len(asked') <= MaxAsked
  BY <1>1, <1>2, <1>5, ListAssumption
<1>7. QED
  BY <1>2, <1>3, <1>4, <1>5, <1>6

\* A search behind the disabled button is another's than a request that is not one.
LEMMA ListKeepsSearch ==
    ASSUME ListInv, NEW i, Over(i), searching, ~stuck, asked[i].mode # "search"
    PROVE  \E j \in DOMAIN asked' : asked'[j].mode = "search"
<1>1. PICK j \in DOMAIN asked : asked[j].mode = "search"
  BY DEF ListInv, WaitsForAnAnswer
<1>2. j # i
  BY <1>1
<1>3. QED
  BY <1>1, <1>2, ListOver

LEMMA ListHandled ==
    ASSUME ListInv, NEW i, Handled(i)
    PROVE  /\ asked' \in Seq(Queries) /\ Len(asked') <= MaxAsked
           /\ {loading', searching', reordered', stuck'} \subseteq BOOLEAN
           /\ WaitsForAnAnswer'
           /\ asked[i] \in Queries
           /\ UNCHANGED controls
<1>1. Over(i) /\ loading' = FALSE
  BY DEF Handled
<1>2. {searching', stuck'} \subseteq BOOLEAN
  BY DEF Handled, ListInv, ListTypeOK
<1>3. ASSUME searching', ~stuck' PROVE \E j \in DOMAIN asked' : asked'[j].mode = "search"
  <2>1. searching /\ ~stuck /\ asked[i].mode # "search"
    BY <1>3 DEF Handled
  <2>2. QED
    BY <1>1, <2>1, ListKeepsSearch
<1>4. WaitsForAnAnswer'
  BY <1>1, <1>3 DEF WaitsForAnAnswer
<1>5. QED
  BY <1>1, <1>2, <1>4, ListOver

\* Asking for all, or for a page of the last question.
LEMMA ListAsks ==
    ASSUME ListInv, NEW f \in Filters, NEW p \in Nat, NEW k \in Keys,
           \/ AllJobs(f, p)
           \/ SearchJob(k, f, p, TRUE)
           \/ SearchJob(k, f, p, searching)
    PROVE  /\ asked' \in Seq(Queries) /\ Len(asked') <= MaxAsked
           /\ mode' \in {"all", "search"}
           /\ {loading', searching', reordered', stale', stuck'} \subseteq BOOLEAN
           /\ WaitsForAnAnswer'
<1> /\ Blank \in Keys /\ AnyFilter \in Filters
  BY ListAssumption
<1>1. CASE AllJobs(f, p)
  <2>1. Query("all", Blank, f, p) \in Queries
    BY DEF Query, Queries
  <2>2. /\ Send(Query("all", Blank, f, p)) /\ mode' = "all" /\ searching' = searching
        /\ stale' = stale /\ stuck' = stuck
    BY <1>1 DEF AllJobs, signedOut
  <2>3. QED
    BY <2>1, <2>2, ListSend DEF ListInv, ListTypeOK, WaitsForAnAnswer
<1>2. ASSUME NEW busy \in {TRUE, searching}, SearchJob(k, f, p, busy)
      PROVE  /\ asked' \in Seq(Queries) /\ Len(asked') <= MaxAsked
             /\ mode' \in {"all", "search"}
             /\ {loading', searching', reordered', stale', stuck'} \subseteq BOOLEAN
             /\ WaitsForAnAnswer'
  <2>1. CASE k = Blank
    BY <1>2, <2>1 DEF SearchJob, ListInv, ListTypeOK, WaitsForAnAnswer
  <2>2. CASE k # Blank
    <3>1. Query("search", k, f, p) \in Queries /\ Query("search", k, f, p).mode = "search"
      BY DEF Query, Queries
    <3>2. /\ Send(Query("search", k, f, p)) /\ mode' = "search" /\ searching' = busy
          /\ stale' = stale /\ stuck' = stuck
      BY <1>2, <2>2 DEF SearchJob, signedOut
    <3>3. QED
      BY <3>1, <3>2, ListSend DEF ListInv, ListTypeOK, WaitsForAnAnswer
  <2>3. QED
    BY <2>1, <2>2
<1>3. QED
  BY <1>1, <1>2

LEMMA ListNextKeepsInv == ListInv /\ [ListNext]_listVars => ListInv'
<1> SUFFICES ASSUME ListInv, [ListNext]_listVars PROVE ListInv'
  OBVIOUS
<1> USE ListAssumption
<1>1. CASE InitSearchJob
  <2>1. AllJobs(AnyFilter, 0)
    BY <1>1 DEF InitSearchJob
  <2>2. QED
    BY <1>1, <2>1, ListAsks DEF InitSearchJob, ListInv, ListTypeOK
<1>2. CASE ViewAll
  <2>1. AllJobs(filter, 0) /\ filter \in Filters
    BY <1>2 DEF ViewAll, ListInv, ListTypeOK
  <2>2. QED
    BY <1>2, <2>1, ListAsks DEF ViewAll, ListInv, ListTypeOK, result
<1>3. CASE NextPage
  <2>1. page + 1 \in Nat /\ filter \in Filters /\ key \in Keys
    BY DEF ListInv, ListTypeOK
  <2>2. AllJobs(filter, page + 1) \/ SearchJob(key, filter, page + 1, searching)
    BY <1>3 DEF NextPage, AskAgain
  <2>3. QED
    BY <1>3, <2>1, <2>2, ListAsks DEF NextPage, ListInv, ListTypeOK, result
<1>4. CASE Previous
  <2>1. page - 1 \in Nat /\ filter \in Filters /\ key \in Keys
    BY <1>4 DEF ListInv, ListTypeOK, Previous
  <2>2. AllJobs(filter, page - 1) \/ SearchJob(key, filter, page - 1, searching)
    BY <1>4 DEF Previous, AskAgain
  <2>3. QED
    BY <1>4, <2>1, <2>2, ListAsks DEF Previous, ListInv, ListTypeOK, result
<1>5. CASE RePushJob
  <2>1. RePush \in Queries
    BY DEF RePush, Query, Queries
  <2>2. Send(RePush)
    BY <1>5 DEF RePushJob
  <2>3. QED
    BY <1>5, <2>1, <2>2, ListSend DEF RePushJob, ListInv, ListTypeOK, WaitsForAnAnswer, controls, result, signedOut
<1>6. ASSUME NEW f \in Filters, ChangeStatus(f) PROVE ListInv'
  <2>1. page \in Nat /\ key \in Keys
    BY DEF ListInv, ListTypeOK
  <2>2. AllJobs(f, page) \/ SearchJob(key, f, page, searching)
    BY <1>6 DEF ChangeStatus, AskAgain
  <2>3. QED
    BY <1>6, <2>1, <2>2, ListAsks DEF ChangeStatus, ListInv, ListTypeOK, result
<1>7. ASSUME NEW k \in Keys, Search(k) PROVE ListInv'
  <2>1. SearchedFilter \in Filters /\ SearchJob(k, SearchedFilter, 0, TRUE)
    BY <1>7, ListAssumption DEF Search, SearchedFilter, ListInv, ListTypeOK
  <2>2. QED
    BY <1>7, <2>1, ListAsks DEF Search, ListInv, ListTypeOK, result
<1>8. ASSUME NEW i \in 1 .. MaxAsked, ListAnswer(i) PROVE ListInv'
  <2>1. CASE ListFailed(i)
    <3>1. Handled(i) /\ stale' = FALSE /\ total' = total
      BY <2>1 DEF ListFailed
    <3>2. QED
      BY <2>1, <3>1, ListHandled DEF ListFailed, ListInv, ListTypeOK, controls
  <2>2. CASE RePushed(i)
    <3>1. Handled(i)
      BY <2>2 DEF RePushed
    <3>2. QED
      BY <2>2, <3>1, ListHandled DEF RePushed, ListInv, ListTypeOK, controls, result
  <2>3. ASSUME NEW n \in PageCounts, Found(i, n) PROVE ListInv'
    <3>1. Handled(i) /\ stale' = FALSE
      BY <2>3 DEF Found
    <3>2. QED
      BY <2>3, <3>1, ListHandled DEF Found, ListInv, ListTypeOK, controls, Queries
  <2>4. CASE ListSignedOut(i)
    <3>1. Over(i) /\ stale' = TRUE /\ UNCHANGED result
      BY <2>4 DEF ListSignedOut
    <3>2. {loading', searching', stuck'} \subseteq BOOLEAN
      BY <2>4 DEF ListSignedOut, ListInv, ListTypeOK
    <3>3. WaitsForAnAnswer'
      <4>1. CASE asked[i].mode = "search"
        BY <2>4, <4>1 DEF ListSignedOut, WaitsForAnAnswer
      <4>2. CASE asked[i].mode # "search"
        <5>1. loading' = FALSE /\ UNCHANGED <<searching, stuck>>
          BY <2>4, <4>2 DEF ListSignedOut
        <5>2. QED
          BY <3>1, <4>2, <5>1, ListKeepsSearch DEF WaitsForAnAnswer
      <4>3. QED
        BY <4>1, <4>2
    <3>4. QED
      BY <3>1, <3>2, <3>3, ListOver DEF ListInv, ListTypeOK, controls, result
  <2>5. QED
    BY <1>8, <2>1, <2>2, <2>3, <2>4 DEF ListAnswer
<1>9. CASE UNCHANGED listVars
  BY <1>9 DEF listVars, controls, result, signedOut, ListInv, ListTypeOK, WaitsForAnAnswer
<1>10. QED
  BY <1>1, <1>2, <1>3, <1>4, <1>5, <1>6, <1>7, <1>8, <1>9 DEF ListNext

LEMMA ListInitInv == ListInit => ListInv
<1> SUFFICES ASSUME ListInit PROVE ListInv
  OBVIOUS
<1>1. Query("all", Blank, AnyFilter, 0) \in Queries /\ RePush \in Queries
  BY ListAssumption DEF Query, RePush, Queries
<1>2. asked \in Seq(Queries) /\ Len(asked) = 1
  BY <1>1 DEF ListInit
<1>3. asked # <<>>
  <2>1. Len(<<>>) = 0
    BY EmptySeq
  <2>2. QED
    BY <1>2, <2>1
<1>4. WaitsForAnAnswer
  BY <1>3 DEF ListInit, WaitsForAnAnswer
<1>5. /\ list \in Lists /\ filter \in Filters /\ key \in Keys /\ mode = "all" /\ page = 0 /\ total = 0
      /\ {loading, searching, prevOn, nextOn, reordered, stale, stuck} \subseteq BOOLEAN
      /\ table.is = "blank" /\ table.of \in Queries
  BY <1>1, ListAssumption DEF ListInit
<1>6. Len(asked) <= MaxAsked
  BY <1>2, ListAssumption
<1>7. QED
  BY <1>2, <1>4, <1>5, <1>6 DEF ListInv, ListTypeOK

-------------------------------------------------------------------------------
(* Sectors, types and levels *)

Asks == [op : {"add", "delete", "all"}, mine : BOOLEAN, c : Categories \cup {"none"},
         n : Names \cup {"none"}, phase : {"sent", "valid", "found", "refused", "done"}]

AttributeShape ==
    /\ AttributeTypeOK
    /\ requests \in Seq(Asks)
    /\ \A i \in DOMAIN requests :
           requests[i].op # "all" => requests[i].c \in Categories /\ requests[i].n \in Names

IsAdd(i, c) == i \in DOMAIN requests /\ requests[i].op = "add" /\ requests[i].c = c

\* In a table whose adds have never overlapped there is one add at most, and
\* what it found when it looked its name up still holds.
AddsAlone ==
    \A c \in Categories \ together :
        /\ \A i, j \in DOMAIN requests : IsAdd(i, c) /\ IsAdd(j, c) => i = j
        /\ \A i \in DOMAIN requests :
              IsAdd(i, c) /\ requests[i].phase = "valid" => stored[c][requests[i].n] = 0

AttributeInv == AttributeShape /\ AddsAlone /\ NamesDiffer /\ BusyWaits

\* A step of the server changes the phase of one request.
LEMMA AttributeReaches ==
    ASSUME AttributeShape, NEW i, NEW op, NEW from,
           NEW to \in {"valid", "found", "refused", "done"}, Reach(i, op, from, to)
    PROVE  /\ i \in DOMAIN requests /\ requests[i].op = op /\ requests[i].phase = from
           /\ requests' \in Seq(Asks) /\ DOMAIN requests' = DOMAIN requests
           /\ Len(requests') = Len(requests)
           /\ requests'[i].phase = to
           /\ \A j \in DOMAIN requests :
                 /\ requests'[j].op = requests[j].op /\ requests'[j].mine = requests[j].mine
                 /\ requests'[j].c = requests[j].c /\ requests'[j].n = requests[j].n
                 /\ j # i => requests'[j] = requests[j]
<1>1. /\ i \in DOMAIN requests /\ requests[i].op = op /\ requests[i].phase = from
      /\ requests' = [requests EXCEPT ![i].phase = to] /\ requests \in Seq(Asks)
  BY DEF Reach, AttributeShape
<1>2. \A j \in DOMAIN requests : requests[j] \in Asks
  BY <1>1
<1>3. \A j \in DOMAIN requests : j # i => requests'[j] = requests[j]
  BY <1>1
<1>4. requests'[i] = [requests[i] EXCEPT !.phase = to]
  BY <1>1
<1>5. /\ requests'[i] \in Asks /\ requests'[i].phase = to
      /\ requests'[i].op = requests[i].op /\ requests'[i].mine = requests[i].mine
      /\ requests'[i].c = requests[i].c /\ requests'[i].n = requests[i].n
  BY <1>1, <1>2, <1>4 DEF Asks
<1>6. DOMAIN requests' = DOMAIN requests
  BY <1>1
<1>7. requests' \in Seq(Asks) /\ Len(requests') = Len(requests)
  <2>1. DOMAIN requests = 1 .. Len(requests) /\ Len(requests) \in Nat
    BY <1>1
  <2>2. requests' \in [1 .. Len(requests) -> Asks]
    BY <1>1, <1>2, <1>3, <1>5, <1>6, <2>1
  <2>3. QED
    BY <2>1, <2>2
<1>8. QED
  BY <1>1, <1>3, <1>5, <1>6, <1>7

\* Where the k-th request was before the i-th left.
Old(k, i) == IF k < i THEN k ELSE k + 1

\* A request that is over leaves the others, maybe with a new one for the tables.
LEMMA AttributeLeaves ==
    ASSUME AttributeShape, NEW i \in DOMAIN requests,
           requests' \in {RemoveAt(requests, i), Append(RemoveAt(requests, i), All)}
    PROVE  /\ requests' \in Seq(Asks) /\ Len(requests') <= Len(requests)
           /\ \A j \in DOMAIN requests : j # i =>
                 \E k \in DOMAIN requests' : requests'[k] = requests[j]
           /\ \A k \in DOMAIN requests' : requests'[k].op # "all" =>
                 Old(k, i) \in DOMAIN requests \ {i} /\ requests'[k] = requests[Old(k, i)]
<1> DEFINE rest == RemoveAt(requests, i)
<1>1. requests \in Seq(Asks) /\ DOMAIN requests = 1 .. Len(requests) /\ Len(requests) \in Nat
  BY DEF AttributeShape
<1>2. /\ rest \in Seq(Asks) /\ Len(rest) = Len(requests) - 1
      /\ \A k \in 1 .. (Len(requests) - 1) : rest[k] = IF k < i THEN requests[k] ELSE requests[k + 1]
  BY <1>1, RemoveAtElements
<1>3. \A j \in DOMAIN requests : j # i => \E k \in DOMAIN rest : rest[k] = requests[j]
  BY <1>1, RemoveAtKeepsOthers
<1>4. All \in Asks /\ All.op = "all"
  BY DEF All, Request, Asks
<1> HIDE DEF rest
<1>5. DOMAIN rest = 1 .. (Len(requests) - 1) /\ Len(rest) \in Nat
  BY <1>1, <1>2
<1>6. \A k \in DOMAIN rest : Old(k, i) \in DOMAIN requests \ {i} /\ rest[k] = requests[Old(k, i)]
  BY <1>1, <1>2, <1>5 DEF Old
<1>7. CASE requests' = rest
  BY <1>1, <1>2, <1>3, <1>6, <1>7
<1>8. CASE requests' = Append(rest, All)
  <2>1. /\ requests' \in Seq(Asks) /\ Len(requests') = Len(rest) + 1
        /\ \A k \in 1 .. Len(rest) : requests'[k] = rest[k]
        /\ requests'[Len(rest) + 1] = All
    BY <1>2, <1>4, <1>8, AppendProperties
  <2>2. DOMAIN requests' = 1 .. (Len(rest) + 1) /\ DOMAIN rest = 1 .. Len(rest)
    BY <1>2, <2>1
  <2>3. \A j \in DOMAIN requests : j # i => \E k \in DOMAIN requests' : requests'[k] = requests[j]
    BY <1>3, <1>5, <2>1, <2>2
  <2>4. \A k \in DOMAIN requests' : requests'[k].op # "all" => k \in DOMAIN rest /\ requests'[k] = rest[k]
    BY <1>4, <1>5, <2>1, <2>2
  <2>5. \A k \in DOMAIN requests' : requests'[k].op # "all" =>
            Old(k, i) \in DOMAIN requests \ {i} /\ requests'[k] = requests[Old(k, i)]
    BY <1>6, <2>4
  <2>6. Len(requests') <= Len(requests)
    BY <1>1, <1>2, <2>1
  <2>7. QED
    BY <2>1, <2>3, <2>5, <2>6
<1>9. QED
  BY <1>7, <1>8 DEF rest

\* The new row and the button, when the i-th request is over: none but that
\* request's own may have waited for it.
LEMMA AttributeOver ==
    ASSUME AttributeInv, NEW i \in DOMAIN requests,
           requests' \in {RemoveAt(requests, i), Append(RemoveAt(requests, i), All)},
           UNCHANGED <<stored, together>>,
           newRow' \in [Categories -> {"none", "typing", "busy"}], deleting' \in BOOLEAN,
           rowsStuck' \subseteq Categories,
           \A c \in Categories \ rowsStuck' : newRow'[c] = "busy" =>
               /\ c \notin rowsStuck /\ newRow[c] = "busy"
               /\ requests[i].mine => ~IsAdd(i, c),
           deleting' => deleting /\ (requests[i].mine => requests[i].op # "delete")
    PROVE  AttributeInv'
<1>1. /\ requests' \in Seq(Asks) /\ Len(requests') <= Len(requests)
      /\ \A j \in DOMAIN requests : j # i => \E k \in DOMAIN requests' : requests'[k] = requests[j]
      /\ \A k \in DOMAIN requests' : requests'[k].op # "all" =>
            Old(k, i) \in DOMAIN requests \ {i} /\ requests'[k] = requests[Old(k, i)]
  BY AttributeLeaves DEF AttributeInv
<1>2. requests \in Seq(Asks) /\ DOMAIN requests \subseteq Nat /\ DOMAIN requests' \subseteq Nat /\ i \in Nat
  BY <1>1 DEF AttributeInv, AttributeShape
<1>3. AttributeShape'
  <2>1. Len(requests') <= MaxRequests
    BY <1>1, <1>2, AttributeAssumption DEF AttributeInv, AttributeShape, AttributeTypeOK
  <2>2. QED
    BY <1>1, <2>1 DEF AttributeInv, AttributeShape, AttributeTypeOK
<1>4. AddsAlone'
  <2> SUFFICES ASSUME NEW c \in Categories \ together
               PROVE  /\ \A k, l \in DOMAIN requests' : IsAdd(k, c)' /\ IsAdd(l, c)' => k = l
                      /\ \A k \in DOMAIN requests' :
                            IsAdd(k, c)' /\ requests'[k].phase = "valid" => stored[c][requests'[k].n] = 0
    BY DEF AddsAlone
  <2>1. \A k \in DOMAIN requests' : IsAdd(k, c)' =>
            IsAdd(Old(k, i), c) /\ requests'[k] = requests[Old(k, i)]
    BY <1>1 DEF IsAdd
  <2>2. \A k, l \in DOMAIN requests' : IsAdd(k, c)' /\ IsAdd(l, c)' => Old(k, i) = Old(l, i)
    BY <2>1 DEF AttributeInv, AddsAlone, IsAdd
  <2>3. \A k, l \in DOMAIN requests' : Old(k, i) = Old(l, i) => k = l
    BY <1>2 DEF Old
  <2>4. QED
    BY <2>1, <2>2, <2>3 DEF AttributeInv, AddsAlone, IsAdd
<1>5. NamesDiffer'
  BY DEF AttributeInv, NamesDiffer
<1>6. BusyWaits'
  <2>1. ASSUME NEW c \in Categories \ rowsStuck', newRow'[c] = "busy"
        PROVE  \E k \in DOMAIN requests' : requests'[k].mine /\ requests'[k].op = "add" /\ requests'[k].c = c
    <3>1. PICK j \in DOMAIN requests : requests[j].mine /\ requests[j].op = "add" /\ requests[j].c = c
      BY <2>1 DEF AttributeInv, BusyWaits
    <3>2. j # i
      BY <2>1, <3>1 DEF IsAdd
    <3>3. QED
      BY <1>1, <3>1, <3>2
  <2>2. ASSUME deleting' PROVE \E k \in DOMAIN requests' : requests'[k].mine /\ requests'[k].op = "delete"
    <3>1. PICK j \in DOMAIN requests : requests[j].mine /\ requests[j].op = "delete"
      BY <2>2 DEF AttributeInv, BusyWaits
    <3>2. j # i
      BY <2>2, <3>1
    <3>3. QED
      BY <1>1, <3>1, <3>2
  <2>3. QED
    BY <2>1, <2>2 DEF BusyWaits
<1>7. QED
  BY <1>3, <1>4, <1>5, <1>6 DEF AttributeInv

\* A request joins those under way.
LEMMA AttributeSubmits ==
    ASSUME AttributeInv, NEW q \in Asks, q.op # "all", q.c \in Categories, q.n \in Names,
           q.phase = "sent", Submit(q)
    PROVE  /\ requests' \in Seq(Asks) /\ Len(requests') <= MaxRequests
           /\ \A j \in DOMAIN requests : j \in DOMAIN requests' /\ requests'[j] = requests[j]
           /\ \E k \in DOMAIN requests' : requests'[k] = q
           /\ \A k \in DOMAIN requests' : requests'[k].op # "all" =>
                 requests'[k].c \in Categories /\ requests'[k].n \in Names
           /\ together' \subseteq Categories /\ together \subseteq together'
           /\ (UNCHANGED stored => AddsAlone' /\ NamesDiffer')
<1>1. /\ requests \in Seq(Asks) /\ Len(requests) \in Nat /\ Len(requests) < MaxRequests
      /\ requests' = Append(requests, q)
  BY DEF AttributeInv, AttributeShape, Submit
<1>2. PICK new \in Nat :
          /\ requests' \in Seq(Asks)
          /\ \A j \in DOMAIN requests : j \in DOMAIN requests' /\ requests'[j] = requests[j]
          /\ new \in DOMAIN requests' /\ requests'[new] = q
          /\ \A k \in DOMAIN requests' : k \in DOMAIN requests \/ k = new
  BY <1>1, AppendKeepsOthers
<1>3. Len(requests') <= MaxRequests
  BY <1>1, AttributeAssumption
<1>4. /\ together' = IF q.op = "add" /\ AddUnderWay(q.c) THEN together \cup {q.c} ELSE together
      /\ together' \subseteq Categories /\ together \subseteq together'
  BY DEF Submit, AttributeInv, AttributeShape, AttributeTypeOK
<1>5. \A k \in DOMAIN requests' : requests'[k].op # "all" =>
          requests'[k].c \in Categories /\ requests'[k].n \in Names
  BY <1>2 DEF AttributeInv, AttributeShape
<1>6. ASSUME UNCHANGED stored PROVE AddsAlone' /\ NamesDiffer'
  <2>1. NamesDiffer'
    BY <1>4, <1>6 DEF AttributeInv, NamesDiffer
  <2>2. ASSUME NEW c \in Categories \ together'
        PROVE  /\ \A k, l \in DOMAIN requests' : IsAdd(k, c)' /\ IsAdd(l, c)' => k = l
               /\ \A k \in DOMAIN requests' :
                     IsAdd(k, c)' /\ requests'[k].phase = "valid" => stored'[c][requests'[k].n] = 0
    <3>1. c \in Categories \ together
      BY <1>4
    <3>2. \A k \in DOMAIN requests : IsAdd(k, c)' => IsAdd(k, c)
      BY <1>2 DEF IsAdd
    <3>3. IsAdd(new, c)' => \A k \in DOMAIN requests : ~IsAdd(k, c)
      BY <1>2, <1>4, <2>2 DEF IsAdd, AddUnderWay
    <3>4. \A k, l \in DOMAIN requests' : IsAdd(k, c)' /\ IsAdd(l, c)' => k = l
      BY <1>2, <3>1, <3>2, <3>3 DEF AttributeInv, AddsAlone
    <3>5. \A k \in DOMAIN requests' :
              IsAdd(k, c)' /\ requests'[k].phase = "valid" => stored'[c][requests'[k].n] = 0
      BY <1>2, <1>6, <3>1, <3>2 DEF AttributeInv, AddsAlone
    <3>6. QED
      BY <3>4, <3>5
  <2>3. QED
    BY <2>1, <2>2 DEF AddsAlone
<1>7. QED
  BY <1>2, <1>3, <1>4, <1>5, <1>6

\* What the page and others ask for.
LEMMA AttributeAsksKeepInv ==
    ASSUME AttributeInv, NEW c \in Categories, NEW n \in Names,
           \/ AddJobAttribute(c, n) \/ DeleteAttribute(c, n)
           \/ \E op \in {"add", "delete"} : OthersAsk(op, c, n)
    PROVE  AttributeInv'
<1>1. CASE AddJobAttribute(c, n)
  <2> DEFINE q == Request("add", TRUE, c, n)
  <2>1. q \in Asks /\ q.op = "add" /\ q.mine /\ q.c = c /\ q.n = n /\ q.phase = "sent"
    BY DEF Request, Asks
  <2>2. Submit(q) /\ newRow' = [newRow EXCEPT ![c] = "busy"] /\ UNCHANGED <<stored, deleting, rowsStuck>>
    BY <1>1 DEF AddJobAttribute
  <2> HIDE DEF q
  <2>3. /\ requests' \in Seq(Asks) /\ Len(requests') <= MaxRequests
        /\ \A j \in DOMAIN requests : j \in DOMAIN requests' /\ requests'[j] = requests[j]
        /\ \E k \in DOMAIN requests' : requests'[k] = q
        /\ \A k \in DOMAIN requests' : requests'[k].op # "all" =>
              requests'[k].c \in Categories /\ requests'[k].n \in Names
        /\ together' \subseteq Categories /\ AddsAlone' /\ NamesDiffer'
    BY <2>1, <2>2, AttributeSubmits
  <2>4. AttributeShape'
    BY <2>2, <2>3 DEF AttributeInv, AttributeShape, AttributeTypeOK
  <2>5. BusyWaits'
    <3>1. ASSUME NEW d \in Categories \ rowsStuck', newRow'[d] = "busy"
          PROVE  \E k \in DOMAIN requests' : requests'[k].mine /\ requests'[k].op = "add" /\ requests'[k].c = d
      <4>1. CASE d = c
        BY <2>1, <2>3, <4>1
      <4>2. CASE d # c
        <5>1. newRow[d] = "busy" /\ d \notin rowsStuck
          BY <2>2, <3>1, <4>2 DEF AttributeInv, AttributeShape, AttributeTypeOK
        <5>2. QED
          BY <2>3, <5>1 DEF AttributeInv, BusyWaits
      <4>3. QED
        BY <4>1, <4>2
    <3>2. deleting' => \E k \in DOMAIN requests' : requests'[k].mine /\ requests'[k].op = "delete"
      BY <2>2, <2>3 DEF AttributeInv, BusyWaits
    <3>3. QED
      BY <3>1, <3>2 DEF BusyWaits
  <2>6. QED
    BY <2>3, <2>4, <2>5 DEF AttributeInv
<1>2. CASE DeleteAttribute(c, n)
  <2> DEFINE q == Request("delete", TRUE, c, n)
  <2>1. q \in Asks /\ q.op = "delete" /\ q.mine /\ q.c = c /\ q.n = n /\ q.phase = "sent"
    BY DEF Request, Asks
  <2>2. Submit(q) /\ deleting' = TRUE /\ UNCHANGED <<stored, newRow, rowsStuck>>
    BY <1>2 DEF DeleteAttribute
  <2> HIDE DEF q
  <2>3. /\ requests' \in Seq(Asks) /\ Len(requests') <= MaxRequests
        /\ \A j \in DOMAIN requests : j \in DOMAIN requests' /\ requests'[j] = requests[j]
        /\ \E k \in DOMAIN requests' : requests'[k] = q
        /\ \A k \in DOMAIN requests' : requests'[k].op # "all" =>
              requests'[k].c \in Categories /\ requests'[k].n \in Names
        /\ together' \subseteq Categories /\ AddsAlone' /\ NamesDiffer'
    BY <2>1, <2>2, AttributeSubmits
  <2>4. AttributeShape'
    BY <2>2, <2>3 DEF AttributeInv, AttributeShape, AttributeTypeOK
  <2>5. BusyWaits'
    BY <2>1, <2>2, <2>3 DEF AttributeInv, BusyWaits
  <2>6. QED
    BY <2>3, <2>4, <2>5 DEF AttributeInv
<1>3. ASSUME NEW op \in {"add", "delete"}, OthersAsk(op, c, n) PROVE AttributeInv'
  <2> DEFINE q == Request(op, FALSE, c, n)
  <2>1. q \in Asks /\ q.op = op /\ q.c = c /\ q.n = n /\ q.phase = "sent"
    BY DEF Request, Asks
  <2>2. Submit(q) /\ UNCHANGED <<stored, newRow, deleting, rowsStuck>>
    BY <1>3 DEF OthersAsk
  <2> HIDE DEF q
  <2>3. /\ requests' \in Seq(Asks) /\ Len(requests') <= MaxRequests
        /\ \A j \in DOMAIN requests : j \in DOMAIN requests' /\ requests'[j] = requests[j]
        /\ \A k \in DOMAIN requests' : requests'[k].op # "all" =>
              requests'[k].c \in Categories /\ requests'[k].n \in Names
        /\ together' \subseteq Categories /\ AddsAlone' /\ NamesDiffer'
    BY <2>1, <2>2, AttributeSubmits
  <2>4. AttributeShape'
    BY <2>2, <2>3 DEF AttributeInv, AttributeShape, AttributeTypeOK
  <2>5. BusyWaits'
    BY <2>2, <2>3 DEF AttributeInv, BusyWaits
  <2>6. QED
    BY <2>3, <2>4, <2>5 DEF AttributeInv
<1>4. QED
  BY <1>1, <1>2, <1>3

\* What the server does: a name found free is inserted before another add of
\* its table looks it up, or the table's adds have overlapped.
LEMMA AttributeServerKeepsInv ==
    ASSUME AttributeInv, NEW i,
           \/ ValidateJobAttribute(i) \/ CreateJobAttribute(i) \/ ViewJobAttributes(i)
           \/ FindToDelete(i) \/ DeleteJobAttribute(i)
    PROVE  AttributeInv'
<1>1. PICK op \in {"add", "delete", "all"}, from \in {"sent", "valid", "found"},
           to \in {"valid", "found", "refused", "done"} :
          Reach(i, op, from, to)
  BY DEF ValidateJobAttribute, CreateJobAttribute, FindToDelete, DeleteJobAttribute, ViewJobAttributes
<1>2. /\ i \in DOMAIN requests /\ requests[i].op = op /\ requests[i].phase = from
      /\ requests' \in Seq(Asks) /\ DOMAIN requests' = DOMAIN requests
      /\ Len(requests') = Len(requests)
      /\ requests'[i].phase = to
      /\ \A j \in DOMAIN requests :
            /\ requests'[j].op = requests[j].op /\ requests'[j].mine = requests[j].mine
            /\ requests'[j].c = requests[j].c /\ requests'[j].n = requests[j].n
            /\ j # i => requests'[j] = requests[j]
  BY <1>1, AttributeReaches DEF AttributeInv
<1>3. UNCHANGED <<newRow, deleting, together, rowsStuck>>
  BY <1>1 DEF Reach
<1>4. \A j \in DOMAIN requests, c \in Categories : IsAdd(j, c)' <=> IsAdd(j, c)
  BY <1>2 DEF IsAdd
<1>5. BusyWaits'
  BY <1>2, <1>3 DEF AttributeInv, BusyWaits
<1>6. stored' \in [Categories -> [Names -> 0 .. MaxSame]] => AttributeShape'
  <2>1. \A j \in DOMAIN requests' :
            requests'[j].op # "all" => requests'[j].c \in Categories /\ requests'[j].n \in Names
    BY <1>2 DEF AttributeInv, AttributeShape
  <2>2. /\ newRow' \in [Categories -> {"none", "typing", "busy"}] /\ deleting' \in BOOLEAN
        /\ together' \subseteq Categories /\ Len(requests') <= MaxRequests
        /\ rowsStuck' \subseteq Categories
    BY <1>2, <1>3 DEF AttributeInv, AttributeShape, AttributeTypeOK
  <2>3. QED
    BY <1>2, <2>1, <2>2 DEF AttributeShape, AttributeTypeOK
<1> DEFINE c0 == requests[i].c
           n0 == requests[i].n
<1>7. requests[i].op # "all" => c0 \in Categories /\ n0 \in Names /\ stored[c0][n0] \in 0 .. MaxSame
  BY <1>2 DEF AttributeInv, AttributeShape, AttributeTypeOK
<1>8. stored \in [Categories -> [Names -> 0 .. MaxSame]] /\ MaxSame \in Nat
  BY AttributeAssumption DEF AttributeInv, AttributeShape, AttributeTypeOK
<1>9. CASE UNCHANGED stored
  <2>1. requests'[i].phase = "valid" => requests[i].op = "add" /\ stored[c0][n0] = 0
    <3>1. \/ Reach(i, "add", "sent", "valid") /\ stored[c0][n0] = 0
          \/ Reach(i, "add", "sent", "refused")
          \/ Reach(i, "add", "valid", "done")
          \/ \E r \in {"found", "refused"} : Reach(i, "delete", "sent", r)
          \/ Reach(i, "delete", "found", "done")
          \/ Reach(i, "all", "sent", "done")
      BY Zenon DEF ValidateJobAttribute, CreateJobAttribute, FindToDelete, DeleteJobAttribute, ViewJobAttributes
    <3>2. requests'[i].phase = "valid" => Reach(i, "add", "sent", "valid") /\ stored[c0][n0] = 0
      BY <3>1, AttributeReaches DEF AttributeInv
    <3>3. QED
      BY <3>2, AttributeReaches DEF AttributeInv
  <2>2. AddsAlone'
    BY <1>2, <1>3, <1>4, <1>9, <2>1 DEF AttributeInv, AddsAlone, IsAdd
  <2>3. NamesDiffer'
    BY <1>3, <1>9 DEF AttributeInv, NamesDiffer
  <2>4. QED
    BY <1>5, <1>6, <1>8, <1>9, <2>2, <2>3 DEF AttributeInv
<1>10. CASE stored' # stored
  <2>1. PICK m \in 0 .. MaxSame :
            /\ stored' = [stored EXCEPT ![c0][n0] = m]
            /\ c0 \in Categories /\ n0 \in Names
            /\ requests'[i].phase = "done"
            /\ \/ IsAdd(i, c0) /\ requests[i].phase = "valid" /\ m = stored[c0][n0] + 1
               \/ requests[i].op = "delete" /\ m = stored[c0][n0] - 1
    <3>1. CASE CreateJobAttribute(i)
      <4>1. /\ Reach(i, "add", "valid", "done") /\ stored[c0][n0] < MaxSame
            /\ stored' = [stored EXCEPT ![c0][n0] = stored[c0][n0] + 1]
        BY <1>7, <3>1, AttributeReaches, Zenon DEF CreateJobAttribute, AttributeInv
      <4>2. requests[i].op = "add" /\ requests[i].phase = "valid" /\ requests'[i].phase = "done"
        BY <4>1, AttributeReaches DEF AttributeInv
      <4>3. stored[c0][n0] + 1 \in 0 .. MaxSame
        BY <1>7, <1>8, <4>1, <4>2
      <4>4. QED
        BY <1>2, <1>7, <4>1, <4>2, <4>3 DEF IsAdd
    <3>2. CASE DeleteJobAttribute(i)
      <4>1. /\ Reach(i, "delete", "found", "done") /\ stored[c0][n0] > 0
            /\ stored' = [stored EXCEPT ![c0][n0] = stored[c0][n0] - 1]
        BY <1>10, <3>2, Zenon DEF DeleteJobAttribute
      <4>2. requests[i].op = "delete" /\ requests'[i].phase = "done"
        BY <4>1, AttributeReaches DEF AttributeInv
      <4>3. stored[c0][n0] - 1 \in 0 .. MaxSame
        BY <1>7, <1>8, <4>1, <4>2
      <4>4. QED
        BY <1>7, <4>1, <4>2, <4>3
    <3>3. QED
      BY <1>10, <3>1, <3>2 DEF ValidateJobAttribute, FindToDelete, ViewJobAttributes
  <2>2. stored' \in [Categories -> [Names -> 0 .. MaxSame]]
    BY <1>8, <2>1
  <2>3. \A c \in Categories, n \in Names :
            stored'[c][n] = IF c = c0 /\ n = n0 THEN m ELSE stored[c][n]
    BY <1>8, <2>1
  <2>4. c0 \notin together /\ m = stored[c0][n0] + 1 => m = 1
    <3>1. CASE IsAdd(i, c0) /\ requests[i].phase = "valid"
      BY <1>2, <2>1, <3>1 DEF AttributeInv, AddsAlone
    <3>2. CASE requests[i].op = "delete" /\ m = stored[c0][n0] - 1
      BY <1>7, <3>2
    <3>3. QED
      BY <2>1, <3>1, <3>2
  <2>5. NamesDiffer'
    <3>1. ASSUME NEW c \in Categories \ together, NEW n \in Names PROVE stored'[c][n] <= 1
      <4>1. stored[c][n] <= 1 /\ stored[c][n] \in Nat
        BY <1>8 DEF AttributeInv, NamesDiffer
      <4>2. QED
        BY <2>1, <2>3, <2>4, <4>1
    <3>2. QED
      BY <1>3, <3>1 DEF NamesDiffer
  <2>6. AddsAlone'
    <3>1. ASSUME NEW c \in Categories \ together, NEW j \in DOMAIN requests,
                 IsAdd(j, c)', requests'[j].phase = "valid"
          PROVE  stored'[c][requests'[j].n] = 0
      <4>1. j # i /\ requests'[j] = requests[j] /\ IsAdd(j, c)
        BY <1>2, <1>4, <2>1, <3>1
      <4>2. stored[c][requests[j].n] = 0 /\ requests[j].n \in Names
        BY <3>1, <4>1 DEF AttributeInv, AddsAlone, AttributeShape, IsAdd
      <4>3. CASE c = c0 /\ IsAdd(i, c0)
        BY <1>2, <3>1, <4>1, <4>3 DEF AttributeInv, AddsAlone
      <4>4. CASE requests[i].op = "delete" /\ m = stored[c0][n0] - 1
        <5>1. stored[c0][n0] # 0
          BY <1>7, <4>4
        <5>2. ~(c = c0 /\ requests[j].n = n0)
          BY <4>2, <5>1
        <5>3. QED
          BY <2>3, <4>1, <4>2, <5>2
      <4>5. CASE c # c0
        BY <2>3, <4>1, <4>2, <4>5
      <4>6. QED
        BY <2>1, <4>3, <4>4, <4>5
    <3>2. QED
      BY <1>2, <1>3, <1>4, <3>1 DEF AttributeInv, AddsAlone
  <2>7. QED
    BY <1>5, <1>6, <2>2, <2>5, <2>6 DEF AttributeInv
<1>11. QED
  BY <1>9, <1>10

\* Answers, and a row that is opened or given up.
LEMMA AttributeAnswersKeepInv ==
    ASSUME AttributeInv, NEW i,
           \/ OthersAnswer(i) \/ Added(i) \/ Deleted(i) \/ Shown(i)
           \/ AttributeSignedOut(i) \/ AttributeError(i)
    PROVE  AttributeInv'
<1>1. i \in DOMAIN requests
  BY DEF OthersAnswer, Added, Deleted, Shown, AttributeSignedOut, AttributeError, AttributeSuccess
<1>2. /\ newRow \in [Categories -> {"none", "typing", "busy"}] /\ deleting \in BOOLEAN
      /\ requests \in Seq(Asks) /\ requests[i] \in Asks /\ rowsStuck \subseteq Categories
  BY <1>1 DEF AttributeInv, AttributeShape, AttributeTypeOK
<1>3. CASE OthersAnswer(i)
  BY <1>1, <1>2, <1>3, AttributeOver DEF OthersAnswer
<1>4. CASE Added(i)
  <2>1. /\ newRow' = [newRow EXCEPT ![requests[i].c] = "none"] /\ UNCHANGED <<deleting, stored, together>>
        /\ rowsStuck' = {c \in rowsStuck : newRow'[c] = "busy"}
    BY <1>4 DEF Added, AttributeSuccess, SetRows
  <2>2. requests[i].op = "add" /\ requests' = Append(RemoveAt(requests, i), All)
    BY <1>4 DEF Added, AttributeSuccess
  <2>3. \A c \in Categories \ rowsStuck' : newRow'[c] = "busy" =>
            c \notin rowsStuck /\ newRow[c] = "busy" /\ ~IsAdd(i, c)
    BY <1>2, <2>1 DEF IsAdd
  <2>4. newRow' \in [Categories -> {"none", "typing", "busy"}]
    BY <1>2, <2>1
  <2>5. QED
    BY <1>1, <1>2, <2>1, <2>2, <2>3, <2>4, AttributeOver
<1>5. CASE Deleted(i)
  <2>1. deleting' = FALSE /\ UNCHANGED <<newRow, rowsStuck, stored, together>> /\ requests[i].op = "delete"
        /\ requests' = Append(RemoveAt(requests, i), All)
    BY <1>5 DEF Deleted, AttributeSuccess
  <2>2. QED
    BY <1>1, <1>2, <2>1, AttributeOver DEF IsAdd
<1>6. CASE Shown(i)
  <2>1. newRow' = [c \in Categories |-> "none"] /\ UNCHANGED <<deleting, stored, together>>
        /\ requests[i].op = "all" /\ requests' = RemoveAt(requests, i) /\ rowsStuck' \subseteq rowsStuck
    BY <1>6 DEF Shown, AttributeSuccess, SetRows
  <2>2. \A c \in Categories : newRow'[c] # "busy"
    BY <2>1
  <2>3. newRow' \in [Categories -> {"none", "typing", "busy"}]
    BY <2>1
  <2>4. QED
    BY <1>1, <1>2, <2>1, <2>2, <2>3, AttributeOver
<1>7. CASE AttributeError(i)
  <2> DEFINE rows == IF requests[i].op = "add" /\ newRow[requests[i].c] = "busy"
                     THEN [newRow EXCEPT ![requests[i].c] = "typing"] ELSE newRow
  <2>a. SetRows(rows)
    BY <1>7 DEF AttributeError
  <2> HIDE DEF rows
  <2>b. newRow' = rows /\ rowsStuck' = {c \in rowsStuck : newRow'[c] = "busy"}
    BY <2>a DEF SetRows
  <2>1. /\ newRow' = IF requests[i].op = "add" /\ newRow[requests[i].c] = "busy"
                     THEN [newRow EXCEPT ![requests[i].c] = "typing"] ELSE newRow
        /\ deleting' = (deleting /\ requests[i].op # "delete")
        /\ UNCHANGED <<stored, together>>
        /\ requests' \in {RemoveAt(requests, i), [requests EXCEPT ![i].mine = FALSE]}
        /\ rowsStuck' = {c \in rowsStuck : newRow'[c] = "busy"}
    BY <1>7, <2>b DEF AttributeError, rows
  <2>2. /\ newRow' \in [Categories -> {"none", "typing", "busy"}] /\ deleting' \in BOOLEAN
        /\ rowsStuck' \subseteq Categories
    BY <1>2, <2>1
  <2>3. \A c \in Categories \ rowsStuck' : newRow'[c] = "busy" =>
            c \notin rowsStuck /\ newRow[c] = "busy" /\ ~IsAdd(i, c)
    BY <1>2, <2>1 DEF IsAdd
  <2>4. CASE requests' = RemoveAt(requests, i)
    BY <1>1, <2>1, <2>2, <2>3, <2>4, AttributeOver
  <2>5. CASE requests' = [requests EXCEPT ![i].mine = FALSE]
    <3>1. /\ DOMAIN requests' = DOMAIN requests
          /\ \A j \in DOMAIN requests : j # i => requests'[j] = requests[j]
          /\ requests'[i] = [requests[i] EXCEPT !.mine = FALSE]
      BY <1>1, <1>2, <2>5
    <3>2. /\ requests'[i] \in Asks
          /\ requests'[i].op = requests[i].op /\ requests'[i].phase = requests[i].phase
          /\ requests'[i].c = requests[i].c /\ requests'[i].n = requests[i].n
      BY <1>2, <3>1 DEF Asks
    <3>3. requests' \in Seq(Asks) /\ Len(requests') = Len(requests)
      <4>1. DOMAIN requests = 1 .. Len(requests) /\ Len(requests) \in Nat
            /\ \A j \in DOMAIN requests : requests[j] \in Asks
        BY <1>2
      <4>2. requests' \in [1 .. Len(requests) -> Asks]
        BY <2>5, <3>1, <3>2, <4>1
      <4>3. QED
        BY <4>1, <4>2
    <3>4. \A j \in DOMAIN requests, c \in Categories : IsAdd(j, c)' <=> IsAdd(j, c)
      BY <3>1, <3>2 DEF IsAdd
    <3>5. AttributeShape'
      <4>1. \A j \in DOMAIN requests' :
                requests'[j].op # "all" => requests'[j].c \in Categories /\ requests'[j].n \in Names
        BY <3>1, <3>2 DEF AttributeInv, AttributeShape
      <4>2. QED
        BY <2>1, <2>2, <3>3, <4>1 DEF AttributeInv, AttributeShape, AttributeTypeOK
    <3>6. AddsAlone' /\ NamesDiffer'
      <4>1. \A j \in DOMAIN requests :
                requests'[j].phase = requests[j].phase /\ requests'[j].n = requests[j].n
        BY <3>1, <3>2
      <4>2. NamesDiffer'
        BY <2>1 DEF AttributeInv, NamesDiffer
      <4>3. AddsAlone'
        BY <2>1, <3>1, <3>4, <4>1 DEF AttributeInv, AddsAlone
      <4>4. QED
        BY <4>2, <4>3
    <3>7. BusyWaits'
      <4>1. ASSUME NEW c \in Categories \ rowsStuck', newRow'[c] = "busy"
            PROVE  \E k \in DOMAIN requests' : requests'[k].mine /\ requests'[k].op = "add" /\ requests'[k].c = c
        <5>1. PICK j \in DOMAIN requests : requests[j].mine /\ requests[j].op = "add" /\ requests[j].c = c
          BY <2>3, <4>1 DEF AttributeInv, BusyWaits
        <5>2. j # i
          BY <2>3, <4>1, <5>1 DEF IsAdd
        <5>3. QED
          BY <3>1, <5>1, <5>2
      <4>2. ASSUME deleting' PROVE \E k \in DOMAIN requests' : requests'[k].mine /\ requests'[k].op = "delete"
        <5>1. PICK j \in DOMAIN requests : requests[j].mine /\ requests[j].op = "delete"
          BY <2>1, <4>2 DEF AttributeInv, BusyWaits
        <5>2. j # i
          BY <2>1, <4>2, <5>1
        <5>3. QED
          BY <3>1, <5>1, <5>2
      <4>3. QED
        BY <4>1, <4>2 DEF BusyWaits
    <3>8. QED
      BY <3>5, <3>6, <3>7 DEF AttributeInv
  <2>6. QED
    BY <2>1, <2>4, <2>5
<1>8. CASE AttributeSignedOut(i)
  <2>1. /\ requests' = IF requests[i].op = "delete" THEN Append(RemoveAt(requests, i), All)
                       ELSE RemoveAt(requests, i)
        /\ rowsStuck' = IF requests[i].op = "add" /\ newRow[requests[i].c] = "busy"
                        THEN rowsStuck \cup {requests[i].c} ELSE rowsStuck
        /\ requests[i].op = "delete" => deleting' = FALSE
        /\ requests[i].op # "delete" => deleting' = deleting
        /\ UNCHANGED <<stored, newRow, together>>
    BY <1>8 DEF AttributeSignedOut
  <2>2. requests' \in {RemoveAt(requests, i), Append(RemoveAt(requests, i), All)}
    BY <2>1
  <2>3. rowsStuck' \subseteq Categories
    BY <1>1, <1>2, <2>1 DEF AttributeInv, AttributeShape
  <2>4. \A c \in Categories \ rowsStuck' : newRow'[c] = "busy" =>
            c \notin rowsStuck /\ newRow[c] = "busy" /\ ~IsAdd(i, c)
    BY <2>1 DEF IsAdd
  <2>5. deleting' \in BOOLEAN /\ (deleting' => deleting /\ requests[i].op # "delete")
    <3>1. CASE requests[i].op = "delete"
      BY <2>1, <3>1
    <3>2. CASE requests[i].op # "delete"
      BY <1>2, <2>1, <3>2
    <3>3. QED
      BY <3>1, <3>2
  <2>6. UNCHANGED <<stored, together>> /\ newRow' \in [Categories -> {"none", "typing", "busy"}]
    BY <1>2, <2>1
  <2>7. QED
    BY <1>1, <2>2, <2>3, <2>4, <2>5, <2>6, AttributeOver
<1>9. QED
  BY <1>3, <1>4, <1>5, <1>6, <1>7, <1>8

LEMMA AttributeRowsKeepInv ==
    ASSUME AttributeInv, NEW c \in Categories, InitAddJobAttribute(c) \/ CancelNewRow(c)
    PROVE  AttributeInv'
<1>1. PICK v \in {"typing", "none"} : newRow' = [newRow EXCEPT ![c] = v]
  BY DEF InitAddJobAttribute, CancelNewRow
<1>2. UNCHANGED <<stored, deleting, requests, together, rowsStuck>>
  BY DEF InitAddJobAttribute, CancelNewRow
<1>3. newRow \in [Categories -> {"none", "typing", "busy"}]
  BY DEF AttributeInv, AttributeShape, AttributeTypeOK
<1>4. newRow' \in [Categories -> {"none", "typing", "busy"}]
  BY <1>1, <1>3
<1>5. \A d \in Categories : newRow'[d] = "busy" => newRow[d] = "busy"
  BY <1>1, <1>3
<1>6. BusyWaits'
  BY <1>2, <1>5 DEF AttributeInv, BusyWaits
<1>7. QED
  BY <1>2, <1>4, <1>6 DEF AttributeInv, AttributeShape, AttributeTypeOK, AddsAlone, NamesDiffer, IsAdd

LEMMA AttributeNextKeepsInv == AttributeInv /\ [AttributePageNext]_attributeVars => AttributeInv'
<1> SUFFICES ASSUME AttributeInv, [AttributePageNext]_attributeVars PROVE AttributeInv'
  OBVIOUS
<1>1. CASE UNCHANGED attributeVars
  BY <1>1 DEF attributeVars, AttributeInv, AttributeShape, AttributeTypeOK, AddsAlone, NamesDiffer, BusyWaits, IsAdd
<1>2. CASE AttributePageNext
  BY <1>2, AttributeRowsKeepInv, AttributeAsksKeepInv, AttributeServerKeepsInv, AttributeAnswersKeepInv
     DEF AttributePageNext
<1>3. QED
  BY <1>1, <1>2

LEMMA AttributeInitInv == AttributePageInit => AttributeInv
<1> SUFFICES ASSUME AttributePageInit PROVE AttributeInv
  OBVIOUS
<1>1. /\ stored = [c \in Categories |-> [n \in Names |-> 0]] /\ newRow = [c \in Categories |-> "none"]
      /\ deleting = FALSE /\ requests = <<All>> /\ together = {} /\ rowsStuck = {}
  BY DEF AttributePageInit, All, Request
<1>2. All \in Asks /\ All.op = "all"
  BY DEF All, Request, Asks
<1>3. requests \in Seq(Asks) /\ Len(requests) = 1 /\ DOMAIN requests = {1} /\ requests[1].op = "all"
  BY <1>1, <1>2
<1>4. stored \in [Categories -> [Names -> 0 .. MaxSame]] /\ Len(requests) <= MaxRequests
  BY <1>1, <1>3, AttributeAssumption
<1>5. AttributeShape
  BY <1>1, <1>3, <1>4 DEF AttributeShape, AttributeTypeOK
<1>6. AddsAlone
  BY <1>3 DEF AddsAlone, IsAdd
<1>7. NamesDiffer /\ BusyWaits
  BY <1>1 DEF NamesDiffer, BusyWaits
<1>8. QED
  BY <1>5, <1>6, <1>7 DEF AttributeInv

-------------------------------------------------------------------------------
(* Feedback *)

FeedbackAsks == [op : {"view", "list", "mark"}, of : Feedbacks, mine : BOOLEAN,
                 phase : {"sent", "found", "refused", "done"}, news : SUBSET Feedbacks]

\* What a request has learned is still so: marks are not taken back, and no
\* deleted author returns.
Holds(q, marked, left) ==
    /\ q.op # "mark" => q.phase \in {"sent", "done"} /\ q.news \subseteq marked
    /\ q.op = "mark" =>
        /\ q.phase = "done" => q.of \in marked
        /\ q.phase = "refused" => q.of \in marked \cup left
        /\ q.phase = "found" => q.news \subseteq left

FeedbackShape ==
    /\ FeedbackTypeOK
    /\ marks \in Seq(FeedbackAsks)
    /\ \A i \in DOMAIN marks : Holds(marks[i], seen, orphans)

FeedbackInv == FeedbackShape /\ ReadIsSeen

LEMMA HoldsOn ==
    ASSUME NEW q, Holds(q, seen, orphans), seen \subseteq seen', orphans \subseteq orphans'
    PROVE  Holds(q, seen', orphans')
BY DEF Holds

\* A new request.
LEMMA FeedbackAsked ==
    ASSUME FeedbackInv, NEW q \in FeedbackAsks, q.phase = "sent", q.news = {}, AskServer(q),
           UNCHANGED <<seen, orphans, dots, read, unmarked, feigned>>
    PROVE  FeedbackInv'
<1>1. /\ marks \in Seq(FeedbackAsks) /\ Len(marks) \in Nat /\ Len(marks) < MaxMarks
      /\ marks' = Append(marks, q)
  BY DEF FeedbackInv, FeedbackShape, AskServer
<1>2. /\ marks' \in Seq(FeedbackAsks)
      /\ \A j \in DOMAIN marks : j \in DOMAIN marks' /\ marks'[j] = marks[j]
      /\ \A k \in DOMAIN marks' : k \in DOMAIN marks \/ marks'[k] = q
  BY <1>1, AppendKeepsOthers
<1>3. Len(marks') <= MaxMarks
  BY <1>1, FeedbackAssumption
<1>4. Holds(q, seen, orphans)
  BY DEF Holds
<1>5. \A k \in DOMAIN marks' : Holds(marks'[k], seen, orphans)
  BY <1>2, <1>4 DEF FeedbackInv, FeedbackShape
<1>6. \A k \in DOMAIN marks' : Holds(marks'[k], seen', orphans')
  BY <1>5
<1>7. FeedbackShape'
  BY <1>2, <1>3, <1>6 DEF FeedbackInv, FeedbackShape, FeedbackTypeOK
<1>8. ReadIsSeen'
  BY <1>2 DEF FeedbackInv, ReadIsSeen
<1>9. QED
  BY <1>7, <1>8 DEF FeedbackInv

\* The server moves one request on, and may mark.
LEMMA FeedbackServed ==
    ASSUME FeedbackInv, NEW i, NEW ops, NEW from, NEW to \in {"found", "refused", "done"},
           NEW news \in SUBSET Feedbacks, FeedbackReach(i, ops, from, to, news),
           seen \subseteq seen', seen' \subseteq Feedbacks,
           marks[i].op # "mark" => to = "done" /\ news \subseteq seen,
           marks[i].op = "mark" =>
               /\ to = "done" => marks[i].of \in seen'
               /\ to = "refused" => marks[i].of \in seen \cup orphans
               /\ to = "found" => news \subseteq orphans
    PROVE  FeedbackInv'
<1>1. /\ i \in DOMAIN marks /\ marks \in Seq(FeedbackAsks) /\ UNCHANGED <<orphans, dots, read, unmarked, feigned>>
      /\ marks' = [marks EXCEPT ![i].phase = to, ![i].news = news]
  BY DEF FeedbackReach, FeedbackInv, FeedbackShape
<1>2. marks[i] \in FeedbackAsks
  BY <1>1
<1>3. /\ DOMAIN marks' = DOMAIN marks
      /\ \A j \in DOMAIN marks : j # i => marks'[j] = marks[j]
      /\ marks'[i] = [marks[i] EXCEPT !.phase = to, !.news = news]
  BY <1>1, <1>2 DEF FeedbackAsks
<1>4. /\ marks'[i] \in FeedbackAsks /\ marks'[i].phase = to /\ marks'[i].news = news
      /\ marks'[i].op = marks[i].op /\ marks'[i].of = marks[i].of
  BY <1>2, <1>3 DEF FeedbackAsks
<1>5. marks' \in Seq(FeedbackAsks) /\ Len(marks') = Len(marks)
  <2>1. DOMAIN marks = 1 .. Len(marks) /\ Len(marks) \in Nat /\ \A j \in DOMAIN marks : marks[j] \in FeedbackAsks
    BY <1>1
  <2>2. marks' \in [1 .. Len(marks) -> FeedbackAsks]
    BY <1>1, <1>3, <1>4, <2>1
  <2>3. QED
    BY <2>1, <2>2
<1>6. ASSUME NEW j \in DOMAIN marks' PROVE Holds(marks'[j], seen', orphans')
  <2>1. CASE j = i
    BY <1>1, <1>4, <2>1 DEF Holds
  <2>2. CASE j # i
    <3>1. Holds(marks[j], seen, orphans)
      BY <1>3 DEF FeedbackInv, FeedbackShape
    <3>2. QED
      BY <1>1, <1>3, <2>2, <3>1, HoldsOn
  <2>3. QED
    BY <2>1, <2>2
<1>7. FeedbackShape'
  BY <1>1, <1>5, <1>6 DEF FeedbackInv, FeedbackShape, FeedbackTypeOK
<1>8. \A j \in DOMAIN marks : marks'[j].op = marks[j].op /\ marks'[j].of = marks[j].of
  BY <1>3, <1>4
<1>9. ReadIsSeen'
  BY <1>1, <1>3, <1>8 DEF FeedbackInv, ReadIsSeen
<1>10. QED
  BY <1>7, <1>9 DEF FeedbackInv

\* A request that is over leaves the others, maybe with a mark that follows it.
LEMMA FeedbackLeaves ==
    ASSUME FeedbackShape, NEW i \in DOMAIN marks, UNCHANGED <<seen, orphans>>, NEW f \in Feedbacks,
           marks' \in {RemoveAt(marks, i), Append(RemoveAt(marks, i), Mark(f, TRUE))}
    PROVE  /\ marks' \in Seq(FeedbackAsks) /\ Len(marks') <= MaxMarks
           /\ \A k \in DOMAIN marks' : Holds(marks'[k], seen', orphans')
           /\ \A j \in DOMAIN marks : j # i => \E k \in DOMAIN marks' : marks'[k] = marks[j]
           /\ marks' # RemoveAt(marks, i) => \E k \in DOMAIN marks' : marks'[k] = Mark(f, TRUE)
<1> DEFINE rest == RemoveAt(marks, i)
           m == Mark(f, TRUE)
<1>1. /\ marks \in Seq(FeedbackAsks) /\ Len(marks) \in Nat /\ Len(marks) <= MaxMarks
      /\ \A j \in DOMAIN marks : Holds(marks[j], seen', orphans')
  BY DEF FeedbackShape, FeedbackTypeOK
<1>2. /\ rest \in Seq(FeedbackAsks) /\ Len(rest) = Len(marks) - 1
  BY <1>1, RemoveAtElements
<1>3. /\ \A j \in DOMAIN marks : j # i => \E k \in DOMAIN rest : rest[k] = marks[j]
      /\ \A k \in DOMAIN rest : \E j \in DOMAIN marks : j # i /\ rest[k] = marks[j]
  BY <1>1, RemoveAtKeepsOthers
<1>4. m \in FeedbackAsks /\ Holds(m, seen', orphans')
  BY DEF Mark, FeedbackAsks, Holds
<1> HIDE DEF rest, m
<1>5. CASE marks' = rest
  BY <1>1, <1>2, <1>3, <1>5, FeedbackAssumption DEF rest, m
<1>6. CASE marks' = Append(rest, m)
  <2>1. /\ marks' \in Seq(FeedbackAsks)
        /\ \A j \in DOMAIN rest : j \in DOMAIN marks' /\ marks'[j] = rest[j]
        /\ Len(rest) + 1 \in DOMAIN marks' /\ marks'[Len(rest) + 1] = m
        /\ \A k \in DOMAIN marks' : k \in DOMAIN rest \/ k = Len(rest) + 1
    BY <1>2, <1>4, <1>6, AppendKeepsOthers
  <2>2. Len(marks') <= MaxMarks
    BY <1>1, <1>2, <1>6
  <2>3. \A k \in DOMAIN marks' : Holds(marks'[k], seen', orphans')
    BY <1>1, <1>3, <1>4, <2>1
  <2>4. \A j \in DOMAIN marks : j # i => \E k \in DOMAIN marks' : marks'[k] = marks[j]
    BY <1>3, <2>1
  <2>5. QED
    BY <2>1, <2>2, <2>3, <2>4 DEF m
<1>7. QED
  BY <1>5, <1>6 DEF rest, m

LEMMA FeedbackAnswersKeepInv ==
    ASSUME FeedbackInv, NEW i,
           FeedbackShown(i) \/ FeedbackListed(i) \/ FeedbackMarked(i) \/ FeedbackRefused(i)
    PROVE  FeedbackInv'
<1> DEFINE f == marks[i].of
<1>1. /\ i \in DOMAIN marks /\ FeedbackShape /\ UNCHANGED <<seen, orphans>>
      /\ marks' \in {RemoveAt(marks, i), Append(RemoveAt(marks, i), Mark(f, TRUE))}
  BY DEF FeedbackInv, FeedbackShown, FeedbackListed, FeedbackMarked, FeedbackRefused, FeedbackAnswer
<1>2. marks[i] \in FeedbackAsks /\ Holds(marks[i], seen, orphans) /\ f \in Feedbacks
  <2>1. marks[i] \in FeedbackAsks /\ Holds(marks[i], seen, orphans)
    BY <1>1 DEF FeedbackShape
  <2>2. QED
    BY <2>1 DEF FeedbackAsks
<1>3. /\ marks' \in Seq(FeedbackAsks) /\ Len(marks') <= MaxMarks
      /\ \A k \in DOMAIN marks' : Holds(marks'[k], seen', orphans')
      /\ \A j \in DOMAIN marks : j # i => \E k \in DOMAIN marks' : marks'[k] = marks[j]
      /\ marks' # RemoveAt(marks, i) => \E k \in DOMAIN marks' : marks'[k] = Mark(f, TRUE)
  BY <1>1, <1>2, FeedbackLeaves
<1>4. {seen, orphans, dots, read, unmarked, feigned} \subseteq SUBSET Feedbacks
  BY DEF FeedbackInv, FeedbackShape, FeedbackTypeOK
<1>5. /\ dots' \subseteq Feedbacks /\ read' \subseteq Feedbacks /\ unmarked' \subseteq Feedbacks
      /\ feigned' \subseteq Feedbacks
      /\ Feedbacks \ dots' \subseteq seen \cup feigned'
  <2>1. Feedbacks \ dots \subseteq seen \cup feigned
    BY DEF FeedbackInv, ReadIsSeen
  <2>2. CASE FeedbackShown(i)
    BY <1>2, <1>4, <2>1, <2>2 DEF FeedbackShown
  <2>3. CASE FeedbackListed(i)
    BY <1>2, <1>4, <2>3 DEF FeedbackListed, FeedbackAnswer, Holds
  <2>4. CASE FeedbackMarked(i)
    BY <1>2, <1>4, <2>1, <2>4 DEF FeedbackMarked, FeedbackAnswer, Holds
  <2>5. CASE FeedbackRefused(i)
    BY <1>4, <2>1, <2>5 DEF FeedbackRefused
  <2>6. QED
    BY <2>2, <2>3, <2>4, <2>5
<1>6. ASSUME NEW g \in read' \ (unmarked' \cup orphans' \cup seen')
      PROVE  \E k \in DOMAIN marks' : marks'[k].op = "mark" /\ marks'[k].of = g
  <2>1. CASE FeedbackShown(i) /\ g = f
    <3>1. f \notin marks[i].news
      BY <1>1, <1>2, <1>6, <2>1 DEF FeedbackShown, FeedbackAnswer, Holds
    <3>2. marks' = Append(RemoveAt(marks, i), Mark(f, TRUE))
      BY <2>1, <3>1 DEF FeedbackShown
    <3>3. Len(RemoveAt(marks, i)) = Len(marks) - 1 /\ RemoveAt(marks, i) \in Seq(FeedbackAsks) /\ Len(marks) \in Nat
      BY <1>1, RemoveAtElements DEF FeedbackShape
    <3> DEFINE m == Mark(f, TRUE)
               rest == RemoveAt(marks, i)
    <3>4. m \in FeedbackAsks /\ m.op = "mark" /\ m.of = f
      BY <1>2 DEF Mark, FeedbackAsks
    <3>5. marks' = Append(rest, m) /\ rest \in Seq(FeedbackAsks)
      BY <3>2, <3>3
    <3> HIDE DEF m, rest
    <3>6. \E k \in DOMAIN marks' : marks'[k] = m
      BY <3>4, <3>5, AppendKeepsOthers
    <3>7. QED
      BY <2>1, <3>4, <3>6
  <2>2. CASE ~(FeedbackShown(i) /\ g = f)
    <3>1. g \in read \ (unmarked \cup orphans \cup seen)
      BY <1>1, <1>6, <2>2 DEF FeedbackShown, FeedbackListed, FeedbackMarked, FeedbackRefused
    <3>2. PICK j \in DOMAIN marks : marks[j].op = "mark" /\ marks[j].of = g
      BY <3>1 DEF FeedbackInv, ReadIsSeen
    <3>3. j # i
      BY <1>2, <3>1, <3>2
         DEF FeedbackShown, FeedbackListed, FeedbackMarked, FeedbackRefused, FeedbackAnswer, Holds
    <3>4. QED
      BY <1>3, <3>2, <3>3
  <2>3. QED
    BY <2>1, <2>2
<1>7. FeedbackShape'
  BY <1>1, <1>3, <1>4, <1>5 DEF FeedbackShape, FeedbackTypeOK
<1>8. ReadIsSeen'
  BY <1>1, <1>5, <1>6 DEF ReadIsSeen
<1>9. QED
  BY <1>7, <1>8 DEF FeedbackInv

\* The answer to a session that is over: a mark may seem to be made.
LEMMA FeedbackSignedOutKeepsInv == ASSUME FeedbackInv, NEW i, FeedbackSignedOut(i) PROVE FeedbackInv'
<1> DEFINE took == IF marks[i].op = "mark" THEN {marks[i].of} ELSE {}
<1>1. /\ i \in DOMAIN marks /\ FeedbackShape /\ UNCHANGED <<seen, orphans, read>>
      /\ marks' = RemoveAt(marks, i)
      /\ dots' = dots \ took /\ feigned' = feigned \cup took /\ unmarked' = unmarked \cup took
  BY DEF FeedbackInv, FeedbackSignedOut
<1>2. marks[i] \in FeedbackAsks
  BY <1>1 DEF FeedbackShape
<1>3. marks[i].of \in Feedbacks /\ took \subseteq Feedbacks
  BY <1>2 DEF FeedbackAsks
<1>4. /\ marks' \in Seq(FeedbackAsks) /\ Len(marks') <= MaxMarks
      /\ \A k \in DOMAIN marks' : Holds(marks'[k], seen', orphans')
      /\ \A j \in DOMAIN marks : j # i => \E k \in DOMAIN marks' : marks'[k] = marks[j]
  BY <1>1, <1>3, FeedbackLeaves
<1>5. FeedbackShape'
  BY <1>1, <1>3, <1>4 DEF FeedbackShape, FeedbackTypeOK
<1>6. ASSUME NEW g \in read \ (unmarked' \cup orphans \cup seen)
      PROVE  \E k \in DOMAIN marks' : marks'[k].op = "mark" /\ marks'[k].of = g
  <2>1. PICK j \in DOMAIN marks : marks[j].op = "mark" /\ marks[j].of = g
    BY <1>1, <1>6 DEF FeedbackInv, ReadIsSeen
  <2>2. j # i
    BY <1>1, <1>6, <2>1
  <2>3. QED
    BY <1>4, <2>1, <2>2
<1>7. Feedbacks \ dots' \subseteq seen \cup feigned'
  BY <1>1 DEF FeedbackInv, ReadIsSeen
<1>8. ReadIsSeen'
  BY <1>1, <1>6, <1>7 DEF ReadIsSeen
<1>9. QED
  BY <1>5, <1>8 DEF FeedbackInv

LEMMA FeedbackLostKeepsInv == ASSUME FeedbackInv, NEW i, FeedbackLost(i) PROVE FeedbackInv'
<1>1. /\ i \in DOMAIN marks /\ FeedbackShape /\ UNCHANGED <<seen, orphans, dots, read, feigned>>
      /\ marks' \in {RemoveAt(marks, i), [marks EXCEPT ![i].mine = FALSE]}
      /\ unmarked' = IF marks[i].op = "mark" THEN unmarked \cup {marks[i].of} ELSE unmarked
  BY DEF FeedbackInv, FeedbackLost
<1>2. marks[i] \in FeedbackAsks /\ marks[i].of \in Feedbacks
  <2>1. marks[i] \in FeedbackAsks
    BY <1>1 DEF FeedbackShape
  <2>2. QED
    BY <2>1 DEF FeedbackAsks
<1>3. /\ marks' \in Seq(FeedbackAsks) /\ Len(marks') <= MaxMarks
      /\ \A k \in DOMAIN marks' : Holds(marks'[k], seen', orphans')
      /\ \A j \in DOMAIN marks : j # i => \E k \in DOMAIN marks' : marks'[k] = marks[j]
  <2>1. CASE marks' = RemoveAt(marks, i)
    BY <1>1, <1>2, <2>1, FeedbackLeaves
  <2>2. CASE marks' = [marks EXCEPT ![i].mine = FALSE]
    <3>1. /\ marks \in Seq(FeedbackAsks) /\ DOMAIN marks = 1 .. Len(marks) /\ Len(marks) \in Nat
          /\ \A j \in DOMAIN marks : marks[j] \in FeedbackAsks /\ Holds(marks[j], seen, orphans)
      BY <1>1 DEF FeedbackShape
    <3>2. /\ DOMAIN marks' = DOMAIN marks
          /\ \A j \in DOMAIN marks : j # i => marks'[j] = marks[j]
          /\ marks'[i] = [marks[i] EXCEPT !.mine = FALSE]
      BY <1>1, <1>2, <2>2, <3>1 DEF FeedbackAsks
    <3>3. marks'[i] \in FeedbackAsks /\ Holds(marks'[i], seen, orphans)
      BY <1>1, <1>2, <3>1, <3>2 DEF FeedbackAsks, Holds
    <3>4. marks' \in [1 .. Len(marks) -> FeedbackAsks]
      BY <2>2, <3>1, <3>2, <3>3
    <3>5. marks' \in Seq(FeedbackAsks) /\ Len(marks') = Len(marks)
      BY <3>1, <3>4
    <3>6. QED
      BY <1>1, <3>1, <3>2, <3>3, <3>5 DEF FeedbackShape, FeedbackTypeOK
  <2>3. QED
    BY <1>1, <2>1, <2>2
<1>4. FeedbackShape'
  BY <1>1, <1>2, <1>3 DEF FeedbackShape, FeedbackTypeOK
<1>5. ASSUME NEW g \in read \ (unmarked' \cup orphans \cup seen)
      PROVE  \E k \in DOMAIN marks' : marks'[k].op = "mark" /\ marks'[k].of = g
  <2>1. PICK j \in DOMAIN marks : marks[j].op = "mark" /\ marks[j].of = g
    BY <1>1, <1>5 DEF FeedbackInv, ReadIsSeen
  <2>2. j # i
    BY <1>1, <1>5, <2>1
  <2>3. QED
    BY <1>3, <2>1, <2>2
<1>6. ReadIsSeen'
  BY <1>1, <1>5 DEF FeedbackInv, ReadIsSeen
<1>7. QED
  BY <1>4, <1>6 DEF FeedbackInv

LEMMA FeedbackServerKeepsInv ==
    ASSUME FeedbackInv, NEW i, FindFeedback(i) \/ MarkAsSeen(i) \/ UpdateFeedback(i)
    PROVE  FeedbackInv'
<1>1. {seen, orphans} \subseteq SUBSET Feedbacks
  BY DEF FeedbackInv, FeedbackShape, FeedbackTypeOK
<1>2. ASSUME i \in DOMAIN marks
      PROVE  marks[i] \in FeedbackAsks /\ Holds(marks[i], seen, orphans) /\ marks[i].of \in Feedbacks
  <2>1. marks[i] \in FeedbackAsks /\ Holds(marks[i], seen, orphans)
    BY <1>2 DEF FeedbackInv, FeedbackShape
  <2>2. QED
    BY <2>1 DEF FeedbackAsks
<1>3. CASE FindFeedback(i)
  <2>1. PICK op \in {"view", "list"}, news \in {seen, seen \cap {marks[i].of}} :
            FeedbackReach(i, {op}, "sent", "done", news)
    BY <1>3 DEF FindFeedback
  <2>2. seen' = seen /\ news \in SUBSET Feedbacks /\ news \subseteq seen /\ marks[i].op # "mark"
    BY <1>1, <1>3, <2>1 DEF FindFeedback, FeedbackReach
  <2>3. QED
    BY <1>1, <2>1, <2>2, FeedbackServed
<1>4. CASE MarkAsSeen(i)
  <2>1. seen' = seen
    BY <1>4 DEF MarkAsSeen
  <2>2. CASE FeedbackReach(i, {"mark"}, "sent", "found", orphans \cap {marks[i].of})
    <3>1. marks[i].op = "mark" /\ orphans \cap {marks[i].of} \in SUBSET Feedbacks
      BY <1>1, <2>2 DEF FeedbackReach
    <3>2. QED
      BY <1>1, <2>1, <2>2, <3>1, FeedbackServed
  <2>3. CASE FeedbackReach(i, {"mark"}, "sent", "refused", {}) /\ marks[i].of \in seen
    <3>1. marks[i].op = "mark"
      BY <2>3 DEF FeedbackReach
    <3>2. QED
      BY <1>1, <2>1, <2>3, <3>1, FeedbackServed
  <2>4. QED
    BY <1>4, <2>2, <2>3 DEF MarkAsSeen
<1>5. CASE UpdateFeedback(i)
  <2>1. PICK to \in {"done", "refused"} : FeedbackReach(i, {"mark"}, "found", to, {})
    BY <1>5 DEF UpdateFeedback
  <2>2. i \in DOMAIN marks /\ marks[i].op = "mark" /\ marks[i].phase = "found"
    BY <2>1 DEF FeedbackReach
  <2>3. marks[i].of \in Feedbacks /\ marks[i].news \subseteq orphans
    BY <1>2, <2>2 DEF Holds
  <2>4. CASE KeyHolds(i)
    <3>1. FeedbackReach(i, {"mark"}, "found", "done", {}) /\ seen' = seen \cup {marks[i].of}
      BY <1>5, <2>4 DEF UpdateFeedback
    <3>2. seen \subseteq seen' /\ seen' \subseteq Feedbacks /\ marks[i].of \in seen'
      BY <1>1, <2>3, <3>1
    <3>3. QED
      BY <2>2, <3>1, <3>2, FeedbackServed
  <2>5. CASE ~KeyHolds(i)
    <3>1. FeedbackReach(i, {"mark"}, "found", "refused", {}) /\ seen' = seen
      BY <1>5, <2>5 DEF UpdateFeedback
    <3>2. marks[i].of \in orphans
      BY <2>3, <2>5 DEF KeyHolds
    <3>3. seen \subseteq seen' /\ seen' \subseteq Feedbacks
      BY <1>1, <3>1
    <3>4. QED
      BY <2>2, <3>1, <3>2, <3>3, FeedbackServed
  <2>6. QED
    BY <2>4, <2>5
<1>6. QED
  BY <1>3, <1>4, <1>5

LEMMA FeedbackNextKeepsInv == FeedbackInv /\ [FeedbackPageNext]_feedbackVars => FeedbackInv'
<1> SUFFICES ASSUME FeedbackInv, [FeedbackPageNext]_feedbackVars PROVE FeedbackInv'
  OBVIOUS
<1>1. CASE UNCHANGED feedbackVars
  BY <1>1 DEF feedbackVars, FeedbackInv, FeedbackShape, FeedbackTypeOK, ReadIsSeen
<1>2. ASSUME NEW f \in Feedbacks, ViewFeedback(f) PROVE FeedbackInv'
  <2> DEFINE q == [Mark(f, TRUE) EXCEPT !.op = "view"]
  <2>1. q \in FeedbackAsks /\ q.phase = "sent" /\ q.news = {}
    BY DEF Mark, FeedbackAsks
  <2>2. AskServer(q) /\ UNCHANGED <<seen, orphans, dots, read, unmarked, feigned>>
    BY <1>2 DEF ViewFeedback
  <2> HIDE DEF q
  <2>3. QED
    BY <2>1, <2>2, FeedbackAsked
<1>3. ASSUME AllFeedbacks PROVE FeedbackInv'
  <2>1. PICK f \in Feedbacks : AskServer([Mark(f, TRUE) EXCEPT !.op = "list"])
    BY <1>3 DEF AllFeedbacks
  <2> DEFINE q == [Mark(f, TRUE) EXCEPT !.op = "list"]
  <2>2. q \in FeedbackAsks /\ q.phase = "sent" /\ q.news = {}
    BY DEF Mark, FeedbackAsks
  <2>3. AskServer(q) /\ UNCHANGED <<seen, orphans, dots, read, unmarked, feigned>>
    BY <1>3, <2>1 DEF AllFeedbacks
  <2> HIDE DEF q
  <2>4. QED
    BY <2>2, <2>3, FeedbackAsked
<1>4. ASSUME NEW f \in Feedbacks, OthersMark(f) PROVE FeedbackInv'
  <2> DEFINE q == Mark(f, FALSE)
  <2>1. q \in FeedbackAsks /\ q.phase = "sent" /\ q.news = {}
    BY DEF Mark, FeedbackAsks
  <2>2. AskServer(q) /\ UNCHANGED <<seen, orphans, dots, read, unmarked, feigned>>
    BY <1>4 DEF OthersMark
  <2> HIDE DEF q
  <2>3. QED
    BY <2>1, <2>2, FeedbackAsked
<1>5. ASSUME NEW f \in Feedbacks, AuthorDeleted(f) PROVE FeedbackInv'
  <2>1. orphans' = orphans \cup {f} /\ UNCHANGED <<seen, dots, read, marks, unmarked, feigned>>
    BY <1>5 DEF AuthorDeleted
  <2>2. orphans' \subseteq Feedbacks
    BY <2>1 DEF FeedbackInv, FeedbackShape, FeedbackTypeOK
  <2>3. \A k \in DOMAIN marks : Holds(marks[k], seen', orphans')
    BY <2>1, HoldsOn DEF FeedbackInv, FeedbackShape
  <2>4. QED
    BY <2>1, <2>2, <2>3 DEF FeedbackInv, FeedbackShape, FeedbackTypeOK, ReadIsSeen
<1>6. QED
  BY <1>1, <1>2, <1>3, <1>4, <1>5, FeedbackServerKeepsInv, FeedbackAnswersKeepInv, FeedbackLostKeepsInv,
     FeedbackSignedOutKeepsInv
     DEF FeedbackPageNext

LEMMA FeedbackInitInv == FeedbackPageInit => FeedbackInv
BY FeedbackAssumption DEF FeedbackPageInit, FeedbackInv, FeedbackShape, FeedbackTypeOK, ReadIsSeen

-------------------------------------------------------------------------------
(* The tab *)

PagesInv == ListInv /\ AttributeInv /\ FeedbackInv

LEMMA PagesInvariant == Spec => []PagesInv
<1>1. Init => PagesInv
  BY ListInitInv, AttributeInitInv, FeedbackInitInv DEF Init, PagesInv
<1>2. PagesInv /\ [Next]_vars => PagesInv'
  <2> SUFFICES ASSUME PagesInv, [Next]_vars PROVE PagesInv'
    OBVIOUS
  <2>1. [ListNext]_listVars /\ [AttributePageNext]_attributeVars /\ [FeedbackPageNext]_feedbackVars
    BY DEF Next, vars
  <2>2. QED
    BY <2>1, ListNextKeepsInv, AttributeNextKeepsInv, FeedbackNextKeepsInv DEF PagesInv
<1>3. QED
  BY <1>1, <1>2, PTL DEF Spec

\* However the staff member types, clicks and goes back and forth and whatever
\* the server answers or fails to answer, the overlay and the disabled search
\* button of a list wait for a request that is under way, unless a search was
\* answered with the login page (unLoading and loading of common.js, and their
\* callers).
THEOREM ListsWaitForAnswers == Spec => []WaitsForAnAnswer
<1>1. PagesInv => WaitsForAnAnswer
  BY DEF PagesInv, ListInv
<1>2. QED
  BY <1>1, PagesInvariant, PTL

\* Two rows of an attribute table have one name only if two adds to it have
\* overlapped (ValidateJobAttribute and CreateJobAttribute, two statements).
THEOREM AttributeNamesDiffer == Spec => []NamesDiffer
<1>1. PagesInv => NamesDiffer
  BY DEF PagesInv, AttributeInv
<1>2. QED
  BY <1>1, PagesInvariant, PTL

\* A row or button of the attributes page that is busy has its request under
\* way, although tables that are reloaded wipe rows whose names are being added,
\* or the row is one whose add was answered to a session that was over.
THEOREM AttributeRowsWait == Spec => []BusyWaits
<1>1. PagesInv => BusyWaits
  BY DEF PagesInv, AttributeInv
<1>2. QED
  BY <1>1, PagesInvariant, PTL

\* What was read of the users' feedback is marked or being marked, and no dot
\* goes before the mark (viewFeedback, markFeedbackAsSeen, MarkFeedbackAsSeen),
\* but by the answer to a session that is over, whose mark counts as lost; for
\* every number of rows, requests and staff members.
THEOREM FeedbackReadIsSeen == Spec => []ReadIsSeen
<1>1. PagesInv => ReadIsSeen
  BY DEF PagesInv, FeedbackInv
<1>2. QED
  BY <1>1, PagesInvariant, PTL

-------------------------------------------------------------------------------
===============================================================================
