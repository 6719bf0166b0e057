-------------------------- MODULE BrowserPagesProofs --------------------------
(***************************************************************************)
(* What holds of the pages whose proofs are not in BrowserTabProofs: the   *)
(* table of the lists, the details of a job, the form for a staff member,  *)
(* the import of jobs and the dashboard, for every number of rows, photos, *)
(* days and requests under way.                                            *)
(***************************************************************************)
EXTENDS BrowserTabProofs, FiniteSetTheorems

-------------------------------------------------------------------------------
(* Requests that come and go *)

\* The requests left behind keep their order, each is one that was there before.
LEMMA RemovalShifts ==
    ASSUME NEW S, NEW q \in Seq(S), NEW i \in DOMAIN q
    PROVE  /\ RemoveAt(q, i) \in Seq(S) /\ Len(RemoveAt(q, i)) = Len(q) - 1
           /\ Len(q) \in Nat /\ DOMAIN q = 1 .. Len(q)
           /\ DOMAIN RemoveAt(q, i) = 1 .. (Len(q) - 1)
           /\ \A k \in DOMAIN RemoveAt(q, i) :
                 Old(k, i) \in DOMAIN q \ {i} /\ RemoveAt(q, i)[k] = q[Old(k, i)]
           /\ \A k, l \in DOMAIN RemoveAt(q, i) : Old(k, i) = Old(l, i) => k = l
<1>1. Len(q) \in Nat /\ DOMAIN q = 1 .. Len(q) /\ i \in 1 .. Len(q)
  BY LenProperties
<1>2. /\ RemoveAt(q, i) \in Seq(S) /\ Len(RemoveAt(q, i)) = Len(q) - 1
      /\ \A k \in 1 .. (Len(q) - 1) : RemoveAt(q, i)[k] = IF k < i THEN q[k] ELSE q[k + 1]
  BY <1>1, RemoveAtElements
<1>3. DOMAIN RemoveAt(q, i) = 1 .. (Len(q) - 1)
  BY <1>1, <1>2, LenProperties
<1>4. QED
  BY <1>1, <1>2, <1>3 DEF Old

\* A request that is replaced leaves the others as they are.
LEMMA ReplacedInPlace ==
    ASSUME NEW S, NEW q \in Seq(S), NEW i \in DOMAIN q, NEW e \in S,
           NEW r, r = [q EXCEPT ![i] = e]
    PROVE  /\ r \in Seq(S) /\ Len(r) = Len(q) /\ DOMAIN r = DOMAIN q /\ r[i] = e
           /\ \A k \in DOMAIN q : k # i => r[k] = q[k]
<1>1. DOMAIN q = 1 .. Len(q)
  BY LenProperties
<1>2. QED
  BY <1>1, ExceptSeq

-------------------------------------------------------------------------------
(* The details of a job *)

\* What the server may answer: nothing, or the statuses of some jobs.
News == {<<>>} \cup UNION {[T -> Statuses] : T \in SUBSET Jobs}

JobCalls == [op : {"view", "list", "change"}, job : Jobs \cup {NoJob},
             to : Statuses \cup {NoStatus}, from : {"view", "search", "others"},
             phase : {"sent", "read", "done", "refused"}, news : News]

\* A job that had status x can have status s by now, if no later than s.
Behind(x, s) == x \in {"P", s} \/ (x = "O" /\ s = "C")

\* A call is about a job of the table; on a job that no two requests have decided, what
\* it was answered has been true, and what it has read, the row still allows, or the
\* row is closed by now.
CallHolds(c, st, open) ==
    /\ c.op \in {"view", "change"} => c.job \in Jobs
    /\ c.op = "change" => c.to \in {"O", "D", "C"}
    /\ c.phase = "read" =>
        /\ c.op = "change"
        /\ c.job \notin open => IF c.to = "C" THEN st[c.job] \in {"O", "C"} ELSE st[c.job] = "P"
    /\ c.phase = "done" =>
        /\ c.op = "change" /\ c.job \notin open => Behind(c.to, st[c.job])
        /\ c.op = "view" => DOMAIN c.news = {c.job}
        /\ c.op \in {"view", "list"} =>
              /\ DOMAIN c.news \subseteq Jobs
              /\ \A j \in DOMAIN c.news : /\ c.news[j] \in Statuses
                                          /\ j \notin open => Behind(c.news[j], st[j])

\* Two calls that have read one job, which no two requests have decided, close it.
Meet(c, d, open) ==
    c.phase = "read" /\ d.phase = "read" /\ c.job = d.job /\ c.job \notin open =>
        c.to = "C" /\ d.to = "C"

CallsOK ==
    /\ calls \in Seq(JobCalls) /\ Len(calls) <= MaxCalls
    /\ \A k \in DOMAIN calls : CallHolds(calls[k], status, contested)
    /\ \A k, l \in DOMAIN calls : k # l => Meet(calls[k], calls[l], contested)

\* If no two questions for details have been under way at once, the buttons are
\* not there while one is.
OneView ==
    ~crossed =>
        /\ \A k, l \in DOMAIN calls : calls[k].op = "view" /\ calls[l].op = "view" => k = l
        /\ details.footer => ~UnderWay("view")

JobShape ==
    /\ JobPageTypeOK
    /\ CallsOK
    /\ confirming => dialog.job \in Jobs /\ dialog.to \in {"O", "D", "C"}

JobInv == JobShape /\ OneView /\ FooterActsOnShown /\ NoDecisionInvented

LEMMA OffersAreDecisions ==
    ASSUME NEW s, NEW to \in Offers(s)
    PROVE  /\ to \in {"O", "D", "C"} /\ to \in Statuses
           /\ s \in {"P", "O"} /\ (to = "C" <=> s = "O")
  BY DEF Offers, Statuses

\* A status that moves on leaves the statuses before it behind.
LEMMA BehindStays ==
    ASSUME NEW x, NEW s \in Statuses, NEW to \in Offers(s) \cup {s}, Behind(x, s)
    PROVE  Behind(x, to)
  BY DEF Behind, Offers, Statuses

\* A status is saved: it moves on or stays, but on a job that two requests decided, and
\* no other decision has read it; what calls and rows say stays true.
LEMMA StatusSaved ==
    ASSUME JobInv, NEW j \in Jobs, NEW to \in Statuses, status' = [status EXCEPT ![j] = to],
           UNCHANGED <<row, contested>>, j \notin contested => to \in Offers(status[j]) \cup {status[j]}
    PROVE  /\ status' \in [Jobs -> Statuses] /\ NoDecisionInvented'
           /\ status'[j] = to
           /\ \A c : /\ CallHolds(c, status, contested)
                     /\ c.phase = "read" /\ c.job = j /\ j \notin contested => c.to = "C"
                     => CallHolds(c, status', contested')
<1>1. status \in [Jobs -> Statuses] /\ NoDecisionInvented
  BY DEF JobInv, JobShape, JobPageTypeOK
<1>2. status' \in [Jobs -> Statuses] /\ status'[j] = to /\ \A k \in Jobs : k # j => status'[k] = status[k]
  BY <1>1
<1>3. \A k \in Jobs \ contested : status'[k] \in Offers(status[k]) \cup {status[k]}
  BY <1>2
<1>4. ASSUME NEW x, NEW k \in Jobs \ contested, Behind(x, status[k]) PROVE Behind(x, status'[k])
  BY <1>1, <1>3, <1>4, BehindStays
<1>5. NoDecisionInvented'
  <2>1. \A k \in Jobs \ contested : row[k].is \in {NoStatus, "P", status'[k]} \/ (row[k].is = "O" /\ status'[k] = "C")
    BY <1>1, <1>3 DEF NoDecisionInvented, Offers, Statuses
  <2>2. QED
    BY <1>1, <2>1 DEF NoDecisionInvented
<1>6. ASSUME NEW c, CallHolds(c, status, contested),
             c.phase = "read" /\ c.job = j /\ j \notin contested => c.to = "C"
      PROVE  CallHolds(c, status', contested')
  <2>1. ASSUME c.phase = "read", c.job \notin contested
        PROVE  IF c.to = "C" THEN status'[c.job] \in {"O", "C"} ELSE status'[c.job] = "P"
    <3>1. c.job \in Jobs /\ IF c.to = "C" THEN status[c.job] \in {"O", "C"} ELSE status[c.job] = "P"
      BY <1>6, <2>1 DEF CallHolds
    <3>2. CASE c.job = j
      BY <1>2, <1>3, <1>6, <2>1, <3>1, <3>2 DEF Offers
    <3>3. CASE c.job # j
      BY <1>2, <3>1, <3>3
    <3>4. QED
      BY <3>2, <3>3
  <2>2. QED
    BY <1>4, <1>6, <2>1 DEF CallHolds
<1>7. QED
  BY <1>2, <1>5, <1>6

\* A job that becomes contested leaves what is said of the others.
LEMMA ContestedOn ==
    ASSUME NEW c, NEW st, NEW open, NEW more, open \subseteq more
    PROVE  /\ CallHolds(c, st, open) => CallHolds(c, st, more)
           /\ \A d : Meet(c, d, open) => Meet(c, d, more)
  BY DEF CallHolds, Meet

LEMMA MeetSymmetric == ASSUME NEW c, NEW d, NEW open, Meet(c, d, open) PROVE Meet(d, c, open)
  BY DEF Meet

\* A call joins those under way.
LEMMA JobCalled ==
    ASSUME CallsOK, NEW e \in JobCalls, Len(calls) < MaxCalls, calls' = Append(calls, e),
           contested \subseteq contested', status' = status,
           CallHolds(e, status', contested'),
           \A k \in DOMAIN calls : Meet(e, calls[k], contested')
    PROVE  /\ CallsOK'
           /\ Len(calls) \in Nat /\ DOMAIN calls = 1 .. Len(calls)
           /\ \A k \in DOMAIN calls' : \/ k \in DOMAIN calls /\ calls'[k] = calls[k]
                                       \/ k = Len(calls) + 1 /\ calls'[k] = e
<1>1. calls \in Seq(JobCalls) /\ Len(calls) \in Nat /\ DOMAIN calls = 1 .. Len(calls)
  BY LenProperties DEF CallsOK
<1>2. /\ calls' \in Seq(JobCalls)
      /\ \A k \in DOMAIN calls : k \in DOMAIN calls' /\ calls'[k] = calls[k]
      /\ calls'[Len(calls) + 1] = e
      /\ \A k \in DOMAIN calls' : k \in DOMAIN calls \/ k = Len(calls) + 1
  BY <1>1, AppendKeepsOthers
<1>3. Len(calls') <= MaxCalls
  <2>1. Len(calls') = Len(calls) + 1
    BY <1>1, AppendProperties
  <2>2. QED
    BY <1>1, <2>1, JobPageAssumption
<1>4. \A k \in DOMAIN calls' : CallHolds(calls'[k], status', contested')
  <2>1. \A k \in DOMAIN calls : CallHolds(calls[k], status', contested')
    BY ContestedOn DEF CallsOK
  <2>2. QED
    BY <1>2, <2>1
<1>5. ASSUME NEW k \in DOMAIN calls', NEW l \in DOMAIN calls', k # l
      PROVE  Meet(calls'[k], calls'[l], contested')
  <2>1. CASE k \in DOMAIN calls /\ l \in DOMAIN calls
    BY <1>2, <1>5, <2>1, ContestedOn DEF CallsOK
  <2>2. CASE k \notin DOMAIN calls
    <3>1. calls'[k] = e /\ l \in DOMAIN calls
      BY <1>2, <1>5, <2>2
    <3>2. QED
      BY <1>2, <3>1
  <2>3. CASE k \in DOMAIN calls /\ l \notin DOMAIN calls
    <3>1. calls'[l] = e
      BY <1>2, <2>3
    <3>2. QED
      BY <1>2, <2>3, <3>1, MeetSymmetric
  <2>4. QED
    BY <2>1, <2>2, <2>3
<1>6. QED
  BY <1>1, <1>2, <1>3, <1>4, <1>5 DEF CallsOK

\* A call takes a step on the server.
LEMMA JobCallServed ==
    ASSUME CallsOK, NEW i \in DOMAIN calls, NEW e \in JobCalls, calls' = [calls EXCEPT ![i] = e],
           contested \subseteq contested',
           \A k \in DOMAIN calls \ {i} : CallHolds(calls[k], status', contested'),
           CallHolds(e, status', contested'),
           \A k \in DOMAIN calls \ {i} : Meet(e, calls[k], contested')
    PROVE  /\ CallsOK'
           /\ DOMAIN calls' = DOMAIN calls /\ calls'[i] = e
           /\ \A k \in DOMAIN calls : k # i => calls'[k] = calls[k]
<1>1. calls \in Seq(JobCalls) /\ Len(calls) <= MaxCalls
  BY DEF CallsOK
<1>2. /\ calls' \in Seq(JobCalls) /\ Len(calls') = Len(calls) /\ DOMAIN calls' = DOMAIN calls
      /\ calls'[i] = e /\ \A k \in DOMAIN calls : k # i => calls'[k] = calls[k]
  BY <1>1, ReplacedInPlace
<1>3. \A k \in DOMAIN calls' : CallHolds(calls'[k], status', contested')
  BY <1>2
<1>4. ASSUME NEW k \in DOMAIN calls, NEW l \in DOMAIN calls, k # l
      PROVE  Meet(calls'[k], calls'[l], contested')
  <2>1. CASE k # i /\ l # i
    BY <1>2, <1>4, <2>1, ContestedOn DEF CallsOK
  <2>2. CASE k = i
    BY <1>2, <1>4, <2>2
  <2>3. CASE l = i
    BY <1>2, <1>4, <2>3, MeetSymmetric
  <2>4. QED
    BY <2>1, <2>2, <2>3
<1>5. QED
  BY <1>1, <1>2, <1>3, <1>4 DEF CallsOK

\* A call is over.
LEMMA JobCallOver ==
    ASSUME CallsOK, NEW i \in DOMAIN calls, calls' = RemoveAt(calls, i), contested' = contested,
           \A k \in DOMAIN calls \ {i} : CallHolds(calls[k], status', contested')
    PROVE  /\ CallsOK'
           /\ \A k \in DOMAIN calls' : Old(k, i) \in DOMAIN calls \ {i} /\ calls'[k] = calls[Old(k, i)]
           /\ \A k, l \in DOMAIN calls' : Old(k, i) = Old(l, i) => k = l
<1>1. calls \in Seq(JobCalls) /\ Len(calls) <= MaxCalls
  BY DEF CallsOK
<1>2. /\ calls' \in Seq(JobCalls) /\ Len(calls') = Len(calls) - 1 /\ Len(calls) \in Nat
      /\ \A k \in DOMAIN calls' : Old(k, i) \in DOMAIN calls \ {i} /\ calls'[k] = calls[Old(k, i)]
      /\ \A k, l \in DOMAIN calls' : Old(k, i) = Old(l, i) => k = l
  BY <1>1, RemovalShifts
<1>3. Len(calls') <= MaxCalls
  BY <1>1, <1>2, JobPageAssumption
<1>4. \A k \in DOMAIN calls' : CallHolds(calls'[k], status', contested')
  BY <1>2
<1>5. \A k, l \in DOMAIN calls' : k # l => Meet(calls'[k], calls'[l], contested')
  BY <1>2 DEF CallsOK
<1>6. QED
  BY <1>2, <1>3, <1>4, <1>5 DEF CallsOK

\* While at most one question for details has been under way, none is left when
\* one is over.
LEMMA ViewOver ==
    ASSUME JobInv, NEW i \in DOMAIN calls, calls' = RemoveAt(calls, i), contested' = contested,
           status' = status, crossed' = crossed, ~crossed
    PROVE  /\ \A k, l \in DOMAIN calls' : calls'[k].op = "view" /\ calls'[l].op = "view" => k = l
           /\ calls[i].op = "view" => ~UnderWay("view")' /\ ~details.footer
           /\ UnderWay("view")' => UnderWay("view")
<1>1. /\ \A k \in DOMAIN calls' : Old(k, i) \in DOMAIN calls \ {i} /\ calls'[k] = calls[Old(k, i)]
      /\ \A k, l \in DOMAIN calls' : Old(k, i) = Old(l, i) => k = l
  BY JobCallOver DEF JobInv, JobShape, CallsOK
<1>2. /\ \A k, l \in DOMAIN calls : calls[k].op = "view" /\ calls[l].op = "view" => k = l
      /\ details.footer => ~UnderWay("view")
  BY DEF JobInv, OneView
<1>3. QED
  BY <1>1, <1>2 DEF UnderWay

LEMMA ClosedDialog ==
    Closed \in [job : Jobs \cup {NoJob}, to : Statuses \cup {NoStatus},
                from : {"view", "search"}, error : BOOLEAN]
  BY DEF Closed

\* The page asks for something.
LEMMA JobAsked ==
    ASSUME JobShape, NEW op \in {"view", "list", "change"}, NEW j \in Jobs \cup {NoJob},
           NEW to \in Statuses \cup {NoStatus}, NEW from \in {"view", "search"},
           op \in {"view", "change"} => j \in Jobs,
           op = "change" => to \in {"O", "D", "C"},
           Call(op, j, to, from), UNCHANGED <<status, contested>>
    PROVE  /\ CallsOK' /\ Len(calls) \in Nat /\ DOMAIN calls = 1 .. Len(calls)
           /\ \A k \in DOMAIN calls' : \/ k \in DOMAIN calls /\ calls'[k] = calls[k]
                                       \/ k = Len(calls) + 1 /\ calls'[k].op = op
<1> DEFINE e == [op |-> op, job |-> j, to |-> to, from |-> from, phase |-> "sent", news |-> <<>>]
<1>1. e \in JobCalls /\ e.op = op /\ CallHolds(e, status, contested)
  BY DEF JobCalls, News, CallHolds
<1>2. \A k \in DOMAIN calls : Meet(e, calls[k], contested)
  BY DEF Meet
<1>3. calls' = Append(calls, e) /\ Len(calls) < MaxCalls /\ CallsOK
  BY DEF Call, NewCall, JobShape
<1> HIDE DEF e
<1>4. /\ CallsOK' /\ Len(calls) \in Nat /\ DOMAIN calls = 1 .. Len(calls)
      /\ \A k \in DOMAIN calls' : \/ k \in DOMAIN calls /\ calls'[k] = calls[k]
                                  \/ k = Len(calls) + 1 /\ calls'[k] = e
  BY <1>1, <1>2, <1>3, JobCalled
<1>5. QED
  BY <1>1, <1>4

\* What is clicked asks for something or opens and closes a dialog.
LEMMA JobClicksKeepInv ==
    ASSUME JobInv,
           \/ \E j \in Jobs : ViewJob(j) \/ ChangeFromRow(j)
           \/ DismissView \/ ChangeFromView \/ DismissDialog \/ ChangeJobStatus
           \/ \E s \in ListFilters : ListJobs(s)
    PROVE  JobInv'
<1>1. /\ JobShape /\ OneView /\ FooterActsOnShown /\ NoDecisionInvented
      /\ status \in [Jobs -> Statuses] /\ details.footer \in BOOLEAN
  BY DEF JobInv, JobShape, JobPageTypeOK
<1>2. ASSUME NEW j \in Jobs, ViewJob(j) PROVE JobInv'
  <2>1. Call("view", j, NoStatus, "search") /\ UNCHANGED <<status, contested>>
    BY <1>2 DEF ViewJob
  <2>2. /\ CallsOK' /\ Len(calls) \in Nat /\ DOMAIN calls = 1 .. Len(calls)
        /\ \A k \in DOMAIN calls' : \/ k \in DOMAIN calls /\ calls'[k] = calls[k]
                                    \/ k = Len(calls) + 1 /\ calls'[k].op = "view"
    BY <1>1, <2>1, JobAsked
  <2>3. details' = [details EXCEPT !.id = NoJob, !.colour = NoStatus, !.of = NoJob, !.footer = FALSE]
        /\ viewing' = TRUE /\ UNCHANGED <<row, confirming, dialog>> /\ crossed' = UnderWay("view")
    BY <1>2 DEF ViewJob
  <2>4. JobShape'
    BY <1>1, <2>1, <2>2, <2>3 DEF JobShape, JobPageTypeOK, CallsOK, UnderWay
  <2>5. ~details'.footer
    BY <1>1, <2>3 DEF JobShape, JobPageTypeOK
  <2>6. OneView'
    BY <2>2, <2>3, <2>5 DEF OneView, UnderWay
  <2>7. QED
    BY <1>1, <2>1, <2>3, <2>4, <2>5, <2>6 DEF JobInv, FooterActsOnShown, NoDecisionInvented
<1>3. ASSUME NEW j \in Jobs, NEW s, NEW to \in Offers(s), NEW from \in {"view", "search"},
             InitChangeJobStatus(j, to, from)
      PROVE  JobInv'
  <2>1. to \in {"O", "D", "C"} /\ to \in Statuses
    BY <1>3, OffersAreDecisions
  <2>2. dialog' = [job |-> j, to |-> to, from |-> from, error |-> FALSE] /\ confirming' = TRUE
        /\ UNCHANGED <<status, row, viewing, details, calls, crossed, contested>>
    BY <1>3 DEF InitChangeJobStatus
  <2>3. JobShape'
    BY <1>1, <2>1, <2>2 DEF JobShape, JobPageTypeOK, CallsOK
  <2>4. QED
    BY <1>1, <2>2, <2>3 DEF JobInv, OneView, UnderWay, FooterActsOnShown, NoDecisionInvented
<1>4. ASSUME NEW j \in Jobs, ChangeFromRow(j) PROVE JobInv'
  BY <1>3, <1>4 DEF ChangeFromRow
<1>5. CASE ChangeFromView
  <2>1. details.id \in Jobs
    BY <1>1, <1>5 DEF ChangeFromView, FooterActsOnShown
  <2>2. QED
    BY <1>3, <1>5, <2>1 DEF ChangeFromView
<1>6. CASE DismissView
  <2>1. UNCHANGED <<status, row, details, confirming, dialog, calls, crossed, contested>> /\ viewing' = FALSE
    BY <1>6 DEF DismissView
  <2>2. CallsOK'
    BY <1>1, <2>1 DEF JobShape, CallsOK
  <2>3. JobShape'
    BY <1>1, <2>1, <2>2 DEF JobShape, JobPageTypeOK
  <2>4. QED
    BY <1>1, <2>1, <2>3 DEF JobInv, OneView, UnderWay, FooterActsOnShown, NoDecisionInvented
<1>7. CASE DismissDialog
  <2>1. UNCHANGED <<status, row, viewing, details, calls, crossed, contested>>
        /\ confirming' = FALSE /\ dialog' = Closed
    BY <1>7 DEF DismissDialog
  <2>2. JobShape'
    BY <1>1, <2>1, ClosedDialog DEF JobShape, JobPageTypeOK, CallsOK
  <2>3. QED
    BY <1>1, <2>1, <2>2 DEF JobInv, OneView, UnderWay, FooterActsOnShown, NoDecisionInvented
\* A call that asks for no details.
<1>8. ASSUME NEW op \in {"list", "change"}, NEW j \in Jobs \cup {NoJob},
             NEW to \in Statuses \cup {NoStatus}, NEW from \in {"view", "search"},
             op = "change" => j \in Jobs /\ to \in {"O", "D", "C"},
             Call(op, j, to, from),
             UNCHANGED <<status, row, viewing, details, confirming, dialog, crossed, contested>>
      PROVE  JobInv'
  <2>1. /\ CallsOK'
        /\ \A k \in DOMAIN calls' : \/ k \in DOMAIN calls /\ calls'[k] = calls[k]
                                    \/ calls'[k].op = op
    BY <1>1, <1>8, JobAsked
  <2>2. JobShape'
    BY <1>1, <1>8, <2>1 DEF JobShape, JobPageTypeOK, CallsOK
  <2>3. OneView'
    BY <1>1, <1>8, <2>1 DEF OneView, UnderWay
  <2>4. QED
    BY <1>1, <1>8, <2>2, <2>3 DEF JobInv, FooterActsOnShown, NoDecisionInvented
<1>9. CASE ChangeJobStatus
  <2>1. dialog.job \in Jobs /\ dialog.to \in {"O", "D", "C"} /\ dialog.to \in Statuses
        /\ dialog.from \in {"view", "search"}
    BY <1>1, <1>9 DEF ChangeJobStatus, JobShape, JobPageTypeOK, Statuses
  <2>2. QED
    BY <1>8, <1>9, <2>1 DEF ChangeJobStatus
<1>10. ASSUME NEW s \in ListFilters, ListJobs(s) PROVE JobInv'
  <2>1. s \in Statuses \cup {NoStatus}
    BY JobPageAssumption DEF Statuses, NoStatus
  <2>2. QED
    BY <1>8, <1>10, <2>1 DEF ListJobs
<1>11. QED
  BY <1>2, <1>4, <1>5, <1>6, <1>7, <1>9, <1>10

\* A step of the server that touches one call, or adds one that asks for no details.
LEMMA JobServerStep ==
    ASSUME JobInv, CallsOK', UNCHANGED serverOnly, NoDecisionInvented',
           status' \in [Jobs -> Statuses], contested' \in SUBSET Jobs,
           \E old \in [DOMAIN calls' -> DOMAIN calls \cup {0}] :
               /\ \A k \in DOMAIN calls' : IF old[k] = 0 THEN calls'[k].op = "change"
                                           ELSE calls'[k].op = calls[old[k]].op
               /\ \A k, l \in DOMAIN calls' : old[k] = old[l] /\ old[k] # 0 => k = l
    PROVE  JobInv'
<1>1. /\ JobShape /\ OneView /\ FooterActsOnShown
      /\ UNCHANGED <<row, viewing, details, confirming, dialog, crossed>>
  BY DEF JobInv, serverOnly
<1>2. PICK old \in [DOMAIN calls' -> DOMAIN calls \cup {0}] :
          /\ \A k \in DOMAIN calls' : IF old[k] = 0 THEN calls'[k].op = "change"
                                      ELSE calls'[k].op = calls[old[k]].op
          /\ \A k, l \in DOMAIN calls' : old[k] = old[l] /\ old[k] # 0 => k = l
  OBVIOUS
<1>3. JobShape'
  BY <1>1 DEF JobShape, JobPageTypeOK, CallsOK
<1>4. \A k \in DOMAIN calls' : calls'[k].op = "view" =>
          old[k] \in DOMAIN calls /\ calls[old[k]].op = "view" /\ old[k] # 0
  BY <1>2
<1>5. OneView'
  BY <1>1, <1>2, <1>4 DEF OneView, UnderWay
<1>6. QED
  BY <1>1, <1>3, <1>5 DEF JobInv, FooterActsOnShown

WithReply(c, phase, news) == [c EXCEPT !.phase = phase, !.news = news]

\* A call is answered, or nobody waits for its answer; a status may have been saved.
LEMMA JobReplied ==
    ASSUME JobInv, NEW i \in DOMAIN calls, NEW phase \in {"done", "refused"}, NEW news \in News,
           Replied(i, phase, news), contested' = contested, UNCHANGED serverOnly,
           status' \in [Jobs -> Statuses], NoDecisionInvented',
           \A k \in DOMAIN calls \ {i} : CallHolds(calls[k], status', contested'),
           NEW e, e = WithReply(calls[i], phase, news),
           CallHolds(e, status', contested')
    PROVE  JobInv'
<1>1. CallsOK /\ calls \in Seq(JobCalls) /\ DOMAIN calls = 1 .. Len(calls) /\ Len(calls) \in Nat
      /\ contested \in SUBSET Jobs
  BY LenProperties DEF JobInv, JobShape, JobPageTypeOK, CallsOK
<1>2. calls[i] \in JobCalls
  BY <1>1, ElementOfSeq
<1>3. CASE calls[i].from = "others"
  <2>1. calls' = RemoveAt(calls, i)
    BY <1>3 DEF Replied
  <2>2. /\ CallsOK'
        /\ \A k \in DOMAIN calls' : Old(k, i) \in DOMAIN calls \ {i} /\ calls'[k] = calls[Old(k, i)]
        /\ \A k, l \in DOMAIN calls' : Old(k, i) = Old(l, i) => k = l
    BY <1>1, <2>1, JobCallOver
  <2> DEFINE old == [k \in DOMAIN calls' |-> Old(k, i)]
  <2>3. /\ old \in [DOMAIN calls' -> DOMAIN calls \cup {0}]
        /\ \A k \in DOMAIN calls' : old[k] # 0 /\ calls'[k].op = calls[old[k]].op
        /\ \A k, l \in DOMAIN calls' : old[k] = old[l] => k = l
    BY <1>1, <2>2
  <2> HIDE DEF old
  <2>4. QED
    BY <1>1, <2>2, <2>3, JobServerStep
<1>4. CASE calls[i].from # "others"
  <2>1. e \in JobCalls /\ e.op = calls[i].op /\ e.phase # "read"
    BY <1>2 DEF JobCalls, WithReply
  <2>2. calls' = [calls EXCEPT ![i] = e]
    BY <1>1, <1>2, <1>4 DEF Replied, JobCalls, WithReply
  <2>3. \A k \in DOMAIN calls : Meet(e, calls[k], contested')
    BY <2>1 DEF Meet
  <2>5. /\ CallsOK' /\ DOMAIN calls' = DOMAIN calls /\ calls'[i] = e
        /\ \A k \in DOMAIN calls : k # i => calls'[k] = calls[k]
    BY <1>1, <2>1, <2>2, <2>3, JobCallServed
  <2> DEFINE old == [k \in DOMAIN calls' |-> k]
  <2>6. /\ old \in [DOMAIN calls' -> DOMAIN calls \cup {0}]
        /\ \A k \in DOMAIN calls' : old[k] # 0 /\ calls'[k].op = calls[old[k]].op
        /\ \A k, l \in DOMAIN calls' : old[k] = old[l] => k = l
    BY <1>1, <2>1, <2>5
  <2> HIDE DEF old
  <2>7. QED
    BY <1>1, <2>5, <2>6, JobServerStep
<1>5. QED
  BY <1>3, <1>4

\* A change has read a row that allows it: if it is a decision and another has read the
\* row, too, the job is contested from now on.
LEMMA JobReads ==
    ASSUME CallsOK, NEW e \in JobCalls, e.phase = "read", e.op = "change", e.job \in Jobs,
           e.to \in Offers(status[e.job]), NEW i, Contest(i, e.job), status' = status
    PROVE  /\ contested \subseteq contested' /\ (contested \in SUBSET Jobs => contested' \in SUBSET Jobs)
           /\ CallHolds(e, status', contested')
           /\ \A k \in DOMAIN calls \ {i} : Meet(e, calls[k], contested')
           /\ \A k \in DOMAIN calls : CallHolds(calls[k], status', contested')
<1>1. contested \subseteq contested' /\ (contested \in SUBSET Jobs => contested' \in SUBSET Jobs)
  BY DEF Contest
<1>2. e.to \in {"O", "D", "C"} /\ status[e.job] \in {"P", "O"} /\ (e.to = "C" <=> status[e.job] = "O")
  BY OffersAreDecisions
<1>3. CallHolds(e, status', contested')
  BY <1>2 DEF CallHolds
<1>4. ASSUME NEW k \in DOMAIN calls \ {i}, calls[k].phase = "read", e.job = calls[k].job,
             e.job \notin contested'
      PROVE  e.to = "C" /\ calls[k].to = "C"
  <2>1. CallHolds(calls[k], status, contested) /\ calls[k].op = "change"
    BY <1>4 DEF CallsOK, CallHolds
  <2>2. status[e.job] # "P"
    BY <1>4, <2>1 DEF Contest
  <2>3. status[e.job] = "O"
    BY <1>2, <2>2
  <2>4. QED
    BY <1>1, <1>2, <1>4, <2>1, <2>3 DEF CallHolds
<1>5. \A k \in DOMAIN calls \ {i} : Meet(e, calls[k], contested')
  BY <1>4 DEF Meet
<1>6. \A k \in DOMAIN calls : CallHolds(calls[k], status', contested')
  BY <1>1, ContestedOn DEF CallsOK
<1>7. QED
  BY <1>1, <1>3, <1>5, <1>6

LEMMA JobServerKeepsInv ==
    ASSUME JobInv,
           \/ \E i \in 1 .. MaxCalls : Answer(i) \/ ReadJob(i) \/ SaveJob(i)
           \/ \E j \in Jobs : OthersChange(j) \/ OthersClose(j)
    PROVE  JobInv'
<1>1. /\ JobShape /\ CallsOK /\ NoDecisionInvented
      /\ status \in [Jobs -> Statuses] /\ calls \in Seq(JobCalls)
      /\ DOMAIN calls = 1 .. Len(calls) /\ Len(calls) \in Nat /\ contested \in SUBSET Jobs
  BY LenProperties DEF JobInv, JobShape, JobPageTypeOK, CallsOK
<1>2. ASSUME NEW i \in DOMAIN calls
      PROVE  calls[i] \in JobCalls /\ CallHolds(calls[i], status, contested)
  BY <1>1, <1>2, ElementOfSeq DEF CallsOK
\* A status that stays leaves the rows as true as they are, more jobs contested or not.
<1>3. ASSUME status' = status, row' = row, contested \subseteq contested' PROVE NoDecisionInvented'
  BY <1>1, <1>3 DEF NoDecisionInvented
<1>4. ASSUME NEW i \in DOMAIN calls, NEW news \in News, Replied(i, "refused", news),
             UNCHANGED <<status, contested>>, UNCHANGED serverOnly
      PROVE  JobInv'
  <2>1. PICK e : e = WithReply(calls[i], "refused", news)
    OBVIOUS
  <2>2. CallHolds(e, status', contested')
    BY <1>2, <1>4, <2>1 DEF CallHolds, JobCalls, WithReply
  <2>3. NoDecisionInvented'
    BY <1>3, <1>4 DEF serverOnly
  <2>4. \A k \in DOMAIN calls : CallHolds(calls[k], status', contested')
    BY <1>2, <1>4
  <2>5. status' \in [Jobs -> Statuses] /\ contested' = contested
    BY <1>1, <1>4
  <2>6. QED
    BY <1>4, <2>1, <2>2, <2>3, <2>4, <2>5, JobReplied
<1>5. ASSUME NEW i \in 1 .. MaxCalls, Answer(i) PROVE JobInv'
  <2> DEFINE c == calls[i]
  <2>1. i \in DOMAIN calls /\ UNCHANGED <<status, contested>> /\ UNCHANGED serverOnly
    BY <1>5 DEF Answer
  <2>2. c \in JobCalls /\ CallHolds(c, status, contested)
    BY <1>2, <2>1
  <2>3. PICK T \in SUBSET Jobs : /\ Replied(i, "done", [j \in T |-> status[j]])
                                 /\ c.op \in {"view", "list"} /\ (c.op = "view" => T = {c.job})
    <3>1. CASE c.op = "view"
      <4>1. {c.job} \in SUBSET Jobs /\ Replied(i, "done", [j \in {c.job} |-> status[j]])
        BY <1>5, <2>2, <3>1 DEF Answer, CallHolds
      <4>2. QED
        BY <3>1, <4>1
    <3>2. CASE c.op # "view"
      BY <1>5, <3>2 DEF Answer
    <3>3. QED
      BY <3>1, <3>2
  <2> DEFINE news == [j \in T |-> status[j]]
  <2>4. news \in News /\ DOMAIN news = T /\ \A j \in T : news[j] \in Statuses /\ news[j] = status[j]
    <3>1. news \in [T -> Statuses]
      BY <1>1
    <3>2. QED
      BY <3>1 DEF News
  <2>5. Replied(i, "done", news)
    BY <2>3
  <2> HIDE DEF news
  <2>6. CallHolds([c EXCEPT !.phase = "done", !.news = news], status', contested')
    BY <2>1, <2>2, <2>3, <2>4 DEF CallHolds, JobCalls, Behind
  <2>7. NoDecisionInvented'
    BY <1>3, <2>1 DEF serverOnly
  <2>8. /\ \A k \in DOMAIN calls : CallHolds(calls[k], status', contested')
        /\ status' \in [Jobs -> Statuses] /\ contested' = contested
    BY <1>1, <1>2, <2>1
  <2> HIDE DEF c
  <2>9. PICK e : e = WithReply(calls[i], "done", news)
    OBVIOUS
  <2>10. CallHolds(e, status', contested')
    BY <2>6, <2>9 DEF c, WithReply
  <2>11. QED
    BY <2>1, <2>4, <2>5, <2>7, <2>8, <2>9, <2>10, JobReplied
<1>6. ASSUME NEW i \in 1 .. MaxCalls, ReadJob(i) PROVE JobInv'
  <2> DEFINE c == calls[i]
  <2>1. i \in DOMAIN calls /\ status' = status /\ UNCHANGED serverOnly /\ c.op = "change"
    BY <1>6 DEF ReadJob
  <2>2. c \in JobCalls /\ CallHolds(c, status, contested) /\ c.job \in Jobs
    BY <1>2, <2>1 DEF CallHolds
  <2>3. CASE ~MayBecome(status[c.job], c.to)
    <3>1. Replied(i, "refused", <<>>) /\ contested' = contested /\ <<>> \in News
      BY <1>6, <2>3 DEF ReadJob, News
    <3>2. QED
      BY <1>4, <2>1, <3>1
  <2>4. CASE MayBecome(status[c.job], c.to)
    <3> DEFINE e == [c EXCEPT !.phase = "read"]
    <3>1. c.to \in Offers(status[c.job]) /\ Contest(i, c.job) /\ calls' = [calls EXCEPT ![i].phase = "read"]
      BY <1>6, <2>4 DEF ReadJob, MayBecome
    <3>2. /\ e \in JobCalls /\ e.op = "change" /\ e.phase = "read" /\ e.job = c.job /\ e.to = c.to
          /\ calls' = [calls EXCEPT ![i] = e]
      BY <1>1, <2>1, <2>2, <3>1 DEF JobCalls
    <3> HIDE DEF e
    <3>3. /\ contested \subseteq contested' /\ contested' \in SUBSET Jobs
          /\ CallHolds(e, status', contested')
          /\ \A k \in DOMAIN calls \ {i} : Meet(e, calls[k], contested')
          /\ \A k \in DOMAIN calls : CallHolds(calls[k], status', contested')
      BY <1>1, <2>1, <2>2, <3>1, <3>2, JobReads
    <3>4. /\ CallsOK' /\ DOMAIN calls' = DOMAIN calls /\ calls'[i] = e
          /\ \A k \in DOMAIN calls : k # i => calls'[k] = calls[k]
      BY <1>1, <2>1, <3>2, <3>3, JobCallServed
    <3> DEFINE old == [k \in DOMAIN calls' |-> k]
    <3>5. /\ old \in [DOMAIN calls' -> DOMAIN calls \cup {0}]
          /\ \A k \in DOMAIN calls' : old[k] # 0 /\ calls'[k].op = calls[old[k]].op
          /\ \A k, l \in DOMAIN calls' : old[k] = old[l] => k = l
      BY <1>1, <2>1, <3>2, <3>4
    <3> HIDE DEF old
    <3>6. NoDecisionInvented'
      BY <1>3, <2>1, <3>3 DEF serverOnly
    <3>7. QED
      BY <1>1, <2>1, <3>3, <3>4, <3>5, <3>6, JobServerStep
  <2>5. QED
    BY <2>3, <2>4
<1>7. ASSUME NEW i \in 1 .. MaxCalls, SaveJob(i) PROVE JobInv'
  <2> DEFINE c == calls[i]
  <2>1. i \in DOMAIN calls /\ c.phase = "read" /\ contested' = contested /\ UNCHANGED serverOnly
    BY <1>7 DEF SaveJob
  <2>2. /\ c \in JobCalls /\ CallHolds(c, status, contested) /\ c.op = "change" /\ c.job \in Jobs
        /\ c.to \in {"O", "D", "C"} /\ c.to \in Statuses
    BY <1>2, <2>1 DEF CallHolds, Statuses
  <2>3. CASE status' = status /\ Replied(i, "refused", <<>>)
    BY <1>4, <2>1, <2>3 DEF News
  <2>4. CASE status' = [status EXCEPT ![c.job] = c.to] /\ Replied(i, "done", [j \in {c.job} |-> c.to])
    <3>1. c.job \notin contested => c.to \in Offers(status[c.job]) \cup {status[c.job]}
      BY <2>1, <2>2 DEF CallHolds, Offers
    <3>2. /\ status' \in [Jobs -> Statuses] /\ NoDecisionInvented' /\ status'[c.job] = c.to
          /\ \A d : /\ CallHolds(d, status, contested)
                    /\ d.phase = "read" /\ d.job = c.job /\ c.job \notin contested => d.to = "C"
                    => CallHolds(d, status', contested')
      BY <2>1, <2>2, <2>4, <3>1, StatusSaved DEF serverOnly
    <3>3. \A k \in DOMAIN calls \ {i} : CallHolds(calls[k], status', contested')
      <4>1. \A k \in DOMAIN calls \ {i} : Meet(c, calls[k], contested)
        BY <1>1, <2>1 DEF CallsOK
      <4>2. QED
        BY <1>2, <2>1, <3>2, <4>1 DEF Meet
    <3> DEFINE news == [j \in {c.job} |-> c.to]
    <3>4. news \in News
      <4>1. news \in [{c.job} -> Statuses] /\ {c.job} \in SUBSET Jobs
        BY <2>2
      <4>2. QED
        BY <4>1 DEF News
    <3>5. Replied(i, "done", news)
      BY <2>4
    <3> HIDE DEF news
    <3>6. CallHolds([c EXCEPT !.phase = "done", !.news = news], status', contested')
      BY <2>2, <3>2 DEF CallHolds, JobCalls, Behind
    <3>7. PICK e : e = WithReply(calls[i], "done", news)
      OBVIOUS
    <3>8. CallHolds(e, status', contested')
      BY <3>6, <3>7 DEF WithReply
    <3> HIDE DEF c
    <3>9. QED
      BY <2>1, <3>2, <3>3, <3>4, <3>5, <3>7, <3>8, JobReplied
  <2>5. QED
    BY <1>7, <2>3, <2>4 DEF SaveJob
<1>8. ASSUME NEW j \in Jobs, OthersChange(j) PROVE JobInv'
  <2>1. PICK to \in Offers(status[j]) : NewCall("change", j, to, "others", "read")
    BY <1>8 DEF OthersChange
  <2>2. Contest(0, j) /\ status' = status /\ UNCHANGED serverOnly
    BY <1>8 DEF OthersChange
  <2> DEFINE e == [op |-> "change", job |-> j, to |-> to, from |-> "others", phase |-> "read", news |-> <<>>]
  <2>3. /\ e \in JobCalls /\ e.op = "change" /\ e.phase = "read" /\ e.job = j /\ e.to = to
        /\ calls' = Append(calls, e) /\ Len(calls) < MaxCalls
    BY <2>1, OffersAreDecisions DEF JobCalls, News, NewCall
  <2> HIDE DEF e
  <2>4. /\ contested \subseteq contested' /\ contested' \in SUBSET Jobs
        /\ CallHolds(e, status', contested')
        /\ \A k \in DOMAIN calls \ {0} : Meet(e, calls[k], contested')
    BY <1>1, <2>2, <2>3, JobReads
  <2>5. \A k \in DOMAIN calls : Meet(e, calls[k], contested')
    BY <1>1, <2>4
  <2>6. /\ CallsOK'
        /\ \A k \in DOMAIN calls' : \/ k \in DOMAIN calls /\ calls'[k] = calls[k]
                                    \/ k = Len(calls) + 1 /\ calls'[k] = e
    BY <1>1, <2>2, <2>3, <2>4, <2>5, JobCalled
  <2> DEFINE old == [k \in DOMAIN calls' |-> IF k \in DOMAIN calls THEN k ELSE 0]
  <2>7. /\ old \in [DOMAIN calls' -> DOMAIN calls \cup {0}]
        /\ \A k \in DOMAIN calls' : IF old[k] = 0 THEN calls'[k].op = "change"
                                    ELSE calls'[k].op = calls[old[k]].op
        /\ \A k, l \in DOMAIN calls' : old[k] = old[l] /\ old[k] # 0 => k = l
    BY <1>1, <2>3, <2>6
  <2> HIDE DEF old
  <2>8. NoDecisionInvented'
    BY <1>3, <2>2, <2>4 DEF serverOnly
  <2>9. QED
    BY <1>1, <2>2, <2>4, <2>6, <2>7, <2>8, JobServerStep
<1>9. ASSUME NEW j \in Jobs, OthersClose(j) PROVE JobInv'
  <2>1. /\ status' = [status EXCEPT ![j] = "C"] /\ UNCHANGED <<calls, contested>> /\ UNCHANGED serverOnly
        /\ j \notin contested => status[j] = "O" /\ "C" \in Offers(status[j])
    BY <1>9 DEF OthersClose, Offers
  <2>2. /\ status' \in [Jobs -> Statuses] /\ NoDecisionInvented'
        /\ \A c : /\ CallHolds(c, status, contested)
                  /\ c.phase = "read" /\ c.job = j /\ j \notin contested => c.to = "C"
                  => CallHolds(c, status', contested')
    BY <2>1, StatusSaved DEF serverOnly, Statuses
  <2>3. \A k \in DOMAIN calls : CallHolds(calls[k], status', contested')
    <3>1. \A k \in DOMAIN calls : calls[k].phase = "read" /\ calls[k].job = j /\ j \notin contested =>
              calls[k].to = "C"
      BY <1>2, <2>1 DEF CallHolds
    <3>2. QED
      BY <1>2, <2>2, <3>1
  <2>4. CallsOK'
    BY <1>1, <2>1, <2>3 DEF CallsOK
  <2> DEFINE old == [k \in DOMAIN calls' |-> k]
  <2>5. /\ old \in [DOMAIN calls' -> DOMAIN calls \cup {0}]
        /\ \A k \in DOMAIN calls' : old[k] # 0 /\ calls'[k].op = calls[old[k]].op
        /\ \A k, l \in DOMAIN calls' : old[k] = old[l] => k = l
    BY <1>1, <2>1
  <2> HIDE DEF old
  <2>6. contested' \in SUBSET Jobs
    BY <1>1, <2>1
  <2>7. QED
    BY <2>1, <2>2, <2>4, <2>5, <2>6, JobServerStep
<1>10. QED
  BY <1>5, <1>6, <1>7, <1>8, <1>9

\* Every answer closes or fills in what it is about, in whatever order they come.
LEMMA JobAnswersKeepInv ==
    ASSUME JobInv, NEW i,
           Viewed(i) \/ Changed(i) \/ Listed(i) \/ JobSignedOut(i) \/ JobCallFailed(i)
    PROVE  JobInv'
<1> DEFINE c == calls[i]
<1>1. /\ JobShape /\ CallsOK /\ OneView /\ FooterActsOnShown /\ NoDecisionInvented
      /\ status \in [Jobs -> Statuses] /\ contested \in SUBSET Jobs /\ calls \in Seq(JobCalls)
      /\ i \in DOMAIN calls /\ c.from # "others"
      /\ UNCHANGED <<status, viewing, crossed, contested>>
      /\ calls' = RemoveAt(calls, i) \/ (JobCallFailed(i) /\ calls' = LeftBehind(i))
  BY DEF JobInv, JobShape, JobPageTypeOK, CallsOK, Viewed, Changed, Listed, JobSignedOut,
         JobCallFailed, Answered, Heard
<1>2. /\ c \in JobCalls /\ CallHolds(c, status, contested)
      /\ \A k \in DOMAIN calls : CallHolds(calls[k], status', contested')
      /\ \A k \in DOMAIN calls : k # i => Meet(c, calls[k], contested')
      /\ \A k, l \in DOMAIN calls : ~crossed /\ calls[k].op = "view" /\ calls[l].op = "view" => k = l
  BY <1>1, ElementOfSeq DEF CallsOK, OneView
<1>3. /\ CallsOK'
      /\ ~crossed => /\ \A k, l \in DOMAIN calls' : calls'[k].op = "view" /\ calls'[l].op = "view" => k = l
                     /\ c.op = "view" => ~UnderWay("view")' /\ ~details.footer
                     /\ UnderWay("view")' => UnderWay("view")
  <2>1. CASE calls' = RemoveAt(calls, i)
    BY <1>1, <1>2, <2>1, JobCallOver, ViewOver
  <2>2. CASE calls' # RemoveAt(calls, i)
    <3> DEFINE e == [c EXCEPT !.from = "others"]
    <3>1. /\ calls' = [calls EXCEPT ![i] = e] /\ c.phase = "read"
          /\ e \in JobCalls /\ e.op = c.op /\ c.op = "change"
      BY <1>1, <1>2, <2>2 DEF LeftBehind, JobCalls, CallHolds
    <3>2. CallHolds(e, status', contested')
      BY <1>1, <1>2 DEF CallHolds, JobCalls
    <3>3. \A k \in DOMAIN calls \ {i} : Meet(e, calls[k], contested')
      BY <1>2 DEF Meet, JobCalls
    <3> HIDE DEF e, c
    <3>4. /\ CallsOK' /\ DOMAIN calls' = DOMAIN calls /\ calls'[i] = e
          /\ \A k \in DOMAIN calls : k # i => calls'[k] = calls[k]
      BY <1>1, <1>2, <3>1, <3>2, <3>3, JobCallServed
    <3>5. \A k \in DOMAIN calls : calls'[k].op = calls[k].op
      BY <3>1, <3>4 DEF c
    <3>6. QED
      BY <1>2, <3>1, <3>4, <3>5 DEF UnderWay
  <2>3. QED
    BY <2>1, <2>2
<1>4. /\ row \in [Jobs -> [is : Statuses \cup {NoStatus}, menu : {"P", "O", NoStatus}]]
      /\ details \in [id : Jobs \cup {NoJob}, colour : Statuses \cup {NoStatus},
                      of : Jobs \cup {NoJob}, shown : BOOLEAN, footer : BOOLEAN]
      /\ dialog \in [job : Jobs \cup {NoJob}, to : Statuses \cup {NoStatus},
                     from : {"view", "search"}, error : BOOLEAN]
      /\ {viewing, confirming, crossed} \subseteq BOOLEAN
      /\ confirming => dialog.job \in Jobs /\ dialog.to \in {"O", "D", "C"}
      /\ Len(calls') <= MaxCalls
  BY <1>1, <1>3 DEF JobShape, JobPageTypeOK, CallsOK
<1> HIDE DEF c
<1>5. CASE Viewed(i)
  <2>1. /\ c.op = "view" /\ c.phase = "done" /\ c.job \in Jobs /\ c.news[c.job] \in Statuses
        /\ UNCHANGED <<row, confirming, dialog>>
        /\ details' = [id |-> c.job, of |-> c.job, colour |-> c.news[c.job], shown |-> TRUE,
                       footer |-> details.footer \/ c.news[c.job] = "P"]
    BY <1>2, <1>5 DEF Viewed, Answered, Heard, CallHolds, c
  <2>2. JobShape'
    BY <1>1, <1>3, <1>4, <2>1 DEF JobShape, JobPageTypeOK
  <2>3. OneView'
    BY <1>1, <1>3, <2>1 DEF OneView
  <2>4. FooterActsOnShown'
    BY <1>1, <1>3, <2>1 DEF FooterActsOnShown
  <2>5. QED
    BY <1>1, <2>1, <2>2, <2>3, <2>4 DEF JobInv, NoDecisionInvented
<1>6. CASE Changed(i)
  <2>1. /\ c.op = "change" /\ c.phase = "done" /\ c.job \in Jobs /\ c.to \in {"O", "D", "C"}
        /\ c.job \notin contested => Behind(c.to, status[c.job])
    BY <1>2, <1>6 DEF Changed, Answered, Heard, CallHolds, c
  <2>2. /\ confirming' = FALSE /\ dialog' = Closed
        /\ row' = IF row[c.job] = NoRow THEN row
                  ELSE [row EXCEPT ![c.job].is = c.to,
                                   ![c.job].menu = IF row[c.job].menu = NoStatus THEN NoStatus ELSE MenuOf(c.to)]
        /\ details' = IF c.from = "view"
                      THEN [details EXCEPT !.id = c.job, !.colour = c.to, !.footer = FALSE]
                      ELSE details
    BY <1>6 DEF Changed, c
  <2>3. MenuOf(c.to) \in {"P", "O", NoStatus} /\ MenuOf(c.to) \in {NoStatus, c.to}
    BY <2>1 DEF MenuOf, Offers
  <2>4. row' \in [Jobs -> [is : Statuses \cup {NoStatus}, menu : {"P", "O", NoStatus}]]
    BY <1>4, <2>1, <2>2, <2>3 DEF Statuses
  <2>5. \A j \in Jobs : \/ row'[j] = row[j]
                        \/ /\ j = c.job /\ row'[j].is = c.to
                           /\ row'[j].menu \in {NoStatus, c.to}
    BY <1>4, <2>1, <2>2, <2>3
  <2>6. NoDecisionInvented'
    BY <1>1, <2>1, <2>5 DEF NoDecisionInvented, Behind
  <2>7. details' \in [id : Jobs \cup {NoJob}, colour : Statuses \cup {NoStatus},
                      of : Jobs \cup {NoJob}, shown : BOOLEAN, footer : BOOLEAN]
        /\ (details' = details \/ ~details'.footer)
    BY <1>4, <2>1, <2>2 DEF Statuses
  <2>8. JobShape'
    BY <1>1, <1>3, <1>4, <2>2, <2>4, <2>7 DEF JobShape, JobPageTypeOK, Closed
  <2>9. OneView' /\ FooterActsOnShown'
    BY <1>1, <1>3, <2>7 DEF OneView, FooterActsOnShown
  <2>10. QED
    BY <2>6, <2>8, <2>9 DEF JobInv
<1>7. CASE Listed(i)
  <2>1. /\ c.op = "list" /\ c.phase = "done" /\ UNCHANGED <<details, confirming, dialog>>
        /\ DOMAIN c.news \subseteq Jobs
        /\ \A j \in DOMAIN c.news : /\ c.news[j] \in Statuses
                                    /\ j \notin contested => Behind(c.news[j], status[j])
        /\ row' = [j \in Jobs |-> IF j \in DOMAIN c.news THEN RowOf(c.news[j]) ELSE NoRow]
    BY <1>2, <1>7 DEF Listed, Answered, Heard, CallHolds, c
  <2>2. \A s \in Statuses : /\ RowOf(s).is = s /\ RowOf(s).menu \in {NoStatus, s}
                            /\ RowOf(s) \in [is : Statuses \cup {NoStatus}, menu : {"P", "O", NoStatus}]
    BY DEF RowOf, MenuOf, Offers, Statuses
  <2>3. /\ NoRow.is = NoStatus /\ NoRow.menu = NoStatus
        /\ NoRow \in [is : Statuses \cup {NoStatus}, menu : {"P", "O", NoStatus}]
    BY DEF NoRow
  <2>4. row' \in [Jobs -> [is : Statuses \cup {NoStatus}, menu : {"P", "O", NoStatus}]]
    BY <2>1, <2>2, <2>3
  <2>5. NoDecisionInvented'
    BY <1>1, <2>1, <2>2, <2>3 DEF NoDecisionInvented, Behind
  <2>6. JobShape'
    BY <1>1, <1>3, <1>4, <2>1, <2>4 DEF JobShape, JobPageTypeOK
  <2>7. OneView' /\ FooterActsOnShown'
    BY <1>1, <1>3, <2>1 DEF OneView, FooterActsOnShown
  <2>8. QED
    BY <2>5, <2>6, <2>7 DEF JobInv
<1>8. CASE JobCallFailed(i)
  <2>1. /\ details' = IF c.op = "view" THEN [details EXCEPT !.shown = FALSE] ELSE details
        /\ dialog' = IF c.op = "change" /\ confirming THEN [dialog EXCEPT !.error = TRUE] ELSE dialog
        /\ row' = IF c.op = "list" THEN [j \in Jobs |-> NoRow] ELSE row
        /\ confirming' = confirming
    BY <1>8 DEF JobCallFailed, c
  <2>2. NoRow \in [is : Statuses \cup {NoStatus}, menu : {"P", "O", NoStatus}]
        /\ NoRow.is = NoStatus /\ NoRow.menu = NoStatus
    BY DEF NoRow
  <2>3. row' \in [Jobs -> [is : Statuses \cup {NoStatus}, menu : {"P", "O", NoStatus}]]
        /\ NoDecisionInvented'
    BY <1>1, <1>4, <2>1, <2>2 DEF NoDecisionInvented
  <2>4. /\ details' \in [id : Jobs \cup {NoJob}, colour : Statuses \cup {NoStatus},
                         of : Jobs \cup {NoJob}, shown : BOOLEAN, footer : BOOLEAN]
        /\ details'.footer = details.footer /\ details'.id = details.id
        /\ details'.of = details.of /\ details'.colour = details.colour
        /\ c.op # "view" => details'.shown = details.shown
    BY <1>4, <2>1
  <2>5. /\ dialog' \in [job : Jobs \cup {NoJob}, to : Statuses \cup {NoStatus},
                        from : {"view", "search"}, error : BOOLEAN]
        /\ dialog'.job = dialog.job /\ dialog'.to = dialog.to
    BY <1>4, <2>1
  <2>6. JobShape'
    BY <1>1, <1>3, <1>4, <2>1, <2>3, <2>4, <2>5 DEF JobShape, JobPageTypeOK
  <2>7. OneView'
    BY <1>1, <1>3, <2>4 DEF OneView
  <2>8. FooterActsOnShown'
    BY <1>1, <1>3, <2>4 DEF FooterActsOnShown
  <2>9. QED
    BY <2>3, <2>6, <2>7, <2>8 DEF JobInv
<1>9. CASE JobSignedOut(i)
  <2>1. UNCHANGED <<row, details, confirming, dialog>>
    BY <1>9 DEF JobSignedOut
  <2>2. JobShape'
    BY <1>1, <1>3, <1>4, <2>1 DEF JobShape, JobPageTypeOK
  <2>3. OneView' /\ FooterActsOnShown'
    BY <1>1, <1>3, <2>1 DEF OneView, FooterActsOnShown
  <2>4. QED
    BY <1>1, <2>1, <2>2, <2>3 DEF JobInv, NoDecisionInvented
<1>10. QED
  BY <1>5, <1>6, <1>7, <1>8, <1>9

LEMMA JobNextKeepsInv == JobInv /\ [JobPageNext]_jobVars => JobInv'
<1> SUFFICES ASSUME JobInv, [JobPageNext]_jobVars PROVE JobInv'
  OBVIOUS
<1>1. CASE UNCHANGED jobVars
  BY <1>1 DEF jobVars, JobInv, JobShape, JobPageTypeOK, CallsOK, OneView, UnderWay,
              FooterActsOnShown, NoDecisionInvented
<1>2. QED
  BY <1>1, JobClicksKeepInv, JobServerKeepsInv, JobAnswersKeepInv DEF JobPageNext

LEMMA JobInitInv == JobPageInit => JobInv
<1> SUFFICES ASSUME JobPageInit PROVE JobInv
  OBVIOUS
<1>1. calls \in Seq(JobCalls) /\ Len(calls) = 0 /\ DOMAIN calls = {}
  BY EmptySeq DEF JobPageInit
<1>2. \A j \in Jobs : status[j] \in {"P", "O", "C"} /\ row[j] = RowOf(status[j])
  BY DEF JobPageInit
<1>3. \A x \in {"P", "O", "C"} :
        /\ RowOf(x).is = x /\ RowOf(x).menu \in {NoStatus, x}
        /\ RowOf(x) \in [is : Statuses \cup {NoStatus}, menu : {"P", "O", NoStatus}]
  BY DEF RowOf, MenuOf, Offers, Statuses, NoStatus
<1>4. status \in [Jobs -> Statuses]
      /\ row \in [Jobs -> [is : Statuses \cup {NoStatus}, menu : {"P", "O", NoStatus}]]
  BY <1>2, <1>3 DEF JobPageInit, Statuses
<1>5. details \in [id : Jobs \cup {NoJob}, colour : Statuses \cup {NoStatus},
                   of : Jobs \cup {NoJob}, shown : BOOLEAN, footer : BOOLEAN]
      /\ ~details.footer
  BY DEF JobPageInit
<1>6. JobPageTypeOK
  <2>1. {viewing, confirming, crossed} \subseteq BOOLEAN /\ dialog = Closed /\ contested \in SUBSET Jobs
    BY DEF JobPageInit
  <2>2. Len(calls) <= MaxCalls
    BY <1>1, JobPageAssumption
  <2>3. QED
    BY <1>4, <1>5, <2>1, <2>2, ClosedDialog DEF JobPageTypeOK
<1>7. OneView /\ FooterActsOnShown
  BY <1>1, <1>5 DEF OneView, FooterActsOnShown
<1>8. NoDecisionInvented
  BY <1>2, <1>3 DEF NoDecisionInvented
<1>9. CallsOK
  BY <1>1, <1>6 DEF CallsOK, JobPageTypeOK
<1>10. QED
  BY <1>6, <1>7, <1>8, <1>9 DEF JobPageInit, JobInv, JobShape

-------------------------------------------------------------------------------
(* The table of a list *)

\* The k-th request under way is the last question.
IsLast(k) ==
    /\ k \in DOMAIN asked /\ IsQuestion(asked[k])
    /\ \A l \in DOMAIN asked : IsQuestion(asked[l]) => l <= k

\* A search for nothing leaves the table as it was.
Blanked == mode = "search" /\ key = Blank

\* The question the controls stand for; searching the users starts anew.
Fits(q) ==
    \/ q = Query(mode, IF mode = "all" THEN Blank ELSE key, filter, page)
    \/ list = "users" /\ page = 0 /\ q = Query("search", key, AnyFilter, 0)

\* Unless an answer has overtaken an older question, the last question is the one
\* the controls stand for, and so is the one the table answers when it was the last and
\* the login page did not take the place of its answer.
TableFollows ==
    ~reordered /\ ~Blanked =>
        /\ \A k \in DOMAIN asked : IsLast(k) => Fits(asked[k])
        /\ Settled /\ ~stale /\ table.is \in {"rows", "none"} =>
              /\ Fits(table.of)
              /\ nextOn <=> page + 1 < total
              /\ prevOn <=> page > 0 /\ page < total

TableInv == ListInv /\ TableFollows

\* Who asks what the new controls stand for has it as the last question.
LEMMA FittingQuestion ==
    ASSUME ListInv, NEW q \in Queries, IsQuestion(q), Send(q), Fits(q)'
    PROVE  TableFollows'
<1>1. asked \in Seq(Queries) /\ Len(asked) \in Nat
  BY DEF ListInv, ListTypeOK
<1>2. /\ asked' \in Seq(Queries)
      /\ asked'[Len(asked) + 1] = q /\ Len(asked) + 1 \in DOMAIN asked'
      /\ \A k \in DOMAIN asked' : k \in DOMAIN asked \/ k = Len(asked) + 1
  BY <1>1, AppendKeepsOthers DEF Send
<1>3. DOMAIN asked = 1 .. Len(asked)
  BY <1>1
<1>4. ~Settled'
  BY <1>2 DEF Settled
<1>5. \A k \in DOMAIN asked' : IsLast(k)' => k = Len(asked) + 1
  BY <1>1, <1>2, <1>3 DEF IsLast
<1>6. QED
  BY <1>2, <1>4, <1>5 DEF TableFollows

LEMMA ListAsksWhatFits ==
    ASSUME ListInv, NEW f \in Filters, NEW p \in Nat, NEW k \in Keys, NEW busy, list' = list,
           \/ AllJobs(f, p) /\ filter' = f /\ page' = p
           \/ /\ SearchJob(k, f, p, busy) /\ key' = k /\ page' = p
              /\ filter' = f \/ (list = "users" /\ p = 0 /\ f = AnyFilter)
    PROVE  TableFollows'
<1>1. CASE AllJobs(f, p) /\ filter' = f /\ page' = p
  <2> DEFINE q == Query("all", Blank, f, p)
  <2>1. q \in Queries /\ IsQuestion(q)
    BY ListAssumption DEF Query, Queries, IsQuestion
  <2>2. Send(q) /\ mode' = "all"
    BY <1>1 DEF AllJobs
  <2>3. Fits(q)'
    BY <1>1, <2>2 DEF Fits
  <2> HIDE DEF q
  <2>4. QED
    BY <2>1, <2>2, <2>3, FittingQuestion
<1>2. CASE /\ SearchJob(k, f, p, busy) /\ key' = k /\ page' = p
           /\ filter' = f \/ (list = "users" /\ p = 0 /\ f = AnyFilter)
  <2>1. CASE k = Blank
    BY <1>2, <2>1 DEF SearchJob, TableFollows, Blanked
  <2>2. CASE k # Blank
    <3> DEFINE q == Query("search", k, f, p)
    <3>1. q \in Queries /\ IsQuestion(q)
      BY DEF Query, Queries, IsQuestion
    <3>2. Send(q) /\ mode' = "search"
      BY <1>2, <2>2 DEF SearchJob
    <3>3. Fits(q)'
      BY <1>2, <3>2 DEF Fits
    <3> HIDE DEF q
    <3>4. QED
      BY <3>1, <3>2, <3>3, FittingQuestion
  <2>3. QED
    BY <2>1, <2>2
<1>3. QED
  BY <1>1, <1>2

\* What is left of the questions when one is over that none before it waits for.
LEMMA LastIsKept ==
    ASSUME ListInv, NEW i \in DOMAIN asked, asked' = RemoveAt(asked, i),
           IsQuestion(asked[i]) => \A l \in 1 .. i - 1 : ~IsQuestion(asked[l])
    PROVE  /\ \A k \in DOMAIN asked' :
                 IsLast(k)' => \E l \in DOMAIN asked : IsLast(l) /\ asked[l] = asked'[k]
           /\ Settled' => Settled \/ IsLast(i)
<1>1. /\ Len(asked) \in Nat /\ DOMAIN asked = 1 .. Len(asked)
      /\ DOMAIN asked' = 1 .. (Len(asked) - 1)
      /\ \A k \in DOMAIN asked' : Old(k, i) \in DOMAIN asked \ {i} /\ asked'[k] = asked[Old(k, i)]
  BY RemovalShifts DEF ListInv, ListTypeOK
<1>2. \A l \in DOMAIN asked \ {i} : \E m \in DOMAIN asked' : Old(m, i) = l /\ asked'[m] = asked[l]
  <2> SUFFICES ASSUME NEW l \in DOMAIN asked \ {i}
               PROVE  \E m \in DOMAIN asked' : Old(m, i) = l /\ asked'[m] = asked[l]
    OBVIOUS
  <2>1. CASE l < i
    <3>1. l \in DOMAIN asked' /\ Old(l, i) = l
      BY <1>1, <2>1 DEF Old
    <3>2. QED
      BY <1>1, <3>1
  <2>2. CASE l > i
    <3>1. l - 1 \in DOMAIN asked' /\ Old(l - 1, i) = l
      BY <1>1, <2>2 DEF Old
    <3>2. QED
      BY <1>1, <3>1
  <2>3. QED
    BY <1>1, <2>1, <2>2
<1>3. ASSUME NEW k \in DOMAIN asked', IsLast(k)' PROVE IsLast(Old(k, i)) /\ asked[Old(k, i)] = asked'[k]
  <2>1. /\ Old(k, i) \in DOMAIN asked \ {i} /\ asked[Old(k, i)] = asked'[k]
        /\ IsQuestion(asked[Old(k, i)])
    BY <1>1, <1>3 DEF IsLast
  <2>2. ASSUME NEW l \in DOMAIN asked, IsQuestion(asked[l]), l # i PROVE l <= Old(k, i)
    <3>1. PICK m \in DOMAIN asked' : Old(m, i) = l /\ asked'[m] = asked[l]
      BY <1>2, <2>2
    <3>2. m <= k
      BY <1>3, <2>2, <3>1 DEF IsLast
    <3>3. QED
      BY <1>1, <3>1, <3>2 DEF Old
  <2>3. IsQuestion(asked[i]) => i <= Old(k, i)
    BY <1>1, <2>1
  <2>4. QED
    BY <2>1, <2>2, <2>3 DEF IsLast
<1>4. ASSUME Settled', ~Settled PROVE IsLast(i)
  <2>1. \A l \in DOMAIN asked \ {i} : ~IsQuestion(asked[l])
    BY <1>2, <1>4 DEF Settled
  <2>2. QED
    BY <1>1, <1>4, <2>1 DEF IsLast, Settled
<1>5. QED
  BY <1>1, <1>3, <1>4

\* An answer that comes in its turn is to the last question, or a later one is left.
LEMMA ListAnswersKeepTable ==
    ASSUME TableInv, NEW i, ListAnswer(i)
    PROVE  TableFollows'
<1>1. /\ i \in DOMAIN asked /\ asked' = RemoveAt(asked, i) /\ UNCHANGED controls /\ ListInv
      /\ reordered' = (reordered \/ \E k \in 1 .. i - 1 : IsQuestion(asked[k]) /\ IsQuestion(asked[i]))
  BY DEF TableInv, ListAnswer, ListFailed, ListSignedOut, RePushed, Found, Handled, Over
<1> SUFFICES ASSUME ~reordered', ~Blanked'
             PROVE  (/\ \A k \in DOMAIN asked : IsLast(k) => Fits(asked[k])
                     /\ Settled /\ ~stale /\ table.is \in {"rows", "none"} =>
                           /\ Fits(table.of)
                           /\ nextOn <=> page + 1 < total
                           /\ prevOn <=> page > 0 /\ page < total)'
  BY DEF TableFollows
<1>2. /\ ~reordered /\ ~Blanked
      /\ IsQuestion(asked[i]) => \A l \in 1 .. i - 1 : ~IsQuestion(asked[l])
  BY <1>1 DEF Blanked, controls
<1>3. /\ \A k \in DOMAIN asked' :
            IsLast(k)' => \E l \in DOMAIN asked : IsLast(l) /\ asked[l] = asked'[k]
      /\ Settled' => Settled \/ IsLast(i)
  BY <1>1, <1>2, LastIsKept
<1>4. /\ \A k \in DOMAIN asked : IsLast(k) => Fits(asked[k])
      /\ Settled /\ ~stale /\ table.is \in {"rows", "none"} =>
            /\ Fits(table.of)
            /\ nextOn <=> page + 1 < total
            /\ prevOn <=> page > 0 /\ page < total
  BY <1>2 DEF TableInv, TableFollows
<1>5. (\A k \in DOMAIN asked : IsLast(k) => Fits(asked[k]))'
  <2> SUFFICES ASSUME NEW k \in DOMAIN asked', IsLast(k)' PROVE Fits(asked[k])'
    OBVIOUS
  <2>1. Fits(asked'[k])
    BY <1>3, <1>4
  <2>2. QED
    BY <1>1, <2>1 DEF Fits, controls
<1>6. Fits(table'.of) => Fits(table.of)'
  BY <1>1 DEF Fits, controls
<1>7. ASSUME Settled', ~stale', table'.is \in {"rows", "none"}
      PROVE  /\ Fits(table'.of)
             /\ nextOn' <=> page + 1 < total'
             /\ prevOn' <=> page > 0 /\ page < total'
  <2>1. CASE RePushed(i)
    <3>1. ~IsQuestion(asked[i]) /\ UNCHANGED <<total, table, prevOn, nextOn, stale>>
      BY <2>1 DEF RePushed, result
    <3>2. Settled
      BY <1>3, <1>7, <3>1 DEF IsLast
    <3>3. QED
      BY <1>4, <1>7, <3>1, <3>2
  <2>2. CASE ListFailed(i)
    BY <1>7, <2>2 DEF ListFailed
  <2>3. ASSUME NEW n \in PageCounts, Found(i, n)
        PROVE  /\ Fits(table'.of)
               /\ nextOn' <=> page + 1 < total'
               /\ prevOn' <=> page > 0 /\ page < total'
    <3>1. IsQuestion(asked[i])
      BY <2>3 DEF Found
    <3>2. IsLast(i)
      BY <1>1, <1>3, <1>7, <3>1 DEF Settled
    <3>3. Fits(asked[i])
      BY <1>1, <1>4, <3>2
    <3>4. asked[i].page = page /\ page \in Nat /\ n \in Nat
      BY <1>1, <3>3, ListAssumption DEF Fits, Query, ListInv, ListTypeOK
    <3>5. /\ total' = n /\ table'.of = asked[i]
          /\ prevOn' = (n > 1 /\ page > 0 /\ page < n)
          /\ nextOn' = (n > 1 /\ page + 1 < n)
      BY <2>3, <3>4 DEF Found
    <3>6. /\ (n > 1 /\ page + 1 < n) <=> page + 1 < n
          /\ (n > 1 /\ page > 0 /\ page < n) <=> page > 0 /\ page < n
      BY <3>4
    <3>7. QED
      BY <3>3, <3>5, <3>6
  <2>4. CASE ListSignedOut(i)
    BY <1>7, <2>4 DEF ListSignedOut
  <2>5. QED
    BY <2>1, <2>2, <2>3, <2>4 DEF ListAnswer
<1>8. page' = page
  BY <1>1 DEF controls
<1>9. QED
  BY <1>5, <1>6, <1>7, <1>8

\* Pushing again is no question about the table.
LEMMA RePushKeepsTable == ASSUME TableInv, RePushJob PROVE TableFollows'
<1>1. asked' = Append(asked, RePush) /\ UNCHANGED <<controls, result, signedOut>> /\ ~IsQuestion(RePush)
      /\ (reordered' <=> reordered) /\ ListInv
  BY DEF TableInv, ListInv, ListTypeOK, RePushJob, Send, RePush, Query, IsQuestion
<1>2. RePush \in Queries
  BY ListAssumption DEF RePush, Query, Queries
<1>3. /\ \A k \in DOMAIN asked : k \in DOMAIN asked' /\ asked'[k] = asked[k]
      /\ asked'[Len(asked) + 1] = RePush
      /\ \A k \in DOMAIN asked' : k \in DOMAIN asked \/ k = Len(asked) + 1
  BY <1>1, <1>2, AppendKeepsOthers DEF ListInv, ListTypeOK
<1>4. \A k \in DOMAIN asked' : IsLast(k)' => IsLast(k) /\ asked'[k] = asked[k]
  BY <1>1, <1>3 DEF IsLast
<1>5. Settled' => Settled
  BY <1>3 DEF Settled
<1>6. UNCHANGED <<list, mode, key, filter, page, total, table, prevOn, nextOn, stale>>
  BY <1>1 DEF controls, result, signedOut
<1>7. ~reordered' /\ ~Blanked' => ~reordered /\ ~Blanked
  BY <1>1, <1>6 DEF Blanked
<1>8. ~reordered /\ ~Blanked => (\A k \in DOMAIN asked : IsLast(k) => Fits(asked[k]))'
  <2> SUFFICES ASSUME ~reordered, ~Blanked, NEW k \in DOMAIN asked', IsLast(k)'
               PROVE  Fits(asked[k])'
    OBVIOUS
  <2>1. k \in DOMAIN asked /\ IsLast(k) /\ asked'[k] = asked[k]
    BY <1>4 DEF IsLast
  <2>2. Fits(asked[k])
    BY <2>1 DEF TableInv, TableFollows
  <2>3. QED
    BY <1>6, <2>1, <2>2 DEF Fits
<1>9. ~reordered /\ ~Blanked =>
          (Settled /\ ~stale /\ table.is \in {"rows", "none"} =>
              /\ Fits(table.of)
              /\ nextOn <=> page + 1 < total
              /\ prevOn <=> page > 0 /\ page < total)'
  BY <1>5, <1>6 DEF TableInv, TableFollows, Fits
<1>10. QED
  BY <1>7, <1>8, <1>9 DEF TableFollows

LEMMA TableNextKeepsInv == TableInv /\ [ListNext]_listVars => TableInv'
<1> SUFFICES ASSUME TableInv, [ListNext]_listVars PROVE TableFollows'
  BY ListNextKeepsInv DEF TableInv
<1>1. ListInv /\ filter \in Filters /\ page \in Nat /\ key \in Keys
  BY DEF TableInv, ListInv, ListTypeOK
<1> USE ListAssumption
<1>2. CASE InitSearchJob
  BY <1>1, <1>2, ListAsksWhatFits DEF InitSearchJob
<1>3. CASE ViewAll
  BY <1>1, <1>3, ListAsksWhatFits DEF ViewAll
<1>4. CASE NextPage
  <2>1. page + 1 \in Nat /\ UNCHANGED <<list, filter, key>> /\ page' = page + 1
    BY <1>1, <1>4 DEF NextPage
  <2>2. AllJobs(filter, page + 1) \/ SearchJob(key, filter, page + 1, searching)
    BY <1>4 DEF NextPage, AskAgain
  <2>3. QED
    BY <1>1, <2>1, <2>2, ListAsksWhatFits
<1>5. CASE Previous
  <2>1. page - 1 \in Nat /\ UNCHANGED <<list, filter, key>> /\ page' = page - 1
    BY <1>1, <1>5 DEF Previous
  <2>2. AllJobs(filter, page - 1) \/ SearchJob(key, filter, page - 1, searching)
    BY <1>5 DEF Previous, AskAgain
  <2>3. QED
    BY <1>1, <2>1, <2>2, ListAsksWhatFits
<1>6. ASSUME NEW f \in Filters, ChangeStatus(f) PROVE TableFollows'
  <2>1. UNCHANGED <<list, key, page>> /\ filter' = f
    BY <1>6 DEF ChangeStatus
  <2>2. AllJobs(f, page) \/ SearchJob(key, f, page, searching)
    BY <1>6 DEF ChangeStatus, AskAgain
  <2>3. QED
    BY <1>1, <2>1, <2>2, ListAsksWhatFits
<1>7. ASSUME NEW k \in Keys, Search(k) PROVE TableFollows'
  <2>1. /\ SearchedFilter \in Filters /\ UNCHANGED <<list, filter>> /\ key' = k /\ page' = 0
        /\ SearchJob(k, SearchedFilter, 0, TRUE)
        /\ SearchedFilter = filter \/ (list = "users" /\ SearchedFilter = AnyFilter)
    BY <1>1, <1>7 DEF Search, SearchedFilter
  <2>2. QED
    BY <1>1, <2>1, ListAsksWhatFits
<1>8. CASE UNCHANGED listVars
  BY <1>8 DEF listVars, controls, result, signedOut, TableInv, TableFollows, Blanked, IsLast, Fits, Settled
<1>9. QED
  BY <1>2, <1>3, <1>4, <1>5, <1>6, <1>7, <1>8, ListAnswersKeepTable, RePushKeepsTable DEF ListNext

LEMMA TableInitInv == ListInit => TableInv
<1> SUFFICES ASSUME ListInit PROVE TableInv
  OBVIOUS
<1>1. asked = <<Query("all", Blank, AnyFilter, 0)>> /\ asked[1] = Query("all", Blank, AnyFilter, 0)
      /\ DOMAIN asked = {1}
  BY DEF ListInit
<1>2. ~Settled
  BY <1>1 DEF Settled, Query, IsQuestion
<1>3. \A k \in DOMAIN asked : Fits(asked[k])
  BY <1>1 DEF ListInit, Fits
<1>4. QED
  BY <1>2, <1>3, ListInitInv DEF TableInv, TableFollows

-------------------------------------------------------------------------------
(* The form for a staff member *)

FormRequests == [op : {"get", "upload", "remove", "password"}, id : Members \cup {NoMember},
                 done : BOOLEAN, file : Photos \cup {NoPhoto}]

\* A request as it is sent.
Sending(op, m) == [op |-> op, id |-> m, done |-> FALSE, file |-> NoPhoto]

FormShape == StaffFormTypeOK /\ sent \in Seq(FormRequests)

\* Where no photo can be chosen one is being sent, or removed, or the last one was sent
\* in vain and the widget is gone.
UploadWaits == ~form.upload => widgetStuck \/ \E k \in DOMAIN sent : sent[k].op \in {"upload", "remove"}

PhotoUsable == (form.upload \/ widgetStuck) /\ (form.remove \/ form.reload \/ form.hidden = NoPhoto)

\* The form waits for answer a, and will show what the server has once it is there:
\* what the server has now, until the request is worked off, and then what a brings.
AnswerFits(a) ==
    IF a.op = "get"
    THEN /\ form.id = NoMember /\ form.hidden = NoPhoto /\ ~form.remove /\ ~form.reload
         /\ a.id \in Members
         /\ a.done => a.file = photo[a.id]
    ELSE /\ a.id = form.id /\ form.id \in Members
         /\ form.remove => form.hidden # NoPhoto
         /\ a.op = "remove" => form.hidden # NoPhoto
         /\ a.op = "password" => PhotoUsable
         /\ IF a.done /\ a.op = "upload" THEN photo[form.id] = a.file /\ a.file \in Photos
            ELSE IF a.done /\ a.op = "remove" THEN photo[form.id] = NoPhoto
            ELSE form.hidden = photo[form.id]

\* Requests that do not overlap are one at a time, and the form waits for it.
FormWaits ==
    ~mixed =>
        /\ Len(sent) <= 1
        /\ editing /\ form.body => \A k \in DOMAIN sent : AnswerFits(sent[k])

FormInv == FormShape /\ UploadWaits /\ FormWaits /\ PhotoMatchesMember

\* A request of the form joins those under way; if they are not mixed up it is alone.
LEMMA FormSent ==
    ASSUME FormShape, NEW op \in {"get", "upload", "remove", "password"},
           NEW m \in Members \cup {NoMember}, NEW again \in BOOLEAN, SendForm(op, m, again)
    PROVE  /\ sent' \in Seq(FormRequests) /\ Len(sent') <= MaxSent /\ mixed' \in BOOLEAN
           /\ sent' # <<>>
           /\ \A k \in DOMAIN sent : k \in DOMAIN sent' /\ sent'[k] = sent[k]
           /\ \E k \in DOMAIN sent' : sent'[k] = Sending(op, m)
           /\ ~mixed' =>
                /\ sent = <<>> /\ (again \/ ~mixed)
                /\ Len(sent') <= 1 /\ \A k \in DOMAIN sent' : sent'[k] = Sending(op, m)
<1>1. sent \in Seq(FormRequests) /\ Sending(op, m) \in FormRequests /\ Len(sent) \in Nat /\ MaxSent \in Nat
  BY StaffFormAssumption DEF FormShape, FormRequests, Sending
<1>2. /\ sent' = Append(sent, Sending(op, m)) /\ Len(sent) < MaxSent
      /\ mixed' = ((mixed /\ ~again) \/ sent # <<>>)
  BY DEF SendForm, Sending
<1>3. /\ sent' \in Seq(FormRequests) /\ Len(sent') = Len(sent) + 1
      /\ \A k \in 1 .. Len(sent) : sent'[k] = sent[k]
      /\ sent'[Len(sent) + 1] = Sending(op, m)
  BY <1>1, <1>2, AppendProperties
<1>4. DOMAIN sent = 1 .. Len(sent) /\ DOMAIN sent' = 1 .. (Len(sent) + 1)
  BY <1>1, <1>3, LenProperties
<1>5. sent' # <<>> /\ Len(sent) + 1 \in DOMAIN sent'
  BY <1>1, <1>3, <1>4
<1>6. mixed' \in BOOLEAN
  BY <1>2 DEF FormShape, StaffFormTypeOK
<1>7. ASSUME ~mixed'
      PROVE  /\ sent = <<>> /\ (again \/ ~mixed)
             /\ Len(sent') <= 1 /\ \A k \in DOMAIN sent' : sent'[k] = Sending(op, m)
  <2>1. sent = <<>> /\ (again \/ ~mixed)
    BY <1>2, <1>7
  <2>2. Len(sent) = 0
    BY <2>1
  <2>3. QED
    BY <1>3, <1>4, <2>1, <2>2
<1>8. QED
  BY <1>1, <1>2, <1>3, <1>4, <1>5, <1>6, <1>7

\* One that is over leaves the rest; if they were not mixed up it leaves none.
LEMMA FormOver ==
    ASSUME FormShape, FormWaits, NEW i \in DOMAIN sent, sent' = RemoveAt(sent, i)
    PROVE  /\ sent' \in Seq(FormRequests) /\ Len(sent') <= MaxSent
           /\ sent[i] \in FormRequests
           /\ \A k \in DOMAIN sent : k # i => \E l \in DOMAIN sent' : sent'[l] = sent[k]
           /\ ~mixed => Len(sent') = 0 /\ DOMAIN sent' = {}
<1>1. /\ sent \in Seq(FormRequests) /\ Len(sent) \in Nat /\ DOMAIN sent = 1 .. Len(sent)
      /\ i \in 1 .. Len(sent)
  BY LenProperties DEF FormShape
<1>2. /\ sent' \in Seq(FormRequests) /\ Len(sent') = Len(sent) - 1
      /\ \A k \in 1 .. (Len(sent) - 1) : sent'[k] = IF k < i THEN sent[k] ELSE sent[k + 1]
  BY <1>1, RemoveAtElements
<1>3. DOMAIN sent' = 1 .. (Len(sent) - 1)
  BY <1>1, <1>2, LenProperties
<1>4. ASSUME NEW k \in DOMAIN sent, k # i PROVE \E l \in DOMAIN sent' : sent'[l] = sent[k]
  <2>1. CASE k < i
    BY <1>1, <1>2, <1>3, <2>1
  <2>2. CASE k > i
    <3>1. k - 1 \in 1 .. (Len(sent) - 1) /\ ~(k - 1 < i) /\ (k - 1) + 1 = k
      BY <1>1, <2>2
    <3>2. QED
      BY <1>2, <1>3, <3>1
  <2>3. QED
    BY <1>1, <1>4, <2>1, <2>2
<1>5. ~mixed => Len(sent') = 0 /\ DOMAIN sent' = {}
  BY <1>1, <1>2, <1>3 DEF FormWaits
<1>6. Len(sent') <= MaxSent /\ sent[i] \in FormRequests
  BY <1>1, <1>2, StaffFormAssumption DEF FormShape, StaffFormTypeOK
<1>7. QED
  BY <1>2, <1>4, <1>5, <1>6

\* What the admin clicks.
LEMMA FormClicksKeepInv ==
    ASSUME FormInv,
           \/ \E m \in Members : InitEditStaff(m)
           \/ InitSearchStaff \/ EditPreviewPhoto \/ EditRemovePhoto \/ EditReloadPhoto
           \/ InitEditChangePassword \/ DismissPrompt \/ ChangeStaffPassword
    PROVE  FormInv'
<1>1. /\ photo \in [Members -> Photos \cup {NoPhoto}]
      /\ form \in [id : Members \cup {NoMember}, hidden : Photos \cup {NoPhoto}, body : BOOLEAN,
                   upload : BOOLEAN, remove : BOOLEAN, reload : BOOLEAN]
      /\ promptFor \in Members \cup {NoMember}
      /\ editing \in BOOLEAN /\ prompting \in BOOLEAN /\ changing \in BOOLEAN
      /\ mixed \in BOOLEAN /\ misdirected \in BOOLEAN /\ widgetStuck \in BOOLEAN
      /\ Len(sent) <= MaxSent /\ sent \in Seq(FormRequests)
      /\ FormShape /\ NoPhoto \notin Photos /\ NoMember \notin Members
  BY StaffFormAssumption DEF FormInv, FormShape, StaffFormTypeOK
<1>2. ASSUME NEW m \in Members, InitEditStaff(m) PROVE FormInv'
  <2>1. /\ SendForm("get", m, TRUE) /\ editing' = TRUE
        /\ form' = [form EXCEPT !.remove = FALSE, !.reload = FALSE,
                                !.id = NoMember, !.hidden = NoPhoto, !.body = TRUE]
        /\ UNCHANGED <<photo, prompting, promptFor, changing, misdirected>>
        /\ widgetStuck' = (widgetStuck /\ ~form'.upload)
    BY <1>2 DEF InitEditStaff, SetForm, CleanFrame
  <2>2. /\ sent' \in Seq(FormRequests) /\ Len(sent') <= MaxSent /\ mixed' \in BOOLEAN
        /\ sent' # <<>>
        /\ \A k \in DOMAIN sent : k \in DOMAIN sent' /\ sent'[k] = sent[k]
        /\ ~mixed' => Len(sent') <= 1 /\ \A k \in DOMAIN sent' : sent'[k] = Sending("get", m)
    BY <1>1, <2>1, FormSent
  <2>3. /\ form'.id = NoMember /\ form'.hidden = NoPhoto /\ ~form'.remove /\ ~form'.reload
        /\ form'.upload = form.upload
        /\ form' \in [id : Members \cup {NoMember}, hidden : Photos \cup {NoPhoto}, body : BOOLEAN,
                      upload : BOOLEAN, remove : BOOLEAN, reload : BOOLEAN]
    BY <1>1, <2>1
  <2>4. FormShape'
    BY <1>1, <2>1, <2>2, <2>3 DEF FormShape, StaffFormTypeOK
  <2>5. UploadWaits'
    BY <2>1, <2>2, <2>3 DEF FormInv, UploadWaits
  <2>6. FormWaits'
    BY <2>2, <2>3 DEF FormWaits, AnswerFits, Sending
  <2>7. QED
    BY <2>2, <2>4, <2>5, <2>6 DEF FormInv, PhotoMatchesMember
<1>3. CASE InitSearchStaff
  <2>1. editing' = FALSE /\ UNCHANGED <<photo, form, prompting, promptFor, changing, sent, mixed, widgetStuck,
                                        misdirected>>
    BY <1>3 DEF InitSearchStaff
  <2>2. /\ {editing', prompting', changing', mixed', widgetStuck', misdirected'} \subseteq BOOLEAN
        /\ promptFor' \in Members \cup {NoMember} /\ sent' = sent /\ photo' = photo /\ form' = form
    BY <1>1, <2>1
  <2>3. FormShape'
    BY <1>1, <2>2 DEF FormShape, StaffFormTypeOK
  <2>4. QED
    BY <2>1, <2>3 DEF FormInv, UploadWaits, FormWaits, PhotoMatchesMember
<1>4. CASE EditPreviewPhoto
  <2>1. /\ SendForm("upload", form.id, FALSE) /\ editing /\ form.body /\ editing' = editing
        /\ form' = [form EXCEPT !.upload = FALSE, !.remove = FALSE]
        /\ UNCHANGED <<photo, prompting, promptFor, changing, misdirected>>
        /\ widgetStuck' = (widgetStuck /\ ~form'.upload)
    BY <1>4 DEF EditPreviewPhoto, Usable, SetForm
  <2>2. /\ sent' \in Seq(FormRequests) /\ Len(sent') <= MaxSent /\ mixed' \in BOOLEAN
        /\ sent' # <<>>
        /\ \E k \in DOMAIN sent' : sent'[k] = Sending("upload", form.id)
        /\ ~mixed' => /\ sent = <<>> /\ ~mixed
                      /\ Len(sent') <= 1 /\ \A k \in DOMAIN sent' : sent'[k] = Sending("upload", form.id)
    <3>1. form.id \in Members \cup {NoMember}
      BY <1>1
    <3>2. SendForm("upload", form.id, FALSE) /\ FormShape
      BY <1>1, <2>1
    <3>3. "upload" \in {"get", "upload", "remove", "password"} /\ FALSE \in BOOLEAN
      OBVIOUS
    <3>4. QED
      BY <3>1, <3>2, <3>3, FormSent
  <2>3. /\ form'.id = form.id /\ form'.hidden = form.hidden /\ ~form'.remove
        /\ form' \in [id : Members \cup {NoMember}, hidden : Photos \cup {NoPhoto}, body : BOOLEAN,
                      upload : BOOLEAN, remove : BOOLEAN, reload : BOOLEAN]
    BY <1>1, <2>1
  <2>4. FormShape'
    BY <1>1, <2>1, <2>2, <2>3 DEF FormShape, StaffFormTypeOK
  <2>5. UploadWaits'
    BY <2>2 DEF UploadWaits, Sending
  <2>6. FormWaits'
    BY <2>1, <2>2, <2>3 DEF FormInv, FormWaits, PhotoMatchesMember, AnswerFits, Sending
  <2>7. QED
    BY <2>2, <2>4, <2>5, <2>6 DEF FormInv, PhotoMatchesMember
<1>5. CASE EditRemovePhoto /\ form.hidden # NoPhoto
  <2>1. /\ SendForm("remove", form.id, FALSE) /\ editing /\ form.body /\ editing' = editing
        /\ form' = [form EXCEPT !.upload = FALSE, !.remove = FALSE]
        /\ UNCHANGED <<photo, prompting, promptFor, changing, misdirected>>
        /\ widgetStuck' = (widgetStuck /\ ~form'.upload)
    BY <1>5 DEF EditRemovePhoto, Usable, SetForm
  <2>2. /\ sent' \in Seq(FormRequests) /\ Len(sent') <= MaxSent /\ mixed' \in BOOLEAN
        /\ sent' # <<>>
        /\ \E k \in DOMAIN sent' : sent'[k] = Sending("remove", form.id)
        /\ ~mixed' => /\ sent = <<>> /\ ~mixed
                      /\ Len(sent') <= 1 /\ \A k \in DOMAIN sent' : sent'[k] = Sending("remove", form.id)
    <3>1. form.id \in Members \cup {NoMember}
      BY <1>1
    <3>2. SendForm("remove", form.id, FALSE) /\ FormShape
      BY <1>1, <2>1
    <3>3. "remove" \in {"get", "upload", "remove", "password"} /\ FALSE \in BOOLEAN
      OBVIOUS
    <3>4. QED
      BY <3>1, <3>2, <3>3, FormSent
  <2>3. /\ form'.id = form.id /\ form'.hidden = form.hidden /\ ~form'.remove
        /\ form' \in [id : Members \cup {NoMember}, hidden : Photos \cup {NoPhoto}, body : BOOLEAN,
                      upload : BOOLEAN, remove : BOOLEAN, reload : BOOLEAN]
    BY <1>1, <2>1
  <2>4. FormShape'
    BY <1>1, <2>1, <2>2, <2>3 DEF FormShape, StaffFormTypeOK
  <2>5. UploadWaits'
    BY <2>2 DEF UploadWaits, Sending
  <2>6. FormWaits'
    BY <1>5, <2>1, <2>2, <2>3 DEF FormInv, FormWaits, PhotoMatchesMember, AnswerFits, Sending
  <2>7. QED
    BY <2>2, <2>4, <2>5, <2>6 DEF FormInv, PhotoMatchesMember
<1>6. CASE (EditRemovePhoto /\ form.hidden = NoPhoto) \/ EditReloadPhoto
  <2>1. /\ editing /\ form.body
        /\ (form.remove /\ form.hidden = NoPhoto) \/ form.reload
        /\ form' = [form EXCEPT !.reload = FALSE, !.upload = TRUE, !.remove = form.hidden # NoPhoto]
        /\ UNCHANGED <<photo, editing, prompting, promptFor, changing, sent, mixed, misdirected>>
        /\ widgetStuck' = (widgetStuck /\ ~form'.upload)
    BY <1>1, <1>6 DEF EditRemovePhoto, EditReloadPhoto, Usable, SetForm, CleanFrame
  <2>2. /\ form'.id = form.id /\ form'.hidden = form.hidden /\ form'.body /\ form'.upload
        /\ form'.remove <=> form.hidden # NoPhoto
        /\ form' \in [id : Members \cup {NoMember}, hidden : Photos \cup {NoPhoto}, body : BOOLEAN,
                      upload : BOOLEAN, remove : BOOLEAN, reload : BOOLEAN]
    BY <1>1, <2>1
  <2>3. FormShape'
    BY <1>1, <2>1, <2>2 DEF FormShape, StaffFormTypeOK
  <2>4. UploadWaits'
    BY <2>2 DEF UploadWaits
  <2>5. ASSUME ~mixed, NEW k \in DOMAIN sent PROVE AnswerFits(sent[k])'
    <3>1. AnswerFits(sent[k])
      BY <2>1, <2>5 DEF FormInv, FormWaits
    <3>2. sent[k].op # "get"
      BY <2>1, <3>1 DEF AnswerFits
    <3>3. QED
      BY <2>1, <2>2, <3>1, <3>2 DEF AnswerFits, PhotoUsable
  <2>6. FormWaits'
    BY <2>1, <2>5 DEF FormInv, FormWaits
  <2>7. PhotoMatchesMember'
    BY <2>1, <2>2 DEF FormInv, PhotoMatchesMember
  <2>8. QED
    BY <2>3, <2>4, <2>6, <2>7 DEF FormInv
<1>7. CASE InitEditChangePassword \/ DismissPrompt
  <2>1. /\ prompting' \in BOOLEAN /\ promptFor' \in Members \cup {NoMember}
        /\ UNCHANGED <<photo, editing, form, widgetStuck, changing, sent, mixed, misdirected>>
    BY <1>1, <1>7 DEF InitEditChangePassword, DismissPrompt
  <2>2. FormShape'
    BY <1>1, <2>1 DEF FormShape, StaffFormTypeOK
  <2>3. QED
    BY <2>1, <2>2 DEF FormInv, UploadWaits, FormWaits, AnswerFits, PhotoUsable, PhotoMatchesMember
<1>8. CASE ChangeStaffPassword
  <2>1. /\ SendForm("password", form.id, FALSE) /\ changing' = TRUE /\ misdirected' \in BOOLEAN
        /\ UNCHANGED <<photo, editing, form, widgetStuck, prompting, promptFor>>
    BY <1>1, <1>8 DEF ChangeStaffPassword
  <2>2. /\ sent' \in Seq(FormRequests) /\ Len(sent') <= MaxSent /\ mixed' \in BOOLEAN
        /\ sent' # <<>>
        /\ \A k \in DOMAIN sent : k \in DOMAIN sent' /\ sent'[k] = sent[k]
        /\ ~mixed' => /\ sent = <<>> /\ ~mixed
                      /\ Len(sent') <= 1 /\ \A k \in DOMAIN sent' : sent'[k] = Sending("password", form.id)
    BY <1>1, <2>1, FormSent
  <2>3. FormShape'
    BY <1>1, <2>1, <2>2 DEF FormShape, StaffFormTypeOK
  <2>4. UploadWaits'
    BY <2>1, <2>2 DEF FormInv, UploadWaits
  <2>5. FormWaits'
    BY <2>1, <2>2 DEF FormInv, FormWaits, PhotoMatchesMember, AnswerFits, Sending, PhotoUsable
  <2>6. QED
    BY <2>2, <2>3, <2>4, <2>5 DEF FormInv, PhotoMatchesMember
<1>9. QED
  BY <1>2, <1>3, <1>4, <1>5, <1>6, <1>7, <1>8

\* The server works a request off.
LEMMA FormServerKeepsInv == ASSUME FormInv, NEW i, HandleForm(i) PROVE FormInv'
<1>1. /\ photo \in [Members -> Photos \cup {NoPhoto}]
      /\ i \in DOMAIN sent /\ sent[i] \in FormRequests /\ sent \in Seq(FormRequests)
      /\ ~sent[i].done /\ sent[i].id \in Members
      /\ FormShape /\ NoPhoto \notin Photos /\ NoMember \notin Members
  <2>1. i \in DOMAIN sent /\ ~sent[i].done /\ sent[i].id \in Members
    BY DEF HandleForm
  <2>2. sent \in Seq(FormRequests) /\ photo \in [Members -> Photos \cup {NoPhoto}] /\ FormShape
    BY DEF FormInv, FormShape, StaffFormTypeOK
  <2>3. sent[i] \in FormRequests
    BY <2>1, <2>2, ElementOfSeq, LenProperties
  <2>4. QED
    BY <2>1, <2>2, <2>3, StaffFormAssumption
<1>2. UNCHANGED <<editing, form, widgetStuck, prompting, promptFor, changing, mixed, misdirected>>
  BY DEF HandleForm, formScript
<1>3. PICK f \in Photos \cup {NoPhoto} :
        /\ WorkOff(i, f)
        /\ \/ sent[i].op = "upload" /\ f \in Photos /\ photo' = [photo EXCEPT ![sent[i].id] = f]
           \/ sent[i].op = "remove" /\ photo' = [photo EXCEPT ![sent[i].id] = NoPhoto]
           \/ sent[i].op = "get" /\ f = photo[sent[i].id] /\ photo' = photo
           \/ sent[i].op = "password" /\ photo' = photo
  <2>1. FreshPhotos \subseteq Photos /\ photo[sent[i].id] \in Photos \cup {NoPhoto}
    BY <1>1 DEF FreshPhotos
  <2>2. QED
    BY <2>1 DEF HandleForm
<1> DEFINE b == [sent[i] EXCEPT !.done = TRUE, !.file = f]
<1>4. /\ b \in FormRequests /\ b.op = sent[i].op /\ b.id = sent[i].id /\ b.file = f /\ b.done
  BY <1>1 DEF FormRequests
<1>5. /\ sent' \in Seq(FormRequests) /\ Len(sent') = Len(sent) /\ DOMAIN sent' = DOMAIN sent
      /\ sent'[i] = b
      /\ \A k \in DOMAIN sent : k # i => sent'[k] = sent[k]
  <2> HIDE DEF b
  <2>1. sent' = [sent EXCEPT ![i] = b]
    BY <1>3 DEF WorkOff, b
  <2>2. QED
    BY <1>1, <1>4, <2>1, ReplacedInPlace
<1>6. /\ photo' \in [Members -> Photos \cup {NoPhoto}]
      /\ sent[i].op = "upload" => f \in Photos /\ photo'[sent[i].id] = f
      /\ sent[i].op = "remove" => photo'[sent[i].id] = NoPhoto
      /\ sent[i].op = "get" => f = photo'[sent[i].id]
      /\ sent[i].op = "password" => photo' = photo
      /\ sent[i].op \in {"upload", "remove", "get", "password"}
  BY <1>1, <1>3
<1> HIDE DEF b
<1>7. FormShape'
  BY <1>1, <1>2, <1>5, <1>6 DEF FormShape, StaffFormTypeOK
<1>8. UploadWaits'
  BY <1>2, <1>4, <1>5 DEF FormInv, UploadWaits
<1>9. FormWaits'
  <2>1. ASSUME ~mixed PROVE Len(sent') <= 1
    BY <1>5, <2>1 DEF FormInv, FormWaits
  <2>2. ASSUME ~mixed, editing, form.body, NEW k \in DOMAIN sent' PROVE AnswerFits(sent[k])'
    <3>1. Len(sent) <= 1 /\ DOMAIN sent = 1 .. Len(sent) /\ Len(sent) \in Nat
      BY <1>1, <2>2, LenProperties DEF FormInv, FormWaits
    <3>2. k = i /\ sent'[k] = b
      BY <1>1, <1>5, <2>2, <3>1
    <3>3. AnswerFits(sent[i])
      BY <1>1, <2>2 DEF FormInv, FormWaits
    <3>4. QED
      BY <1>1, <1>2, <1>4, <1>6, <3>2, <3>3 DEF AnswerFits, PhotoUsable
  <2>3. QED
    BY <1>2, <2>1, <2>2 DEF FormWaits
<1>10. PhotoMatchesMember'
  <2>1. sent' # <<>>
    BY <1>1, <1>5
  <2>2. QED
    BY <2>1 DEF PhotoMatchesMember
<1>11. QED
  BY <1>7, <1>8, <1>9, <1>10 DEF FormInv

\* An answer comes, or does not.
LEMMA FormAnswersKeepInv ==
    ASSUME FormInv, NEW i,
           \/ Got(i) \/ Uploaded(i) \/ Removed(i) \/ PasswordChanged(i)
           \/ FormSignedOut(i) \/ FormError(i)
    PROVE  FormInv'
<1>1. /\ photo \in [Members -> Photos \cup {NoPhoto}]
      /\ form \in [id : Members \cup {NoMember}, hidden : Photos \cup {NoPhoto}, body : BOOLEAN,
                   upload : BOOLEAN, remove : BOOLEAN, reload : BOOLEAN]
      /\ promptFor \in Members \cup {NoMember}
      /\ editing \in BOOLEAN /\ prompting \in BOOLEAN /\ changing \in BOOLEAN
      /\ mixed \in BOOLEAN /\ misdirected \in BOOLEAN /\ widgetStuck \in BOOLEAN
      /\ FormShape /\ NoPhoto \notin Photos /\ NoMember \notin Members
  BY StaffFormAssumption DEF FormInv, FormShape, StaffFormTypeOK
<1>2. /\ i \in DOMAIN sent /\ sent' = RemoveAt(sent, i)
      /\ UNCHANGED <<photo, editing, misdirected>>
  BY DEF Got, Uploaded, Removed, PasswordChanged, FormSignedOut, FormError, FormSuccess
<1>3. /\ sent' \in Seq(FormRequests) /\ Len(sent') <= MaxSent
      /\ sent[i] \in FormRequests
      /\ \A k \in DOMAIN sent : k # i => \E l \in DOMAIN sent' : sent'[l] = sent[k]
      /\ ~mixed => Len(sent') = 0 /\ DOMAIN sent' = {}
  BY <1>1, <1>2, FormOver DEF FormInv
<1>4. ~mixed /\ editing /\ form.body => AnswerFits(sent[i])
  BY <1>2 DEF FormInv, FormWaits
<1>5. ~mixed /\ sent[i].op \in {"get", "password"} => form.upload \/ widgetStuck
  <2> SUFFICES ASSUME ~mixed, sent[i].op \in {"get", "password"}, ~form.upload, ~widgetStuck PROVE FALSE
    BY <1>1
  <2>1. PICK k \in DOMAIN sent : sent[k].op \in {"upload", "remove"}
    BY DEF FormInv, UploadWaits
  <2>2. k # i
    BY <2>1
  <2>3. QED
    BY <1>3, <2>1, <2>2
<1>6. /\ mixed' \in BOOLEAN /\ (mixed => mixed')
      /\ prompting' \in BOOLEAN /\ changing' \in BOOLEAN /\ promptFor' \in Members \cup {NoMember}
      /\ form' \in [id : Members \cup {NoMember}, hidden : Photos \cup {NoPhoto}, body : BOOLEAN,
                    upload : BOOLEAN, remove : BOOLEAN, reload : BOOLEAN]
      /\ form'.upload = form.upload \/ form'.upload = TRUE
      /\ widgetStuck' \in BOOLEAN
      /\ ~form'.upload /\ (widgetStuck \/ sent[i].op \in {"upload", "remove"}) => widgetStuck'
  <2>1. CASE Got(i)
    BY <1>1, <1>3, <2>1 DEF Got, FormSuccess, SetForm, FormRequests
  <2>2. CASE Uploaded(i)
    BY <1>1, <1>3, <2>2 DEF Uploaded, FormSuccess, SetForm, CleanFrame, FormRequests
  <2>3. CASE Removed(i)
    BY <1>1, <1>3, <2>3 DEF Removed, FormSuccess, SetForm, PhotoGone, CleanFrame, FormRequests
  <2>4. CASE PasswordChanged(i)
    BY <1>1, <1>3, <2>4 DEF PasswordChanged, FormSuccess, ClosePrompt, FormRequests
  <2>5. CASE FormError(i)
    <3>1. sent[i].op \in {"get", "upload", "remove", "password"} /\ sent[i].done \in BOOLEAN
      BY <1>3 DEF FormRequests
    <3>2. mixed' = (mixed \/ (sent[i].done /\ sent[i].op \in {"upload", "remove"}))
          /\ changing' = (changing /\ sent[i].op # "password")
          /\ UNCHANGED <<prompting, promptFor>>
      BY <2>5 DEF FormError
    <3>3. /\ sent[i].op = "get" => form' = [form EXCEPT !.body = FALSE]
          /\ sent[i].op = "upload" =>
                form' = [form EXCEPT !.remove = FALSE, !.reload = TRUE, !.upload = TRUE]
          /\ sent[i].op = "remove" =>
                form' = [form EXCEPT !.remove = TRUE, !.reload = FALSE, !.upload = TRUE]
          /\ sent[i].op = "password" => form' = form
          /\ widgetStuck' = (widgetStuck /\ ~form'.upload)
      BY <1>1, <2>5, <3>1 DEF FormError, SetForm, CleanFrame
    <3>4. /\ form' \in [id : Members \cup {NoMember}, hidden : Photos \cup {NoPhoto}, body : BOOLEAN,
                        upload : BOOLEAN, remove : BOOLEAN, reload : BOOLEAN]
          /\ form'.upload = form.upload \/ form'.upload = TRUE
          /\ sent[i].op \in {"upload", "remove"} => form'.upload = TRUE
      BY <1>1, <3>1, <3>3
    <3>5. widgetStuck' \in BOOLEAN /\ (~form'.upload /\ widgetStuck => widgetStuck')
      BY <3>3
    <3>6. mixed' \in BOOLEAN /\ (mixed => mixed') /\ changing' \in BOOLEAN
      BY <3>2
    <3>7. QED
      BY <1>1, <3>2, <3>4, <3>5, <3>6
  <2>6. CASE FormSignedOut(i)
    <3>1. sent[i].op \in {"get", "upload", "remove", "password"}
      BY <1>3 DEF FormRequests
    <3>2. /\ mixed' = (mixed \/ sent[i].op # "password")
          /\ sent[i].op \in {"get", "password"} => form' = form /\ widgetStuck' = widgetStuck
          /\ sent[i].op = "upload" => form' = form /\ widgetStuck' = ~form.upload
          /\ sent[i].op = "remove" =>
                /\ form' = [form EXCEPT !.remove = FALSE, !.reload = FALSE, !.upload = TRUE, !.hidden = NoPhoto]
                /\ widgetStuck' = (widgetStuck /\ ~form'.upload)
      BY <1>1, <2>6, <3>1 DEF FormSignedOut, SetForm, PhotoGone, CleanFrame
    <3>3. prompting' \in BOOLEAN /\ changing' \in BOOLEAN /\ promptFor' \in Members \cup {NoMember}
      BY <1>1, <2>6 DEF FormSignedOut, ClosePrompt
    <3>4. CASE sent[i].op = "remove"
      BY <1>1, <3>2, <3>3, <3>4
    <3>5. CASE sent[i].op # "remove"
      <4>1. form' = form /\ (sent[i].op = "upload" => widgetStuck' = ~form.upload)
            /\ (sent[i].op # "upload" => widgetStuck' = widgetStuck)
        BY <3>1, <3>2, <3>5
      <4>2. mixed' \in BOOLEAN /\ (mixed => mixed')
        BY <3>2
      <4>3. /\ widgetStuck' \in BOOLEAN
            /\ ~form'.upload /\ (widgetStuck \/ sent[i].op \in {"upload", "remove"}) => widgetStuck'
        <5>1. CASE sent[i].op = "upload"
          <6>1. widgetStuck' = ~form'.upload /\ form'.upload = form.upload /\ form.upload \in BOOLEAN
            BY <1>1, <4>1, <5>1
          <6>2. QED
            BY <6>1
        <5>2. CASE sent[i].op # "upload"
          BY <1>1, <3>5, <4>1, <5>2
        <5>3. QED
          BY <5>1, <5>2
      <4>4. /\ form' \in [id : Members \cup {NoMember}, hidden : Photos \cup {NoPhoto}, body : BOOLEAN,
                         upload : BOOLEAN, remove : BOOLEAN, reload : BOOLEAN]
            /\ form'.upload = form.upload
        BY <1>1, <4>1
      <4>5. QED
        BY <3>3, <4>2, <4>3, <4>4
    <3>6. QED
      BY <3>4, <3>5
  <2>7. QED
    BY <2>1, <2>2, <2>3, <2>4, <2>5, <2>6
<1>7. FormShape'
  BY <1>1, <1>2, <1>3, <1>6 DEF FormShape, StaffFormTypeOK
<1>8. UploadWaits'
  <2> SUFFICES ASSUME ~form'.upload, ~widgetStuck' PROVE \E l \in DOMAIN sent' : sent'[l].op \in {"upload", "remove"}
    BY DEF UploadWaits
  <2>1. ~form.upload /\ ~widgetStuck /\ sent[i].op \notin {"upload", "remove"}
    BY <1>6
  <2>2. PICK k \in DOMAIN sent : sent[k].op \in {"upload", "remove"}
    BY <2>1 DEF FormInv, UploadWaits
  <2>3. QED
    BY <1>3, <2>1, <2>2
<1>9. FormWaits'
  BY <1>1, <1>3, <1>6 DEF FormWaits
<1>10. PhotoMatchesMember'
  <2> SUFFICES ASSUME ~mixed', editing', form'.body
               PROVE  /\ form'.id \in Members
                      /\ form'.hidden = photo'[form'.id]
                      /\ form'.upload \/ widgetStuck'
                      /\ (form'.remove \/ form'.reload) \/ form'.hidden = NoPhoto
                      /\ form'.remove => form'.hidden # NoPhoto
    BY DEF PhotoMatchesMember
  <2>1. ~mixed /\ editing /\ photo' = photo
    BY <1>1, <1>2, <1>6
  <2>2. CASE Got(i)
    <3>1. /\ sent[i].op = "get" /\ sent[i].done
          /\ form' = [form EXCEPT !.id = sent[i].id, !.remove = sent[i].file # NoPhoto,
                        !.hidden = IF sent[i].file # NoPhoto THEN sent[i].file ELSE form.hidden]
      BY <2>2 DEF Got, FormSuccess, SetForm
    <3>2. form.body
      BY <1>1, <3>1
    <3>3. QED
      BY <1>1, <1>4, <1>5, <1>6, <2>1, <3>1, <3>2 DEF AnswerFits
  <2>3. CASE Uploaded(i)
    <3>1. /\ sent[i].op = "upload" /\ sent[i].done
          /\ form' = [form EXCEPT !.remove = TRUE, !.reload = FALSE, !.upload = TRUE,
                                  !.hidden = sent[i].file]
      BY <1>1, <2>3 DEF Uploaded, FormSuccess, SetForm, CleanFrame
    <3>2. form.body
      BY <1>1, <3>1
    <3>3. QED
      BY <1>1, <1>4, <2>1, <3>1, <3>2 DEF AnswerFits
  <2>4. CASE Removed(i)
    <3>1. /\ sent[i].op = "remove" /\ sent[i].done
          /\ form' = [form EXCEPT !.remove = FALSE, !.reload = FALSE, !.upload = TRUE,
                                  !.hidden = NoPhoto]
      BY <1>1, <2>4 DEF Removed, FormSuccess, SetForm, PhotoGone, CleanFrame
    <3>2. form.body
      BY <1>1, <3>1
    <3>3. QED
      BY <1>1, <1>4, <2>1, <3>1, <3>2 DEF AnswerFits
  <2>5. CASE PasswordChanged(i)
    <3>1. sent[i].op = "password" /\ form' = form
      BY <2>5 DEF PasswordChanged, FormSuccess
    <3>2. QED
      BY <1>1, <1>4, <1>5, <1>6, <2>1, <3>1 DEF AnswerFits, PhotoUsable
  <2>6. CASE FormError(i)
    <3>1. sent[i].op \in {"get", "upload", "remove", "password"}
      BY <1>3 DEF FormRequests
    <3>2. sent[i].op \in {"upload", "remove"} => ~sent[i].done
      BY <2>6 DEF FormError
    <3>3. CASE sent[i].op = "get"
      <4>1. form' = [form EXCEPT !.body = FALSE]
        BY <2>6, <3>3 DEF FormError, SetForm
      <4>2. QED
        BY <1>1, <4>1
    <3>4. CASE sent[i].op = "upload"
      <4>1. form' = [form EXCEPT !.remove = FALSE, !.reload = TRUE, !.upload = TRUE]
        BY <1>1, <2>6, <3>4 DEF FormError, SetForm, CleanFrame
      <4>2. QED
        BY <1>1, <1>4, <2>1, <3>2, <3>4, <4>1 DEF AnswerFits
    <3>5. CASE sent[i].op = "remove"
      <4>1. form' = [form EXCEPT !.remove = TRUE, !.reload = FALSE, !.upload = TRUE]
        BY <1>1, <2>6, <3>5 DEF FormError, SetForm, CleanFrame
      <4>2. QED
        BY <1>1, <1>4, <2>1, <3>2, <3>5, <4>1 DEF AnswerFits
    <3>6. CASE sent[i].op = "password"
      <4>1. form' = form
        BY <2>6, <3>6 DEF FormError, SetForm
      <4>2. QED
        BY <1>1, <1>4, <1>5, <1>6, <2>1, <3>6, <4>1 DEF AnswerFits, PhotoUsable
    <3>7. QED
      BY <3>1, <3>3, <3>4, <3>5, <3>6
  <2>7. CASE FormSignedOut(i)
    <3>1. sent[i].op = "password" /\ form' = form
      BY <2>7 DEF FormSignedOut
    <3>2. QED
      BY <1>1, <1>4, <1>5, <1>6, <2>1, <3>1 DEF AnswerFits, PhotoUsable
  <2>8. QED
    BY <2>2, <2>3, <2>4, <2>5, <2>6, <2>7
<1>11. QED
  BY <1>7, <1>8, <1>9, <1>10 DEF FormInv

LEMMA FormNextKeepsInv == FormInv /\ [StaffFormNext]_formVars => FormInv'
<1> SUFFICES ASSUME FormInv, [StaffFormNext]_formVars PROVE FormInv'
  OBVIOUS
<1>1. CASE UNCHANGED formVars
  BY <1>1 DEF formVars, formScript, FormInv, FormShape, StaffFormTypeOK, UploadWaits, FormWaits, AnswerFits,
              PhotoUsable, PhotoMatchesMember
<1>2. CASE StaffFormNext
  BY <1>2, FormClicksKeepInv, FormServerKeepsInv, FormAnswersKeepInv DEF StaffFormNext
<1>3. QED
  BY <1>1, <1>2

LEMMA FormInitInv == StaffFormInit => FormInv
<1> SUFFICES ASSUME StaffFormInit PROVE FormInv
  OBVIOUS
<1>1. sent \in Seq(FormRequests) /\ Len(sent) = 0 /\ DOMAIN sent = {}
  BY DEF StaffFormInit
<1>2. StaffFormTypeOK
  <2>1. {editing, prompting, changing, mixed, widgetStuck, misdirected} \subseteq BOOLEAN
    BY DEF StaffFormInit
  <2>2. form \in [id : Members \cup {NoMember}, hidden : Photos \cup {NoPhoto}, body : BOOLEAN,
                 upload : BOOLEAN, remove : BOOLEAN, reload : BOOLEAN]
    BY DEF StaffFormInit
  <2>3. QED
    BY <1>1, <2>1, <2>2, StaffFormAssumption DEF StaffFormInit, StaffFormTypeOK
<1>3. form.upload /\ ~editing
  BY DEF StaffFormInit
<1>4. QED
  BY <1>1, <1>2, <1>3 DEF FormInv, FormShape, UploadWaits, FormWaits, PhotoMatchesMember

-------------------------------------------------------------------------------
(* Importing jobs *)

Submissions == [mine : BOOLEAN, stray : BOOLEAN, rows : SUBSET Postings, wrong : SUBSET Postings,
                phase : {"idle", "sent", "adding", "invalid"}, todo : SUBSET Postings,
                errors : SUBSET Postings]
Sayings == [is : {"nothing", "blank", "error", "invalid", "partial", "imported"},
            rows : SUBSET Postings]

\* A submission that is checked tries each of its rows once.
SlotOK(s) ==
    /\ s.phase = "idle" => s = Idle
    /\ s.mine => s.phase # "idle"
    /\ s.phase = "sent" => s.todo = {} /\ s.errors = {}
    /\ s.todo \cup s.errors \subseteq s.rows /\ s.todo \cap s.errors = {} /\ s.wrong \subseteq s.rows

ImportShape ==
    /\ file \in SUBSET Postings /\ bad \in SUBSET Postings
    /\ copies \in [Postings -> Nat]
    /\ told \in Sayings
    /\ strays \in 0 .. MaxStrays
    /\ submissions \in [Imports -> Submissions]
    /\ \A i \in Imports : SlotOK(submissions[i])

\* The rows of a submission that it has not added.
Unadded(s) == IF s.phase = "adding" THEN s.todo \cup s.errors ELSE s.rows

\* Submission s accounts for a copy of row r that is not there: one it may still add or
\* has failed to add, or one that the staff member did not owe to anything she was told.
Adds(s, r) == s.phase # "idle" /\ (r \in Unadded(s) \/ (s.stray /\ r \notin s.rows))
MayAdd(r) == {i \in Imports : Adds(submissions[i], r)}
Due(r) == Cardinality(MayAdd(r))

\* With the copies that are there and those to come, no row has more than the first and
\* one for each stray; and one less if it is to be submitted again.
CopiesAccounted ==
    \A r \in Postings :
        /\ copies[r] + Due(r) <= 1 + strays
        /\ ~Waiting /\ r \in Asked => copies[r] + Due(r) <= strays

\* A submission that is no stray has every row that she may be asked for.
RowsHeld ==
    \A i \in Imports : submissions[i].mine /\ ~submissions[i].stray =>
        /\ file \subseteq submissions[i].rows
        /\ told.is = "partial" => told.rows \subseteq submissions[i].rows
        /\ \A k \in Imports : submissions[k].mine => submissions[k].rows \subseteq submissions[i].rows

\* A row that the server has no job of is in the file, is asked for, and has not been
\* added by any submission.
NoneLost ==
    \A r \in Postings : copies[r] = 0 =>
        /\ r \in file /\ r \in Asked
        /\ \A i \in Imports : submissions[i].phase # "idle" => r \in Unadded(submissions[i])

ImportInv == ImportShape /\ CopiesAccounted /\ RowsHeld /\ NoneLost

LEMMA IdleAddsNothing == Idle \in Submissions /\ SlotOK(Idle) /\ ~Idle.mine /\ \A r : ~Adds(Idle, r)
  BY DEF Idle, Submissions, SlotOK, Adds

\* What is due of a row changes with the one submission that changes.
LEMMA DueChanges ==
    ASSUME NEW i \in Imports, NEW new, NEW before, NEW after,
           before \in SUBSET Imports, after \in SUBSET Imports,
           i \in after <=> new, \A k \in Imports : k # i => (k \in before <=> k \in after)
    PROVE  /\ Cardinality(before) \in Nat /\ Cardinality(after) \in Nat
           /\ Cardinality(after) = Cardinality(before) + (IF new THEN 1 ELSE 0)
                                                       - (IF i \in before THEN 1 ELSE 0)
<1> DEFINE rest == before \ {i}
<1>1. IsFiniteSet(Imports)
  BY ImportAssumption, FS_Interval DEF Imports
<1>2. IsFiniteSet(rest) /\ IsFiniteSet(before) /\ IsFiniteSet(after) /\ i \notin rest
  BY <1>1, FS_Subset
<1>3. /\ Cardinality(rest) \in Nat /\ Cardinality(before) \in Nat /\ Cardinality(after) \in Nat
  BY <1>2, FS_CardinalityType
<1>4. Cardinality(rest \cup {i}) = Cardinality(rest) + 1
  BY <1>2, FS_AddElement
<1>5. Cardinality(before) = Cardinality(rest) + (IF i \in before THEN 1 ELSE 0)
  <2>1. CASE i \in before
    <3>1. before = rest \cup {i}
      BY <2>1
    <3>2. QED
      BY <1>4, <2>1, <3>1
  <2>2. CASE i \notin before
    <3>1. before = rest
      BY Zenon, <2>2
    <3>2. Cardinality(before) = Cardinality(rest)
      BY <3>1
    <3> HIDE DEF rest
    <3>3. QED
      BY <1>3, <2>2, <3>2
  <2>3. QED
    BY <2>1, <2>2
<1>6. Cardinality(after) = Cardinality(rest) + (IF new THEN 1 ELSE 0)
  <2>1. CASE new
    <3>1. after = rest \cup {i}
      BY <2>1
    <3>2. QED
      BY <1>4, <2>1, <3>1
  <2>2. CASE ~new
    <3>1. after = rest
      BY <2>2
    <3>2. QED
      BY <1>3, <2>2, <3>1
  <2>3. QED
    BY <2>1, <2>2
<1> HIDE DEF rest
<1>7. QED
  BY <1>3, <1>5, <1>6

LEMMA SubmissionChanges ==
    ASSUME ImportShape, NEW i \in Imports, NEW s \in Submissions, SlotOK(s),
           submissions' = [submissions EXCEPT ![i] = s]
    PROVE  /\ submissions' \in [Imports -> Submissions]
           /\ \A k \in Imports : SlotOK(submissions'[k])
           /\ submissions'[i] = s /\ \A k \in Imports : k # i => submissions'[k] = submissions[k]
           /\ \A r : /\ Due(r) \in Nat /\ Due(r)' \in Nat
                     /\ Due(r)' = Due(r) + (IF Adds(s, r) THEN 1 ELSE 0)
                                         - (IF Adds(submissions[i], r) THEN 1 ELSE 0)
<1>1. /\ submissions' \in [Imports -> Submissions]
      /\ submissions'[i] = s /\ \A k \in Imports : k # i => submissions'[k] = submissions[k]
  BY DEF ImportShape
<1>2. \A k \in Imports : SlotOK(submissions'[k])
  BY <1>1 DEF ImportShape
<1>3. ASSUME NEW r
      PROVE  /\ Due(r) \in Nat /\ Due(r)' \in Nat
             /\ Due(r)' = Due(r) + (IF Adds(s, r) THEN 1 ELSE 0)
                                 - (IF Adds(submissions[i], r) THEN 1 ELSE 0)
  <2>1. MayAdd(r)' = {k \in Imports : Adds(submissions'[k], r)}
    BY DEF MayAdd, Adds, Unadded, Imports
  <2>2. /\ MayAdd(r) \in SUBSET Imports /\ MayAdd(r)' \in SUBSET Imports
        /\ (i \in MayAdd(r)) <=> Adds(submissions[i], r)
        /\ (i \in MayAdd(r)') <=> Adds(s, r)
        /\ \A k \in Imports : k # i => (k \in MayAdd(r) <=> k \in MayAdd(r)')
    BY <1>1, <2>1 DEF MayAdd
  <2>3. PICK before, after, new : before = MayAdd(r) /\ after = MayAdd(r)' /\ new = Adds(s, r)
    OBVIOUS
  <2>4. /\ Cardinality(before) \in Nat /\ Cardinality(after) \in Nat
        /\ Cardinality(after) = Cardinality(before) + (IF new THEN 1 ELSE 0)
                                                    - (IF i \in before THEN 1 ELSE 0)
    BY <2>2, <2>3, DueChanges
  <2>5. QED
    BY <2>2, <2>3, <2>4 DEF Due
<1>4. QED
  BY <1>1, <1>2, <1>3

LEMMA ImportFacts ==
    ASSUME ImportInv
    PROVE  /\ ImportTypeOK /\ ImportedOnce /\ NoneForgotten
           /\ \A r \in Postings : Due(r) \in Nat /\ copies[r] \in Nat
           /\ strays \in Nat /\ MaxStrays \in Nat
<1>1. /\ \A r \in Postings : copies[r] \in Nat
      /\ strays \in Nat /\ MaxStrays \in Nat
  BY ImportAssumption DEF ImportInv, ImportShape
<1>2. ASSUME NEW r \in Postings PROVE Due(r) \in Nat
  <2>1. IsFiniteSet(Imports) /\ MayAdd(r) \in SUBSET Imports
    BY ImportAssumption, FS_Interval DEF Imports, MayAdd
  <2>2. QED
    BY <2>1, FS_Subset, FS_CardinalityType DEF Due
<1>3. ImportTypeOK
  <2>1. told.is \in {"nothing", "blank", "error", "invalid", "partial", "imported"}
        /\ told.rows \in SUBSET Postings
    BY DEF ImportInv, ImportShape, Sayings
  <2>2. QED
    BY <2>1 DEF ImportInv, ImportShape, ImportTypeOK, Submissions
<1>4. ImportedOnce
  <2>1. ASSUME NEW r \in Postings
        PROVE  copies[r] <= 1 + strays /\ (~Waiting /\ r \in Asked => copies[r] <= strays)
    BY <1>1, <1>2 DEF ImportInv, CopiesAccounted
  <2>2. Asked \subseteq Postings
    BY DEF Asked, ImportInv, ImportShape, Sayings
  <2>3. QED
    BY <2>1, <2>2 DEF ImportedOnce
<1>5. NoneForgotten
  BY DEF NoneForgotten, ImportInv, NoneLost
<1>6. QED
  BY <1>1, <1>2, <1>3, <1>4, <1>5

\* She selects a file.
LEMMA SelectionKeepsInv ==
    ASSUME ImportInv, NEW i \in Imports, HandleSelectedFile(i)
    PROVE  ImportInv'
<1>1. /\ ImportShape /\ file \in SUBSET Postings /\ bad \in SUBSET Postings
      /\ copies \in [Postings -> Nat] /\ UNCHANGED <<file, bad, copies>>
      /\ \A r \in Postings : Due(r) \in Nat /\ copies[r] \in Nat
      /\ strays \in Nat /\ MaxStrays \in Nat
      /\ submissions \in [Imports -> Submissions] /\ \A k \in Imports : SlotOK(submissions[k])
  BY ImportFacts DEF ImportInv, ImportShape, HandleSelectedFile
<1> DEFINE stray == Waiting \/ AddedRowsTold
<1>2. /\ strays' = IF stray THEN strays + 1 ELSE strays
      /\ strays' \in 0 .. MaxStrays /\ strays' \in Nat
  BY <1>1 DEF HandleSelectedFile, ImportInv, ImportShape
<1>3. ~AddedRowsTold => Asked = file
  BY DEF AddedRowsTold, Asked
<1>4. ASSUME NEW r \in Postings
      PROVE  /\ copies[r] + Due(r) <= 1 + strays
             /\ ~stray /\ r \in file => copies[r] + Due(r) <= strays
             /\ copies[r] = 0 => r \in file
  BY <1>3 DEF ImportInv, CopiesAccounted, NoneLost
<1>5. CASE told' = Says("error", {}) /\ submissions' = submissions
  <2>1. told' \in Sayings /\ told'.is = "error" /\ Asked' = file
    BY <1>1, <1>5 DEF Says, Sayings, Asked
  <2>2. ImportShape'
    BY <1>1, <1>2, <1>5, <2>1 DEF ImportShape
  <2>3. \A r : Due(r)' = Due(r)
    BY <1>5 DEF Due, MayAdd, Adds, Unadded
  <2>4. CopiesAccounted'
    <3> SUFFICES ASSUME NEW r \in Postings
                 PROVE  /\ copies[r] + Due(r)' <= 1 + strays'
                        /\ r \in file => (~Waiting' => copies[r] + Due(r)' <= strays')
      BY <1>1, <2>1 DEF CopiesAccounted
    <3>1. Due(r)' = Due(r) /\ Due(r) \in Nat /\ copies[r] \in Nat
      BY <1>1, <2>3
    <3>2. CASE stray
      BY <1>1, <1>2, <1>4, <3>1, <3>2
    <3>3. CASE ~stray
      BY <1>1, <1>2, <1>4, <3>1, <3>3
    <3>4. QED
      BY <3>2, <3>3
  <2>5. RowsHeld'
    BY <1>1, <1>5, <2>1 DEF ImportInv, RowsHeld
  <2>6. NoneLost'
    BY <1>1, <1>4, <1>5, <2>1 DEF ImportInv, NoneLost, Unadded
  <2>7. QED
    BY <2>2, <2>4, <2>5, <2>6 DEF ImportInv
<1>6. CASE ~(told' = Says("error", {}) /\ submissions' = submissions)
  <2>1. PICK s : s = [mine |-> TRUE, stray |-> stray, rows |-> file, wrong |-> file \cap bad,
                      phase |-> "sent", todo |-> {}, errors |-> {}]
    OBVIOUS
  <2>2. submissions[i] = Idle /\ told' = Nothing /\ submissions' = [submissions EXCEPT ![i] = s]
    BY <1>6, <2>1 DEF HandleSelectedFile
  <2>3. /\ s \in Submissions /\ SlotOK(s) /\ s.mine /\ s.phase = "sent" /\ s.rows = file
        /\ s.stray <=> stray
        /\ \A r : Adds(s, r) <=> r \in file \/ stray
        /\ Unadded(s) = file
    <3>1. stray \in BOOLEAN
      BY DEF Waiting, AddedRowsTold
    <3> HIDE DEF stray
    <3>2. QED
      BY <1>1, <2>1, <3>1 DEF Submissions, SlotOK, Adds, Unadded
  <2>4. /\ submissions' \in [Imports -> Submissions] /\ \A k \in Imports : SlotOK(submissions'[k])
        /\ submissions'[i] = s /\ \A k \in Imports : k # i => submissions'[k] = submissions[k]
        /\ \A r : Due(r)' = Due(r) + (IF Adds(s, r) THEN 1 ELSE 0)
                                   - (IF Adds(submissions[i], r) THEN 1 ELSE 0)
    BY <1>1, <2>2, <2>3, SubmissionChanges
  <2>5. \A r : ~Adds(submissions[i], r)
    BY <2>2, IdleAddsNothing
  <2>6. told' \in Sayings /\ told'.is = "nothing" /\ Asked' = file /\ Waiting'
    BY <1>1, <2>2, <2>3, <2>4 DEF Nothing, Sayings, Asked, Waiting
  <2>7. ImportShape'
    BY <1>1, <1>2, <2>4, <2>6 DEF ImportShape
  <2>8. CopiesAccounted'
    <3> SUFFICES ASSUME NEW r \in Postings PROVE copies[r] + Due(r)' <= 1 + strays'
      BY <1>1, <2>6 DEF CopiesAccounted
    <3>1. Due(r)' = Due(r) + (IF r \in file \/ stray THEN 1 ELSE 0) - 0
      BY <2>3, <2>4, <2>5
    <3>2. CASE stray
      BY <1>1, <1>2, <1>4, <3>1, <3>2
    <3>3. CASE ~stray
      BY <1>1, <1>2, <1>4, <3>1, <3>3
    <3>4. QED
      BY <3>2, <3>3
  <2>9. RowsHeld'
    <3> SUFFICES ASSUME NEW k \in Imports, submissions'[k].mine, ~submissions'[k].stray
                 PROVE  /\ file \subseteq submissions'[k].rows
                        /\ \A l \in Imports : submissions'[l].mine =>
                              submissions'[l].rows \subseteq submissions'[k].rows
      BY <1>1, <2>6 DEF RowsHeld
    <3>1. CASE k = i
      <4>1. \A l \in Imports : ~submissions[l].mine
        BY <2>3, <2>4, <3>1 DEF Waiting
      <4>2. QED
        BY <2>3, <2>4, <3>1, <4>1
    <3>2. CASE k # i
      BY <2>3, <2>4, <3>2 DEF ImportInv, RowsHeld
    <3>3. QED
      BY <3>1, <3>2
  <2>10. NoneLost'
    <3> SUFFICES ASSUME NEW r \in Postings, copies[r] = 0
                 PROVE  /\ r \in file
                        /\ \A k \in Imports : submissions'[k].phase # "idle" => r \in Unadded(submissions'[k])
      BY <1>1, <2>6 DEF NoneLost, Unadded
    <3>1. r \in file
      BY <1>4
    <3>2. QED
      BY <2>3, <2>4, <3>1 DEF ImportInv, NoneLost
  <2>11. QED
    BY <2>7, <2>8, <2>9, <2>10 DEF ImportInv
<1>7. QED
  BY <1>5, <1>6

\* She does what the dialog says, or takes the next file.
LEMMA DialogKeepsInv ==
    ASSUME ImportInv, CorrectRows \/ RemoveAdded \/ NextFile
    PROVE  ImportInv'
<1>1. /\ ImportShape /\ file \in SUBSET Postings /\ bad \in SUBSET Postings
      /\ copies \in [Postings -> Nat] /\ told \in Sayings /\ told.rows \in SUBSET Postings
      /\ strays \in 0 .. MaxStrays /\ strays \in Nat /\ MaxStrays \in Nat
      /\ \A r \in Postings : Due(r) \in Nat /\ copies[r] \in Nat
      /\ submissions \in [Imports -> Submissions] /\ \A k \in Imports : SlotOK(submissions[k])
  BY ImportFacts DEF ImportInv, ImportShape, Sayings
<1>2. /\ told' = Nothing /\ submissions' = submissions
      /\ told' \in Sayings /\ told'.is = "nothing" /\ Asked' = file' /\ (Waiting' <=> Waiting)
      /\ \A r : Due(r)' = Due(r)
  <2>1. told' = Nothing /\ submissions' = submissions
    BY DEF CorrectRows, RemoveAdded, NextFile
  <2>2. told' \in Sayings /\ told'.is = "nothing" /\ Asked' = file'
    BY <2>1 DEF Nothing, Sayings, Asked
  <2>3. (Waiting' <=> Waiting) /\ \A r : Due(r)' = Due(r)
    BY <2>1 DEF Waiting, Due, MayAdd, Adds, Unadded
  <2>4. QED
    BY <2>1, <2>2, <2>3
<1>3. CASE CorrectRows \/ RemoveAdded
  <2>1. /\ copies' = copies /\ strays' = strays /\ file' = Asked /\ file' \in SUBSET Postings
        /\ bad' \in SUBSET Postings
    BY <1>1, <1>3 DEF CorrectRows, RemoveAdded, Asked
  <2>2. ImportShape'
    BY <1>1, <1>2, <2>1 DEF ImportShape
  <2>3. CopiesAccounted'
    BY <1>2, <2>1 DEF ImportInv, CopiesAccounted
  <2>4. file' = file \/ (told.is = "partial" /\ file' = told.rows)
    BY <1>3 DEF CorrectRows, RemoveAdded
  <2>5. RowsHeld'
    BY <1>2, <2>4 DEF ImportInv, RowsHeld
  <2>6. NoneLost'
    BY <1>2, <2>1 DEF ImportInv, NoneLost, Unadded
  <2>7. QED
    BY <2>2, <2>3, <2>5, <2>6 DEF ImportInv
<1>4. CASE NextFile
  <2>1. /\ \A k \in Imports : submissions[k] = Idle
        /\ file' = Postings /\ bad' \in SUBSET Postings /\ strays' = 0
        /\ copies' = [r \in Postings |-> 0]
    BY <1>4 DEF NextFile
  <2>2. ImportShape'
    BY <1>1, <1>2, <2>1 DEF ImportShape
  <2>3. ASSUME NEW r \in Postings PROVE copies'[r] = 0 /\ Due(r)' = 0
    <3>1. MayAdd(r) = {}
      BY <2>1, IdleAddsNothing DEF MayAdd
    <3>2. QED
      BY <1>2, <2>1, <3>1, FS_EmptySet DEF Due
  <2>4. CopiesAccounted'
    BY <2>1, <2>3 DEF CopiesAccounted
  <2>5. \A k \in Imports : ~submissions'[k].mine /\ submissions'[k].phase = "idle"
    BY <1>2, <2>1 DEF Idle
  <2>6. RowsHeld' /\ NoneLost'
    BY <1>2, <2>1, <2>5 DEF RowsHeld, NoneLost
  <2>7. QED
    BY <2>2, <2>4, <2>6 DEF ImportInv
<1>5. QED
  BY <1>3, <1>4

\* The server goes on with a submission: what it adds it no longer owes.
LEMMA WorkKeepsInv ==
    ASSUME ImportInv, NEW i \in Imports, NEW s \in Submissions, SlotOK(s),
           submissions' = [submissions EXCEPT ![i] = s], UNCHANGED <<file, bad, told, strays>>,
           copies' \in [Postings -> Nat],
           s.mine = submissions[i].mine, s.stray = submissions[i].stray, s.rows = submissions[i].rows,
           s.phase # "idle", submissions[i].phase # "idle",
           \A r \in Postings :
              /\ copies'[r] + (IF Adds(s, r) THEN 1 ELSE 0)
                    = copies[r] + (IF Adds(submissions[i], r) THEN 1 ELSE 0)
              /\ copies'[r] = 0 => copies[r] = 0 /\ (r \in Unadded(submissions[i]) => r \in Unadded(s))
    PROVE  ImportInv'
<1>1. /\ submissions' \in [Imports -> Submissions] /\ \A k \in Imports : SlotOK(submissions'[k])
      /\ submissions'[i] = s /\ \A k \in Imports : k # i => submissions'[k] = submissions[k]
      /\ \A r : /\ Due(r) \in Nat /\ Due(r)' \in Nat
                /\ Due(r)' = Due(r) + (IF Adds(s, r) THEN 1 ELSE 0)
                                    - (IF Adds(submissions[i], r) THEN 1 ELSE 0)
  BY SubmissionChanges DEF ImportInv
<1>2. Asked' = Asked /\ (Waiting' <=> Waiting)
  BY <1>1 DEF Asked, Waiting
<1>3. ImportShape'
  BY <1>1 DEF ImportInv, ImportShape
<1>4. CopiesAccounted'
  <2>1. ASSUME NEW r \in Postings PROVE copies'[r] + Due(r)' = copies[r] + Due(r)
    <3>1. copies[r] \in Nat /\ copies'[r] \in Nat
      BY ImportFacts
    <3>2. QED
      BY <1>1, <3>1
  <2>2. QED
    BY <1>2, <2>1 DEF ImportInv, CopiesAccounted
<1>5. RowsHeld'
  <2>1. \A k \in Imports : /\ submissions'[k].mine = submissions[k].mine
                           /\ submissions'[k].stray = submissions[k].stray
                           /\ submissions'[k].rows = submissions[k].rows
    BY <1>1
  <2>2. QED
    BY <2>1 DEF ImportInv, RowsHeld
<1>6. NoneLost'
  <2> SUFFICES ASSUME NEW r \in Postings, copies'[r] = 0
               PROVE  /\ r \in file /\ r \in Asked
                      /\ \A k \in Imports : submissions'[k].phase # "idle" => r \in Unadded(submissions'[k])
    BY <1>2 DEF NoneLost, Unadded
  <2>1. /\ copies[r] = 0 /\ r \in file /\ r \in Asked
        /\ \A k \in Imports : submissions[k].phase # "idle" => r \in Unadded(submissions[k])
    BY DEF ImportInv, NoneLost
  <2>2. QED
    BY <1>1, <2>1
<1>7. QED
  BY <1>3, <1>4, <1>5, <1>6 DEF ImportInv

\* The server checks the rows, or tries one.
LEMMA ImportServerKeepsInv ==
    ASSUME ImportInv, NEW i \in Imports,
           ValidateJobs(i) \/ \E r \in Postings : AddJob(i, r)
    PROVE  ImportInv'
<1>1. /\ copies \in [Postings -> Nat] /\ submissions[i] \in Submissions /\ SlotOK(submissions[i])
      /\ submissions \in [Imports -> Submissions]
  BY DEF ImportInv, ImportShape
<1>2. submissions[i] \in [mine : BOOLEAN, stray : BOOLEAN, rows : SUBSET Postings,
                          wrong : SUBSET Postings, phase : {"idle", "sent", "adding", "invalid"},
                          todo : SUBSET Postings, errors : SUBSET Postings]
  BY <1>1 DEF Submissions
<1>3. CASE ValidateJobs(i)
  <2>1. PICK s : s = IF submissions[i].wrong = {}
                     THEN [submissions[i] EXCEPT !.phase = "adding", !.todo = submissions[i].rows]
                     ELSE [submissions[i] EXCEPT !.phase = "invalid", !.errors = submissions[i].wrong]
    OBVIOUS
  <2>2. /\ submissions[i].phase = "sent" /\ submissions' = [submissions EXCEPT ![i] = s]
        /\ UNCHANGED <<file, bad, copies, told, strays>>
    BY <1>3, <2>1 DEF ValidateJobs
  <2>3. submissions[i].todo = {} /\ submissions[i].errors = {} /\ submissions[i].wrong \subseteq submissions[i].rows
    BY <1>1, <2>2 DEF SlotOK
  <2>4. /\ s \in Submissions /\ s.mine = submissions[i].mine /\ s.stray = submissions[i].stray
        /\ s.rows = submissions[i].rows /\ s.wrong = submissions[i].wrong
        /\ \/ s.phase = "adding" /\ s.todo = s.rows /\ s.errors = {}
           \/ s.phase = "invalid" /\ s.todo = {} /\ s.errors = s.wrong
    BY <1>2, <2>1, <2>3 DEF Submissions
  <2>5. SlotOK(s) /\ Unadded(s) = Unadded(submissions[i])
    BY <2>2, <2>3, <2>4 DEF SlotOK, Unadded
  <2>6. \A r : Adds(s, r) <=> Adds(submissions[i], r)
    BY <2>2, <2>4, <2>5 DEF Adds
  <2>7. \A r \in Postings :
            /\ copies'[r] + (IF Adds(s, r) THEN 1 ELSE 0)
                  = copies[r] + (IF Adds(submissions[i], r) THEN 1 ELSE 0)
            /\ copies'[r] = 0 => copies[r] = 0 /\ (r \in Unadded(submissions[i]) => r \in Unadded(s))
    BY <2>2, <2>5, <2>6
  <2>8. QED
    BY <1>1, <2>2, <2>4, <2>5, <2>7, WorkKeepsInv
<1>4. ASSUME NEW r \in Postings, AddJob(i, r) PROVE ImportInv'
  <2>1. PICK added, failed :
              /\ added = [submissions[i] EXCEPT !.todo = submissions[i].todo \ {r}]
              /\ failed = [submissions[i] EXCEPT !.todo = submissions[i].todo \ {r},
                                                 !.errors = submissions[i].errors \cup {r}]
    OBVIOUS
  <2>2. /\ submissions[i].phase = "adding" /\ r \in submissions[i].todo
        /\ UNCHANGED <<file, bad, told, strays>>
    BY <1>4 DEF AddJob
  <2>3. /\ added \in Submissions /\ added.mine = submissions[i].mine
        /\ added.stray = submissions[i].stray /\ added.rows = submissions[i].rows
        /\ added.wrong = submissions[i].wrong /\ added.phase = "adding"
        /\ added.todo = submissions[i].todo \ {r} /\ added.errors = submissions[i].errors
    BY <1>2, <2>1, <2>2 DEF Submissions
  <2>4. /\ failed \in Submissions /\ failed.mine = submissions[i].mine
        /\ failed.stray = submissions[i].stray /\ failed.rows = submissions[i].rows
        /\ failed.wrong = submissions[i].wrong /\ failed.phase = "adding"
        /\ failed.todo = submissions[i].todo \ {r}
        /\ failed.errors = submissions[i].errors \cup {r}
    BY <1>2, <2>1, <2>2 DEF Submissions
  <2>5. \/ /\ copies' = [copies EXCEPT ![r] = copies[r] + 1]
           /\ submissions' = [submissions EXCEPT ![i] = added]
        \/ /\ copies' = copies /\ submissions' = [submissions EXCEPT ![i] = failed]
    BY <1>1, <1>2, <1>4, <2>1 DEF AddJob
  <2>6. /\ submissions[i].todo \cup submissions[i].errors \subseteq submissions[i].rows
        /\ submissions[i].todo \cap submissions[i].errors = {}
        /\ submissions[i].wrong \subseteq submissions[i].rows
    BY <1>1 DEF SlotOK
  <2>7. ASSUME copies' = [copies EXCEPT ![r] = copies[r] + 1],
               submissions' = [submissions EXCEPT ![i] = added]
        PROVE  ImportInv'
    <3>1. /\ copies' \in [Postings -> Nat] /\ copies[r] \in Nat /\ copies'[r] = copies[r] + 1
          /\ \A q \in Postings : q # r => copies'[q] = copies[q]
      BY <1>1, <2>7
    <3>2. SlotOK(added) /\ Unadded(added) = Unadded(submissions[i]) \ {r}
      BY <2>2, <2>3, <2>6 DEF SlotOK, Unadded
    <3>3. Adds(submissions[i], r) /\ ~Adds(added, r)
          /\ \A q : q # r => (Adds(added, q) <=> Adds(submissions[i], q))
      BY <2>2, <2>3, <2>6, <3>2 DEF Adds, Unadded
    <3>4. \A q \in Postings :
            /\ copies'[q] + (IF Adds(added, q) THEN 1 ELSE 0)
                  = copies[q] + (IF Adds(submissions[i], q) THEN 1 ELSE 0)
            /\ copies'[q] = 0 => copies[q] = 0 /\ (q \in Unadded(submissions[i]) => q \in Unadded(added))
      <4> SUFFICES ASSUME NEW q \in Postings
                   PROVE  /\ copies'[q] + (IF Adds(added, q) THEN 1 ELSE 0)
                                = copies[q] + (IF Adds(submissions[i], q) THEN 1 ELSE 0)
                          /\ copies'[q] = 0 => copies[q] = 0
                                /\ (q \in Unadded(submissions[i]) => q \in Unadded(added))
        OBVIOUS
      <4>1. CASE q = r
        BY <3>1, <3>3, <4>1
      <4>2. CASE q # r
        BY <3>1, <3>2, <3>3, <4>2
      <4>3. QED
        BY <4>1, <4>2
    <3>5. QED
      BY <2>2, <2>3, <2>7, <3>1, <3>2, <3>4, WorkKeepsInv
  <2>8. ASSUME copies' = copies, submissions' = [submissions EXCEPT ![i] = failed]
        PROVE  ImportInv'
    <3>1. SlotOK(failed) /\ Unadded(failed) = Unadded(submissions[i])
      BY <2>2, <2>4, <2>6 DEF SlotOK, Unadded
    <3>2. \A q : Adds(failed, q) <=> Adds(submissions[i], q)
      BY <2>2, <2>4, <3>1 DEF Adds
    <3>3. \A q \in Postings :
            /\ copies'[q] + (IF Adds(failed, q) THEN 1 ELSE 0)
                  = copies[q] + (IF Adds(submissions[i], q) THEN 1 ELSE 0)
            /\ copies'[q] = 0 => copies[q] = 0 /\ (q \in Unadded(submissions[i]) => q \in Unadded(failed))
      BY <2>8, <3>1, <3>2
    <3>4. QED
      BY <1>1, <2>2, <2>4, <2>8, <3>1, <3>3, WorkKeepsInv
  <2>9. QED
    BY <2>5, <2>7, <2>8
<1>5. QED
  BY <1>3, <1>4

\* An answer ends her wait for a submission: every row she is then asked for was owed by
\* it, or the answer is a stray, or she was asked for it already.
LEMMA AnswerKeepsInv ==
    ASSUME ImportInv, NEW i \in Imports, NEW s \in Submissions, SlotOK(s), ~s.mine,
           submissions' = [submissions EXCEPT ![i] = s], UNCHANGED <<file, bad, copies>>,
           told' \in Sayings, strays' \in 0 .. MaxStrays, strays <= strays',
           s.phase # "idle" => submissions[i].phase # "idle" /\ Unadded(s) = Unadded(submissions[i]),
           told'.is = "partial" => \A k \in Imports :
              submissions[k].mine /\ ~submissions[k].stray => told'.rows \subseteq submissions[k].rows,
           \A r \in Postings :
              /\ Adds(s, r) => Adds(submissions[i], r)
              /\ copies[r] = 0 => r \in Asked'
              /\ r \in Asked' => \/ strays < strays'
                                 \/ Adds(submissions[i], r) /\ ~Adds(s, r)
                                 \/ ~submissions[i].mine /\ r \in Asked
    PROVE  ImportInv'
<1>1. /\ submissions' \in [Imports -> Submissions] /\ \A k \in Imports : SlotOK(submissions'[k])
      /\ submissions'[i] = s /\ \A k \in Imports : k # i => submissions'[k] = submissions[k]
      /\ \A r : /\ Due(r) \in Nat /\ Due(r)' \in Nat
                /\ Due(r)' = Due(r) + (IF Adds(s, r) THEN 1 ELSE 0)
                                    - (IF Adds(submissions[i], r) THEN 1 ELSE 0)
  BY SubmissionChanges DEF ImportInv
<1>2. ImportShape'
  BY <1>1 DEF ImportInv, ImportShape
<1>3. CopiesAccounted'
  <2> SUFFICES ASSUME NEW r \in Postings
               PROVE  /\ copies[r] + Due(r)' <= 1 + strays'
                      /\ ~Waiting' /\ r \in Asked' => copies[r] + Due(r)' <= strays'
    BY DEF CopiesAccounted
  <2>1. /\ copies[r] \in Nat /\ strays \in Nat /\ strays' \in Nat /\ Due(r) \in Nat /\ Due(r)' \in Nat
        /\ copies[r] + Due(r) <= 1 + strays
        /\ ~Waiting /\ r \in Asked => copies[r] + Due(r) <= strays
    BY <1>1, ImportFacts DEF ImportInv, CopiesAccounted
  <2>2. Due(r)' <= Due(r) /\ (Adds(submissions[i], r) /\ ~Adds(s, r) => Due(r)' <= Due(r) - 1)
    BY <1>1, <2>1
  <2>3. copies[r] + Due(r)' <= 1 + strays'
    BY <2>1, <2>2
  <2>4. ASSUME ~Waiting', r \in Asked' PROVE copies[r] + Due(r)' <= strays'
    <3>1. CASE strays < strays'
      BY <2>1, <2>2, <3>1
    <3>2. CASE Adds(submissions[i], r) /\ ~Adds(s, r)
      BY <2>1, <2>2, <3>2
    <3>3. CASE ~submissions[i].mine /\ r \in Asked
      <4>1. ~Waiting
        BY <1>1, <2>4, <3>3 DEF Waiting
      <4>2. QED
        BY <2>1, <2>2, <3>3, <4>1
    <3>4. QED
      BY <2>4, <3>1, <3>2, <3>3
  <2>5. QED
    BY <2>3, <2>4
<1>4. RowsHeld'
  <2>1. \A k \in Imports : submissions'[k].mine => k # i /\ submissions'[k] = submissions[k]
    BY <1>1
  <2>2. QED
    BY <2>1 DEF ImportInv, RowsHeld
<1>5. NoneLost'
  <2> SUFFICES ASSUME NEW r \in Postings, copies[r] = 0
               PROVE  /\ r \in file /\ r \in Asked'
                      /\ \A k \in Imports : submissions'[k].phase # "idle" => r \in Unadded(submissions'[k])
    BY DEF NoneLost, Unadded
  <2>1. /\ r \in file /\ r \in Asked'
        /\ \A k \in Imports : submissions[k].phase # "idle" => r \in Unadded(submissions[k])
    BY DEF ImportInv, NoneLost
  <2>2. QED
    BY <1>1, <2>1
<1>6. QED
  BY <1>2, <1>3, <1>4, <1>5 DEF ImportInv

\* What a submission of hers that the server added nothing of owes, and what any owes.
LEMMA OwedRows ==
    ASSUME ImportInv, NEW i \in Imports, submissions[i].mine
    PROVE  /\ submissions[i].phase # "idle"
           /\ submissions[i].phase # "adding" =>
                \A r \in file : Adds(submissions[i], r)
           /\ \A r \in Unadded(submissions[i]) : Adds(submissions[i], r)
           /\ \A r \in Postings : copies[r] = 0 => r \in file /\ r \in Unadded(submissions[i])
<1>1. submissions[i].phase # "idle"
  BY DEF ImportInv, ImportShape, SlotOK
<1>2. ASSUME submissions[i].phase # "adding", NEW r \in file PROVE Adds(submissions[i], r)
  <2>1. submissions[i].stray \/ r \in submissions[i].rows
    BY DEF ImportInv, RowsHeld
  <2>2. QED
    BY <1>1, <1>2, <2>1 DEF Adds, Unadded
<1>3. \A r \in Unadded(submissions[i]) : Adds(submissions[i], r)
  BY <1>1 DEF Adds
<1>4. \A r \in Postings : copies[r] = 0 => r \in file /\ r \in Unadded(submissions[i])
  BY <1>1 DEF ImportInv, NoneLost
<1>5. QED
  BY <1>1, <1>2, <1>3, <1>4

\* The server's answer.
LEMMA ImportedKeepsInv == ASSUME ImportInv, NEW i \in Imports, Imported(i) PROVE ImportInv'
<1>1. PICK old : old = submissions[i]
  OBVIOUS
<1>2. /\ old.phase = "invalid" \/ (old.phase = "adding" /\ old.todo = {})
      /\ submissions' = [submissions EXCEPT ![i] = Idle]
      /\ told' = IF old.mine THEN Report(old) ELSE told
      /\ UNCHANGED <<file, bad, copies, strays>>
  BY <1>1 DEF Imported
<1>3. /\ Idle \in Submissions /\ SlotOK(Idle) /\ ~Idle.mine /\ Idle.phase = "idle"
      /\ \A r : ~Adds(Idle, r)
  BY IdleAddsNothing DEF Idle
<1>4. /\ old \in Submissions /\ old.errors \in SUBSET Postings /\ SlotOK(old)
      /\ told \in Sayings /\ file \in SUBSET Postings
      /\ strays \in Nat /\ strays' \in 0 .. MaxStrays /\ strays <= strays'
  BY <1>1, <1>2, ImportFacts DEF ImportInv, ImportShape, Submissions
<1>5. CASE ~old.mine
  <2>1. told' = told /\ Asked' = Asked
    BY <1>2, <1>5 DEF Asked
  <2>2. told'.is = "partial" => \A k \in Imports :
              submissions[k].mine /\ ~submissions[k].stray => told'.rows \subseteq submissions[k].rows
    BY <2>1 DEF ImportInv, RowsHeld
  <2>3. \A r \in Postings :
              /\ Adds(Idle, r) => Adds(submissions[i], r)
              /\ copies[r] = 0 => r \in Asked'
              /\ r \in Asked' => ~submissions[i].mine /\ r \in Asked
    BY <1>1, <1>3, <1>5, <2>1 DEF ImportInv, NoneLost
  <2>4. QED
    BY <1>2, <1>3, <1>4, <2>1, <2>2, <2>3, AnswerKeepsInv
<1>6. ASSUME old.mine PROVE ImportInv'
  <2>1. /\ old.phase # "adding" => \A r \in file : Adds(old, r)
        /\ \A r \in Unadded(old) : Adds(old, r)
        /\ \A r \in Postings : copies[r] = 0 => r \in file /\ r \in Unadded(old)
    BY <1>1, <1>6, OwedRows
  <2>2. \/ told' = Says("invalid", old.errors) /\ old.phase = "invalid"
        \/ told' = Says("imported", {}) /\ Unadded(old) = {}
        \/ told' = Says("partial", old.errors) /\ Unadded(old) = old.errors
    BY <1>2, <1>6 DEF Report, Unadded
  <2>3. told' \in Sayings
    BY <1>4, <2>2 DEF Says, Sayings
  <2>4. \/ told'.is = "invalid" /\ Asked' = file /\ old.phase = "invalid"
        \/ told'.is = "imported" /\ Asked' = {} /\ Unadded(old) = {}
        \/ /\ told'.is = "partial" /\ Asked' = old.errors /\ Unadded(old) = old.errors
           /\ told'.rows = old.errors
    BY <1>2, <2>2 DEF Says, Asked
  <2>5. told'.is = "partial" => \A k \in Imports :
              submissions[k].mine /\ ~submissions[k].stray => told'.rows \subseteq submissions[k].rows
    <3> SUFFICES ASSUME told'.is = "partial", NEW k \in Imports, submissions[k].mine,
                        ~submissions[k].stray
                 PROVE  told'.rows \subseteq submissions[k].rows
      OBVIOUS
    <3>1. told'.rows \subseteq old.rows
      BY <1>4, <2>4 DEF SlotOK
    <3>2. old.rows \subseteq submissions[k].rows
      BY <1>1, <1>6 DEF ImportInv, RowsHeld
    <3>3. QED
      BY <3>1, <3>2
  <2>6. \A r \in Postings :
              /\ Adds(Idle, r) => Adds(submissions[i], r)
              /\ copies[r] = 0 => r \in Asked'
              /\ r \in Asked' => Adds(submissions[i], r) /\ ~Adds(Idle, r)
    BY <1>1, <1>3, <2>1, <2>4
  <2>7. QED
    BY <1>2, <1>3, <1>4, <2>3, <2>5, <2>6, AnswerKeepsInv
<1>7. QED
  BY <1>5, <1>6

\* The session is dead, or the connection breaks.
LEMMA ImportFailsKeepsInv ==
    ASSUME ImportInv, NEW i \in Imports, ImportSignedOut(i) \/ ImportLost(i)
    PROVE  ImportInv'
<1>1. PICK old : old = submissions[i]
  OBVIOUS
<1>2. /\ old.mine /\ UNCHANGED <<file, bad, copies>>
      /\ told' = Says("blank", {}) \/ told' = Says("error", {})
  BY <1>1 DEF ImportSignedOut, ImportLost
<1>3. /\ old \in Submissions /\ SlotOK(old) /\ submissions \in [Imports -> Submissions]
      /\ strays \in Nat /\ strays \in 0 .. MaxStrays
  BY <1>1, ImportFacts DEF ImportInv, ImportShape
<1>4. /\ told' \in Sayings /\ told'.is # "partial" /\ Asked' = file
  BY <1>2 DEF Says, Sayings, Asked
<1>5. /\ old.phase # "idle" /\ (old.phase # "adding" => \A r \in file : Adds(old, r))
      /\ \A r \in Postings : copies[r] = 0 => r \in file /\ r \in Unadded(old)
  BY <1>1, <1>2, OwedRows
<1>6. ASSUME submissions' = [submissions EXCEPT ![i] = Idle],
             strays' = IF old.phase = "adding" THEN strays + 1 ELSE strays,
             strays' \in 0 .. MaxStrays
      PROVE  ImportInv'
  <2>1. /\ Idle \in Submissions /\ SlotOK(Idle) /\ ~Idle.mine /\ Idle.phase = "idle"
        /\ \A r : ~Adds(Idle, r)
    BY IdleAddsNothing DEF Idle
  <2>2. strays <= strays' /\ (old.phase = "adding" => strays < strays')
    BY <1>3, <1>6
  <2>3. \A r \in Postings :
              /\ Adds(Idle, r) => Adds(submissions[i], r)
              /\ copies[r] = 0 => r \in Asked'
              /\ r \in Asked' => \/ strays < strays'
                                 \/ Adds(submissions[i], r) /\ ~Adds(Idle, r)
    BY <1>1, <1>4, <1>5, <2>1, <2>2
  <2>4. QED
    BY <1>2, <1>4, <1>6, <2>1, <2>2, <2>3, AnswerKeepsInv
<1>7. ASSUME submissions' = [submissions EXCEPT ![i].mine = FALSE],
             strays' = strays + 1, strays' \in 0 .. MaxStrays
      PROVE  ImportInv'
  <2>1. PICK s : s = [old EXCEPT !.mine = FALSE]
    OBVIOUS
  <2>2. /\ s \in Submissions /\ ~s.mine /\ s.stray = old.stray /\ s.rows = old.rows
        /\ s.wrong = old.wrong /\ s.phase = old.phase /\ s.todo = old.todo /\ s.errors = old.errors
    BY <1>3, <2>1 DEF Submissions
  <2>3. SlotOK(s) /\ Unadded(s) = Unadded(old)
    BY <1>3, <1>5, <2>2 DEF SlotOK, Unadded
  <2>4. \A r : Adds(s, r) <=> Adds(old, r)
    BY <2>2, <2>3 DEF Adds
  <2>5. submissions' = [submissions EXCEPT ![i] = s]
    BY <1>1, <1>7, <2>1
  <2>6. strays < strays' /\ strays <= strays'
    BY <1>3, <1>7
  <2>7. \A r \in Postings :
              /\ Adds(s, r) => Adds(submissions[i], r)
              /\ copies[r] = 0 => r \in Asked'
              /\ r \in Asked' => strays < strays'
    BY <1>1, <1>4, <1>5, <2>4, <2>6
  <2>8. s.phase # "idle" => submissions[i].phase # "idle" /\ Unadded(s) = Unadded(submissions[i])
    BY <1>1, <1>5, <2>3
  <2>9. QED
    BY <1>2, <1>4, <1>7, <2>2, <2>3, <2>5, <2>6, <2>7, <2>8, AnswerKeepsInv
<1>8. CASE ImportSignedOut(i)
  <2>1. /\ submissions' = [submissions EXCEPT ![i] = Idle] /\ old.phase = "sent" /\ strays' = strays
    BY <1>1, <1>8 DEF ImportSignedOut
  <2>2. QED
    BY <1>3, <1>6, <2>1
<1>9. CASE ImportLost(i)
  <2>1. /\ strays' <= MaxStrays
        /\ \/ /\ submissions' = [submissions EXCEPT ![i] = Idle]
              /\ strays' = IF old.phase = "adding" THEN strays + 1 ELSE strays
           \/ /\ submissions' = [submissions EXCEPT ![i].mine = FALSE]
              /\ strays' = strays + 1
    BY <1>1, <1>9 DEF ImportLost
  <2>2. strays' \in 0 .. MaxStrays
    BY <1>3, <2>1
  <2>3. QED
    BY <1>6, <1>7, <2>1, <2>2
<1>10. QED
  BY <1>8, <1>9

LEMMA ImportNextKeepsInv == ImportInv /\ [ImportPageNext]_importVars => ImportInv'
<1> SUFFICES ASSUME ImportInv, [ImportPageNext]_importVars PROVE ImportInv'
  OBVIOUS
<1>1. CASE UNCHANGED importVars
  BY <1>1 DEF importVars, ImportInv, ImportShape, CopiesAccounted, RowsHeld, NoneLost, Due, MayAdd,
              Adds, Unadded, Waiting, Asked
<1>2. CASE CorrectRows \/ RemoveAdded \/ NextFile
  BY <1>2, DialogKeepsInv
<1>3. ASSUME NEW i \in Imports,
             \/ HandleSelectedFile(i) \/ ValidateJobs(i)
             \/ Imported(i) \/ ImportSignedOut(i) \/ ImportLost(i)
             \/ \E r \in Postings : AddJob(i, r)
      PROVE  ImportInv'
  BY <1>3, SelectionKeepsInv, ImportServerKeepsInv, ImportedKeepsInv, ImportFailsKeepsInv
<1>4. QED
  BY <1>1, <1>2, <1>3 DEF ImportPageNext

LEMMA ImportInitInv == ImportPageInit => ImportInv
<1> SUFFICES ASSUME ImportPageInit PROVE ImportInv
  OBVIOUS
<1>1. /\ file = Postings /\ bad \in SUBSET Postings /\ copies = [r \in Postings |-> 0]
      /\ submissions = [i \in Imports |-> Idle] /\ told = Nothing /\ strays = 0
      /\ MaxStrays \in Nat
  BY ImportAssumption DEF ImportPageInit
<1>2. told \in Sayings /\ told.is = "nothing" /\ Asked = file
  BY <1>1 DEF Nothing, Sayings, Asked
<1>3. ImportShape
  BY <1>1, <1>2, IdleAddsNothing DEF ImportShape
<1>4. \A i \in Imports : submissions[i].phase = "idle" /\ ~submissions[i].mine
  BY <1>1 DEF Idle
<1>5. ASSUME NEW r \in Postings PROVE copies[r] = 0 /\ Due(r) = 0
  <2>1. MayAdd(r) = {}
    BY <1>1, IdleAddsNothing DEF MayAdd
  <2>2. QED
    BY <1>1, <2>1, FS_EmptySet DEF Due
<1>6. CopiesAccounted
  <2>1. ~(0 + 0 > 1 + 0) /\ 0 + 0 <= 0
    OBVIOUS
  <2>2. QED
    BY <1>1, <1>5, <2>1 DEF CopiesAccounted
<1>7. RowsHeld /\ NoneLost
  BY <1>1, <1>2, <1>4 DEF RowsHeld, NoneLost
<1>8. QED
  BY <1>3, <1>6, <1>7 DEF ImportInv

-------------------------------------------------------------------------------
(* The dashboard *)

Increasing(s) == \A j, k \in DOMAIN s : j < k => s[j] < s[k]

\* Every finite set of numbers can be put in order: each goes where its rank is.
LEMMA NumbersHaveOrder ==
    ASSUME NEW S \in SUBSET Nat, IsFiniteSet(S)
    PROVE  \E s \in [1 .. Cardinality(S) -> S] : Increasing(s)
<1> DEFINE n == Cardinality(S)
           Below(d) == {e \in S : e < d}
           rank == [d \in S |-> Cardinality(Below(d)) + 1]
<1>1. n \in Nat /\ IsFiniteSet(1 .. n) /\ Cardinality(1 .. n) = n
  BY FS_CardinalityType, FS_Interval
<1>2. ASSUME NEW d \in S
      PROVE  /\ IsFiniteSet(Below(d)) /\ Cardinality(Below(d)) \in Nat
             /\ Cardinality(Below(d)) <= n - 1
  <2>1. d \notin Below(d) /\ Below(d) \in SUBSET S /\ Below(d) \in SUBSET (S \ {d})
    BY <1>2
  <2>2. IsFiniteSet(S \ {d}) /\ Cardinality(S \ {d}) = n - 1
    BY FS_RemoveElement
  <2>3. IsFiniteSet(Below(d)) /\ Cardinality(Below(d)) <= n - 1
    BY <2>1, <2>2, FS_Subset
  <2>4. Cardinality(Below(d)) \in Nat
    BY <2>3, FS_CardinalityType
  <2>5. QED
    BY <2>3, <2>4
<1>3. ASSUME NEW d \in S, NEW e \in S, d < e PROVE rank[d] < rank[e]
  <2>1. Below(d) \cup {d} \in SUBSET Below(e) /\ d \notin Below(d)
    <3>1. \A x \in S : x < d => x < e
      BY <1>3
    <3>2. d \in Nat /\ ~(d < d)
      OBVIOUS
    <3>3. QED
      BY <1>3, <3>1, <3>2
  <2>2. Cardinality(Below(d) \cup {d}) = Cardinality(Below(d)) + 1
    BY <1>2, <2>1, FS_AddElement
  <2>3. Cardinality(Below(d) \cup {d}) <= Cardinality(Below(e))
    BY <1>2, <2>1, FS_Subset
  <2>4. QED
    BY <1>2, <2>2, <2>3
<1>4. rank \in [S -> 1 .. n]
  BY <1>1, <1>2
<1> HIDE DEF n, Below, rank
<1>5. rank \in Injection(S, 1 .. n)
  <2>1. \A d, e \in S : rank[d] = rank[e] => d = e
    <3> SUFFICES ASSUME NEW d \in S, NEW e \in S, rank[d] = rank[e], d # e PROVE FALSE
      OBVIOUS
    <3>1. rank[d] \in Nat /\ rank[e] \in Nat
      BY <1>4
    <3>2. d < e \/ e < d
      OBVIOUS
    <3>3. QED
      BY <1>3, <3>1, <3>2
  <2>2. QED
    BY <1>4, <2>1 DEF Injection, IsInjective
<1>6. rank \in Surjection(S, 1 .. n)
  BY <1>1, <1>5, FS_Injection DEF n
<1> DEFINE s == [i \in 1 .. n |-> CHOOSE d \in S : rank[d] = i]
<1>7. \A i \in 1 .. n : s[i] \in S /\ rank[s[i]] = i
  BY <1>6 DEF Surjection
<1>8. s \in [1 .. n -> S] /\ DOMAIN s = 1 .. n
  BY <1>7
<1> HIDE DEF s
<1>9. Increasing(s)
  <2> SUFFICES ASSUME NEW j \in 1 .. n, NEW k \in 1 .. n, j < k, ~(s[j] < s[k]) PROVE FALSE
    BY <1>8 DEF Increasing
  <2>1. s[j] \in Nat /\ s[k] \in Nat /\ s[j] \in S /\ s[k] \in S /\ rank[s[j]] = j /\ rank[s[k]] = k
    BY <1>7
  <2>2. s[j] = s[k] \/ s[k] < s[j]
    BY <2>1
  <2>3. QED
    BY <1>3, <2>1, <2>2
<1>10. QED
  BY <1>8, <1>9 DEF n

\* The days there are, each once, in order.
LEMMA DaysInOrder ==
    ASSUME NEW f \in [Days -> Nat], NEW s, s = GetGraphData(f)
    PROVE  /\ s \in Seq(Days) /\ Increasing(s)
           /\ \A d \in Days : f[d] > 0 => \E k \in DOMAIN s : s[k] = d
<1> DEFINE busy == {d \in Days : f[d] > 0}
           n == Cardinality(busy)
<1>1. busy \in SUBSET Nat /\ busy \in SUBSET Days /\ IsFiniteSet(busy)
  <2>1. LastDay \in Nat /\ IsFiniteSet(Days) /\ Days \subseteq Nat
    BY DashboardAssumption, FS_Interval DEF Days
  <2>2. QED
    BY <2>1, FS_Subset
<1>2. n \in Nat /\ IsFiniteSet(1 .. n) /\ Cardinality(1 .. n) = n
  BY <1>1, FS_CardinalityType, FS_Interval
<1>3. \E t \in [1 .. n -> busy] : Increasing(t)
  BY <1>1, NumbersHaveOrder
<1>4. s \in [1 .. n -> busy] /\ Increasing(s)
  BY <1>3 DEF GetGraphData, Increasing
<1> HIDE DEF busy, n
<1>5. s \in Injection(1 .. n, busy)
  <2>1. \A j, k \in 1 .. n : s[j] = s[k] => j = k
    <3> SUFFICES ASSUME NEW j \in 1 .. n, NEW k \in 1 .. n, s[j] = s[k], j < k PROVE FALSE
      BY <1>2
    <3>1. s[j] < s[k] /\ s[j] \in Nat
      BY <1>1, <1>4 DEF Increasing
    <3>2. QED
      BY <3>1
  <2>2. QED
    BY <1>4, <2>1 DEF Injection, IsInjective
<1>6. s \in Surjection(1 .. n, busy)
  <2>1. Cardinality(1 .. n) = Cardinality(busy)
    BY <1>2 DEF n
  <2>2. QED
    BY <1>1, <1>5, <2>1, FS_Injection
<1>7. s \in Seq(Days)
  <2>1. s \in [1 .. n -> Days]
    BY <1>1, <1>4
  <2>2. QED
    BY <1>2, <2>1
<1>8. \A d \in Days : f[d] > 0 => \E k \in DOMAIN s : s[k] = d
  BY <1>4, <1>6 DEF Surjection, busy
<1>9. QED
  BY <1>4, <1>7, <1>8

\* What is put in moves the later elements up.
LEMMA InsertAtElements ==
    ASSUME NEW S, NEW q \in Seq(S), NEW e \in S, NEW m \in 1 .. Len(q)
    PROVE  /\ InsertAt(q, m, e) \in Seq(S) /\ Len(InsertAt(q, m, e)) = Len(q) + 1
           /\ DOMAIN InsertAt(q, m, e) = 1 .. (Len(q) + 1)
           /\ \A j \in 1 .. (Len(q) + 1) :
                 InsertAt(q, m, e)[j] = IF j < m THEN q[j] ELSE IF j = m THEN e ELSE q[j - 1]
<1> DEFINE left == SubSeq(q, 1, m - 1)
           right == SubSeq(q, m, Len(q))
           both == left \o <<e>>
<1>1. left \in Seq(S) /\ Len(left) = m - 1 /\ \A j \in 1 .. (m - 1) : left[j] = q[j]
  OBVIOUS
<1>2. right \in Seq(S) /\ Len(right) = Len(q) - m + 1
      /\ \A j \in 1 .. (Len(q) - m + 1) : right[j] = q[m + j - 1]
  OBVIOUS
<1>3. InsertAt(q, m, e) = both \o right
  BY DEF InsertAt
<1> HIDE DEF left, right, both
<1>4. both \in Seq(S) /\ Len(both) = m /\ both[m] = e /\ \A j \in 1 .. (m - 1) : both[j] = q[j]
  <2>1. <<e>> \in Seq(S) /\ Len(<<e>>) = 1 /\ <<e>>[1] = e
    OBVIOUS
  <2>2. /\ both \in Seq(S) /\ Len(both) = Len(left) + 1
        /\ \A j \in 1 .. Len(left) + 1 : both[j] = IF j <= Len(left) THEN left[j] ELSE <<e>>[j - Len(left)]
    BY <1>1, <2>1, ConcatProperties DEF both
  <2>3. m \in 1 .. Len(left) + 1 /\ m - Len(left) = 1 /\ ~(m <= Len(left))
    BY <1>1
  <2>4. both[m] = e
    BY <2>1, <2>2, <2>3
  <2>5. ASSUME NEW j \in 1 .. (m - 1) PROVE both[j] = q[j]
    <3>1. j \in 1 .. Len(left) + 1 /\ j <= Len(left)
      BY <1>1
    <3>2. QED
      BY <1>1, <2>2, <3>1
  <2>6. Len(both) = m
    BY <1>1, <2>2
  <2>7. QED
    BY <2>2, <2>4, <2>5, <2>6
<1>5. /\ both \o right \in Seq(S) /\ Len(both \o right) = Len(q) + 1
      /\ \A j \in 1 .. Len(both) + Len(right) :
            (both \o right)[j] = IF j <= Len(both) THEN both[j] ELSE right[j - Len(both)]
  <2>1. Len(q) \in Nat /\ m + (Len(q) - m + 1) = Len(q) + 1
    BY LenProperties
  <2>2. QED
    BY <1>2, <1>4, <2>1, ConcatProperties
<1>6. ASSUME NEW j \in 1 .. (Len(q) + 1)
      PROVE  (both \o right)[j] = IF j < m THEN q[j] ELSE IF j = m THEN e ELSE q[j - 1]
  <2>1. CASE j <= m
    BY <1>2, <1>4, <1>5, <2>1
  <2>2. CASE j > m
    <3>1. j - m \in 1 .. (Len(q) - m + 1) /\ m + (j - m) - 1 = j - 1
      BY <2>2
    <3>2. (both \o right)[j] = right[j - m]
      BY <1>2, <1>4, <1>5, <2>2
    <3>3. right[j - m] = q[j - 1]
      BY <1>2, <3>1
    <3>4. ~(j < m) /\ j # m
      BY <2>2
    <3>5. QED
      BY <3>2, <3>3, <3>4
  <2>3. j <= m \/ j > m
    BY <1>6
  <2>4. QED
    BY <2>1, <2>2, <2>3
<1>7. QED
  BY <1>3, <1>5, <1>6, LenProperties

\* Up to the loop's place the days follow each other; behind it there may be gaps,
\* and on the days in a gap nothing was created.
DaysFilled ==
    drawing \in {"filling", "drawn"} =>
        /\ Increasing(dates) /\ Len(counts) = Len(dates)
        /\ \A k \in DOMAIN dates : counts[k] = created[dates[k]]
        /\ \A d \in Days : created[d] > 0 => \E k \in DOMAIN dates : dates[k] = d
        /\ \A k \in DOMAIN dates : k <= at => dates[k] = dates[1] + k - 1
        /\ drawing = "drawn" => at >= Len(dates)

DashInv == DashboardTypeOK /\ DaysFilled

\* The answer comes.
LEMMA GraphStarts == ASSUME DashInv, InitSuccess PROVE DashInv'
<1>1. /\ created' \in [Days -> 0 .. MaxCreated] /\ dates' = GetGraphData(created')
      /\ counts' = [k \in DOMAIN dates' |-> created'[dates'[k]]]
      /\ at' = 1 /\ drawing' = "filling"
  BY DEF InitSuccess
<1>2. MaxCreated \in Nat
  BY DashboardAssumption
<1>3. created' \in [Days -> Nat]
  BY <1>1, <1>2
<1>4. /\ dates' \in Seq(Days) /\ Increasing(dates')
      /\ \A d \in Days : created'[d] > 0 => \E k \in DOMAIN dates' : dates'[k] = d
  BY <1>1, <1>3, DaysInOrder
<1>5. Len(dates') \in Nat /\ DOMAIN dates' = 1 .. Len(dates')
      /\ \A k \in DOMAIN dates' : dates'[k] \in Days
  BY <1>4, LenProperties, ElementOfSeq
<1>6. counts' \in [1 .. Len(dates') -> 0 .. MaxCreated]
  <2>1. \A k \in 1 .. Len(dates') : created'[dates'[k]] \in 0 .. MaxCreated
    BY <1>1, <1>5
  <2>2. counts' = [k \in 1 .. Len(dates') |-> created'[dates'[k]]]
    BY <1>1, <1>5
  <2>3. QED
    BY <2>1, <2>2
<1>7. counts' \in Seq(0 .. MaxCreated) /\ Len(counts') = Len(dates')
  BY <1>5, <1>6, FunctionIsSeq
<1>8. DashboardTypeOK'
  BY <1>1, <1>4, <1>7 DEF DashboardTypeOK
<1>9. \A k \in DOMAIN dates' : k <= 1 => dates'[k] = dates'[1] + k - 1
  <2> SUFFICES ASSUME NEW k \in DOMAIN dates', k <= 1 PROVE dates'[k] = dates'[1] + k - 1
    OBVIOUS
  <2>1. k = 1
    BY <1>5
  <2>2. dates'[1] \in Nat
    BY <1>5, <2>1, DashboardAssumption DEF Days
  <2>3. QED
    BY <2>1, <2>2
<1>10. \A k \in DOMAIN dates' : counts'[k] = created'[dates'[k]]
  BY <1>1
<1>11. DaysFilled'
  BY <1>1, <1>4, <1>7, <1>9, <1>10 DEF DaysFilled, Increasing
<1>12. QED
  BY <1>8, <1>11 DEF DashInv

\* Once round the loop.
LEMMA GraphFills == ASSUME DashInv, FillDay PROVE DashInv'
<1>1. /\ dates \in Seq(Days) /\ counts \in Seq(0 .. MaxCreated) /\ at \in Nat \ {0}
      /\ created \in [Days -> 0 .. MaxCreated] /\ drawing = "filling" /\ at < Len(dates)
      /\ at' = at + 1 /\ UNCHANGED <<created, drawing>>
      /\ MaxCreated \in Nat /\ LastDay \in Nat
  BY DashboardAssumption DEF DashInv, DashboardTypeOK, FillDay
<1>2. /\ Len(dates) \in Nat /\ DOMAIN dates = 1 .. Len(dates) /\ Len(counts) = Len(dates)
      /\ DOMAIN counts = 1 .. Len(dates)
      /\ \A k \in 1 .. Len(dates) : dates[k] \in 0 .. LastDay
  BY <1>1, LenProperties, ElementOfSeq DEF DashInv, DaysFilled, Days
<1>3. /\ \A j, k \in 1 .. Len(dates) : j < k => dates[j] < dates[k]
      /\ \A k \in 1 .. Len(dates) : counts[k] = created[dates[k]]
      /\ \A d \in Days : created[d] > 0 => \E k \in 1 .. Len(dates) : dates[k] = d
      /\ \A k \in 1 .. Len(dates) : k <= at => dates[k] = dates[1] + k - 1
  BY <1>1, <1>2 DEF DashInv, DaysFilled, Increasing
<1>4. /\ at \in 1 .. Len(dates) /\ at + 1 \in 1 .. Len(dates) /\ 1 \in 1 .. Len(dates)
      /\ dates[at] = dates[1] + at - 1 /\ dates[at] < dates[at + 1]
      /\ dates[1] \in Nat /\ dates[at] \in Nat /\ dates[at + 1] \in Nat /\ dates[at + 1] <= LastDay
  BY <1>1, <1>2, <1>3
<1>5. CASE Gap
  <2>1. PICK d, m : /\ d = dates[at] + 1 /\ m = at + 1 /\ d < dates[m]
                    /\ dates' = InsertAt(dates, m, d) /\ counts' = InsertAt(counts, m, NoCount)
    BY <1>5 DEF Gap, FillDay
  <2>2. /\ d \in Nat /\ dates[at] < d /\ d < dates[at + 1] /\ d \in Days
        /\ m \in 1 .. Len(dates) /\ m \in Nat
    <3>1. m \in 1 .. Len(dates) /\ m \in Nat /\ d < dates[at + 1]
      BY <1>1, <1>4, <2>1
    <3>2. d \in Nat /\ dates[at] < d
      BY <1>4, <2>1
    <3>3. d <= LastDay
      BY <1>1, <1>4, <3>1, <3>2
    <3>4. d \in Days
      BY <1>1, <3>2, <3>3 DEF Days
    <3>5. QED
      BY <3>1, <3>2, <3>4
  <2>3. /\ dates' \in Seq(Days) /\ Len(dates') = Len(dates) + 1
        /\ DOMAIN dates' = 1 .. (Len(dates) + 1)
        /\ \A j \in 1 .. (Len(dates) + 1) :
              dates'[j] = IF j < m THEN dates[j] ELSE IF j = m THEN d ELSE dates[j - 1]
    BY <1>1, <2>1, <2>2, InsertAtElements
  <2>4. /\ counts' \in Seq(0 .. MaxCreated) /\ Len(counts') = Len(dates) + 1
        /\ \A j \in 1 .. (Len(dates) + 1) :
              counts'[j] = IF j < m THEN counts[j] ELSE IF j = m THEN NoCount ELSE counts[j - 1]
    <3> DEFINE T == 0 .. MaxCreated
    <3>1. counts \in Seq(T) /\ NoCount \in T /\ m \in 1 .. Len(counts)
      BY <1>1, <1>2, <2>2 DEF NoCount
    <3> HIDE DEF T
    <3>2. PICK c : c = InsertAt(counts, m, NoCount)
      OBVIOUS
    <3>3. /\ c \in Seq(T) /\ Len(c) = Len(counts) + 1
          /\ \A j \in 1 .. (Len(counts) + 1) :
                c[j] = IF j < m THEN counts[j] ELSE IF j = m THEN NoCount ELSE counts[j - 1]
      BY <3>1, <3>2, InsertAtElements
    <3>4. /\ counts' \in Seq(T) /\ Len(counts') = Len(counts) + 1
          /\ \A j \in 1 .. (Len(counts) + 1) :
                counts'[j] = IF j < m THEN counts[j] ELSE IF j = m THEN NoCount ELSE counts[j - 1]
      BY <2>1, <3>2, <3>3
    <3>5. QED
      BY <1>2, <3>4 DEF T
  <2>5. created[d] = 0
    <3> SUFFICES ASSUME created[d] > 0 PROVE FALSE
      BY <1>1, <2>2
    <3>1. PICK k \in 1 .. Len(dates) : dates[k] = d
      BY <1>3, <2>2
    <3>2. k <= at \/ at + 1 <= k
      BY <1>1, <1>2
    <3>3. CASE k <= at
      <4>1. dates[k] = dates[1] + k - 1
        BY <1>3, <3>3
      <4>2. QED
        BY <1>4, <2>2, <3>1, <3>3, <4>1
    <3>4. CASE at + 1 <= k
      <4>1. k = at + 1 \/ at + 1 < k
        BY <3>4, <1>1, <1>2
      <4>2. dates[at + 1] <= dates[k]
        BY <1>2, <1>3, <1>4, <4>1
      <4>3. QED
        BY <1>4, <2>1, <2>2, <3>1, <4>2
    <3>5. QED
      BY <3>2, <3>3, <3>4
  <2>6. ASSUME NEW j \in 1 .. (Len(dates) + 1)
        PROVE  \/ j < m /\ j \in 1 .. Len(dates) /\ dates'[j] = dates[j] /\ counts'[j] = counts[j]
               \/ j = m /\ dates'[j] = d /\ counts'[j] = NoCount
               \/ /\ j > m /\ j - 1 \in 1 .. Len(dates) /\ j - 1 >= m
                  /\ dates'[j] = dates[j - 1] /\ counts'[j] = counts[j - 1]
    <3>1. CASE j < m
      BY <1>2, <2>2, <2>3, <2>4, <3>1
    <3>2. CASE j = m
      BY <1>2, <2>2, <2>3, <2>4, <3>2
    <3>3. CASE j > m
      <4>1. j - 1 \in 1 .. Len(dates) /\ j - 1 >= m /\ ~(j < m) /\ j # m
        BY <1>2, <2>2, <3>3
      <4>2. QED
        BY <2>3, <2>4, <3>3, <4>1
    <3>4. QED
      BY <1>2, <2>2, <3>1, <3>2, <3>3
  <2>7. ASSUME NEW j \in 1 .. (Len(dates) + 1), NEW k \in 1 .. (Len(dates) + 1), j < k
        PROVE  dates'[j] < dates'[k]
    <3>1. ASSUME NEW l \in 1 .. Len(dates), l < m PROVE dates[l] < d
      <4>1. l = at \/ l < at
        BY <1>1, <1>2, <2>1, <3>1
      <4>2. dates[l] <= dates[at]
        BY <1>2, <1>3, <1>4, <4>1
      <4>3. QED
        BY <1>2, <1>4, <2>2, <4>2
    <3>2. ASSUME NEW l \in 1 .. Len(dates), l >= m PROVE d < dates[l]
      <4>1. l = at + 1 \/ at + 1 < l
        BY <1>1, <1>2, <2>1, <3>2
      <4>2. dates[at + 1] <= dates[l]
        BY <1>2, <1>3, <1>4, <4>1
      <4>3. QED
        BY <1>2, <1>4, <2>2, <4>2
    <3>3. CASE k < m
      <4>1. /\ j \in 1 .. Len(dates) /\ k \in 1 .. Len(dates)
            /\ dates'[j] = dates[j] /\ dates'[k] = dates[k]
        BY <1>2, <2>2, <2>6, <2>7, <3>3
      <4>2. QED
        BY <1>3, <2>7, <4>1
    <3>4. CASE k = m
      <4>1. dates'[k] = d /\ j \in 1 .. Len(dates) /\ j < m /\ dates'[j] = dates[j]
        BY <1>2, <2>2, <2>6, <2>7, <3>4
      <4>2. QED
        BY <3>1, <4>1
    <3>5. CASE k > m
      <4>1. k - 1 \in 1 .. Len(dates) /\ k - 1 >= m /\ dates'[k] = dates[k - 1]
        BY <1>2, <2>2, <2>6, <3>5
      <4>2. d < dates[k - 1]
        BY <3>2, <4>1
      <4>3. CASE j < m
        <5>1. j \in 1 .. Len(dates) /\ dates'[j] = dates[j] /\ dates[j] < d
          BY <1>2, <2>2, <2>6, <3>1, <4>3
        <5>2. QED
          BY <1>2, <2>2, <4>1, <4>2, <5>1
      <4>4. CASE j = m
        <5>1. dates'[j] = d
          BY <2>3, <2>2, <4>4
        <5>2. QED
          BY <4>1, <4>2, <5>1
      <4>5. CASE j > m
        <5>1. j - 1 \in 1 .. Len(dates) /\ dates'[j] = dates[j - 1] /\ j - 1 < k - 1
          BY <1>2, <2>2, <2>6, <2>7, <4>5
        <5>2. QED
          BY <1>3, <4>1, <5>1
      <4>6. QED
        BY <1>2, <2>2, <4>3, <4>4, <4>5
    <3>6. QED
      BY <1>2, <2>2, <3>3, <3>4, <3>5
  <2>8. \A j \in 1 .. (Len(dates) + 1) : counts'[j] = created[dates'[j]]
    BY <1>3, <2>5, <2>6 DEF NoCount
  <2>9. ASSUME NEW e \in Days, created[e] > 0 PROVE \E j \in 1 .. (Len(dates) + 1) : dates'[j] = e
    <3>1. PICK k \in 1 .. Len(dates) : dates[k] = e
      BY <1>3, <2>9
    <3>2. CASE k < m
      BY <1>2, <2>2, <2>3, <3>1, <3>2
    <3>3. CASE k >= m
      <4>1. /\ k + 1 \in 1 .. (Len(dates) + 1) /\ ~(k + 1 < m) /\ k + 1 # m
            /\ (k + 1) - 1 = k
        BY <1>2, <2>2, <3>3
      <4>2. QED
        BY <2>3, <3>1, <4>1
    <3>4. QED
      BY <1>2, <2>2, <3>2, <3>3
  <2>10. ASSUME NEW j \in 1 .. (Len(dates) + 1), j <= m PROVE dates'[j] = dates'[1] + j - 1
    <3>1. dates'[1] = dates[1]
      <4>1. 1 \in 1 .. (Len(dates) + 1) /\ 1 < m
        BY <1>1, <1>2, <2>1
      <4>2. QED
        BY <2>3, <4>1
    <3>2. CASE j <= at
      <4>1. j < m /\ j \in 1 .. Len(dates)
        BY <1>1, <1>2, <2>1, <3>2
      <4>2. dates'[j] = dates[j] /\ dates[j] = dates[1] + j - 1
        BY <1>3, <2>3, <2>10, <3>2, <4>1
      <4>3. QED
        BY <3>1, <4>2
    <3>3. CASE j = m
      <4>1. dates'[j] = d /\ d = dates[1] + at - 1 + 1 /\ j = at + 1
        BY <1>4, <2>1, <2>2, <2>3, <3>3
      <4>2. QED
        BY <1>1, <1>4, <3>1, <4>1
    <3>4. QED
      BY <1>1, <2>1, <2>10, <3>2, <3>3
  <2>11. DashboardTypeOK'
    <3>1. created' \in [Days -> 0 .. MaxCreated]
      BY <1>1
    <3>2. dates' \in Seq(Days)
      BY <2>3
    <3>3. counts' \in Seq(0 .. MaxCreated)
      BY <2>4
    <3>4. at' \in Nat \ {0} /\ drawing' = "filling"
      BY <1>1
    <3>5. QED
      BY <3>1, <3>2, <3>3, <3>4 DEF DashboardTypeOK
  <2>12. DaysFilled'
    BY <1>1, <2>1, <2>3, <2>4, <2>7, <2>8, <2>9, <2>10 DEF DaysFilled, Increasing
  <2>13. QED
    BY <2>11, <2>12 DEF DashInv
<1>6. CASE ~Gap
  <2>1. UNCHANGED <<dates, counts>> /\ dates[at + 1] = dates[at] + 1
    BY <1>4, <1>6 DEF Gap, FillDay
  <2>2. \A k \in 1 .. Len(dates) : k <= at + 1 => dates[k] = dates[1] + k - 1
    <3> SUFFICES ASSUME NEW k \in 1 .. Len(dates), k <= at + 1
                 PROVE  dates[k] = dates[1] + k - 1
      OBVIOUS
    <3>1. CASE k <= at
      BY <1>3, <3>1
    <3>2. CASE k = at + 1
      <4>1. dates[k] = dates[1] + at - 1 + 1
        BY <1>4, <2>1, <3>2
      <4>2. k - 1 = at
        BY <1>1, <3>2
      <4>3. QED
        BY <1>1, <1>4, <4>1, <4>2
    <3>3. QED
      BY <1>1, <3>1, <3>2
  <2>3. DashboardTypeOK'
    BY <1>1, <2>1 DEF DashInv, DashboardTypeOK
  <2>4. DaysFilled'
    BY <1>1, <1>2, <2>1, <2>2 DEF DashInv, DaysFilled, Increasing
  <2>5. QED
    BY <2>3, <2>4 DEF DashInv
<1>7. QED
  BY <1>5, <1>6

LEMMA DashNextKeepsInv == DashInv /\ [DashboardNext]_dashboardVars => DashInv'
<1> SUFFICES ASSUME DashInv, [DashboardNext]_dashboardVars PROVE DashInv'
  OBVIOUS
<1>1. CASE InitError \/ CreateGraph
  BY <1>1 DEF InitError, CreateGraph, DashInv, DashboardTypeOK, DaysFilled, Increasing
<1>2. CASE ReloadDashboard
  <2>1. created' \in [Days -> 0 .. MaxCreated]
    BY <1>2, DashboardAssumption DEF ReloadDashboard
  <2>2. QED
    BY <1>2, <2>1 DEF ReloadDashboard, DashInv, DashboardTypeOK, DaysFilled
<1>3. CASE UNCHANGED dashboardVars
  BY <1>3 DEF dashboardVars, DashInv, DashboardTypeOK, DaysFilled, Increasing
<1>4. QED
  BY <1>1, <1>2, <1>3, GraphStarts, GraphFills DEF DashboardNext

LEMMA DashInitInv == DashboardInit => DashInv
<1> SUFFICES ASSUME DashboardInit PROVE DashInv
  OBVIOUS
<1>1. created \in [Days -> 0 .. MaxCreated]
  BY DashboardAssumption DEF DashboardInit
<1>2. QED
  BY <1>1 DEF DashboardInit, DashInv, DashboardTypeOK, DaysFilled

LEMMA GraphIsFaithful == DashInv => CurveFitsDays
<1> SUFFICES ASSUME DashInv, drawing = "drawn"
             PROVE  /\ counts = [k \in DOMAIN counts |-> created[dates[1] + k - 1]]
                    /\ \A d \in Days : created[d] > 0 => \E k \in DOMAIN counts : d = dates[1] + k - 1
  BY DEF CurveFitsDays
<1>1. /\ dates \in Seq(Days) /\ counts \in Seq(0 .. MaxCreated) /\ Len(counts) = Len(dates)
      /\ Len(dates) \in Nat /\ at >= Len(dates) /\ at \in Nat
      /\ DOMAIN counts = DOMAIN dates /\ DOMAIN dates = 1 .. Len(dates)
      /\ counts = [k \in DOMAIN counts |-> counts[k]]
  BY LenProperties DEF DashInv, DashboardTypeOK, DaysFilled
<1>2. \A k \in DOMAIN dates : dates[k] = dates[1] + k - 1
  <2>1. \A k \in DOMAIN dates : k <= at
    BY <1>1
  <2>2. QED
    BY <2>1 DEF DashInv, DaysFilled
<1>3. \A k \in DOMAIN counts : counts[k] = created[dates[1] + k - 1]
  BY <1>1, <1>2 DEF DashInv, DaysFilled
<1>4. counts = [k \in DOMAIN counts |-> created[dates[1] + k - 1]]
  BY <1>1, <1>3
<1>5. \A d \in Days : created[d] > 0 => \E k \in DOMAIN counts : d = dates[1] + k - 1
  BY <1>1, <1>2 DEF DashInv, DaysFilled
<1>6. QED
  BY <1>4, <1>5

-------------------------------------------------------------------------------
(* The tab *)

TabInv ==
    /\ script \in Scripts
    /\ TableInv /\ JobInv /\ FormInv /\ AttributeInv /\ ImportInv /\ FeedbackInv /\ DashInv

LEMMA TabInvariant == Spec => []TabInv
<1>1. Init => TabInv
  BY TableInitInv, JobInitInv, FormInitInv, AttributeInitInv, ImportInitInv, FeedbackInitInv,
     DashInitInv DEF Init, TabInv
<1>2. TabInv /\ [Next]_vars => TabInv'
  <2> SUFFICES ASSUME TabInv, [Next]_vars PROVE TabInv'
    OBVIOUS
  <2>1. script' = script
    BY DEF Next, vars
  <2>2. /\ [ListNext]_listVars /\ [JobPageNext]_jobVars /\ [StaffFormNext]_formVars
        /\ [AttributePageNext]_attributeVars /\ [ImportPageNext]_importVars
        /\ [FeedbackPageNext]_feedbackVars /\ [DashboardNext]_dashboardVars
    BY DEF Next, vars
  <2>3. QED
    BY <2>1, <2>2, TableNextKeepsInv, JobNextKeepsInv, FormNextKeepsInv, AttributeNextKeepsInv,
       ImportNextKeepsInv, FeedbackNextKeepsInv, DashNextKeepsInv DEF TabInv
<1>3. QED
  BY <1>1, <1>2, PTL DEF Spec

\* Every variable of every page has its type.
THEOREM TypeCorrect == Spec => []TypeOK
<1>1. TabInv => TypeOK
  BY ImportFacts
  DEF TabInv, TypeOK, TableInv, ListInv, JobInv, JobShape, FormInv, FormShape, AttributeInv,
      AttributeShape, FeedbackInv, FeedbackShape, DashInv
<1>2. QED
  BY <1>1, TabInvariant, PTL

\* However the staff member types, filters and turns pages before the answers are
\* there, the table that is left is the one her controls ask for, and so are the
\* buttons "Previous" and "Next", unless an answer has overtaken an older question or
\* the last one was the login page, which leaves the old rows (allJobs, searchJob,
\* next, previous and changeStatus of job.search.js and the scripts like it).
THEOREM TablesFollowControls == Spec => []TableMatchesControls
<1>1. TabInv => TableMatchesControls
  BY DEF TabInv, TableInv, TableFollows, TableMatchesControls, SearchedEverywhere, Blanked, Fits
<1>2. QED
  BY <1>1, TabInvariant, PTL

\* The buttons under a job's details decide about the job that is shown, for every
\* number of jobs (viewJob and setViewDisplay of job.view.js, changeJobStatus of
\* job.search.js).
THEOREM ButtonsActOnShown == Spec => []FooterActsOnShown
<1>1. TabInv => FooterActsOnShown
  BY DEF TabInv, JobInv
<1>2. QED
  BY <1>1, TabInvariant, PTL

\* A row shows a decision only if the server has it or one that came after it: no
\* refused, lost or signed-out request leaves one behind, unless two requests decided
\* on the job between reading and saving it (changeJobStatus and allJobs of
\* job.search.js, HandleChangeJobStatus and ChangeJobStatus of service.job.go).
THEOREM RowsClaimNoDecision == Spec => []NoDecisionInvented
<1>1. TabInv => NoDecisionInvented
  BY DEF TabInv, JobInv
<1>2. QED
  BY <1>1, TabInvariant, PTL

\* When no answer is due, and requests have not overlapped nor their answers been lost
\* or a login page, the form for a staff member shows the photo the server has and
\* lets it be changed, after successes, refusals and lost requests alike; it may lack
\* the widget to choose one only after an upload in a session that was over
\* (editPreviewPhoto, editRemovePhoto, editReloadPhoto and initEditStaff of
\* staff.edit.js).
THEOREM FormsHoldPhotos == Spec => []PhotoMatchesMember
<1>1. TabInv => PhotoMatchesMember
  BY DEF TabInv, FormInv
<1>2. QED
  BY <1>1, TabInvariant, PTL

\* However imports overlap, fail or are lost, a row becomes a second job only at the
\* cost of an import the dialog did not ask for or of a lost answer, for every file and
\* number of imports under way (parseExcel and displayAddMultipleError of
\* bulk.import.js, HandleAddMultipleJobs).
THEOREM RowsImportedOnce == Spec => []ImportedOnce
<1>1. TabInv => ImportedOnce
  BY ImportFacts DEF TabInv
<1>2. QED
  BY <1>1, TabInvariant, PTL

\* A row the server has no job of is one that the dialog has submitted again, whatever
\* overlaps, fails or is lost: a dialog that says that all rows have been imported, or
\* all but those it lists, is right (parseExcel and displayAddMultipleError of
\* bulk.import.js, HandleAddMultipleJobs of handler.job.go).
THEOREM NoRowForgotten == Spec => []NoneForgotten
<1>1. TabInv => NoneForgotten
  BY ImportFacts DEF TabInv
<1>2. QED
  BY <1>1, TabInvariant, PTL

\* The curve has on each day what was created on it and leaves no day out, for
\* every number of days (getInitData and getGraphData of dashboard.js).
THEOREM CurvesFitDays == Spec => []CurveFitsDays
<1>1. TabInv => CurveFitsDays
  BY GraphIsFaithful DEF TabInv
<1>2. QED
  BY <1>1, TabInvariant, PTL

-------------------------------------------------------------------------------
===============================================================================
