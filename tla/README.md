# Aseri admin server: a TLA+ model

The repository holds the admin server of the Aseri job platform: a Go HTTP
server with which staff manage jobs, users and feedback, and which asks a second
program, the bot server, to announce jobs. The two share a MySQL database. Staff
work in a browser, where a script per page keeps tables, forms and dialogs in
step with the server. This directory holds a model of the server and of those scripts, the
TLC configurations that check it and theorems about it that TLAPS checks.

## Inventory

| Component | State | Operations | Interacts with |
|---|---|---|---|
| Push queue and worker (`common/service/service.queue.go`, `handler.push.request.go`) | the slice `PushQueue.Queue`, the channel `pushChan` of 1000 tokens, the worker's locals | `AddToQueue`, `GetQueue`, `RemoveFromQueueWithIndex`, `HandlePushRequest`, `SendToBotHandler`, `HandleRePushJob` | handlers and closer append and send a token; the worker calls the bot server |
| Closer (`handler.closeable.go`) | its list of jobs | every 24 hours `CloseDueJobs`, then a push per job | `jobs` table, push queue |
| Jobs (`job/`, `handler.job.go`, `handler.external.go`) | rows of `jobs` | add, add several, post from outside, change the status, validate, search | `users` table, push queue |
| Users (`user/`, `handler.user.go`) | rows of `users` | delete (closing the user's jobs), validate, search | `jobs` table; rows are made by the bot |
| Staff, passwords, sessions (`staff/`, `password/`, `client/http/session`, `handler.session.go`, `handler.staff.go`, `handler.profile.go`, `middleware.staff.go`) | rows of `staffs`, `passwords`, `sessions`, photo files, cookies | login, logout, authorization, add, two-step add of an admin, update, change password, photos, delete | token store |
| Feedback (`feedback/`) | rows of `feedbacks` | mark as seen, delete, search | `users` by a foreign key that is set to NULL |
| Subscriptions (`subscription/`) | rows of `subscriptions` | validate, match a job, delete | called by the bot |
| Job attributes, referrals (`common/`) | sectors, types, education levels; referral visits | add, rename, delete; count a visit | `ValidateJob` reads the names |
| Job applications (`jobapplication/`) | rows of `job_applications` | create, find, delete | called by the bot |
| Token store (`tools/tool.redis.go`) | CSRF tokens, one-time passwords, for 24 hours | get, add, remove | handlers |
| Pages of the staff's browser (`ui/js/`) | the globals of each script (page, key, filter, mode, counts), what tables, forms and dialogs show, which widgets show or are disabled, the requests under way | click handlers, the `successFunc` and `errorFunc` of each request | handlers of the server, by requests that are answered in any order |
| Set-up, routing, log | none of their own | | |

What is hard here: every HTTP request is a goroutine, the worker and the closer
are two more, and nothing synchronises them. The queue is a bare slice (the
`sync.Mutex` embedded in `StaffHandler` is never locked). No database
transaction is opened: a handler reads a row, decides, and writes the row whole
some statements later. In the browser any number of requests of one page are
under way at once, no answer is matched with the question asked last, and what a
handler reads from the page when its answer arrives may belong to another row or
member by then. The worker keeps an index into the queue over a network
call of any length. Errors of some statements are dropped. Queue and channel are
lost in a restart. There are no tests.

What makes each component correct:

* Queue and worker: a request that was added stays until it is answered; the
  answer removes the request it answers; no wake-up is lost; a job goes to
  approval, channel, subscribers in this order and once; a bot that refuses or
  asks for a retry starves nobody.
* Jobs, closer, users: a job's status follows P to O or D and O to C; a decision
  is pushed for approval, and only a decision; due jobs close; what is announced
  as closed is closed; a deleted user leaves no opened job.
* Staff: a deleted member keeps no session and does not come back; a logged-out
  session stays so; a photo that a row names exists; a registration is redeemed
  once; emails and phone
  numbers stay unique.
* Feedback, attributes: what was read gets marked, also beside other staff
  members; the names of a table differ.
* Pages: what is shown is what was asked for; a button acts on what is shown
  above it; nothing waits for an answer that is not due; nothing is said to have
  happened that the server did not do.

`PROJECT.json` lists the hazards with their lines.

## Modules

| Module | What it is |
|---|---|
| `PushStages` | abstract: the stage of each notification on the way idle, offered, Approval, Channel, Subscribers, the one the bot is asked about, and the life of the process |
| `PushPipeline` | queue, channel, senders, worker; a step is a call on the queue, a send, a receive, a bot call or its answer |
| `PushPipelineProofs` | theorems about it |
| `PushQueue` | abstract: a list with add at the end and removal anywhere |
| `PushQueueSlice` | the queue as a Go slice: header, backing arrays, the loads and stores of each call |
| `MCPushQueueSlice` | its instance for the run without violation |
| `PushQueueSliceProofs` | theorems about it |
| `JobLifecycle` | job rows, staff handlers, external posts, user deletion, closer; a step is a database statement or a push |
| `MCJobLifecycle` | its instances |
| `JobLifecycleProofs` | theorems about it |
| `StaffSessions` | rows of members, passwords and sessions; login, logout, admission of a request, adding, changing, deleting; a step is a database statement |
| `MCStaffSessions` | its instances |
| `StaffSessionsProofs` | theorems about it |
| `StaffProfiles` | emails, photo files, admin registrations in the token store; a step is a statement or a file operation |
| `MCStaffProfiles` | its instances |
| `StaffProfilesProofs` | theorems about it |
| `ListPage` | the lists of jobs and users: paging, filters, search, overlay (the lists of staff and feedback run the same script) |
| `JobPage` | a job's details, the menu of its row, the dialog that changes its status, and the server's side of it |
| `StaffForm` | the form that edits a staff member: photo widgets and password dialog |
| `AttributePage` | the tables of job sectors, types and levels, with the handlers and the statements behind them |
| `ImportPage` | the import of a spreadsheet, with the handler that adds its rows |
| `FeedbackPage` | the feedback list and dialog, with the handlers and the foreign key behind them |
| `DashboardPage` | the curves of the dashboard |
| `BrowserTab` | a tab: one of the seven scripts |
| `BrowserTabProofs` | theorems about the overlay of the lists, the attributes and the feedback |
| `BrowserPagesProofs` | theorems about the lists' tables, job details, staff form, import, dashboard, and the types of all |
| `QueueLemmas` | facts about `RemoveAt`, `Append` and functions as sequences that the proofs share |

Names follow the code where there is one. Definitions whose comment begins with
"Faulty" are not part of any specification: each is a variant of the definition
after it, with a bug such code could have, and shows that a property would notice.

### PushPipeline

`queue` is `PushQueue.Queue`, `pushChan` the number of tokens, `spc`, `todo` and
`perItem` the position of each sender (a handler or the closer) in its loop of
`AddToQueue` and `pushChan <- StartPush`; `wpc`, `i`, `requestCount`, `request`
are the worker's. `TakeApproval`, `TakeRePush`, `TakeMultiple`, `TakeDue` start a
sender as `HandleAddJob`/`HandleChangeJobStatus`, `HandleRePushJob`,
`HandleAddMultipleJobs` and `HandleCloseable` do: with one request or several,
with a token after each or one at the end, of the kind Approval or Channel.
`Receive`, `StartPass`, `EndPass`, `Ask` are the loops of `HandlePushRequest`;
`Accepted`, `Refused`, `Retry` the answers `SendToBotHandler` tells apart;
`RemoveAnswered` its end. Status 200 appends the next request of the chain
before the answered one is removed, and the model keeps that order.

A notification is one push of one job. The same job may be pushed by several
calls at once in the code; the model calls those different notifications, since
nothing in the pipeline compares the ids of jobs. A notification may be taken up
again when nothing of it is left. `Restart` is the end of the process and its next
start: queue, channel and goroutines begin afresh and nothing brings back what was
lost.

In the abstract ladder a notification leaves its rung only by the answer to a
question about it (`asked`), and all of them at once by `LoseAll`, which flips `life`:
a worker that dropped a request unasked, or a step that emptied the queue, would be
no step of it.  `AskedMap` maps the worker's position to the question.

### PushQueueSlice

`header` is the slice header (array, length, capacity), `arrays` the arrays
`append` has allocated. `AddLoad`, `AddGrow`, `AddSetLen`, `AddStore` are the
load, the growth, and the two stores of `append`; `RemoveCheck`, `RemoveSplice`,
`RemoveStore` the bound check, the move of the elements and the store of the
header. Calls of different goroutines overlap as they like, with what the race
leaves behind: lost elements, holes, a length beyond the capacity, a panic of the
worker (`RemovePanic`, `WorkerGet`). `overlapped` is history: until two calls have
overlapped the slice implements the list of `PushQueue`, which is what
`PushPipeline` takes a call for, holds every request, and the worker stays up.
After that only `StoresInside` is promised, and `slice_race` shows the rest broken.
So everything shown about `PushPipeline` holds of executions in which no two queue
calls overlap, or of a queue with a lock.

`MCPushQueueSlice` takes states for the same that differ only in arrays nobody
points at and in the request of a pass that is over (`View`), and up to names
(`Symmetry`).

### JobLifecycle

`status`, `employer`, `due` are columns of `jobs`, `users` the rows of `users`.
`pc`, `work`, `added`, `target`, `owner` are the locals of the handlers, `cpc`
and `listed` the closer's, `pushed` the requests handed to the queue so far. A
handler of a staff request runs `HandleAddJobs` (`HandleAddJob`, or
`HandleAddMultipleJobs` for several drafts), `AddJob` per draft, then
`PushForApproval` per job added; or `HandleChangeJobStatus` (read and guard),
`SaveStatus`, `PushForApproval`; or `HandleRePushJob`; or `HandleDeleteUser`
(the list of opened jobs), `CloseJob` for each, `DeleteUser`. A handler of the
external form runs `HandleAddJobExternal`, `AddPending`. The closer runs
`SelectDueJobs`, `UpdateDueJobs`, `PushToChannel`. A loop over a Go map, whose
order is random, or over a selection without ORDER BY takes its elements in any
order. A call that fails its validation changes nothing and is no step.

`DbFails` lets every statement fail; where the code drops the error the model
goes on as the code does. `due` says whether the due date has passed at the
closer's next reading of the clock, which serves both its statements, so it does
not move between the two. Three histories say whom a promise leaves out: `contested`,
jobs that two requests decided on while they were pending; `slipped`, opened jobs
that the deletion of their employer had not listed or failed to close; `unclosed`,
jobs the closer listed in a round whose update failed. Users who are job seekers cannot employ and are not in
`Users`. Rows of jobs are never deleted: no handler calls `DeleteJob`.

### StaffSessions

`staffs`, `passwords` and `sessions` are the rows of three tables, `userOf` and
`deactivated` two columns of `server_sessions`. `pc`, `cookie`, `actor` and
`subject` are the locals of a request; `born` and `deleted` are history. A login
is `HandleLogin`, `LoginPassword`, `AddSession`; any other request passes `FindSession`,
`FindActor`, `RefreshSession` (the middleware) and then serves one handler:
`HandleLogout`, `Deactivate`; `HandleAddStaffMember`, `AddPassword`, `CleanUp`;
`HandleUpdateProfile`, `FindPrevious`, `SaveMember`; `HandleChangePassword`,
`ConfirmPassword`, `FindPassword`, `SavePassword`; `HandleDelete`, `ConfirmPassword`,
`DeleteStaffMember`, `DeleteRow`, `DeletePassword`, `DeleteSessions`; or `ServeOther`.
Two details of the library matter and are modelled: `Save` inserts a row it finds no row
to update for, and `Updates` with a struct writes no zero values, which is why the
middleware's write of an older session copy does not undo a logout. The expiry of
cookies only keeps requests out, and any live session may be presented. From
`DatabaseFails` on any statement may fail. `failing` and `overlapped` record whether
that has happened and whether two requests have been in progress at once; the promises
the code can only keep otherwise (`Undisturbed`) are stated until then, in the same run
that has both.

### StaffProfiles

`email` and `pic` are columns of `staffs`, `files` the photo directory, `stored`
the registrations in the token store. Each handler is split where another
request's write can come between its reads and its writes. The email stands for
the phone number too: both have a unique index (`entity/entities.go`), which
`Create` and `Save` respect. Who may call what, and failures of the database,
are in `StaffSessions`. `IdsLeft` bounds the members. `overlap` is history: the
properties about photos and registrations are promises to requests that come one
after the other.

### The pages

`BrowserTab` runs one script at a time. A page that is loaded again starts from
its initial state, and one that is left takes its variables with it, so nothing
passes from page to page but through the server, where another tab or another
staff member is the same. Each page keeps its requests under way
(`asked`, `calls`, `sent`, `requests`, `submissions`, `marks`); an answer takes any
of them, and every request may be refused or lost, before the server has it or
after. Where the outcome depends on the server, its handlers are steps too, down to
the statements where two requests can come between each other. Text, layout, and
fields that are set and cleared together with the ones modelled are left out.

A session can be over while a page is open. The middleware then calls
`HandleLogin` and returns (`middleware.staff.go:69-95`), which answers a GET with
200 and the login page, a PUT or DELETE with 200 and nothing, and a POST with 400
and a plain text (`handler.session.go:13-61`). So a success handler runs for
something the server has not done, or throws in `JSON.parse` half way. Each page
has an action of its own for it (`ListSignedOut`, `JobSignedOut`, `FormSignedOut`,
`AttributeSignedOut`, `FeedbackSignedOut`, `ImportSignedOut`), which does what the
handler does up to where it throws. What such an answer breaks is recorded in a
history variable that the property names.

* `ListPage`: `filter`, `mode`, `key`, `page` and `total` are the script's globals
  (`CURRENTSTATUS` or `CURRENTCATEGORY`, `CURRENTPAGEMODE`, ...). `InitSearchJob`,
  `ViewAll`, `NextPage`, `Previous`, `ChangeStatus`, `Search`, `RePushJob` are what
  can be clicked; `Found`, `ListFailed` and `ListSignedOut` the handlers of an answer.
  The login page leaves the old rows (`stale`), and after a search also overlay and
  button (`stuck`), for the search's handler parses before it lifts them and the
  list's after it. The users' search passes the page number as the category, which
  the server takes for any category: `SearchedFilter`.
* `JobPage`: `ViewJob` and `Viewed` open and fill the details, `InitChangeJobStatus`
  (from a row or from the details), `ChangeJobStatus`, `Changed` are the dialog,
  `ListJobs` and `Listed` renew the rows. `Answer` is the server for what only reads;
  a change is `ReadJob`, the read and the guard, and `SaveJob`, the save of the whole
  row, with others' changes (`OthersChange`, `OthersClose`) in between, as in
  `JobLifecycle`. A job that two requests decided on at once is `contested`: both are
  told that it was done, so that a row may show the decision that was overwritten.
  The overlay of the list is lifted by any answer, so the rows can be clicked at any
  time no dialog covers them.
* `StaffForm`: `InitEditStaff` and `Got` fill the form, `EditPreviewPhoto`,
  `EditRemovePhoto`, `EditReloadPhoto` are the widgets around the photo,
  `InitEditChangePassword` and `ChangeStaffPassword` the dialog. A request is worked
  off by the server and answered in two steps; in between the session may be found
  over. Then a removal clears the photo the server keeps (`mixed`, until the
  next form is opened), and an upload leaves its widget hidden in this and all later
  forms (`widgetStuck`).
* `AttributePage`: a row for a new name is absent, typed in, or waiting for its
  answer. The server looks a name up (`ValidateJobAttribute`) and inserts it
  (`CreateJobAttribute`) in two statements, and deletes in two. The answer to an
  add for a session that is over leaves the row waiting (`rowsStuck`).
* `ImportPage`: the staff member does what the dialog tells her: corrects the rows
  that were refused, or takes out those that were added and imports the rest.
  `Asked` is what she submits next if she does. But she may do otherwise: the icon
  is in the page's header, which no overlay covers, so that she can import with
  an import under way or after being told that all rows were added; and a lost
  answer has her repeat an import the server goes on with. `strays` counts these.
* `FeedbackPage`: viewing a feedback that is not marked has it marked; the server
  saves the whole row, with the author's id it read, and the foreign key refuses an
  author who is gone. The empty answer for a session that is over takes the dot of a
  row away though nothing was marked (`feigned`), until the rows are listed again.
* `DashboardPage`: `FillDay` is one turn of the loop that inserts the days without
  users, while it walks over them.

## Runs

| Run | Instance | Shows |
|---|---|---|
| `pipeline` | 2 notifications, 2 senders, 1 token, window 0, restarts | `TypeOK`, `NoStrandedRequest`, `AnswerMatchesIndex`, `NoDoublePush`; `ImplementsLadder`: refinement of `PushStages`; `EveryRequestAsked` with a running worker and served senders; `EveryNotificationSettles`, `SendersReturn` if besides no request is retried for ever |
| `slice` | 4 requests, 1 adder and the worker, whose calls overlap | `TypeOK`, `StoresInside`; `HeldUntilOverlap`, `WorkerStaysUp` and `ImplementsList` (refinement of `PushQueue`) until calls have overlapped |
| `slice_race` | 4 requests, 2 adders | violation of `HoldsAllRequests` |
| `jobs_many_staff` | 2 jobs, 1 user, 2 staff handlers, 1 external post, database errors | `TypeOK`, `EveryDecisionPushed`, `OnlyDecidedPushed`, `ListedAreClosed`, `LegalUnlessContested`, `OnlySlippedOutlive` |
| `jobs_live` | 2 jobs, 1 user, 1 staff handler, 1 external post, no errors | `DueJobsClose` |
| `jobs_race` | 2 jobs, 2 staff handlers | violation of `LegalTransitions` |
| `user_deletion_race` | 2 jobs, 2 staff handlers | violation of `ClosedBeforeDeletion` |
| `staff_sessions` | 2 members, 2 sessions, 2 requests, database errors | `TypeOK`, `LoggedOutStaysOut`; `DeletionIsComplete` (no session is left, no row comes back), `RowsGoTogether` until a statement fails or two requests overlap |
| `staff_save_race` | 2 members set up, 2 requests | violation of `DeletedForGood` |
| `staff_profiles` | 2 members, 3 emails, 2 photos, 1 registration, 2 requests | `TypeOK`, `EmailsDiffer`; `RedeemedOnce`, `PhotosMatchRows` until two requests overlap |
| `browser` | each script with 2 requests under way; 2 jobs, members, photos, feedbacks, categories; 3 rows to import; 0, 1 or 3 pages; 5 days | the types; `TableMatchesControls`, `WaitsForAnAnswer` (lists); `FooterActsOnShown`, `NoDecisionInvented` (job); `PhotoMatchesMember` (staff form); `NamesDiffer`, `BusyWaits` (attributes); `ImportedOnce`, `NoneForgotten` (import); `ReadIsSeen` (feedback); `CurveFitsDays` (dashboard) |
| `password_dialog` | the staff form of `browser` | violation of `PasswordOfNamed` |

Why the bounds are enough. One token and a window of 0 make the full channel
and the pause, which the code meets after 1000 tokens and 15 requests, happen
within a few steps; two senders are enough for one to block while the other is
between its add and its token, and two notifications for a queue with a request
before or after the worker's index. Four requests make the slice grow three
times (capacities 1, 2, 4) and be written in place after a removal. Two jobs
let a list hold one job that is dealt with and one that is not, and let the
closer and a request hold different ones. One user is enough, as a deletion looks
only at its own user's jobs, and jobs without one are there, too; the theorems are
for any number. Liveness of the closer is checked with one handler, for its loop
waits for none of them. Two sessions are enough for two logins at once and for a
logout beside a request on the same session; three emails for two members and a
form that has another one.

In `slice` one adder overlaps with the worker, and nothing the promises say after an
overlap depends on how many do; `slice_race` has two.

In `browser` two requests under way are enough for an answer to overtake another,
and for a late one to meet a form, row or dialog that is not its own any more. Two
jobs, members or feedbacks tell the one asked for from the one shown; of the jobs one
is pending, decided on by this page and others, and one is closed. No page, one
page and three pages give each arrow a page on which it shows and one on which it
does not, and a count that shrinks under the current page. Three rows let an
import have rows that were added, refused and failed; two submissions let a
second meet the first, and `MaxStrays` lets one import be made too many and another
answer be lost. With five days there are gaps of up to
three days, one behind another, and at both ends. What the server has two of is
`MaxSame`, the least at which a name is there twice.

`CHECK_DEADLOCK FALSE` is set in `slice` and `slice_race`, where a panic of the worker ends the
behaviour, and in the runs of `StaffSessions`, where nobody can come in once every
member has been deleted or every session id of the instance is used up.

Fairness. `WorkerFairness`: the worker goroutine runs and each call of the bot
ends (the client has no timeout of its own; if the bot never answers, the
pipeline stands still). `SenderFairness`: handlers run, and a goroutine blocked
on a channel is served in turn, as the runtime's wait queue is first in, first
out: strong fairness for `Signal`, since slots come and go. `BotFairness`: one
request is not answered "retry" for ever; without it a retried request stays, by
design. It is an assumption of the two properties that need it, not of `FairSpec`;
the liveness properties also say what a restart ends. `LiveSpec` of `JobLifecycle`
asks only that the closer's loop goes on: sleeps end, statements return, and its
send to the channel ends, which is `SendersReturn`. Nothing is assumed of requests
coming in, or of handlers. The pages have no liveness property: nothing makes an
answer come.

That no assumption on load is needed in `pipeline` is not obvious. The
worker looks for a token only when a pass finds the queue empty, so a stream of
new requests might keep a pass going and a retried request waiting for ever. It
cannot: each sender needs a slot for its token, and slots are freed between
passes.

## Findings

* Overlapping queue calls lose requests (`slice_race`). Two goroutines read the
  same header, and the later store wins. `service.queue.go:8` says the struct
  holds all the requests that need to be pushed. The same races can make the
  worker index past the end or read nil and so end the process.
* Two staff requests that read the same pending job both pass the guard of
  `ChangeJobStatus` (`service.job.go:384-395`) and the later save wins: opened to
  declined, or closed to opened (`jobs_race`).
* `DeleteUser` closes "opened jobs of a user" (`service.user.go:254`) as they
  were at one moment; a job added or approved before the user's row goes stays
  opened (`user_deletion_race`).
* An update that looked up a row before it was deleted inserts it again
  (`staff_save_race`): `StaffRepository.Update` and `PasswordRepository.Update`
  end in `Save`. In the same way a login that found the member before the deletion
  adds a session after `DeleteStaffMember` removed the member's sessions, which
  the comment at `service.staff.go:204` says it deletes: without its condition
  `DeletionIsComplete` would fail there, too.
* The password dialog of the staff form can change another member's password than
  the one it names (`password_dialog`). The text names the member of the form when
  the dialog is opened, the request goes to the member of the form when "Change" is
  clicked, and in between the answer for a form that was left may still fill it.
  `staff.edit.html:161-162` asks for "the selected staff member with ID".

The history variables mark where a promise ends rather than a disagreement with a
text. On the server: two decisions on one pending job (`contested`), jobs a deletion
missed (`slipped`). On the pages: answers that overtake each other leave a table under
the wrong arrows (`reordered`); after the login page a table shows old rows or stays
under its overlay (`stale`, `stuck`), an attribute's row or the upload widget waits for
ever (`rowsStuck`, `widgetStuck`), a form shows no photo where there is one (`mixed`),
and a feedback loses its dot without a mark (`feigned`), although `feedback.view.js:60`
calls this "marks a given feedback as seen"; two adds that overlap leave a name twice
(`together`); an import that nobody asked for, or whose answer is lost, adds its jobs
once more (`strays`); details of two jobs that cross leave one's colour over the other
(`crossed`); the feedback of a deleted user can never be marked (`orphans`).

## Proofs

TLAPS checks the modules whose names end in `Proofs`, and `QueueLemmas`. Every
invariant, action property and refinement of every passing run is stated by a
theorem there, for all values of the constants. What is assumed of the constants is
what the modules that declare them say, no more: in `PipelineAssumption` that there
are finitely many notifications and a slot in the channel, in `ImportAssumption`
that a file has finitely many rows, in `ProfilesAssumption` that there is an id
for a member at all (the locals of an idle request hold some id), in the rest that
bounds are numbers, that founders and admins are members, that the kinds of goroutine
differ, and that the names of nothing are no names of something.
Hypotheses of a theorem beyond these are listed here with it.

`QueueLemmas` says, in positions and in elements, what is left when one element of
a sequence is taken out and what there is when one is put at its end.

* `PushPipelineProofs`: `TypeCorrect`, `NoLostWakeUp`, `RemovesWhatWasAnswered`,
  `PushedOnce`, each from the inductive invariant `IInv`. None of the properties
  is inductive alone. The removal keeps types and uniqueness only if its index is
  inside the queue and holds the answered request (`AnswerMatchesIndex`); `Enqueue`
  takes a head only if there is one, and a new call keeps `NoDoublePush` only if
  an idle sender's list is empty (`SenderShape`); the count stays bounded because
  it was within the window when the call began (`CountShape`).
  `RemoveAtElements` says what the removal does to each position.
  `PipelineImplementsLadder` then maps each step to a step of the ladder or a
  stutter: `CallIsOffer`, `EnqueueIsSubmit`, `AskIsAsk`,
  `AnswerMovesItsNotification`, `RetryIsPostpone`, `RemovalIsStutter`, `RestartIsLoss`,
  `OtherStepsAreStutters`.
* `PushQueueSliceProofs`: for slices of any length, any number of goroutines, and calls
  that overlap as they like. `TypeCorrect` and `StoresStayInside` hold always, from
  `Shape`: every copy of a header names an array of the capacity it says, and what is
  read behind its end is among `Junk`. `QueueHoldsRequests`, `WorkerNeverPanics` and
  `SliceIsList` say what holds until calls have overlapped. For that `IInv` adds, as
  long as `~overlapped`, that the header fits the array it points at, that at most one
  goroutine is inside a call, and that its copy of the header is the header itself, or
  what the header was before its own last store; and what the callers rely on: what
  the worker reads is in the list, and so is everything owed, up to a removal that has
  taken effect and is not over. For the refinement each load or store is a stutter, but
  for the store of the element, which is `PushQueue`'s add (the list shows an element
  only once it is stored), and the splice, after which the list is shorter though the
  header is not yet.
* `JobLifecycleProofs`: all hold for any number of handlers and with database errors.
  For `TypeCorrect`, `NoSilentDecision`, `NoPushBeforeDecision` the invariant adds
  that drafts have no row and one owner (`DraftsAreFree`), or an insert could
  take back a decision, and that what a handler holds was decided
  (`StaffWorkIsDecided`, `SavesDecide`). `LegalForUncontested` says that a change that
  was not legal was made to a job two requests decided on at once, and nothing else
  makes one: what a handler read of an uncontested job still holds up to a closing
  (`FreshCopies`), as only one handler is deciding on it (`LoneDecisions`).
  `DeletionMissesOnlySlipped`: what `DeleteUser` has still to close, with what has
  slipped, is all that is open (`OwnersJobsListed`). `ClosedWhenAnnounced`: a selected
  job can only be closed, unless a late decision opens it (`ListIsDue`). The violation
  runs show that what these leave out by name does happen.
* `StaffSessionsProofs`: `LogoutIsFinal` needs no invariant, only every statement of
  every handler: none, and no write of an older copy, takes a session out of
  `deactivated`, and a login takes an id no session has had. `DeletionIsFinal` and
  `RowAndPassword` hold until a statement fails or requests
  overlap. They are not inductive: the deletion is a row of statements each of which
  trusts what the one before left. `CopiesHold` says, for each position of a request,
  what it has read or written and still holds; `OneServed` that no other request is
  there to change it. What must hold even when disturbed is stated without that
  condition: an id is in use only after it was given out (`OnlyBorn`), and what a
  request holds had a row once (`CopiesBorn`), or a new member could get the id of a
  deleted one.
* `StaffProfilesProofs`: `EmailsStayUnique` holds however requests overlap, by the
  unique index alone and because what is written was typed in (`FormsFilled`). The
  others are promises to requests that come one after the other.
  `RegistrationsMakeOneAccount` needs that a nonce is not issued twice (`OnlyIssued`)
  and that a registration with an account has left the store or is about to
  (`Redeemed`). The two halves of `RowsAndPhotosAgree` hold together or not at all: a
  photo is the row's, or of the request that is just putting it in or throwing it
  out (`CopiesHold`, `NoPhotoHeld`), and no two rows name one (`PhotosDiffer`), or the
  removal of one member's photo would take away the other's.
* `BrowserTabProofs`: for any number of requests under way. `ListsWaitForAnswers`
  needs no more than the types: every request puts its question into `asked` before
  the overlay goes up, and every answer lifts it but the login page after a search,
  which is `stuck`. `AttributeNamesDiffer` rests on
  `AddsAlone`: outside `together` at most one add of a table is under way, and the
  name it found free is still free, so that its insert makes one. `AttributeRowsWait`
  is inductive because a row can only be typed anew after an answer has freed it,
  and each answer to an add frees the row or puts it into `rowsStuck`.
  `FeedbackReadIsSeen` needs that an answer
  "done" to a mark means it was made, or is the empty one that puts the feedback into
  `feigned`, and that what an answered look-up or list
  says was marked still is. `PagesInvariant` puts the three together: a step of one
  script leaves the variables of the others.
* `BrowserPagesProofs`: for any number of rows, photos, days and requests under way.
  `TablesFollowControls` follows the last question: while no answer has overtaken
  another, the last question under way is the one the controls stand for
  (`TableFollows`), and if none is under way its answer is on the table. Removing any
  other answer must leave the last one last (`LastIsKept`). For `RowsClaimNoDecision`
  an answer on its way is only what the server held once, so the invariant says that
  it does not lie ahead of the server (`CallHolds`, `Behind`): statuses only move on, so
  what was true stays a past truth.
  With read and save apart this needs that two requests past the guard for one
  pending job have made it `contested` (`Meet`). `ButtonsActOnShown` needs that no buttons show
  while details are being fetched (`OneView`). `FormsHoldPhotos` speaks of a form at rest, and
  its invariant of one that waits: `AnswerFits` says for each kind of request what the
  server has and what the form will show, before the request is worked off and after;
  `UploadWaits` says that a form in which no photo can be chosen waits for one.
  `RowsImportedOnce` counts the copies of a row that are there and those that
  submissions still owe (`Due`): together at most one, and one more per stray
  (`CopiesAccounted`); what the dialog would have submitted next is owed only to
  strays. `NoRowForgotten` needs the converse, that a row without a job that the dialog
  does not ask for is still in the hands of a submission (`RowsHeld`), and that the
  last one to answer names what failed (`NoneLost`). `CurvesFitDays` has two halves. The loop keeps
  the days in order and consecutive up to its place (`DaysFilled`); an insertion moves
  the later ones (`InsertAtElements`). That there is an ordered list of the busy days
  to begin with is existence by ranks instead of by induction: the k-th day is the one
  with k - 1 busy days before it (`NumbersHaveOrder`). That is why `GetGraphData` picks
  the ordered list with `CHOOSE` and does not call a recursive sort.

Only model-checked: the liveness properties `EveryRequestAsked`,
`EveryNotificationSettles`, `SendersReturn` and `DueJobsClose`, because liveness under
fairness is out of the prover's reach. The violation runs stay with TLC as well.

## Not modelled, and the plan

Done: pipeline with restarts, slice, job lifecycle with closer and users, staff
accounts, seven page scripts with the handlers for attributes, imports and
feedback, and the proofs of everything these promise but liveness. Left, in this
order:

1. `JobPush`: `JobLifecycle` composed with `PushPipeline`; which saved decisions a
   restart leaves unannounced.
2. Pure operators with reference definitions over small inputs: `ValidateJob`,
   `FindSubscriptionMatch`, the WHERE clauses of the searches and their counts.
3. Proofs: what `JobPush` adds, from the invariants of its two parts; that the
   operators of 2 agree with their references where no induction is needed.

Where the pages stop short of the code: a page and the one it leads to are not
looked at together; the list and the details of the jobs page share only the rows;
the import is of one file at a time and of its last sheet, the only one the script
keeps; days have 24 hours.

Left out for good:

* The scripts of forms and dialogs with one request whose answer only sets text:
  `login.js`, `profile.js` (the widgets around the photo are those of `StaffForm`),
  `header.js`, `job.add.js`, `staff.add.js`, `staff.view.js`, `staff.delete.js`,
  `user.view.js`, `user.delete.js`, the paging in `user.job.js` (that of `ListPage`
  without an overlay), and `user.bulk.import.js`, which no template loads.
* The libraries under `ui/` (jQuery, Bootstrap, Highcharts, moment, xlsx, jszip,
  Font Awesome, select and date pickers). They are other projects' code, and more
  than nine tenths of the JavaScript of the repository: 5 729 of its 72 632 lines are
  its own. The model takes from them what the scripts use: that a handler runs to its
  end, that a request has at most one answer, that a modal covers what is below it.
* Templates, statistics, logging, string and file helpers (they read only, or keep
  nothing), job applications and subscriptions (single-row calls of the bot), CSRF
  tokens (one call per operation), and the bot server, of which only the answers are
  modelled.
