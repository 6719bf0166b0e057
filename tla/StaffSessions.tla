---------------------------- MODULE StaffSessions -----------------------------
(***************************************************************************)
(* Who may come in: the rows of staffs, passwords and server_sessions under *)
(* login, logout, the middleware that admits a request, and the handlers   *)
(* that add, change and delete members.  A request is a goroutine of its   *)
(* own; a step is one statement, or several that no statement of another   *)
(* request can tell apart.  What a profile holds is left out, and so are   *)
(* the words of passwords: a comparison may fail.                          *)
(***************************************************************************)
EXTENDS Naturals

CONSTANTS
    Members,    \* ids of staff members
    Admins,     \* those created with the role Admin, which no handler changes
    Founders,   \* the members the database is set up with
    Nobody,     \* no member
    Sessions,   \* session ids, UUIDs that are never used twice
    NoSession,  \* no session
    Requests,   \* goroutines that serve requests
    DbFails     \* whether the database may start to return errors

ASSUME SessionsAssumption ==
    /\ Admins \subseteq Members
    /\ Founders \subseteq Members
    /\ Nobody \notin Members
    /\ NoSession \notin Sessions
    /\ DbFails \in BOOLEAN

VARIABLES
    staffs,         \* the members with a row in staffs
    passwords,      \* the members with a row in passwords
    sessions,       \* the sessions with a row in server_sessions
    userOf,         \* server_sessions.user_id, Nobody until a session is made
    deactivated,    \* the sessions made whose column deactivated is set
    pc,             \* where each request is
    cookie,         \* the session of its cookie
    actor,          \* the member it logs in, or comes from
    subject,        \* the member its handler works on
    failing,        \* whether a database statement may return an error by now
    born,           \* history: the ids Create has given
    deleted,        \* history: the members DeleteStaffMember has reported
    overlapped      \* history: whether two requests were ever served at a time

accountVars == <<staffs, passwords>>
sessionVars == <<sessions, userOf, deactivated>>
localVars == <<pc, cookie, actor, subject>>
historyVars == <<born, deleted>>
outerVars == <<failing, overlapped>>
vars == <<accountVars, sessionVars, localVars, historyVars, outerVars>>

Init ==
    /\ staffs = Founders
    /\ passwords = Founders
    /\ sessions = {}
    /\ userOf = [s \in Sessions |-> Nobody]
    /\ deactivated = {}
    /\ pc = [r \in Requests |-> "idle"]
    /\ cookie = [r \in Requests |-> NoSession]
    /\ actor = [r \in Requests |-> Nobody]
    /\ subject = [r \in Requests |-> Nobody]
    /\ failing = FALSE
    /\ born = Founders
    /\ deleted = {}
    /\ overlapped = FALSE

Goto(r, where) == pc' = [pc EXCEPT ![r] = where]

\* The request is answered and its goroutine ends.
End(r) ==
    /\ Goto(r, "idle")
    /\ cookie' = [cookie EXCEPT ![r] = NoSession]
    /\ actor' = [actor EXCEPT ![r] = Nobody]
    /\ subject' = [subject EXCEPT ![r] = Nobody]

\* Go on to where, with nothing but the place changed.
Continue(r, where) == Goto(r, where) /\ UNCHANGED <<cookie, actor, subject>>
-------------------------------------------------------------------------------
(* Login and logout *)

\* FindStaffMember by the identifier of the form.
HandleLogin(r) ==
    /\ pc[r] = "idle"
    /\ \E m \in staffs : actor' = [actor EXCEPT ![r] = m]
    /\ Goto(r, "compare")
    /\ UNCHANGED <<accountVars, sessionVars, cookie, subject, historyVars>>

\* FindPassword and the comparison; a row that is missing or a wrong word ends it.
LoginPassword(r) ==
    /\ pc[r] = "compare"
    /\ \/ actor[r] \in passwords /\ Continue(r, "session")
       \/ End(r)
    /\ UNCHANGED <<accountVars, sessionVars, historyVars>>

\* Faulty: the new session is recorded under its own id.
AddSessionSwapped(r) ==
    /\ pc[r] = "session"
    /\ \E s \in Sessions :
        /\ userOf[s] = Nobody
        /\ userOf' = [userOf EXCEPT ![s] = s]
        /\ sessions' = sessions \cup {s}
    /\ End(r)
    /\ UNCHANGED <<accountVars, deactivated, historyVars>>

\* AddSession, for a fresh UUID and the member found above, whatever has become
\* of the member since.
AddSession(r) ==
    /\ pc[r] = "session"
    /\ \/ \E s \in Sessions :
            /\ userOf[s] = Nobody
            /\ userOf' = [userOf EXCEPT ![s] = actor[r]]
            /\ sessions' = sessions \cup {s}
       \/ failing /\ UNCHANGED <<userOf, sessions>>
    /\ End(r)
    /\ UNCHANGED <<accountVars, deactivated, historyVars>>

\* HandleLogout, its FindSession: without a row there is nothing to deactivate.
HandleLogout(r) ==
    /\ pc[r] = "serve"
    /\ \/ cookie[r] \in sessions /\ Continue(r, "deactivate")
       \/ (cookie[r] \notin sessions \/ failing) /\ End(r)
    /\ UNCHANGED <<accountVars, sessionVars, historyVars>>

\* UpdateSession with Deactivated set, if the row is still there; its error is
\* dropped and the cookie removed in any case.
Deactivate(r) ==
    /\ pc[r] = "deactivate"
    /\ \/ deactivated' = deactivated \cup ({cookie[r]} \cap sessions)
       \/ failing /\ UNCHANGED deactivated
    /\ End(r)
    /\ UNCHANGED <<accountVars, sessions, userOf, historyVars>>
-------------------------------------------------------------------------------
(* Admission: SessionAuthentication, Authorization *)

\* A cookie names a session that was made; FindSession and the check of its
\* Deactivated.  A request that is not admitted is served as a login.
FindSession(r) ==
    /\ pc[r] = "idle"
    /\ \E s \in sessions \ deactivated :
        /\ cookie' = [cookie EXCEPT ![r] = s]
        /\ actor' = [actor EXCEPT ![r] = userOf[s]]
    /\ Goto(r, "authorize")
    /\ UNCHANGED <<accountVars, sessionVars, subject, historyVars>>

\* FindStaffMember of the session's user.
FindActor(r) ==
    /\ pc[r] = "authorize"
    /\ \/ actor[r] \in staffs /\ Continue(r, "refresh")
       \/ (actor[r] \notin staffs \/ failing) /\ End(r)
    /\ UNCHANGED <<accountVars, sessionVars, historyVars>>

\* Faulty: the copy that was found is written back whole.
RefreshSessionWhole(r) ==
    /\ pc[r] = "refresh"
    /\ deactivated' = deactivated \ {cookie[r]}
    /\ Continue(r, "serve")
    /\ UNCHANGED <<accountVars, sessions, userOf, historyVars>>

\* UpdateSession with the copy FindSession returned.  Updates writes no zero
\* values, so the false of the copy's Deactivated does not reach the row; an
\* error is dropped.
RefreshSession(r) ==
    /\ pc[r] = "refresh"
    /\ Continue(r, "serve")
    /\ UNCHANGED <<accountVars, sessionVars, historyVars>>

\* A request that its checks refuse, or that is for another part of the server.
ServeOther(r) ==
    /\ pc[r] = "serve"
    /\ End(r)
    /\ UNCHANGED <<accountVars, sessionVars, historyVars>>
-------------------------------------------------------------------------------
(* Members and passwords *)

\* Faulty: an id that no row has may be one of a member who was deleted.
HandleAddStaffMemberReusing(r) ==
    /\ pc[r] = "serve"
    /\ actor[r] \in Admins
    /\ \E m \in Members \ staffs :
        /\ staffs' = staffs \cup {m}
        /\ born' = born \cup {m}
        /\ subject' = [subject EXCEPT ![r] = m]
    /\ Goto(r, "addPassword")
    /\ UNCHANGED <<passwords, sessionVars, cookie, actor, deleted>>

\* AddStaffMember, its row, for HandleAddStaffMember or HandleFinishAddAdmin:
\* Create gives an id that is not in use, here one that never was.
HandleAddStaffMember(r) ==
    /\ pc[r] = "serve"
    /\ actor[r] \in Admins
    /\ \E m \in Members \ born :
        /\ staffs' = staffs \cup {m}
        /\ born' = born \cup {m}
        /\ subject' = [subject EXCEPT ![r] = m]
    /\ Goto(r, "addPassword")
    /\ UNCHANGED <<passwords, sessionVars, cookie, actor, deleted>>

\* AddStaffMember, its password.
AddPassword(r) ==
    /\ pc[r] = "addPassword"
    /\ \/ passwords' = passwords \cup {subject[r]} /\ End(r)
       \/ failing /\ Continue(r, "cleanUp") /\ UNCHANGED passwords
    /\ UNCHANGED <<staffs, sessionVars, historyVars>>

\* AddStaffMember takes back the row it has no password for.
CleanUp(r) ==
    /\ pc[r] = "cleanUp"
    /\ \/ staffs' = staffs \ {subject[r]}
       \/ failing /\ UNCHANGED staffs
    /\ End(r)
    /\ UNCHANGED <<passwords, sessionVars, historyVars>>

\* The row a profile is changed from: HandleUpdateStaffMember reads it,
\* HandleUpdateProfile has it from Authorization.
HandleUpdateProfile(r) ==
    /\ pc[r] = "serve"
    /\ \E m \in {actor[r]} \cup {n \in staffs : actor[r] \in Admins} :
        subject' = [subject EXCEPT ![r] = m]
    /\ Goto(r, "update")
    /\ UNCHANGED <<accountVars, sessionVars, cookie, actor, historyVars>>

\* The validation and StaffRepository.Update both look the row up again and
\* give up without it: the first by a panic that ends the request.
FindPrevious(r) ==
    /\ pc[r] = "update"
    /\ \/ subject[r] \in staffs /\ Continue(r, "save")
       \/ End(r)
    /\ UNCHANGED <<accountVars, sessionVars, historyVars>>

\* Save updates the row, and inserts it when there is none to update; it is
\* refused when another row has the email or the phone number by now.
SaveMember(r) ==
    /\ pc[r] = "save"
    /\ staffs' \in {staffs, staffs \cup {subject[r]}}
    /\ End(r)
    /\ UNCHANGED <<passwords, sessionVars, historyVars>>

\* HandleChangePassword for the actor; HandleChangeStaffMemberPassword for the
\* member an admin names, whom it looks up.
HandleChangePassword(r) ==
    /\ pc[r] = "serve"
    /\ \E m \in {actor[r]} \cup {n \in staffs : actor[r] \in Admins} :
        subject' = [subject EXCEPT ![r] = m]
    /\ Goto(r, "confirmChange")
    /\ UNCHANGED <<accountVars, sessionVars, cookie, actor, historyVars>>

\* HandleDeleteAccount for the actor; HandleDeleteStaffMember for the id an
\* admin names, which may be any but the admin's own.
HandleDelete(r) ==
    /\ pc[r] = "serve"
    /\ \E m \in {actor[r]} \cup {n \in Members : actor[r] \in Admins} :
        subject' = [subject EXCEPT ![r] = m]
    /\ Goto(r, "confirmDelete")
    /\ UNCHANGED <<accountVars, sessionVars, cookie, actor, historyVars>>

\* Both want the actor's own password first.
ConfirmPassword(r) ==
    /\ \/ /\ pc[r] \in {"confirmChange", "confirmDelete"}
          /\ actor[r] \in passwords
          /\ Continue(r, IF pc[r] = "confirmChange" THEN "findPassword" ELSE "delete")
       \/ /\ pc[r] \in {"confirmChange", "confirmDelete"}
          /\ End(r)
    /\ UNCHANGED <<accountVars, sessionVars, historyVars>>

\* PasswordRepository.Update looks the row up, and gives up without it.
FindPassword(r) ==
    /\ pc[r] = "findPassword"
    /\ \/ subject[r] \in passwords /\ Continue(r, "savePassword")
       \/ (subject[r] \notin passwords \/ failing) /\ End(r)
    /\ UNCHANGED <<accountVars, sessionVars, historyVars>>

\* Save again: an update, or an insert.
SavePassword(r) ==
    /\ pc[r] = "savePassword"
    /\ \/ passwords' = passwords \cup {subject[r]}
       \/ failing /\ UNCHANGED passwords
    /\ End(r)
    /\ UNCHANGED <<staffs, sessionVars, historyVars>>
-------------------------------------------------------------------------------
(* DeleteStaffMember *)

\* staffRepo.Delete looks the row up; without it the deletion ends here.
DeleteStaffMember(r) ==
    /\ pc[r] = "delete"
    /\ \/ subject[r] \in staffs /\ Continue(r, "deleteRow")
       \/ (subject[r] \notin staffs \/ failing) /\ End(r)
    /\ UNCHANGED <<accountVars, sessionVars, historyVars>>

\* Faulty: the sessions go, the password stays.
DeleteRowThenSessions(r) ==
    /\ pc[r] = "deleteRow"
    /\ staffs' = staffs \ {subject[r]}
    /\ Continue(r, "deleteSessions")
    /\ UNCHANGED <<passwords, sessionVars, historyVars>>

\* The DELETE of the row, whose error nobody reads.
DeleteRow(r) ==
    /\ pc[r] = "deleteRow"
    /\ \/ staffs' = staffs \ {subject[r]}
       \/ failing /\ UNCHANGED staffs
    /\ Continue(r, "deletePassword")
    /\ UNCHANGED <<passwords, sessionVars, historyVars>>

\* passwordRepo.Delete, its error dropped.
DeletePassword(r) ==
    /\ pc[r] = "deletePassword"
    /\ \/ passwords' = passwords \ {subject[r]}
       \/ failing /\ UNCHANGED passwords
    /\ Continue(r, "deleteSessions")
    /\ UNCHANGED <<staffs, sessionVars, historyVars>>

SessionsOf(m) == {s \in sessions : userOf[s] = m}

\* Faulty: one session is deleted, not all.
DeleteOneSession(r) ==
    /\ pc[r] = "deleteSessions"
    /\ \/ SessionsOf(subject[r]) = {} /\ UNCHANGED sessions
       \/ \E s \in SessionsOf(subject[r]) : sessions' = sessions \ {s}
    /\ End(r)
    /\ deleted' = deleted \cup {subject[r]}
    /\ UNCHANGED <<accountVars, userOf, deactivated, born>>

\* sessionRepo.DeleteMultiple, its error dropped; the deletion is reported.
DeleteSessions(r) ==
    /\ pc[r] = "deleteSessions"
    /\ \/ sessions' = sessions \ SessionsOf(subject[r])
       \/ failing /\ UNCHANGED sessions
    /\ End(r)
    /\ deleted' = deleted \cup {subject[r]}
    /\ UNCHANGED <<accountVars, userOf, deactivated, born>>
-------------------------------------------------------------------------------

Login(r) == HandleLogin(r) \/ LoginPassword(r) \/ AddSession(r)
Logout(r) == HandleLogout(r) \/ Deactivate(r)
Authorization(r) == FindSession(r) \/ FindActor(r) \/ RefreshSession(r)
Add(r) == HandleAddStaffMember(r) \/ AddPassword(r) \/ CleanUp(r)
Update(r) == HandleUpdateProfile(r) \/ FindPrevious(r) \/ SaveMember(r)
ChangePassword(r) == HandleChangePassword(r) \/ FindPassword(r) \/ SavePassword(r)
Delete(r) ==
    \/ HandleDelete(r) \/ DeleteStaffMember(r)
    \/ DeleteRow(r) \/ DeletePassword(r) \/ DeleteSessions(r)

Serve(r) ==
    /\ \/ Login(r) \/ Logout(r) \/ Authorization(r) \/ ServeOther(r)
       \/ Add(r) \/ Update(r)
       \/ ConfirmPassword(r) \/ ChangePassword(r) \/ Delete(r)
    /\ overlapped' = (overlapped \/ \E q \in Requests \ {r} : pc[q] # "idle")
    /\ UNCHANGED failing

\* The connection of the database goes: from now on any statement may fail.
DatabaseFails ==
    /\ DbFails /\ ~failing
    /\ failing' = TRUE
    /\ UNCHANGED <<accountVars, sessionVars, localVars, historyVars, overlapped>>

Next == DatabaseFails \/ \E r \in Requests : Serve(r)

Spec == Init /\ [][Next]_vars
-------------------------------------------------------------------------------
(* Properties *)

TypeOK ==
    /\ staffs \in SUBSET Members
    /\ passwords \in SUBSET Members
    /\ sessions \in SUBSET Sessions
    /\ userOf \in [Sessions -> Members \cup {Nobody}]
    /\ deactivated \in SUBSET Sessions
    /\ pc \in [Requests ->
            {"idle", "compare", "session", "authorize", "refresh", "serve",
             "deactivate", "addPassword", "cleanUp", "update", "save",
             "confirmChange", "confirmDelete", "findPassword", "savePassword",
             "delete", "deleteRow", "deletePassword", "deleteSessions"}]
    /\ cookie \in [Requests -> Sessions \cup {NoSession}]
    /\ actor \in [Requests -> Members \cup {Nobody}]
    /\ subject \in [Requests -> Members \cup {Nobody}]
    /\ failing \in BOOLEAN
    /\ born \in SUBSET Members
    /\ deleted \in SUBSET Members
    /\ overlapped \in BOOLEAN

\* A session that was logged out is never live again, although requests that
\* were admitted before the logout write their older copy of it back later.
StaysDeactivated == deactivated \subseteq deactivated'
LoggedOutStaysOut == [][StaysDeactivated]_deactivated

\* Requests were served one at a time and no statement of theirs failed.
Undisturbed == ~failing /\ ~overlapped

\* DeleteStaffMember deletes a member "including it's session's and password":
\* undisturbed, it leaves a member whose deletion was reported no session.
NoSessionsLeft == Undisturbed => \A m \in deleted : SessionsOf(m) = {}

\* A reported deletion is final: no write of a row read before brings back the
\* member's row or password.
DeletedForGood == \A m \in deleted : m \notin staffs \cup passwords

\* It is final as long as nothing disturbs the requests.
NotRevived == Undisturbed => DeletedForGood

\* So whoever was reported deleted has nothing left and gets nothing back: no session
\* of any login, no row and no password.
DeletionIsComplete == NoSessionsLeft /\ NotRevived

\* Undisturbed, a member has a row and a password or neither, but for the
\* request that is adding or deleting the member.
InChange(m) ==
    \E r \in Requests : subject[r] = m /\ pc[r] \in {"addPassword", "deletePassword"}
RowsGoTogether ==
    Undisturbed => \A m \in Members : (m \in staffs) # (m \in passwords) => InChange(m)
===============================================================================
