------------------------- MODULE StaffSessionsProofs --------------------------
(***************************************************************************)
(* What holds of StaffSessions for every set of members, sessions and      *)
(* requests.                                                               *)
(***************************************************************************)
EXTENDS StaffSessions, TLAPS

\* An id is in use only after Create gave it, also in the reports of deletions.
OnlyBorn == staffs \cup passwords \cup deleted \subseteq born

\* The copies of a request, whatever the others do meanwhile: a member it logs in
\* or serves had a row, and so had the member it is about to write or to delete.
CopiesBorn ==
    \A r \in Requests :
        /\ pc[r] \in {"compare", "session", "refresh", "serve"} => actor[r] \in born
        /\ pc[r] \in {"addPassword", "cleanUp", "save", "savePassword",
                      "deleteRow", "deletePassword", "deleteSessions"} => subject[r] \in born

\* As long as none overlapped, one request at most is being served.
OneServed ==
    ~overlapped => \A q, r \in Requests : pc[q] # "idle" /\ pc[r] # "idle" => q = r

\* Undisturbed, what a request has read or written is still so at its next step.
CopiesHold ==
    Undisturbed => \A r \in Requests :
        /\ pc[r] = "session" => actor[r] \in passwords
        /\ pc[r] = "addPassword" => subject[r] \in staffs
        /\ pc[r] # "cleanUp"
        /\ pc[r] = "save" => subject[r] \in staffs
        /\ pc[r] = "savePassword" => subject[r] \in passwords
        /\ pc[r] = "deletePassword" => subject[r] \notin staffs
        /\ pc[r] = "deleteSessions" => subject[r] \notin staffs \cup passwords

\* The inductive invariant.
IInv ==
    /\ TypeOK
    /\ OnlyBorn
    /\ CopiesBorn
    /\ OneServed
    /\ CopiesHold
    /\ NoSessionsLeft
    /\ NotRevived
    /\ RowsGoTogether


-------------------------------------------------------------------------------
(* What every step keeps, disturbed or not *)

\* The rows of members, passwords and sessions, and the locals keep their types.
LEMMA TypesKept ==
    ASSUME TypeOK, OnlyBorn, CopiesBorn, NEW r \in Requests, Serve(r)
    PROVE  TypeOK'
<1> USE SessionsAssumption
    DEF TypeOK, Serve, End, Goto, Continue, accountVars, sessionVars, historyVars
<1>1. CASE Login(r)
  BY <1>1 DEF Login, HandleLogin, LoginPassword, AddSession
<1>2. CASE Logout(r)
  BY <1>2 DEF Logout, HandleLogout, Deactivate
<1>3. CASE Authorization(r)
  BY <1>3 DEF Authorization, FindSession, FindActor, RefreshSession
<1>4. CASE ServeOther(r) \/ ConfirmPassword(r)
  BY <1>4 DEF ServeOther, ConfirmPassword
<1>5. CASE Add(r)
  BY <1>5 DEF Add, HandleAddStaffMember, AddPassword, CleanUp, CopiesBorn
<1>6. CASE Update(r)
  BY <1>6 DEF Update, HandleUpdateProfile, FindPrevious, SaveMember, CopiesBorn
<1>7. CASE ChangePassword(r)
  BY <1>7 DEF ChangePassword, HandleChangePassword, FindPassword, SavePassword, CopiesBorn
<1>8. CASE Delete(r)
  BY <1>8 DEF Delete, HandleDelete, DeleteStaffMember, DeleteRow, DeletePassword,
     DeleteSessions, SessionsOf, CopiesBorn
<1>9. QED
  BY <1>1, <1>2, <1>3, <1>4, <1>5, <1>6, <1>7, <1>8

\* No id comes into use but those that Create gives.
LEMMA BornKept ==
    ASSUME TypeOK, OnlyBorn, CopiesBorn, NEW r \in Requests, Serve(r)
    PROVE  OnlyBorn' /\ CopiesBorn'
<1> USE DEF TypeOK, OnlyBorn, CopiesBorn, End, Goto, Continue, accountVars, sessionVars, historyVars
<1>1. CASE Login(r)
  BY <1>1 DEF Login, HandleLogin, LoginPassword, AddSession
<1>2. CASE Logout(r)
  BY <1>2 DEF Logout, HandleLogout, Deactivate
<1>3. CASE Authorization(r)
  BY <1>3 DEF Authorization, FindSession, FindActor, RefreshSession
<1>4. CASE ServeOther(r) \/ ConfirmPassword(r)
  BY <1>4 DEF ServeOther, ConfirmPassword
<1>5. CASE Add(r)
  BY <1>5 DEF Add, HandleAddStaffMember, AddPassword, CleanUp
<1>6. CASE Update(r)
  BY <1>6 DEF Update, HandleUpdateProfile, FindPrevious, SaveMember
<1>7. CASE ChangePassword(r)
  BY <1>7 DEF ChangePassword, HandleChangePassword, FindPassword, SavePassword
<1>8. CASE Delete(r)
  BY <1>8 DEF Delete, HandleDelete, DeleteStaffMember, DeleteRow, DeletePassword, DeleteSessions
<1>9. QED
  BY <1>1, <1>2, <1>3, <1>4, <1>5, <1>6, <1>7, <1>8 DEF Serve

\* A step of a request changes the place of that request only.
LEMMA OwnPlace ==
    ASSUME TypeOK, NEW r \in Requests, Serve(r)
    PROVE  \A q \in Requests \ {r} :
               pc'[q] = pc[q] /\ actor'[q] = actor[q] /\ subject'[q] = subject[q]
<1> USE DEF TypeOK, End, Goto, Continue
<1>1. CASE Login(r) \/ Logout(r) \/ Authorization(r) \/ ServeOther(r)
  BY <1>1 DEF Login, HandleLogin, LoginPassword, AddSession, Logout, HandleLogout, Deactivate,
     Authorization, FindSession, FindActor, RefreshSession, ServeOther
<1>2. CASE Add(r) \/ Update(r)
  BY <1>2 DEF Add, HandleAddStaffMember, AddPassword, CleanUp, Update, HandleUpdateProfile,
     FindPrevious, SaveMember
<1>3. CASE ConfirmPassword(r) \/ ChangePassword(r)
  BY <1>3 DEF ConfirmPassword, ChangePassword, HandleChangePassword, FindPassword, SavePassword
<1>4. CASE Delete(r)
  BY <1>4 DEF Delete, HandleDelete, DeleteStaffMember, DeleteRow, DeletePassword, DeleteSessions
<1>5. QED
  BY <1>1, <1>2, <1>3, <1>4 DEF Serve

\* So a step that leaves overlapped unset is taken while the others are idle.
LEMMA Alone ==
    ASSUME TypeOK, NEW r \in Requests, Serve(r), ~overlapped'
    PROVE  ~overlapped /\ \A q \in Requests \ {r} : pc[q] = "idle" /\ pc'[q] = "idle"
<1>1. ~overlapped /\ \A q \in Requests \ {r} : pc[q] = "idle"
  BY DEF Serve
<1>2. QED
  BY <1>1, OwnPlace

-------------------------------------------------------------------------------
(* What undisturbed requests keep *)

\* While r is served alone, the rows are those of an undisturbed database up to
\* the one request in the middle of its writes.
Quiet(r) ==
    /\ pc[r] = "session" => actor[r] \in passwords
    /\ pc[r] = "addPassword" => subject[r] \in staffs
    /\ pc[r] # "cleanUp"
    /\ pc[r] = "save" => subject[r] \in staffs
    /\ pc[r] = "savePassword" => subject[r] \in passwords
    /\ pc[r] = "deletePassword" => subject[r] \notin staffs
    /\ pc[r] = "deleteSessions" => subject[r] \notin staffs \cup passwords
    /\ \A m \in deleted : m \notin staffs \cup passwords
    /\ \A s \in sessions : userOf[s] \notin deleted
    /\ \A m \in Members :
           (m \in staffs) # (m \in passwords) =>
               subject[r] = m /\ pc[r] \in {"addPassword", "deletePassword"}

LEMMA QuietKept ==
    ASSUME TypeOK, OnlyBorn, CopiesBorn, NEW r \in Requests, Serve(r), ~failing, Quiet(r)
    PROVE  Quiet(r)'
<1> USE DEF TypeOK, Quiet, End, Goto, Continue, accountVars, sessionVars, historyVars
<1>1. CASE Login(r)
  BY <1>1 DEF Login, HandleLogin, LoginPassword, AddSession
<1>2. CASE Logout(r)
  BY <1>2 DEF Logout, HandleLogout, Deactivate
<1>3. CASE Authorization(r)
  BY <1>3 DEF Authorization, FindSession, FindActor, RefreshSession
<1>4. CASE ServeOther(r) \/ ConfirmPassword(r)
  BY <1>4 DEF ServeOther, ConfirmPassword
<1>5. CASE Add(r)
  BY <1>5 DEF OnlyBorn, Add, HandleAddStaffMember, AddPassword, CleanUp
<1>6. CASE Update(r)
  BY <1>6 DEF Update, HandleUpdateProfile, FindPrevious, SaveMember
<1>7. CASE ChangePassword(r)
  BY <1>7 DEF ChangePassword, HandleChangePassword, FindPassword, SavePassword
<1>8. CASE Delete(r)
  BY <1>8 DEF Delete, HandleDelete, DeleteStaffMember, DeleteRow, DeletePassword, DeleteSessions,
     SessionsOf
<1>9. QED
  BY <1>1, <1>2, <1>3, <1>4, <1>5, <1>6, <1>7, <1>8 DEF Serve

\* Nothing disturbed: the invariant says what Quiet says of the request served.
LEMMA ServedIsQuiet ==
    ASSUME IInv, Undisturbed, NEW r \in Requests, \A q \in Requests \ {r} : pc[q] = "idle"
    PROVE  Quiet(r)
<1>1. \A s \in sessions : userOf[s] \notin deleted
  BY DEF IInv, NoSessionsLeft, SessionsOf
<1>2. \A m \in Members : InChange(m) =>
          subject[r] = m /\ pc[r] \in {"addPassword", "deletePassword"}
  BY DEF InChange
<1>3. QED
  BY <1>1, <1>2 DEF IInv, CopiesHold, NotRevived, DeletedForGood, RowsGoTogether, Quiet

-------------------------------------------------------------------------------
(* The invariant *)

LEMMA ServeKeepsIInv ==
    ASSUME IInv, NEW r \in Requests, Serve(r)
    PROVE  IInv'
<1>1. TypeOK /\ OnlyBorn /\ CopiesBorn
  BY DEF IInv
<1>2. TypeOK' /\ OnlyBorn' /\ CopiesBorn'
  BY <1>1, TypesKept, BornKept
<1>3. OneServed'
  <2>1. ASSUME ~overlapped' PROVE \A q \in Requests \ {r} : pc'[q] = "idle"
    BY <1>1, <2>1, Alone
  <2>2. QED
    BY <2>1 DEF OneServed
<1>4. CopiesHold' /\ NoSessionsLeft' /\ NotRevived' /\ RowsGoTogether'
  <2>1. CASE Undisturbed'
    <3>1. ~overlapped' /\ ~failing' /\ ~failing
      BY <2>1 DEF Undisturbed, Serve
    <3>2. ~overlapped /\ \A q \in Requests \ {r} : pc[q] = "idle" /\ pc'[q] = "idle"
      BY <1>1, <3>1, Alone
    <3>3. Quiet(r)
      BY <3>1, <3>2, ServedIsQuiet DEF Undisturbed
    <3>4. Quiet(r)'
      BY <1>1, <3>1, <3>3, QuietKept
    <3>5. \A q \in Requests \ {r} : pc'[q] = "idle"
      BY <3>2
    <3>6. CopiesHold'
      BY <3>4, <3>5 DEF Quiet, CopiesHold
    <3>7. NoSessionsLeft'
      BY <3>4 DEF Quiet, NoSessionsLeft, SessionsOf
    <3>8. NotRevived' /\ RowsGoTogether'
      BY <3>4 DEF Quiet, NotRevived, DeletedForGood, RowsGoTogether, InChange
    <3>9. QED
      BY <3>6, <3>7, <3>8
  <2>2. CASE ~Undisturbed'
    BY <2>2 DEF CopiesHold, NoSessionsLeft, NotRevived, RowsGoTogether
  <2>3. QED
    BY <2>1, <2>2
<1>5. QED
  BY <1>2, <1>3, <1>4 DEF IInv

\* Only the founders have rows, and nothing is served.
LEMMA InitEstablishesIInv == Init => IInv
<1> SUFFICES ASSUME Init PROVE IInv
  OBVIOUS
<1>1. TypeOK
  BY SessionsAssumption DEF Init, TypeOK
<1>2. OnlyBorn /\ CopiesBorn /\ OneServed /\ CopiesHold
  BY DEF Init, OnlyBorn, CopiesBorn, OneServed, CopiesHold
<1>3. NoSessionsLeft /\ NotRevived /\ RowsGoTogether
  BY DEF Init, NoSessionsLeft, NotRevived, DeletedForGood, RowsGoTogether
<1>4. QED
  BY <1>1, <1>2, <1>3 DEF IInv

LEMMA NextKeepsIInv == IInv /\ [Next]_vars => IInv'
<1> SUFFICES ASSUME IInv, [Next]_vars PROVE IInv'
  OBVIOUS
<1>1. ASSUME NEW r \in Requests, Serve(r) PROVE IInv'
  BY <1>1, ServeKeepsIInv
<1>2. CASE DatabaseFails
  <2>1. ~Undisturbed'
    BY <1>2 DEF DatabaseFails, Undisturbed
  <2>2. TypeOK' /\ OnlyBorn' /\ CopiesBorn' /\ OneServed'
    BY <1>2 DEF DatabaseFails, IInv, TypeOK, OnlyBorn, CopiesBorn, OneServed, accountVars,
       sessionVars, localVars, historyVars
  <2>3. QED
    BY <2>1, <2>2 DEF IInv, CopiesHold, NoSessionsLeft, NotRevived, RowsGoTogether
<1>3. CASE UNCHANGED vars
  <2>1. TypeOK' /\ OnlyBorn' /\ CopiesBorn' /\ OneServed' /\ CopiesHold'
    BY <1>3 DEF vars, accountVars, sessionVars, localVars, historyVars, outerVars, IInv, TypeOK,
       OnlyBorn, CopiesBorn, OneServed, CopiesHold, Undisturbed
  <2>2. NoSessionsLeft' /\ NotRevived' /\ RowsGoTogether'
    BY <1>3 DEF vars, accountVars, sessionVars, localVars, historyVars, outerVars, IInv,
       NoSessionsLeft, SessionsOf, NotRevived, DeletedForGood, RowsGoTogether, InChange, Undisturbed
  <2>3. QED
    BY <2>1, <2>2 DEF IInv
<1>4. QED
  BY <1>1, <1>2, <1>3 DEF Next

\* The invariant holds in every reachable state.
LEMMA Invariance == Spec => []IInv
<1>1. QED
  BY InitEstablishesIInv, NextKeepsIInv, PTL DEF Spec

\* Every variable keeps its type, for any members, sessions and requests.
THEOREM TypeCorrect == Spec => []TypeOK
<1>1. IInv => TypeOK
  BY DEF IInv
<1>2. QED
  BY <1>1, Invariance, PTL

\* Until a statement fails or two requests overlap, DeleteStaffMember leaves a
\* member no session, not those of other requests' logins either, and no write
\* brings back the member's row or password.
THEOREM DeletionIsFinal == Spec => []DeletionIsComplete
<1>1. IInv => DeletionIsComplete
  BY DEF IInv, DeletionIsComplete
<1>2. QED
  BY <1>1, Invariance, PTL

\* Until then a member has a row and a password or neither, but for the member
\* being added or deleted.
THEOREM RowAndPassword == Spec => []RowsGoTogether
<1>1. IInv => RowsGoTogether
  BY DEF IInv
<1>2. QED
  BY <1>1, Invariance, PTL

\* Whatever overlaps or fails, no write sets a session that was logged out live.
THEOREM LogoutIsFinal == Spec => LoggedOutStaysOut
<1>1. ASSUME NEW r \in Requests, Serve(r) PROVE StaysDeactivated
  BY <1>1 DEF StaysDeactivated, sessionVars, Serve, Login, HandleLogin, LoginPassword, AddSession,
     Logout, HandleLogout, Deactivate, Authorization, FindSession, FindActor, RefreshSession,
     ServeOther, Add, HandleAddStaffMember, AddPassword, CleanUp, Update, HandleUpdateProfile,
     FindPrevious, SaveMember, ConfirmPassword, ChangePassword, HandleChangePassword, FindPassword,
     SavePassword, Delete, HandleDelete, DeleteStaffMember, DeleteRow, DeletePassword,
     DeleteSessions
<1>2. ASSUME DatabaseFails \/ UNCHANGED vars PROVE StaysDeactivated
  BY <1>2 DEF DatabaseFails, vars, sessionVars, StaysDeactivated
<1>3. [Next]_vars => [StaysDeactivated]_deactivated
  BY <1>1, <1>2 DEF Next
<1>4. QED
  BY <1>3, PTL DEF Spec, LoggedOutStaysOut
===============================================================================
