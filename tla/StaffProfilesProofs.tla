------------------------- MODULE StaffProfilesProofs --------------------------
(***************************************************************************)
(* What holds of StaffProfiles for every set of members, emails, photos,   *)
(* registrations and requests.                                             *)
(***************************************************************************)
EXTENDS StaffProfiles, TLAPS

\* An email is written only after a form or a registration gave one.
FormsFilled ==
    \A r \in Requests : pc[r] \in {"create", "validate", "previous", "save"} => form[r] \in Emails

\* A registration in the store or in a request was issued, so no later one has
\* its nonce.
OnlyIssued ==
    /\ \A k \in Registrations : stored[k] # NoEmail \/ accounts[k] # 0 => k \in issued
    /\ \A r \in Requests : reg[r] # NoRegistration => reg[r] \in issued
    /\ \A r \in Requests :
           /\ pc[r] = "forget" => reg[r] # NoRegistration
           /\ pc[r] \notin {"create", "forget"} => reg[r] = NoRegistration

\* Requests that deal with no photo hold none.
NoPhotoHeld ==
    \A r \in Requests :
        /\ pc[r] \notin {"setPic", "removeFile"} => new[r] = NoPhoto
        /\ pc[r] \in {"idle", "create", "forget"} => copy[r] = NoPhoto

\* As long as none overlapped, one request at most is under way.
OneServed ==
    ~overlap => \A q, r \in Requests : pc[q] # "idle" /\ pc[r] # "idle" => q = r

\* As long as none overlapped, a registration that made an account is out of the
\* store, or its request is about to take it out.
Redeemed ==
    ~overlap => \A k \in Registrations : accounts[k] # 0 =>
        /\ accounts[k] = 1
        /\ \/ stored[k] = NoEmail
           \/ \E r \in Requests : pc[r] = "forget" /\ reg[r] = k
        /\ \A r \in Requests : pc[r] = "create" => reg[r] # k

\* No photo belongs to two members.
PhotosDiffer ==
    ~overlap => \A m, n \in Rows : pic[m] = pic[n] /\ pic[m] # NoPhoto => m = n

\* The copy a request has of a row is what the row still holds; the photo it
\* uploaded is on the disk and nobody's yet, the one it replaced nobody's any more.
CopiesHold ==
    ~overlap => \A r \in Requests :
        /\ pc[r] \in {"validate", "previous", "save", "setPic", "deleteRow"} =>
               subject[r] \in Rows /\ copy[r] = pic[subject[r]]
        /\ pc[r] = "setPic" /\ new[r] # NoPhoto =>
               /\ new[r] \in files
               /\ \A m \in Rows : pic[m] # new[r]
        /\ pc[r] = "removeFile" =>
               /\ \A m \in Rows : pic[m] # copy[r]
               /\ new[r] # NoPhoto => subject[r] \in Rows /\ pic[subject[r]] = new[r]

\* The inductive invariant.
IInv ==
    /\ TypeOK
    /\ EmailsDiffer
    /\ FormsFilled
    /\ OnlyIssued
    /\ NoPhotoHeld
    /\ OneServed
    /\ Redeemed
    /\ PhotosDiffer
    /\ CopiesHold
    /\ PhotosExist
    /\ NoPhotoLeft

-------------------------------------------------------------------------------
(* What every step keeps, overlapping or not *)

\* Rows, files, registrations and locals keep their types.
LEMMA TypesKept ==
    ASSUME TypeOK, NEW r \in Requests, Add(r) \/ Update(r) \/ ChangePhoto(r) \/ Delete(r)
    PROVE  TypeOK'
<1>1. Somebody \in Members
  BY ProfilesAssumption DEF Somebody
<1> USE <1>1 DEF TypeOK, Begin, Idle, ThenRemoveFile, rowVars, storeVars, localVars, historyVars
<1>2. CASE HandleAddStaffMember(r)
  BY <1>2 DEF HandleAddStaffMember
<1>3. CASE HandleInitAddAdmin(r)
  BY <1>3 DEF HandleInitAddAdmin
<1>4. CASE HandleFinishAddAdmin(r)
  BY <1>4 DEF HandleFinishAddAdmin
<1>5. CASE Create(r)
  BY <1>5 DEF Create
<1>6. CASE CreateRefused(r)
  BY <1>6 DEF CreateRefused
<1>7. CASE Forget(r)
  BY <1>7 DEF Forget
<1>8. CASE HandleUpdateProfile(r)
  BY <1>8 DEF HandleUpdateProfile, Rows
<1>9. CASE Validate(r)
  BY <1>9 DEF Validate
<1>10. CASE FindPrevious(r)
  BY <1>10 DEF FindPrevious
<1>11. CASE Save(r)
  BY <1>11 DEF Save
<1>12. CASE HandleUploadPhoto(r)
  BY <1>12 DEF HandleUploadPhoto, Rows
<1>13. CASE HandleRemovePhoto(r)
  BY <1>13 DEF HandleRemovePhoto, Rows
<1>14. CASE SetPic(r)
  BY <1>14 DEF SetPic
<1>15. CASE RemoveFile(r)
  BY <1>15 DEF RemoveFile
<1>16. CASE HandleDelete(r)
  BY <1>16 DEF HandleDelete, Rows
<1>17. CASE DeleteRow(r)
  BY <1>17 DEF DeleteRow
<1>18. QED
  BY <1>2, <1>3, <1>4, <1>5, <1>6, <1>7, <1>8, <1>9, <1>10, <1>11,
     <1>12, <1>13, <1>14, <1>15, <1>16, <1>17 DEF Add, Update, ChangePhoto, Delete

\* An email that no other row has may be written to a row, or a row deleted.
LEMMA EmailWritten ==
    ASSUME TypeOK, EmailsDiffer, NEW m \in Members, NEW e \in Emails \cup {NoEmail},
           e # NoEmail => e \notin Taken(m), email' = [email EXCEPT ![m] = e]
    PROVE  EmailsDiffer'
<1> SUFFICES ASSUME NEW i \in Rows', NEW j \in Rows', email'[i] = email'[j]
             PROVE  i = j
  BY DEF EmailsDiffer
<1>1. \A n \in Members \ {m} : email'[n] = email[n] /\ (n \in Rows' => n \in Rows)
  BY DEF TypeOK, Rows
<1>2. email'[m] = e /\ (m \in Rows' => e # NoEmail)
  BY DEF TypeOK, Rows
<1>3. \A n \in Rows \ {m} : email[n] \in Taken(m)
  BY DEF Taken
<1>4. i \in Members /\ j \in Members
  BY DEF Rows
<1>5. CASE i # m /\ j # m
  BY <1>1, <1>4, <1>5 DEF EmailsDiffer
<1>6. CASE i = m \/ j = m
  BY <1>1, <1>2, <1>3, <1>4, <1>6
<1>7. QED
  BY <1>5, <1>6

\* Every write of an email asks the unique index.
LEMMA EmailsKept ==
    ASSUME TypeOK, EmailsDiffer, NEW r \in Requests,
           Add(r) \/ Update(r) \/ ChangePhoto(r) \/ Delete(r)
    PROVE  EmailsDiffer'
<1>1. CASE Create(r)
  <2>1. PICK m \in Members \ Rows : email' = [email EXCEPT ![m] = form[r]]
    BY <1>1 DEF Create
  <2>2. form[r] \notin Taken(m)
    BY <1>1 DEF Create, Taken, TakenEmails
  <2>3. QED
    BY <2>1, <2>2, EmailWritten DEF TypeOK
<1>2. CASE Save(r)
  <2>1. CASE form[r] \notin Taken(subject[r]) /\ email' = [email EXCEPT ![subject[r]] = form[r]]
    BY <2>1, EmailWritten DEF TypeOK
  <2>2. CASE email' = email
    BY <2>2 DEF EmailsDiffer, Rows
  <2>3. QED
    BY <1>2, <2>1, <2>2 DEF Save, rowVars
<1>3. CASE DeleteRow(r)
  <2>1. email' = [email EXCEPT ![subject[r]] = NoEmail] /\ subject[r] \in Members
    BY <1>3 DEF DeleteRow, TypeOK
  <2>2. QED
    BY <2>1, EmailWritten
<1>4. CASE email' = email
  BY <1>4 DEF EmailsDiffer, Rows
<1>5. QED
  BY <1>1, <1>2, <1>3, <1>4 DEF Add, HandleAddStaffMember, HandleInitAddAdmin, HandleFinishAddAdmin,
     CreateRefused, Forget, Update, HandleUpdateProfile, Validate, FindPrevious, ChangePhoto,
     HandleUploadPhoto, HandleRemovePhoto, SetPic, RemoveFile, Delete, HandleDelete, rowVars

\* No form goes unfilled, no nonce is used before it is issued, and only those
\* that change a photo hold one.
LEMMA LocalsKept ==
    ASSUME TypeOK, FormsFilled, OnlyIssued, NoPhotoHeld, NEW r \in Requests,
           Add(r) \/ Update(r) \/ ChangePhoto(r) \/ Delete(r)
    PROVE  FormsFilled' /\ OnlyIssued' /\ NoPhotoHeld'
<1> USE ProfilesAssumption
    DEF TypeOK, FormsFilled, OnlyIssued, NoPhotoHeld, Begin, Idle, ThenRemoveFile, rowVars,
        storeVars, localVars, historyVars
<1>1. CASE HandleAddStaffMember(r) \/ HandleInitAddAdmin(r) \/ HandleFinishAddAdmin(r)
  BY <1>1 DEF HandleAddStaffMember, HandleInitAddAdmin, HandleFinishAddAdmin
<1>2. CASE Create(r) \/ CreateRefused(r) \/ Forget(r)
  BY <1>2 DEF Create, CreateRefused, Forget
<1>3. CASE Update(r)
  BY <1>3 DEF Update, HandleUpdateProfile, Validate, FindPrevious, Save, Rows
<1>4. CASE ChangePhoto(r)
  BY <1>4 DEF ChangePhoto, HandleUploadPhoto, HandleRemovePhoto, SetPic, RemoveFile
<1>5. CASE Delete(r)
  BY <1>5 DEF Delete, HandleDelete, DeleteRow
<1>6. QED
  BY <1>1, <1>2, <1>3, <1>4, <1>5 DEF Add

\* A step of a request changes the locals of that request only, and an overlap
\* that has been is not forgotten.
LEMMA OwnLocals ==
    ASSUME TypeOK, NEW r \in Requests, Add(r) \/ Update(r) \/ ChangePhoto(r) \/ Delete(r)
    PROVE  /\ \A q \in Requests \ {r} :
                  /\ pc'[q] = pc[q] /\ subject'[q] = subject[q] /\ copy'[q] = copy[q]
                  /\ new'[q] = new[q] /\ reg'[q] = reg[q]
           /\ UNCHANGED overlap \/ Begin(r)
<1> USE DEF TypeOK, Begin, Idle, ThenRemoveFile, localVars, historyVars
<1>1. CASE Add(r)
  BY <1>1 DEF Add, HandleAddStaffMember, HandleInitAddAdmin, HandleFinishAddAdmin, Create,
     CreateRefused, Forget
<1>2. CASE Update(r)
  BY <1>2 DEF Update, HandleUpdateProfile, Validate, FindPrevious, Save
<1>3. CASE ChangePhoto(r)
  BY <1>3 DEF ChangePhoto, HandleUploadPhoto, HandleRemovePhoto, SetPic, RemoveFile
<1>4. CASE Delete(r)
  BY <1>4 DEF Delete, HandleDelete, DeleteRow
<1>5. QED
  BY <1>1, <1>2, <1>3, <1>4

\* While others are idle, an account made from a registration is the only one, and
\* the registration is out of the store but for the request that made it.
RedeemedBy(r) ==
    \A k \in Registrations : accounts[k] # 0 =>
        /\ accounts[k] = 1
        /\ stored[k] = NoEmail \/ (pc[r] = "forget" /\ reg[r] = k)
        /\ pc[r] = "create" => reg[r] # k

LEMMA RedeemedKept ==
    ASSUME TypeOK, OnlyIssued, NEW r \in Requests, RedeemedBy(r),
           Add(r) \/ Update(r) \/ ChangePhoto(r) \/ Delete(r)
    PROVE  RedeemedBy(r)'
<1> USE ProfilesAssumption
    DEF TypeOK, RedeemedBy, Begin, Idle, ThenRemoveFile, storeVars, localVars, historyVars
<1>1. CASE HandleInitAddAdmin(r)
  BY <1>1 DEF HandleInitAddAdmin, OnlyIssued
<1>2. CASE HandleAddStaffMember(r) \/ HandleFinishAddAdmin(r)
  BY <1>2 DEF HandleAddStaffMember, HandleFinishAddAdmin, OnlyIssued
<1>3. CASE Create(r) \/ CreateRefused(r) \/ Forget(r)
  BY <1>3 DEF Create, CreateRefused, Forget
<1>4. CASE Update(r)
  BY <1>4 DEF Update, HandleUpdateProfile, Validate, FindPrevious, Save
<1>5. CASE ChangePhoto(r)
  BY <1>5 DEF ChangePhoto, HandleUploadPhoto, HandleRemovePhoto, SetPic, RemoveFile
<1>6. CASE Delete(r)
  BY <1>6 DEF Delete, HandleDelete, DeleteRow
<1>7. QED
  BY <1>1, <1>2, <1>3, <1>4, <1>5, <1>6 DEF Add

\* While others are idle, rows and files agree up to the photo r is changing.
PhotosBy(r) ==
    /\ \A m, n \in Rows : pic[m] = pic[n] /\ pic[m] # NoPhoto => m = n
    /\ \A m \in Rows : pic[m] # NoPhoto => pic[m] \in files
    /\ \A f \in files : f \in {copy[r], new[r]} \/ \E m \in Rows : pic[m] = f
    /\ pc[r] \in {"validate", "previous", "save", "setPic", "deleteRow"} =>
           subject[r] \in Rows /\ copy[r] = pic[subject[r]]
    /\ pc[r] = "setPic" /\ new[r] # NoPhoto =>
           new[r] \in files /\ \A m \in Rows : pic[m] # new[r]
    /\ pc[r] = "removeFile" =>
           /\ \A m \in Rows : pic[m] # copy[r]
           /\ new[r] # NoPhoto => subject[r] \in Rows /\ pic[subject[r]] = new[r]

LEMMA PhotosKept ==
    ASSUME TypeOK, FormsFilled, NoPhotoHeld, NEW r \in Requests, PhotosBy(r),
           Add(r) \/ Update(r) \/ ChangePhoto(r) \/ Delete(r)
    PROVE  PhotosBy(r)'
<1> USE ProfilesAssumption
    DEF TypeOK, NoPhotoHeld, PhotosBy, Rows, Begin, Idle, ThenRemoveFile, rowVars, storeVars,
        localVars, historyVars
<1>1. CASE HandleAddStaffMember(r)
  BY <1>1 DEF HandleAddStaffMember
<1>2. CASE HandleInitAddAdmin(r)
  BY <1>2 DEF HandleInitAddAdmin
<1>3. CASE HandleFinishAddAdmin(r)
  BY <1>3 DEF HandleFinishAddAdmin
<1>4. CASE Create(r)
  BY <1>4 DEF Create, FormsFilled
<1>5. CASE CreateRefused(r)
  BY <1>5 DEF CreateRefused
<1>6. CASE Forget(r)
  BY <1>6 DEF Forget
<1>7. CASE HandleUpdateProfile(r)
  BY <1>7 DEF HandleUpdateProfile
<1>8. CASE Validate(r)
  BY <1>8 DEF Validate
<1>9. CASE FindPrevious(r)
  BY <1>9 DEF FindPrevious
<1>10. CASE Save(r)
  BY <1>10 DEF Save, FormsFilled
<1>11. CASE HandleUploadPhoto(r)
  BY <1>11 DEF HandleUploadPhoto
<1>12. CASE HandleRemovePhoto(r)
  BY <1>12 DEF HandleRemovePhoto
<1>13. CASE SetPic(r)
  BY <1>13 DEF SetPic
<1>14. CASE RemoveFile(r)
  BY <1>14 DEF RemoveFile
<1>15. CASE HandleDelete(r)
  BY <1>15 DEF HandleDelete
<1>16. CASE DeleteRow(r)
  BY <1>16 DEF DeleteRow
<1>17. QED
  BY <1>1, <1>2, <1>3, <1>4, <1>5, <1>6, <1>7, <1>8, <1>9, <1>10,
     <1>11, <1>12, <1>13, <1>14, <1>15, <1>16 DEF Add, Update, ChangePhoto, Delete

-------------------------------------------------------------------------------
(* The invariant *)

\* What the invariant says of requests that do not overlap, the others being idle.
LEMMA ServedAlone ==
    ASSUME IInv, ~overlap, NEW r \in Requests, \A q \in Requests \ {r} : pc[q] = "idle"
    PROVE  RedeemedBy(r) /\ PhotosBy(r)
<1>1. RedeemedBy(r)
  BY DEF IInv, Redeemed, RedeemedBy
<1>2. \A f \in files : f \in {copy[r], new[r]} \/ \E m \in Rows : pic[m] = f
  BY DEF IInv, NoPhotoLeft
<1>3. QED
  BY <1>1, <1>2 DEF IInv, PhotosDiffer, PhotosExist, CopiesHold, PhotosBy

LEMMA RequestKeepsIInv ==
    ASSUME IInv, NEW r \in Requests, Add(r) \/ Update(r) \/ ChangePhoto(r) \/ Delete(r)
    PROVE  IInv'
<1>1. TypeOK' /\ EmailsDiffer' /\ FormsFilled' /\ OnlyIssued' /\ NoPhotoHeld'
  BY TypesKept, EmailsKept, LocalsKept DEF IInv
<1>2. /\ \A q \in Requests \ {r} :
             /\ pc'[q] = pc[q] /\ subject'[q] = subject[q] /\ copy'[q] = copy[q]
             /\ new'[q] = new[q] /\ reg'[q] = reg[q]
      /\ UNCHANGED overlap \/ Begin(r)
  BY OwnLocals DEF IInv
<1>3. ~overlap' => ~overlap
  BY <1>2 DEF Begin
<1>4. CASE overlap'
  BY <1>1, <1>4
     DEF IInv, OneServed, Redeemed, PhotosDiffer, CopiesHold, RedeemedOnce, PhotosExist, NoPhotoLeft
<1>5. CASE ~overlap' /\ \A q \in Requests \ {r} : pc[q] = "idle"
  <2>1. \A q \in Requests \ {r} : pc'[q] = "idle"
    BY <1>2, <1>5
  <2>2. RedeemedBy(r)' /\ PhotosBy(r)'
    BY <1>3, <1>5, ServedAlone, RedeemedKept, PhotosKept DEF IInv
  <2>3. OneServed' /\ Redeemed'
    BY <2>1, <2>2 DEF OneServed, Redeemed, RedeemedBy
  <2>4. PhotosDiffer' /\ PhotosExist'
    BY <2>2 DEF PhotosDiffer, PhotosExist, PhotosBy
  <2>5. CopiesHold'
    BY <2>1, <2>2 DEF CopiesHold, PhotosBy
  <2>6. NoPhotoLeft'
    BY <1>1, <2>2, ProfilesAssumption DEF NoPhotoLeft, PhotosBy, NoPhotoHeld, TypeOK
  <2>7. QED
    BY <1>1, <2>3, <2>4, <2>5, <2>6 DEF IInv
<1>6. CASE HandleInitAddAdmin(r) /\ ~overlap'
  <2>1. UNCHANGED <<email, pic, files, pc, subject, copy, new, reg, accounts, overlap>>
    BY <1>6 DEF HandleInitAddAdmin, rowVars, localVars, historyVars
  <2>2. \A k \in Registrations : accounts[k] # 0 => stored'[k] = stored[k]
    BY <1>6 DEF HandleInitAddAdmin, IInv, OnlyIssued, TypeOK
  <2>3. OneServed' /\ Redeemed'
    BY <2>1, <2>2 DEF IInv, OneServed, Redeemed
  <2>4. PhotosDiffer' /\ CopiesHold' /\ PhotosExist' /\ NoPhotoLeft'
    BY <2>1 DEF IInv, PhotosDiffer, CopiesHold, PhotosExist, NoPhotoLeft, Rows
  <2>5. QED
    BY <1>1, <2>3, <2>4 DEF IInv
<1>7. ~HandleInitAddAdmin(r) /\ ~overlap' => \A q \in Requests \ {r} : pc[q] = "idle"
  <2>1. CASE pc[r] # "idle"
    BY <1>3, <2>1 DEF IInv, OneServed
  <2>2. CASE Begin(r)
    BY <2>2 DEF Begin
  <2>3. HandleInitAddAdmin(r) \/ pc[r] # "idle" \/ Begin(r)
    BY DEF Add, HandleAddStaffMember, HandleFinishAddAdmin, Create, CreateRefused, Forget, Update,
       HandleUpdateProfile, Validate, FindPrevious, Save, ChangePhoto, HandleUploadPhoto,
       HandleRemovePhoto, SetPic, RemoveFile, Delete, HandleDelete, DeleteRow
  <2>4. QED
    BY <2>1, <2>2, <2>3
<1>8. QED
  BY <1>4, <1>5, <1>6, <1>7

\* What the store forgets no request holds on to.
LEMMA ExpireKeepsIInv ==
    ASSUME IInv, NEW k \in Registrations, Expire(k)
    PROVE  IInv'
<1>1. /\ UNCHANGED <<rowVars, files, issued, localVars, historyVars>>
      /\ stored' = [stored EXCEPT ![k] = NoEmail]
  BY DEF Expire
<1>2. UNCHANGED <<email, pic, files, issued, pc, subject, form, copy, new, reg, accounts, overlap>>
  BY <1>1 DEF rowVars, localVars, historyVars
<1>3. TypeOK' /\ OnlyIssued' /\ Redeemed'
  BY <1>1, <1>2 DEF IInv, TypeOK, OnlyIssued, Redeemed
<1>4. EmailsDiffer' /\ FormsFilled' /\ NoPhotoHeld' /\ OneServed'
  BY <1>2 DEF IInv, EmailsDiffer, Rows, FormsFilled, NoPhotoHeld, OneServed
<1>5. PhotosDiffer' /\ CopiesHold' /\ PhotosExist' /\ NoPhotoLeft'
  BY <1>2 DEF IInv, PhotosDiffer, CopiesHold, PhotosExist, NoPhotoLeft, Rows
<1>6. QED
  BY <1>3, <1>4, <1>5 DEF IInv

LEMMA InitEstablishesIInv == Init => IInv
<1> SUFFICES ASSUME Init PROVE IInv
  OBVIOUS
<1>1. Somebody \in Members
  BY ProfilesAssumption DEF Somebody
<1>2. TypeOK
  <2>1. /\ email \in [Members -> Emails \cup {NoEmail}]
        /\ pic \in [Members -> Photos \cup {NoPhoto}]
        /\ files \in SUBSET Photos
        /\ stored \in [Registrations -> Emails \cup {NoEmail}]
        /\ issued \in SUBSET Registrations
    BY DEF Init
  <2>2. accounts \in [Registrations -> 0..2]
    BY DEF Init
  <2>3. /\ subject \in [Requests -> Members]
        /\ form \in [Requests -> Emails \cup {NoEmail}]
        /\ copy \in [Requests -> Photos \cup {NoPhoto}]
        /\ new \in [Requests -> Photos \cup {NoPhoto}]
        /\ reg \in [Requests -> Registrations \cup {NoRegistration}]
    BY <1>1 DEF Init
  <2>4. QED
    BY <2>1, <2>2, <2>3 DEF Init, TypeOK
<1>3. EmailsDiffer
  BY DEF Init, EmailsDiffer, Taken, Rows
<1>4. FormsFilled /\ OnlyIssued /\ NoPhotoHeld /\ OneServed /\ Redeemed
  BY DEF Init, FormsFilled, OnlyIssued, NoPhotoHeld, OneServed, Redeemed
<1>5. PhotosDiffer /\ CopiesHold /\ PhotosExist /\ NoPhotoLeft
  BY DEF Init, PhotosDiffer, CopiesHold, PhotosExist, NoPhotoLeft, Rows
<1>6. QED
  BY <1>2, <1>3, <1>4, <1>5 DEF IInv

LEMMA NextKeepsIInv == IInv /\ [Next]_vars => IInv'
<1> SUFFICES ASSUME IInv, [Next]_vars PROVE IInv'
  OBVIOUS
<1>1. ASSUME NEW r \in Requests, Add(r) \/ Update(r) \/ ChangePhoto(r) \/ Delete(r) PROVE IInv'
  BY <1>1, RequestKeepsIInv
<1>2. ASSUME NEW k \in Registrations, Expire(k) PROVE IInv'
  BY <1>2, ExpireKeepsIInv
<1>3. CASE UNCHANGED vars
  <2>1. UNCHANGED <<email, pic, files, stored, issued, pc, subject, form, copy, new, reg,
                    accounts, overlap>>
    BY <1>3 DEF vars, rowVars, storeVars, localVars, historyVars
  <2>2. /\ TypeOK' /\ OnlyIssued' /\ Redeemed' /\ EmailsDiffer'
        /\ FormsFilled' /\ NoPhotoHeld' /\ OneServed'
    BY <2>1 DEF IInv, TypeOK, OnlyIssued, Redeemed, EmailsDiffer, Rows, FormsFilled, NoPhotoHeld,
       OneServed
  <2>3. PhotosDiffer' /\ CopiesHold' /\ PhotosExist' /\ NoPhotoLeft'
    BY <2>1 DEF IInv, PhotosDiffer, CopiesHold, PhotosExist, NoPhotoLeft, Rows
  <2>4. QED
    BY <2>2, <2>3 DEF IInv
<1>4. QED
  BY <1>1, <1>2, <1>3 DEF Next

\* The invariant holds in every reachable state.
LEMMA Invariance == Spec => []IInv
<1>1. QED
  BY InitEstablishesIInv, NextKeepsIInv, PTL DEF Spec

-------------------------------------------------------------------------------
(* Theorems *)

\* Every variable keeps its type, for any members, photos, registrations, requests.
THEOREM TypeCorrect == Spec => []TypeOK
<1>1. IInv => TypeOK
  BY DEF IInv
<1>2. QED
  BY <1>1, Invariance, PTL

\* However requests overlap, no two members come to share an email: the handlers'
\* own look-ups do not see to that, the unique index does.
THEOREM EmailsStayUnique == Spec => []EmailsDiffer
<1>1. IInv => EmailsDiffer
  BY DEF IInv
<1>2. QED
  BY <1>1, Invariance, PTL

\* Requests that do not overlap make one account at most from a registration.
THEOREM RegistrationsMakeOneAccount == Spec => []RedeemedOnce
<1>1. IInv => RedeemedOnce
  BY DEF IInv, TypeOK, Redeemed, RedeemedOnce
<1>2. QED
  BY <1>1, Invariance, PTL

\* Requests that do not overlap leave no row that names a photo the disk lacks, and
\* no photo on the disk that no row names.
THEOREM RowsAndPhotosAgree == Spec => []PhotosMatchRows
<1>1. IInv => PhotosMatchRows
  BY DEF IInv, PhotosMatchRows
<1>2. QED
  BY <1>1, Invariance, PTL
===============================================================================
