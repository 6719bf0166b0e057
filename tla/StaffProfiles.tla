---------------------------- MODULE StaffProfiles -----------------------------
(***************************************************************************)
(* What the rows of staffs hold: the email address, which two members may  *)
(* not share, and the name of a photo file on the disk; and the admin      *)
(* registrations that wait in the token store for their one-time password. *)
(* Who may come in is the subject of StaffSessions.  The email stands for  *)
(* the phone number too, which is treated alike.  Every request is a       *)
(* goroutine; a step is a statement, or several that no other request can  *)
(* tell apart.  Statements that fail for want of a database are left out.  *)
(***************************************************************************)
EXTENDS Naturals

CONSTANTS
    Members,        \* ids of staff members
    Founders,       \* those the database is set up with
    Emails,         \* email addresses
    NoEmail,        \* no row
    Photos,         \* names of photo files
    NoPhoto,        \* the empty profile_pic
    Registrations,  \* nonces of admin registrations, never used twice
    NoRegistration, \* not a registration
    Requests        \* goroutines that serve requests

ASSUME ProfilesAssumption ==
    /\ Members # {} /\ Founders \subseteq Members
    /\ NoEmail \notin Emails
    /\ NoPhoto \notin Photos
    /\ NoRegistration \notin Registrations

VARIABLES
    email,      \* staffs.email, NoEmail for an id without a row
    pic,        \* staffs.profile_pic
    files,      \* the photo files on the disk
    stored,     \* the email of a registration in the token store, else NoEmail
    issued,     \* the registrations begun so far
    pc,         \* where each request is
    subject,    \* the member it works on
    form,       \* the email it was given
    copy,       \* the photo name it read from the row
    new,        \* the photo name it is about to write
    reg,        \* the registration it redeems
    accounts,   \* history: accounts made from a registration, two standing for more
    overlap     \* history: whether two requests have been under way at once

rowVars == <<email, pic>>
storeVars == <<stored, issued>>
localVars == <<pc, subject, form, copy, new, reg>>
historyVars == <<accounts, overlap>>
vars == <<rowVars, files, storeVars, localVars, historyVars>>

Rows == {m \in Members : email[m] # NoEmail}
Taken(m) == {email[n] : n \in Rows \ {m}}
TakenEmails == {email[n] : n \in Rows}

\* The bound on members: a request that adds one starts while an id is left.
IdsLeft == Rows # Members

Somebody == CHOOSE m \in Members : TRUE
Idle(r) ==
    /\ pc' = [pc EXCEPT ![r] = "idle"]
    /\ subject' = [subject EXCEPT ![r] = Somebody]
    /\ form' = [form EXCEPT ![r] = NoEmail]
    /\ copy' = [copy EXCEPT ![r] = NoPhoto]
    /\ new' = [new EXCEPT ![r] = NoPhoto]
    /\ reg' = [reg EXCEPT ![r] = NoRegistration]

\* A request comes in.
Begin(r) ==
    /\ pc[r] = "idle"
    /\ overlap' = (overlap \/ \E q \in Requests : pc[q] # "idle")

Init ==
    /\ email \in [Members -> Emails \cup {NoEmail}]
    /\ Rows = Founders
    /\ \A m \in Rows : email[m] \notin Taken(m)
    /\ pic = [m \in Members |-> NoPhoto]
    /\ files = {}
    /\ stored = [k \in Registrations |-> NoEmail]
    /\ issued = {}
    /\ pc = [r \in Requests |-> "idle"]
    /\ subject = [r \in Requests |-> Somebody]
    /\ form = [r \in Requests |-> NoEmail]
    /\ copy = [r \in Requests |-> NoPhoto]
    /\ new = [r \in Requests |-> NoPhoto]
    /\ reg = [r \in Requests |-> NoRegistration]
    /\ accounts = [k \in Registrations |-> 0]
    /\ overlap = FALSE
-------------------------------------------------------------------------------
(* Adding members *)

\* HandleAddStaffMember up to the validation: the email is nobody's yet.
HandleAddStaffMember(r) ==
    /\ Begin(r) /\ IdsLeft
    /\ \E e \in Emails \ TakenEmails : form' = [form EXCEPT ![r] = e]
    /\ pc' = [pc EXCEPT ![r] = "create"]
    /\ UNCHANGED <<rowVars, files, storeVars, subject, copy, new, reg, accounts>>

\* HandleInitAddAdmin: validated, mailed, and put into the store under a nonce
\* that the client learns only now.
HandleInitAddAdmin(r) ==
    /\ pc[r] = "idle"
    /\ \E e \in Emails \ TakenEmails, k \in Registrations \ issued :
        /\ stored' = [stored EXCEPT ![k] = e]
        /\ issued' = issued \cup {k}
    /\ UNCHANGED <<rowVars, files, localVars, historyVars>>

\* The store forgets after 24 hours.
Expire(k) ==
    /\ stored[k] # NoEmail
    /\ stored' = [stored EXCEPT ![k] = NoEmail]
    /\ UNCHANGED <<rowVars, files, issued, localVars, historyVars>>

\* HandleFinishAddAdmin: its two Gets, which find both entries or neither.
HandleFinishAddAdmin(r) ==
    /\ Begin(r) /\ IdsLeft
    /\ \E k \in Registrations :
        /\ stored[k] # NoEmail
        /\ form' = [form EXCEPT ![r] = stored[k]]
        /\ reg' = [reg EXCEPT ![r] = k]
    /\ pc' = [pc EXCEPT ![r] = "create"]
    /\ UNCHANGED <<rowVars, files, storeVars, subject, copy, new, accounts>>

\* Faulty: the column email has no unique index.
CreateUnchecked(r) ==
    /\ pc[r] = "create"
    /\ \E m \in Members \ Rows :
        /\ email' = [email EXCEPT ![m] = form[r]]
        /\ pic' = [pic EXCEPT ![m] = NoPhoto]
    /\ Idle(r)
    /\ UNCHANGED <<files, storeVars, historyVars>>

\* StaffRepository.Create, under an id that no row has; the unique index of
\* the table refuses an email that was taken since the validation.
Create(r) ==
    /\ pc[r] = "create"
    /\ form[r] \notin TakenEmails
    /\ \E m \in Members \ Rows :
        /\ email' = [email EXCEPT ![m] = form[r]]
        /\ pic' = [pic EXCEPT ![m] = NoPhoto]
    /\ \/ reg[r] = NoRegistration /\ Idle(r) /\ UNCHANGED accounts
       \/ /\ reg[r] # NoRegistration
          /\ pc' = [pc EXCEPT ![r] = "forget"]
          /\ accounts' = [accounts EXCEPT ![reg[r]] = IF @ = 0 THEN 1 ELSE 2]
          /\ UNCHANGED <<subject, form, copy, new, reg>>
    /\ UNCHANGED <<files, storeVars, overlap>>

\* Its refusal; the registration stays in the store.
CreateRefused(r) ==
    /\ pc[r] = "create"
    /\ form[r] \in TakenEmails
    /\ Idle(r)
    /\ UNCHANGED <<rowVars, files, storeVars, historyVars>>

\* Faulty: the entries are left to expire.
ForgetNothing(r) ==
    /\ pc[r] = "forget"
    /\ Idle(r)
    /\ UNCHANGED <<rowVars, files, storeVars, historyVars>>

\* HandleFinishAddAdmin cleans the store.
Forget(r) ==
    /\ pc[r] = "forget"
    /\ stored' = [stored EXCEPT ![reg[r]] = NoEmail]
    /\ Idle(r)
    /\ UNCHANGED <<rowVars, files, issued, historyVars>>
-------------------------------------------------------------------------------
(* Changing a profile *)

\* The row comes from FindStaffMember, or from Authorization for the member's
\* own profile; the form brings the email, the photo name stays in the copy.
HandleUpdateProfile(r) ==
    /\ Begin(r)
    /\ \E m \in Rows, e \in Emails :
        /\ subject' = [subject EXCEPT ![r] = m]
        /\ form' = [form EXCEPT ![r] = e]
        /\ copy' = [copy EXCEPT ![r] = pic[m]]
    /\ pc' = [pc EXCEPT ![r] = "validate"]
    /\ UNCHANGED <<rowVars, files, storeVars, new, reg, accounts>>

\* ValidateStaffMemberProfile: a new email must be nobody's.
Validate(r) ==
    /\ pc[r] = "validate"
    /\ \/ /\ subject[r] \in Rows
          /\ form[r] = email[subject[r]] \/ form[r] \notin TakenEmails
          /\ pc' = [pc EXCEPT ![r] = "previous"]
          /\ UNCHANGED <<subject, form, copy, new, reg>>
       \/ /\ subject[r] \in Rows =>
                form[r] # email[subject[r]] /\ form[r] \in TakenEmails
          /\ Idle(r)
    /\ UNCHANGED <<rowVars, files, storeVars, historyVars>>

\* StaffRepository.Update, its look-up: an empty photo name is filled in.
FindPrevious(r) ==
    /\ pc[r] = "previous"
    /\ \/ /\ subject[r] \in Rows
          /\ copy' = [copy EXCEPT ![r] = IF @ = NoPhoto THEN pic[subject[r]] ELSE @]
          /\ pc' = [pc EXCEPT ![r] = "save"]
          /\ UNCHANGED <<subject, form, new, reg>>
       \/ subject[r] \notin Rows /\ Idle(r)
    /\ UNCHANGED <<rowVars, files, storeVars, historyVars>>

\* Its Save writes the row whole, or inserts it; the unique index refuses an
\* email another row has.
Save(r) ==
    /\ pc[r] = "save"
    /\ \/ /\ form[r] \notin Taken(subject[r])
          /\ email' = [email EXCEPT ![subject[r]] = form[r]]
          /\ pic' = [pic EXCEPT ![subject[r]] = copy[r]]
       \/ form[r] \in Taken(subject[r]) /\ UNCHANGED rowVars
    /\ Idle(r)
    /\ UNCHANGED <<files, storeVars, historyVars>>
-------------------------------------------------------------------------------
(* Photos and deletion *)

\* HandleUploadPhoto, HandleUploadStaffMemberPhoto: the photo name is read from
\* the row and the upload written under a new one.
HandleUploadPhoto(r) ==
    /\ Begin(r)
    /\ \E m \in Rows, f \in Photos \ files :
        /\ subject' = [subject EXCEPT ![r] = m]
        /\ copy' = [copy EXCEPT ![r] = pic[m]]
        /\ files' = files \cup {f}
        /\ new' = [new EXCEPT ![r] = f]
    /\ pc' = [pc EXCEPT ![r] = "setPic"]
    /\ UNCHANGED <<rowVars, storeVars, form, reg, accounts>>

\* HandleRemovePhoto, HandleRemoveStaffMemberPhoto.
HandleRemovePhoto(r) ==
    /\ Begin(r)
    /\ \E m \in Rows :
        /\ subject' = [subject EXCEPT ![r] = m]
        /\ copy' = [copy EXCEPT ![r] = pic[m]]
    /\ pc' = [pc EXCEPT ![r] = "setPic"]
    /\ UNCHANGED <<rowVars, files, storeVars, form, new, reg, accounts>>

\* Faulty: the request ends and the old file stays.
ThenKeepFile(r) == Idle(r)

\* The file of the copy is dealt with last, when there is one.
ThenRemoveFile(r) ==
    \/ /\ copy[r] # NoPhoto
       /\ pc' = [pc EXCEPT ![r] = "removeFile"]
       /\ UNCHANGED <<subject, form, copy, new, reg>>
    \/ copy[r] = NoPhoto /\ Idle(r)

\* Faulty: the value is written to the wrong column.
SetPicInEmail(r) ==
    /\ pc[r] = "setPic"
    /\ email' = [email EXCEPT ![subject[r]] = new[r]]
    /\ Idle(r)
    /\ UNCHANGED <<pic, files, storeVars, historyVars>>

\* UpdateStaffMemberSingleValue of profile_pic, for a row that is still there.
SetPic(r) ==
    /\ pc[r] = "setPic"
    /\ \/ /\ subject[r] \in Rows
          /\ pic' = [pic EXCEPT ![subject[r]] = new[r]]
          /\ ThenRemoveFile(r)
       \/ subject[r] \notin Rows /\ Idle(r) /\ UNCHANGED pic
    /\ UNCHANGED <<email, files, storeVars, historyVars>>

\* DeleteStaffMember: the row is looked up for its photo name.
HandleDelete(r) ==
    /\ Begin(r)
    /\ \E m \in Rows :
        /\ subject' = [subject EXCEPT ![r] = m]
        /\ copy' = [copy EXCEPT ![r] = pic[m]]
    /\ pc' = [pc EXCEPT ![r] = "deleteRow"]
    /\ UNCHANGED <<rowVars, files, storeVars, form, new, reg, accounts>>

\* Its DELETE; password and sessions are deleted elsewhere in the model.
DeleteRow(r) ==
    /\ pc[r] = "deleteRow"
    /\ email' = [email EXCEPT ![subject[r]] = NoEmail]
    /\ pic' = [pic EXCEPT ![subject[r]] = NoPhoto]
    /\ ThenRemoveFile(r)
    /\ UNCHANGED <<files, storeVars, historyVars>>

\* Faulty: the row's photo of now is removed, which is the new one.
RemoveFileOfRow(r) ==
    /\ pc[r] = "removeFile"
    /\ files' = files \ {pic[subject[r]]}
    /\ Idle(r)
    /\ UNCHANGED <<rowVars, storeVars, historyVars>>

\* RemoveFile of the photo the request read.
RemoveFile(r) ==
    /\ pc[r] = "removeFile"
    /\ files' = files \ {copy[r]}
    /\ Idle(r)
    /\ UNCHANGED <<rowVars, storeVars, historyVars>>
-------------------------------------------------------------------------------

Add(r) ==
    \/ HandleAddStaffMember(r) \/ HandleInitAddAdmin(r) \/ HandleFinishAddAdmin(r)
    \/ Create(r) \/ CreateRefused(r) \/ Forget(r)
Update(r) == HandleUpdateProfile(r) \/ Validate(r) \/ FindPrevious(r) \/ Save(r)
ChangePhoto(r) == HandleUploadPhoto(r) \/ HandleRemovePhoto(r) \/ SetPic(r) \/ RemoveFile(r)
Delete(r) == HandleDelete(r) \/ DeleteRow(r)

Next ==
    \/ \E r \in Requests : Add(r) \/ Update(r) \/ ChangePhoto(r) \/ Delete(r)
    \/ \E k \in Registrations : Expire(k)

Spec == Init /\ [][Next]_vars
-------------------------------------------------------------------------------
(* Properties *)

TypeOK ==
    /\ email \in [Members -> Emails \cup {NoEmail}]
    /\ pic \in [Members -> Photos \cup {NoPhoto}]
    /\ files \in SUBSET Photos
    /\ stored \in [Registrations -> Emails \cup {NoEmail}]
    /\ issued \in SUBSET Registrations
    /\ pc \in [Requests -> {"idle", "create", "forget", "validate", "previous",
                            "save", "setPic", "deleteRow", "removeFile"}]
    /\ subject \in [Requests -> Members]
    /\ form \in [Requests -> Emails \cup {NoEmail}]
    /\ copy \in [Requests -> Photos \cup {NoPhoto}]
    /\ new \in [Requests -> Photos \cup {NoPhoto}]
    /\ reg \in [Requests -> Registrations \cup {NoRegistration}]
    /\ accounts \in [Registrations -> 0..2]
    /\ overlap \in BOOLEAN

\* No two members share an email, by which HandleLogin finds them, although
\* every handler checks it and writes it in separate statements.
EmailsDiffer == \A m, n \in Rows : email[m] = email[n] => m = n

\* As long as no two requests have overlapped, a registration has made one
\* account at most, also when its code is sent again after that account has
\* changed its email or is gone.
RedeemedOnce == ~overlap => \A k \in Registrations : accounts[k] <= 1

\* A photo that a row names is on the disk.
PhotosExist == ~overlap => \A m \in Rows : pic[m] # NoPhoto => pic[m] \in files

\* A photo on the disk is named by a row, or by the request that is uploading or
\* replacing it.
NoPhotoLeft ==
    ~overlap => \A f \in files :
        \/ \E m \in Rows : pic[m] = f
        \/ \E r \in Requests : pc[r] # "idle" /\ f \in {copy[r], new[r]}

\* As long as no two requests have overlapped, the photos on the disk are those that
\* the rows name: none is missing, and none is left behind but by the request that is
\* putting it in or throwing it out.
PhotosMatchRows == PhotosExist /\ NoPhotoLeft
===============================================================================
