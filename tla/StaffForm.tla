------------------------------ MODULE StaffForm -------------------------------
(***************************************************************************)
(* The form in which an admin edits a staff member, reached from the rows  *)
(* of the list: the member's id and photo in its inputs, the widgets around *)
(* the photo, and the dialog that changes the password.  The text fields   *)
(* are set with the id and left out.  No other admin changes photos.       *)
(***************************************************************************)
EXTENDS Naturals, Sequences, SequencesExt

CONSTANTS
    Members,    \* the staff members of the list
    NoMember,   \* an empty #edit-member-id
    Photos,     \* names of photo files
    NoPhoto,    \* an empty #edit-hidden-profile, or profile_pic
    MaxSent     \* bound: requests of the form under way at once

ASSUME StaffFormAssumption ==
    /\ NoMember \notin Members
    /\ NoPhoto \notin Photos
    /\ MaxSent \in Nat \ {0}

VARIABLES
    photo,      \* the server's staffs.profile_pic
    editing,    \* whether the form shows, and not the list
    form,       \* its id and hidden photo, whether it has a body and which widgets
    prompting,  \* whether the password dialog is open
    promptFor,  \* the id its text names
    changing,   \* whether its button is disabled
    sent,       \* the requests under way
    mixed,      \* history: requests have overlapped, an answer was lost or a login page
    widgetStuck,\* history: an upload was answered as one to a session that is over
    misdirected \* history: a password change went to another member than the text named

formScript == <<editing, form, widgetStuck, prompting, promptFor, changing, mixed, misdirected>>
formVars == <<photo, sent, formScript>>

StaffFormInit ==
    /\ photo = [m \in Members |-> NoPhoto]
    /\ editing = FALSE
    /\ form = [id |-> NoMember, hidden |-> NoPhoto, body |-> TRUE,
               upload |-> TRUE, remove |-> FALSE, reload |-> FALSE]
    /\ prompting = FALSE
    /\ promptFor = NoMember
    /\ changing = FALSE
    /\ sent = <<>>
    /\ mixed = FALSE
    /\ widgetStuck = FALSE
    /\ misdirected = FALSE

\* A file name of its own for every upload.
FreshPhotos == Photos \ ({photo[m] : m \in Members} \cup {form.hidden} \cup {sent[i].file : i \in DOMAIN sent})

\* What was mixed up stays so until the next form opens with nothing under way.
SendForm(op, m, again) ==
    /\ Len(sent) < MaxSent
    /\ sent' = Append(sent, [op |-> op, id |-> m, done |-> FALSE, file |-> NoPhoto])
    /\ mixed' = ((mixed /\ ~again) \/ sent # <<>>)

Usable == editing /\ form.body /\ ~prompting
SetForm(f) == form' = f /\ widgetStuck' = (widgetStuck /\ ~f.upload)
CleanFrame(f) == [f EXCEPT !.remove = FALSE, !.reload = FALSE]

-------------------------------------------------------------------------------
(* What the admin does. *)

\* Faulty: the hidden photo of the last member stays.
InitEditStaffKeepingPhoto(m) ==
    /\ ~editing /\ ~prompting
    /\ editing' = TRUE
    /\ SetForm([CleanFrame(form) EXCEPT !.id = NoMember, !.body = TRUE])
    /\ SendForm("get", m, TRUE)
    /\ UNCHANGED <<photo, prompting, promptFor, changing, misdirected>>

\* Everything but the upload widget is reset before the member is asked for.
InitEditStaff(m) ==
    /\ ~editing /\ ~prompting
    /\ editing' = TRUE
    /\ SetForm([CleanFrame(form) EXCEPT !.id = NoMember, !.hidden = NoPhoto, !.body = TRUE])
    /\ SendForm("get", m, TRUE)
    /\ UNCHANGED <<photo, prompting, promptFor, changing, misdirected>>

InitSearchStaff ==
    /\ editing
    /\ editing' = FALSE
    /\ UNCHANGED <<photo, form, prompting, promptFor, changing, sent, mixed, widgetStuck, misdirected>>

EditPreviewPhoto ==
    /\ Usable /\ form.upload
    /\ SetForm([form EXCEPT !.upload = FALSE, !.remove = FALSE])
    /\ SendForm("upload", form.id, FALSE)
    /\ UNCHANGED <<photo, editing, prompting, promptFor, changing, misdirected>>

EditRemovePhoto ==
    /\ Usable /\ form.remove
    /\ IF form.hidden # NoPhoto
       THEN /\ SetForm([form EXCEPT !.upload = FALSE, !.remove = FALSE])
            /\ SendForm("remove", form.id, FALSE)
       ELSE /\ SetForm([CleanFrame(form) EXCEPT !.upload = TRUE])
            /\ UNCHANGED <<sent, mixed>>
    /\ UNCHANGED <<photo, editing, prompting, promptFor, changing, misdirected>>

EditReloadPhoto ==
    /\ Usable /\ form.reload
    /\ SetForm([CleanFrame(form) EXCEPT !.upload = TRUE, !.remove = form.hidden # NoPhoto])
    /\ UNCHANGED <<photo, editing, prompting, promptFor, changing, sent, mixed, misdirected>>

InitEditChangePassword ==
    /\ Usable
    /\ prompting' = TRUE
    /\ promptFor' = form.id
    /\ UNCHANGED <<photo, editing, form, widgetStuck, changing, sent, mixed, misdirected>>

DismissPrompt ==
    /\ prompting
    /\ prompting' = FALSE
    /\ promptFor' = NoMember
    /\ UNCHANGED <<photo, editing, form, widgetStuck, changing, sent, mixed, misdirected>>

\* With fields that pass the checks.  The id is read from the form, once more.
ChangeStaffPassword ==
    /\ prompting /\ ~changing
    /\ changing' = TRUE
    /\ misdirected' = (misdirected \/ promptFor \notin {NoMember, form.id})
    /\ SendForm("password", form.id, FALSE)
    /\ UNCHANGED <<photo, editing, form, widgetStuck, prompting, promptFor>>

-------------------------------------------------------------------------------
(* The server, and answers in any order. *)

WorkOff(i, f) == sent' = [sent EXCEPT ![i] = [@ EXCEPT !.done = TRUE, !.file = f]]

\* A path without an id leads nowhere.
HandleForm(i) ==
    /\ i \in DOMAIN sent /\ ~sent[i].done /\ sent[i].id \in Members
    /\ LET m == sent[i].id
       IN  \/ /\ sent[i].op = "upload"
              /\ \E f \in FreshPhotos : photo' = [photo EXCEPT ![m] = f] /\ WorkOff(i, f)
           \/ sent[i].op = "remove" /\ photo' = [photo EXCEPT ![m] = NoPhoto] /\ WorkOff(i, NoPhoto)
           \/ sent[i].op = "get" /\ photo' = photo /\ WorkOff(i, photo[m])
           \/ sent[i].op = "password" /\ photo' = photo /\ WorkOff(i, NoPhoto)
    /\ UNCHANGED formScript

FormSuccess(i) ==
    /\ i \in DOMAIN sent /\ sent[i].done
    /\ sent' = RemoveAt(sent, i)
    /\ UNCHANGED <<photo, editing, mixed, misdirected>>

\* Only a member with a photo has its name put into the hidden input.
Got(i) ==
    LET a == sent[i]
    IN  /\ FormSuccess(i)
        /\ a.op = "get"
        /\ SetForm([form EXCEPT !.id = a.id, !.remove = a.file # NoPhoto,
                                !.hidden = IF a.file # NoPhoto THEN a.file ELSE form.hidden])
        /\ UNCHANGED <<prompting, promptFor, changing>>

Uploaded(i) ==
    /\ FormSuccess(i)
    /\ sent[i].op = "upload"
    /\ SetForm([CleanFrame(form) EXCEPT !.remove = TRUE, !.upload = TRUE, !.hidden = sent[i].file])
    /\ UNCHANGED <<prompting, promptFor, changing>>

PhotoGone(f) == [CleanFrame(f) EXCEPT !.upload = TRUE, !.hidden = NoPhoto]

Removed(i) ==
    /\ FormSuccess(i)
    /\ sent[i].op = "remove"
    /\ SetForm(PhotoGone(form))
    /\ UNCHANGED <<prompting, promptFor, changing>>

ClosePrompt == changing' = FALSE /\ prompting' = FALSE /\ promptFor' = NoMember

PasswordChanged(i) ==
    /\ FormSuccess(i)
    /\ sent[i].op = "password"
    /\ ClosePrompt
    /\ UNCHANGED <<form, widgetStuck>>

\* The session is over and the server does nothing: an empty success, which removal and
\* password change take for theirs; the login page, and the plain text of an upload's
\* refusal, are no JSON and leave the form as it is.
FormSignedOut(i) ==
    LET op == sent[i].op
    IN  /\ i \in DOMAIN sent /\ ~sent[i].done /\ sent[i].id \in Members
        /\ sent' = RemoveAt(sent, i)
        /\ mixed' = (mixed \/ op # "password")
        /\ CASE op = "get" -> UNCHANGED <<form, widgetStuck>>
             [] op = "upload" -> form' = form /\ widgetStuck' = ~form.upload
             [] op = "remove" -> SetForm(PhotoGone(form))
             [] op = "password" -> UNCHANGED <<form, widgetStuck>>
        /\ IF op = "password" THEN ClosePrompt ELSE UNCHANGED <<prompting, promptFor, changing>>
        /\ UNCHANGED <<photo, editing, misdirected>>

\* A refusal, or a request or an answer that was lost.
FormError(i) ==
    LET op == sent[i].op
    IN  /\ i \in DOMAIN sent
        /\ sent' = RemoveAt(sent, i)
        /\ mixed' = (mixed \/ (sent[i].done /\ op \in {"upload", "remove"}))
        /\ SetForm(CASE op = "get" -> [form EXCEPT !.body = FALSE]
                      [] op = "upload" -> [CleanFrame(form) EXCEPT !.reload = TRUE, !.upload = TRUE]
                      [] op = "remove" -> [CleanFrame(form) EXCEPT !.upload = TRUE, !.remove = TRUE]
                      [] op = "password" -> form)
        /\ changing' = (changing /\ op # "password")
        /\ UNCHANGED <<photo, editing, prompting, promptFor, misdirected>>

StaffFormNext ==
    \/ \E m \in Members : InitEditStaff(m)
    \/ InitSearchStaff
    \/ EditPreviewPhoto
    \/ EditRemovePhoto
    \/ EditReloadPhoto
    \/ InitEditChangePassword
    \/ DismissPrompt
    \/ ChangeStaffPassword
    \/ \E i \in 1 .. MaxSent :
        \/ HandleForm(i) \/ Got(i) \/ Uploaded(i) \/ Removed(i) \/ PasswordChanged(i)
        \/ FormSignedOut(i) \/ FormError(i)

-------------------------------------------------------------------------------
(* Properties. *)

StaffFormTypeOK ==
    /\ photo \in [Members -> Photos \cup {NoPhoto}]
    /\ form \in [id : Members \cup {NoMember}, hidden : Photos \cup {NoPhoto}, body : BOOLEAN,
                 upload : BOOLEAN, remove : BOOLEAN, reload : BOOLEAN]
    /\ promptFor \in Members \cup {NoMember}
    /\ {editing, prompting, changing, mixed, widgetStuck, misdirected} \subseteq BOOLEAN
    /\ Len(sent) <= MaxSent

\* When no answer is due, and requests have not overlapped nor their answers been lost
\* or a login page, the form can be used: it holds the photo the server has for the
\* member it names, one that is there can be removed, if need be after "Reload", and
\* one can be chosen unless an upload was ever answered to a session that was over --
\* after successes, refusals and lost requests alike.
PhotoMatchesMember ==
    sent = <<>> /\ ~mixed /\ editing /\ form.body =>
        /\ form.id \in Members
        /\ form.hidden = photo[form.id]
        /\ form.upload \/ widgetStuck
        /\ (form.remove \/ form.reload) \/ form.hidden = NoPhoto
        /\ form.remove => form.hidden # NoPhoto

\* When the password dialog names a member, it changes the password of that
\* member: "Are you sure you want to change the password of the selected staff
\* member with ID".
PasswordOfNamed == ~misdirected

-------------------------------------------------------------------------------
===============================================================================
