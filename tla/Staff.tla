-------------------------------- MODULE Staff --------------------------------
(* A postman's record, picture and login, and the administrators' requests  *)
(* that change them: postmen.routes.ts, users.routes.ts, postman.service.ts *)
(* and the pictures of imageStorage.ts. A request awaits the database or    *)
(* the disk between its steps, and others run meanwhile. What names the     *)
(* postman elsewhere - parcels, attempts, fixes - comes and goes beside it. *)
EXTENDS Naturals

CONSTANTS
    Requests,
    MaxPhotos,      \* bound: pictures ever uploaded
    Worlds          \* what may happen: sets of WorldEvents, one per behaviour

\* Requests overlap, work is handed out and done while they run, the database
\* refuses, the server stops, a super administrator uses the accounts page, the
\* postman signs in.
WorldEvents == {"overlap", "busy", "refusals", "stops", "accounts", "signIns"}

VARIABLES
    postman,    \* the row: whether it is there, its status and picture
    login,      \* the User row linked to it, whether a refresh token of it is live, what
                \* is under way to issue one, and a history: see "Sign-in and renewal"
    named,      \* the tables in which a row names the postman
    severed,    \* history: the tables in which such a row lost the name
    files,      \* pictures in the folder
    uploads,    \* number of the last picture saved
    requests,   \* each request: what it does, its step, what it has read
    world       \* what may happen in this behaviour; it never changes

vars == <<postman, login, named, severed, files, uploads, requests, world>>
records == <<named, severed>>
pictures == <<files, uploads>>

NoPhoto == 0
Statuses == {"ACTIVE", "INACTIVE", "ON_LEAVE"}
Tables == {"Delivery", "DeliveryAttempt", "DeliveryAssignmentHistory", "PostmanLocationHistory"}
Required == {"PostmanLocationHistory"}      \* the column may not become null
NewLogin(status) ==
    [exists |-> TRUE, status |-> status, signedIn |-> FALSE, asking |-> "nothing", overtaken |-> FALSE]
NoLogin == [NewLogin("INACTIVE") EXCEPT !.exists = FALSE]
Idle == [op |-> "none", step |-> "idle", photo |-> NoPhoto, url |-> NoPhoto, status |-> "ACTIVE"]

TypeOK ==
    /\ postman \in [exists : BOOLEAN, status : Statuses, photo : 0..uploads]
    /\ login \in [exists : BOOLEAN, status : {"ACTIVE", "INACTIVE"}, signedIn : BOOLEAN,
                  asking : {"nothing", "signIn", "renewal"}, overtaken : BOOLEAN]
    /\ named \subseteq Tables /\ severed \subseteq Tables \cup {"User"}
    /\ uploads \in 0..MaxPhotos /\ files \subseteq 1..uploads
    /\ \A r \in Requests : {requests[r].photo, requests[r].url} \subseteq 0..uploads

InitIn(w) ==
    /\ world = w
    /\ postman = [exists |-> TRUE, status |-> "ACTIVE", photo |-> NoPhoto]
    /\ login = NoLogin /\ named = {} /\ severed = {}
    /\ files = {} /\ uploads = 0
    /\ requests = [r \in Requests |-> Idle]
Init == \E w \in Worlds : InitIn(w)

----------------------------------------------------------------------------
\* Requests

Quiet == \A r \in Requests : requests[r] = Idle
May(event) == event \in world

\* A request begins by reading the postman: one that is gone is not found.
Begin(r, op) ==
    /\ requests[r] = Idle /\ postman.exists
    /\ Quiet \/ May("overlap")
    /\ requests' = [requests EXCEPT ![r] =
                        [Idle EXCEPT !.op = op, !.step = "read", !.photo = postman.photo, !.status = postman.status]]
    /\ UNCHANGED <<postman, login, records, pictures>>

At(r, op, step) == requests[r].op = op /\ requests[r].step = step
GoTo(r, step) == requests' = [requests EXCEPT ![r].step = step]
Done(r) == requests' = [requests EXCEPT ![r] = Idle]
\* Refused, or failed, without having changed anything.
Refused(r) == Done(r) /\ UNCHANGED <<postman, login, records, pictures>>

Without(photo) == files \ {photo}     \* one that is gone already is no error

\* PUT /:id/photo: a valid picture is saved under a name of its own, then goes
\* into the row, then the one it replaces is removed.
SavePhoto(r) ==
    /\ At(r, "putPhoto", "read") /\ uploads < MaxPhotos
    /\ uploads' = uploads + 1
    /\ files' = files \cup {uploads + 1}
    /\ requests' = [requests EXCEPT ![r].step = "saved", ![r].url = uploads + 1]
    /\ UNCHANGED <<postman, login, records>>

\* The row did not take the picture: it is removed again.
NotTaken(r) ==
    /\ files' = Without(requests[r].url)
    /\ Done(r)
    /\ UNCHANGED <<postman, login, records, uploads>>

ShowPhoto(r) ==
    /\ At(r, "putPhoto", "saved")
    /\ \/ /\ postman.exists
          /\ postman' = [postman EXCEPT !.photo = requests[r].url]
          /\ GoTo(r, "shown")
          /\ UNCHANGED <<login, records, pictures>>
       \/ /\ ~postman.exists \/ May("refusals")
          /\ NotTaken(r)

SlipRemovesCurrent(r) == postman.photo
\* The picture that was there when the request began.
Replaced(r) == requests[r].photo

\* The last step of three requests.
RemovePhoto(r) ==
    /\ requests[r].step \in {"shown", "cleared", "deleted"}
    /\ files' = Without(Replaced(r))
    /\ Done(r)
    /\ UNCHANGED <<postman, login, records, uploads>>

\* DELETE /:id/photo
ClearPhoto(r) ==
    /\ At(r, "deletePhoto", "read")
    /\ IF requests[r].photo = NoPhoto \/ ~postman.exists THEN Refused(r)
       ELSE /\ postman' = [postman EXCEPT !.photo = NoPhoto]
            /\ GoTo(r, "cleared")
            /\ UNCHANGED <<login, records, pictures>>

\* Every refresh token is revoked; not one that is still to be issued.
Revoked(l) == [l EXCEPT !.signedIn = FALSE, !.overtaken = l.asking # "nothing"]

\* applyPostmanStatus: one transaction. A leave does not touch the login; who
\* is not active hands back parcels that can be given to another.
LoginFor(status) ==
    IF ~login.exists \/ status = "ON_LEAVE" THEN login
    ELSE IF status = "ACTIVE" THEN [login EXCEPT !.status = "ACTIVE"]
    ELSE Revoked([login EXCEPT !.status = "INACTIVE"])

applyPostmanStatus(status) ==
    /\ postman' = [postman EXCEPT !.status = status]
    /\ login' = LoginFor(status)
    /\ \/ named' = named
       \/ status # "ACTIVE" /\ named' = named \ {"Delivery"}

\* POST /:id/deactivate and /:id/activate
Switch(r, op, status) ==
    /\ At(r, op, "read")
    /\ IF ~postman.exists THEN Refused(r)
       ELSE applyPostmanStatus(status) /\ Done(r) /\ UNCHANGED <<severed, pictures>>

\* PUT /:id: only a status other than the one read has consequences.
Update(r, status) ==
    /\ At(r, "update", "read")
    /\ IF status = requests[r].status \/ ~postman.exists THEN Refused(r)
       ELSE applyPostmanStatus(status) /\ Done(r) /\ UNCHANGED <<severed, pictures>>

\* POST /:id/account: the login follows the status that was read.
StatusOfLogin(r) == IF requests[r].status = "ACTIVE" THEN "ACTIVE" ELSE "INACTIVE"

CreateAccount(r) ==
    /\ At(r, "account", "read")
    /\ IF login.exists \/ ~postman.exists THEN Refused(r)
       ELSE /\ login' = NewLogin(StatusOfLogin(r))
            /\ Done(r)
            /\ UNCHANGED <<postman, records, pictures>>

\* POST /:id/account/password: a new first password; every device signs in again.
ResetPassword(r) ==
    /\ At(r, "password", "read")
    /\ IF ~login.exists THEN Refused(r)
       ELSE /\ login' = Revoked(login)
            /\ Done(r)
            /\ UNCHANGED <<postman, records, pictures>>

\* DELETE /:id: what names the postman is counted first.
Counted == named \cup (IF login.exists THEN {"User"} ELSE {})

CountRecords(r) ==
    /\ At(r, "delete", "read")
    /\ IF Counted # {} THEN Refused(r)
       ELSE GoTo(r, "counted") /\ UNCHANGED <<postman, login, records, pictures>>

\* The database keeps a postman whom a required column names, and takes the
\* name out of the others. The login stays, linked to nobody.
DeleteRow(r) ==
    /\ At(r, "delete", "counted")
    /\ IF ~postman.exists \/ named \cap Required # {} THEN Refused(r)
       ELSE /\ postman' = [postman EXCEPT !.exists = FALSE, !.photo = NoPhoto]
            /\ severed' = severed \cup named \cup (IF login.exists THEN {"User"} ELSE {})
            /\ named' = {} /\ login' = NoLogin
            /\ GoTo(r, "deleted")
            /\ UNCHANGED pictures

----------------------------------------------------------------------------
\* Beside them

Settled == Quiet \/ May("busy")

\* The accounts page: logins are switched, or created, whatever the status.
SwitchLogin(status) ==
    /\ May("accounts") /\ Settled /\ login.exists
    /\ login' = [login EXCEPT !.status = status]
    /\ UNCHANGED <<postman, records, pictures, requests>>

CreateLogin ==
    /\ May("accounts") /\ Settled /\ postman.exists /\ ~login.exists
    /\ login' = NewLogin("ACTIVE")
    /\ UNCHANGED <<postman, records, pictures, requests>>

\* Sign-in and renewal. A sign-in reads the login and its status, compares the
\* password and then issues a token; so does who chooses a new password, after
\* ending the other sessions. A renewal reads the old token, revokes it and
\* issues another, and does not look at the status. One of them at a time.
\* login.overtaken: the tokens were revoked last while one was under way.
Ask(for) ==
    /\ May("signIns") /\ Settled /\ login.asking = "nothing"
    /\ login' = [login EXCEPT !.asking = for]
    /\ UNCHANGED <<postman, records, pictures, requests>>
StartSignIn  == login.exists /\ login.status = "ACTIVE" /\ Ask("signIn")
StartRenewal == login.signedIn /\ Ask("renewal")

IssueToken ==
    /\ login.asking # "nothing"
    /\ login' = [login EXCEPT !.signedIn = TRUE, !.asking = "nothing"]
    /\ UNCHANGED <<postman, records, pictures, requests>>

\* No token comes: another password, an error; what was live may have been
\* revoked by then, by a renewal or for the new password.
CutOff ==
    {[login EXCEPT !.asking = "nothing", !.signedIn = s] :
        s \in {login.signedIn} \cup (IF login.asking # "nothing" THEN {FALSE} ELSE {})}
NoToken ==
    /\ login.asking # "nothing"
    /\ login' \in CutOff
    /\ UNCHANGED <<postman, records, pictures, requests>>

\* Parcels come and are worked on, and go to others.
Work ==
    /\ Settled /\ postman.exists /\ postman.status = "ACTIVE"
    /\ \/ named' = named \cup {"Delivery", "DeliveryAssignmentHistory"}
       \/ "Delivery" \in named /\ login.signedIn /\ named' = named \cup {"DeliveryAttempt", "PostmanLocationHistory"}
       \/ named' = named \ {"Delivery"}
    /\ UNCHANGED <<postman, login, severed, pictures, requests>>

\* The server stops: what a request had still to do is not done.
Restart ==
    /\ May("stops") /\ ~Quiet
    /\ requests' = [r \in Requests |-> Idle]
    /\ login' \in CutOff
    /\ UNCHANGED <<postman, records, pictures>>

Operations == {"putPhoto", "deletePhoto", "activate", "deactivate", "update", "account", "password", "delete"}

Step ==
    \/ \E r \in Requests, op \in Operations : Begin(r, op)
    \/ \E r \in Requests : SavePhoto(r) \/ ShowPhoto(r) \/ RemovePhoto(r) \/ ClearPhoto(r)
    \/ \E r \in Requests : Switch(r, "activate", "ACTIVE") \/ Switch(r, "deactivate", "INACTIVE")
    \/ \E r \in Requests, status \in Statuses : Update(r, status)
    \/ \E r \in Requests : CreateAccount(r) \/ ResetPassword(r)
    \/ \E r \in Requests : CountRecords(r) \/ DeleteRow(r)
    \/ \E status \in {"ACTIVE", "INACTIVE"} : SwitchLogin(status)
    \/ CreateLogin \/ StartSignIn \/ StartRenewal \/ IssueToken \/ NoToken
    \/ Work \/ Restart

Next == Step /\ UNCHANGED world

Spec == Init /\ [][Next]_vars

----------------------------------------------------------------------------
\* Properties

\* The picture the row names is in the folder, whatever overlaps or stops.
ShownPhotoExists == postman.photo # NoPhoto => postman.photo \in files

\* A picture that nobody shows is in nobody's way for long: one change at a
\* time, a row that does not take a picture included, leaves none behind. Of two
\* changes that overlap, or one that is cut off, a file does stay.
NoOrphanPhoto ==
    Quiet /\ world \cap {"overlap", "stops"} = {} => files \subseteq {postman.photo}

\* "The postman's login account is enabled only while the postman is ACTIVE", and
\* whoever is active can sign in; for who is INACTIVE "it is disabled AND every
\* refresh token is revoked" (postman.service.ts:8). It takes the accounts page,
\* which does not look at the status, or a status that changes while a login is
\* being created, to undo that; and a token is live all the same if a sign-in or
\* a renewal was under way when the others were revoked.
LoginFollowsStatus ==
    login.exists /\ postman.exists /\ world \cap {"accounts", "overlap"} = {} =>
        /\ postman.status = "ACTIVE" => login.status = "ACTIVE"
        /\ postman.status = "INACTIVE" =>
             login.status = "INACTIVE" /\ (login.signedIn => login.overtaken)

\* Records that must stay auditable keep the postman they name: who has any, or a
\* login, is not deleted. Between the counts and the deletion a parcel can come,
\* and is taken from him without a word; a fix never is.
NothingIsSevered ==
    /\ severed # {} => world \cap {"overlap", "busy"} # {}
    /\ severed \cap Required = {}

\* The row of a postman, the files, his login and what names him agree.
StaffRecordsAgree == ShownPhotoExists /\ NoOrphanPhoto /\ LoginFollowsStatus /\ NothingIsSevered
=============================================================================
