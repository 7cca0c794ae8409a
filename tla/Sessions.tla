------------------------------ MODULE Sessions ------------------------------
(***************************************************************************)
(* One phone and its sign-in: the refresh tokens the server keeps          *)
(* (auth.service.ts, auth.routes.ts), the API client that renews an        *)
(* expired access token once for all the calls waiting for it              *)
(* (axiosClient.ts), and sign-in, sign-out, the new password and the start *)
(* of the app (authStore.ts).  A token is the number of its row; the       *)
(* access token issued with it has the same number.  Calls, the renewal,   *)
(* the sign-in flow and the check at start interleave at every await.      *)
(***************************************************************************)
EXTENDS Naturals, Sequences

CONSTANTS
    Accounts,
    Nobody,         \* no account
    Calls,          \* API calls that may be under way together
    MaxTokens,      \* bound: refresh tokens ever issued
    Worlds          \* what may happen: sets of WorldEvents, one per behaviour

\* The API calls that file the phone for pushes and drop it again.
Register   == "register"
Unregister == "unregister"
AllCalls   == Calls \cup {Register, Unregister}

ASSUME SessionsAssumption ==
    Nobody \notin Accounts /\ Register \notin Calls /\ Unregister \notin Calls

\* "lost": answers are lost; "restart", "halfway": the app is stopped, also
\* halfway through a sign-in or sign-out; "lateCheck": hydrate is answered in a
\* later session; "switch": another account signs in; "password": a new one is
\* chosen; "push": the phone registers for pushes.

VARIABLES
    rows,       \* the RefreshToken table: each row's user and state
    expired,    \* access tokens past their fifteen minutes
    stored,     \* secureStorage: access and refresh token (0 = none), user
    screen,     \* authStore: the account shown as signed in
    flow,       \* the login, logout or changePassword under way
    asked,      \* the access token hydrate asks the server with who this is
    calls,      \* each API call: its step, the access token it carries, _retried
    renewal,    \* refreshPromise: its step, the token it presents, the one it got
    queue,      \* whose changes wait in the offline queue
    owner,      \* offlineStorage's owner of the cached data
    person,     \* history: who signed in last on this phone
    cut,        \* history: tokens whose rotation the phone never heard of
    push,       \* the phone's push token: whose it is on the server, and in the app
    events       \* what may happen in this behaviour; it never changes

storage == <<stored, queue, owner>>
vars == <<rows, expired, storage, screen, flow, asked,
          calls, renewal, person, cut, push, events>>

NoToken == 0
Empty   == [access |-> NoToken, refresh |-> NoToken, user |-> Nobody]
Ready   == [pc |-> "idle", token |-> NoToken, retried |-> FALSE]
AtRest  == [pc |-> "idle", user |-> Nobody, token |-> NoToken]
NoPush  == [row |-> Nobody, known |-> FALSE, late |-> FALSE]
NoRenewal == [pc |-> "none", token |-> NoToken, next |-> NoToken]

InitIn(w) ==
    /\ rows = <<>> /\ expired = {}
    /\ stored = Empty /\ queue = {} /\ owner = Nobody
    /\ screen = Nobody /\ asked = NoToken
    /\ flow = AtRest /\ calls = [c \in AllCalls |-> Ready] /\ renewal = NoRenewal
    /\ person = Nobody /\ cut = {} /\ push = NoPush
    /\ events = w

Init == \E w \in Worlds : InitIn(w)

\* requireAuth: a token the server accepts, and the account it names.
Accepted(t) == t # NoToken /\ t \notin expired
UserOf(t)   == rows[t].user

\* issueRefreshToken: a new live row for u; its number is the next one.
NextToken    == Len(rows) + 1
Issued(r, u) == Append(r, [user |-> u, state |-> "live"])
\* revokeRefreshToken, revokeAllRefreshTokens: only rows not revoked yet.
Ended(r, T)  == [t \in DOMAIN r |-> IF t \in T /\ r[t].state = "live"
                                    THEN [r[t] EXCEPT !.state = "ended"] ELSE r[t]]
TokensOf(u)  == {t \in DOMAIN rows : rows[t].user = u}

----------------------------------------------------------------------------
\* API calls and the renewal they share (axiosClient.ts)

\* The request interceptor puts the stored access token on the call; screens
\* only call while an account is shown.  Bound: beside the calls for pushes one
\* at a time.
Sent == [Ready EXCEPT !.pc = "sent", !.token = stored.access]

Send(c) ==
    /\ calls[c].pc = "idle" /\ screen # Nobody
    /\ "push" \in events => \A d \in Calls : calls[d] = Ready
    /\ calls' = [calls EXCEPT ![c] = Sent]
    /\ UNCHANGED <<rows, expired, storage, screen, flow, asked,
                   renewal, person, cut, push>>

Resend(c) ==
    /\ calls[c].pc = "resend"
    /\ calls' = [calls EXCEPT ![c] = [pc |-> "sent", token |-> stored.access, retried |-> TRUE]]
    /\ UNCHANGED <<rows, expired, storage, screen, flow, asked,
                   renewal, person, cut, push>>

\* The call is answered, or the network fails and it is rejected; a 401 that is
\* no first one is an answer.
NotServed(c) ==
    (~Accepted(calls[c].token) /\ calls[c].retried) \/ "lost" \in events

Answered(c) ==
    /\ calls[c].pc = "sent"
    /\ Accepted(calls[c].token) \/ NotServed(c)
    /\ calls' = [calls EXCEPT ![c] = Ready]
    /\ UNCHANGED <<rows, expired, storage, screen, flow, asked,
                   renewal, person, cut, push>>

NoneRunning == renewal.pc = "none"

\* A first 401 waits for the renewal, which it starts if none is running.
Unauthorized(c) ==
    /\ calls[c].pc = "sent" /\ ~Accepted(calls[c].token) /\ ~calls[c].retried
    /\ calls' = [calls EXCEPT ![c].pc = "waiting", ![c].retried = TRUE]
    /\ renewal' = IF NoneRunning THEN [NoRenewal EXCEPT !.pc = "read"] ELSE renewal
    /\ UNCHANGED <<rows, expired, storage, screen, flow, asked,
                   person, cut, push>>

\* refreshPromise settles: every call that waits for it goes on.
SlipRejectionUnheard(c, next) ==
    IF calls[c].pc = "waiting" /\ next = "resend" THEN [calls[c] EXCEPT !.pc = next]
    ELSE calls[c]
Continued(c, next) ==
    IF calls[c].pc = "waiting" THEN [calls[c] EXCEPT !.pc = next] ELSE calls[c]

Settle(next) ==
    /\ renewal' = NoRenewal
    /\ calls' = [c \in AllCalls |-> Continued(c, next)]

RenewalReads ==
    /\ renewal.pc = "read"
    /\ IF stored.refresh = NoToken
       THEN Settle("clear")
       ELSE /\ renewal' = [renewal EXCEPT !.pc = "sent", !.token = stored.refresh]
            /\ UNCHANGED calls
    /\ UNCHANGED <<rows, expired, storage, screen, flow, asked,
                   person, cut, push>>

\* rotateRefreshToken: the presented row is revoked and a new one issued; the
\* answer may be lost on its way.
Rotate ==
    /\ renewal.pc = "sent" /\ rows[renewal.token].state = "live"
    /\ Len(rows) < MaxTokens
    /\ rows' = Issued([rows EXCEPT ![renewal.token].state = "rotated"], UserOf(renewal.token))
    /\ \/ /\ renewal' = [renewal EXCEPT !.pc = "save", !.next = NextToken]
          /\ UNCHANGED <<calls, cut>>
       \/ /\ "lost" \in events /\ Settle("clear")
          /\ cut' = cut \cup {renewal.token}
    /\ UNCHANGED <<expired, storage, screen, flow, asked, person, push>>

\* The token is refused, or the request never arrives: refreshAccessToken
\* answers null either way.
RenewalFails ==
    /\ renewal.pc = "sent"
    /\ rows[renewal.token].state # "live" \/ "lost" \in events \/ Len(rows) = MaxTokens
    /\ Settle("clear")
    /\ UNCHANGED <<rows, expired, storage, screen, flow, asked,
                   person, cut, push>>

RenewalSaves ==
    /\ renewal.pc = "save"
    /\ stored' = [stored EXCEPT !.access = renewal.next, !.refresh = renewal.next]
    /\ Settle("resend")
    /\ UNCHANGED <<rows, expired, queue, owner, screen, flow, asked,
                   person, cut, push>>

\* No new token: the storage is cleared, then onUnauthorized signs out.  The
\* queue and its owner stay on the phone.
ClearTokens(c) ==
    /\ calls[c].pc = "clear"
    /\ stored' = Empty
    /\ calls' = [calls EXCEPT ![c].pc = "signOut"]
    /\ UNCHANGED <<rows, expired, queue, owner, screen, flow, asked,
                   renewal, person, cut, push>>

ForcedSignOut(c) ==
    /\ calls[c].pc = "signOut"
    /\ screen' = Nobody
    /\ calls' = [calls EXCEPT ![c] = Ready]
    /\ push' = [push EXCEPT !.late = @ \/ push.known]
    /\ UNCHANGED <<rows, expired, storage, flow, asked, renewal,
                   person, cut>>

----------------------------------------------------------------------------
\* Signing in, out, and the new password (authStore.ts, auth.routes.ts)

Login(u) ==
    /\ screen = Nobody /\ flow = AtRest /\ Len(rows) < MaxTokens
    /\ person \in {Nobody, u} \/ "switch" \in events
    /\ rows' = Issued(rows, u)
    /\ stored' = [stored EXCEPT !.access = NextToken, !.refresh = NextToken]
    /\ flow' = [pc |-> "me", user |-> u, token |-> NextToken]
    /\ UNCHANGED <<expired, queue, owner, screen, asked, calls,
                   renewal, person, cut, push>>

\* authApi.me answers with the account of whatever token is stored by now.
WhoAmI ==
    /\ flow.pc = "me"
    /\ \/ /\ Accepted(stored.access)
          /\ flow' = [flow EXCEPT !.pc = "owner", !.user = UserOf(stored.access)]
       \/ /\ ~Accepted(stored.access) \/ "lost" \in events
          /\ flow' = [flow EXCEPT !.pc = "refused"]
    /\ UNCHANGED <<rows, expired, storage, screen, asked, calls,
                   renewal, person, cut, push>>

\* The login is given back as far as the server can be reached.
LoginRefused ==
    /\ flow.pc = "refused"
    /\ \/ Accepted(stored.access) /\ rows' = Ended(rows, {flow.token})
       \/ (~Accepted(stored.access) \/ "lost" \in events) /\ UNCHANGED rows
    /\ stored' = Empty /\ flow' = AtRest
    /\ UNCHANGED <<expired, queue, owner, screen, asked, calls,
                   renewal, person, cut, push>>

\* What another account left on the phone is discarded (discardAccountData).
SlipKeepsAll(u) == queue
OwnChanges(u)   == IF owner # u THEN {} ELSE queue

TakeOver ==
    /\ flow.pc = "owner"
    /\ queue' = OwnChanges(flow.user)
    /\ owner' = flow.user
    /\ flow' = [flow EXCEPT !.pc = "open"]
    /\ UNCHANGED <<rows, expired, stored, screen, asked, calls,
                   renewal, person, cut, push>>

Open ==
    /\ flow.pc = "open"
    /\ stored' = [stored EXCEPT !.user = flow.user]
    /\ screen' = flow.user /\ person' = flow.user /\ flow' = AtRest
    /\ UNCHANGED <<rows, expired, queue, owner, asked, calls,
                   renewal, cut, push>>

Logout ==
    /\ screen # Nobody /\ flow = AtRest
    /\ \/ ~push.known /\ flow' = [AtRest EXCEPT !.pc = "revoke"] /\ UNCHANGED calls
       \/ /\ push.known /\ flow' = [AtRest EXCEPT !.pc = "unpush"]
          /\ calls' = [calls EXCEPT ![Unregister] = Sent]
    /\ push' = [push EXCEPT !.known = FALSE]
    /\ UNCHANGED <<rows, expired, storage, screen, asked, renewal, person, cut>>

\* The server drops the phone's token, if it is filed under this account.
Dropped(u) == IF push.row = u THEN Nobody ELSE push.row

PushDropped ==
    /\ calls[Unregister].pc = "sent"
    /\ \/ /\ Accepted(calls[Unregister].token)
          /\ push' = [push EXCEPT !.row = Dropped(UserOf(calls[Unregister].token))]
       \/ NotServed(Unregister) /\ UNCHANGED push
    /\ calls' = [calls EXCEPT ![Unregister] = Ready]
    /\ UNCHANGED <<rows, expired, storage, screen, flow, asked, renewal, person, cut>>

\* However that call ended, also in a forced sign-out, the sign-out goes on.
Unpushed ==
    /\ flow.pc = "unpush" /\ calls[Unregister].pc = "idle"
    /\ flow' = [flow EXCEPT !.pc = "revoke"]
    /\ UNCHANGED <<rows, expired, storage, screen, asked, calls, renewal, person, cut, push>>

EndSession ==
    /\ flow.pc = "revoke"
    /\ \/ Accepted(stored.access) /\ rows' = Ended(rows, {stored.refresh})
       \/ (~Accepted(stored.access) \/ "lost" \in events) /\ UNCHANGED rows
    /\ flow' = [flow EXCEPT !.pc = "wipe"]
    /\ UNCHANGED <<expired, storage, screen, asked, calls, renewal,
                   person, cut, push>>

Wipe ==
    /\ flow.pc = "wipe"
    /\ stored' = Empty
    /\ flow' = [flow EXCEPT !.pc = "discard"]
    /\ UNCHANGED <<rows, expired, queue, owner, screen, asked, calls,
                   renewal, person, cut, push>>

Discard ==
    /\ flow.pc = "discard"
    /\ queue' = {} /\ owner' = Nobody /\ screen' = Nobody /\ flow' = AtRest
    /\ UNCHANGED <<rows, expired, stored, asked, calls, renewal,
                   person, cut, push>>

\* The server ends every session of the account and issues a new one; the phone
\* saves it, asks who it is, and shows that account if one is shown still.
ChangePassword ==
    /\ "password" \in events
    /\ screen # Nobody /\ flow = AtRest /\ Accepted(stored.access)
    /\ Len(rows) < MaxTokens
    /\ LET u == UserOf(stored.access)
       IN  rows' = Issued(Ended(rows, TokensOf(u)), u)
    /\ \/ flow' = [AtRest EXCEPT !.pc = "newTokens", !.token = NextToken]
       \/ "lost" \in events /\ UNCHANGED flow
    /\ UNCHANGED <<expired, storage, screen, asked, calls, renewal,
                   person, cut, push>>

SaveNewTokens ==
    /\ flow.pc = "newTokens"
    /\ stored' = [stored EXCEPT !.access = flow.token, !.refresh = flow.token]
    /\ flow' = [flow EXCEPT !.pc = "again"]
    /\ UNCHANGED <<rows, expired, queue, owner, screen, asked, calls,
                   renewal, person, cut, push>>

AskAgain ==
    /\ flow.pc = "again"
    /\ \/ /\ Accepted(stored.access)
          /\ flow' = [flow EXCEPT !.pc = "shown", !.user = UserOf(stored.access)]
       \/ (~Accepted(stored.access) \/ "lost" \in events) /\ flow' = AtRest
    /\ UNCHANGED <<rows, expired, storage, screen, asked, calls,
                   renewal, person, cut, push>>

ShowAgain ==
    /\ flow.pc = "shown"
    /\ stored' = [stored EXCEPT !.user = flow.user]
    /\ screen' = IF screen = Nobody THEN Nobody ELSE flow.user
    /\ push' = [push EXCEPT !.late = @ \/ (push.known /\ screen' # screen)]
    /\ flow' = AtRest
    /\ UNCHANGED <<rows, expired, queue, owner, asked, calls, renewal, person, cut>>

\* The app is stopped and started: hydrate opens with what is stored.
Restart ==
    /\ "restart" \in events /\ (flow = AtRest \/ "halfway" \in events)
    /\ screen' = IF stored.access = NoToken THEN Nobody ELSE stored.user
    /\ asked' = IF screen' = Nobody THEN NoToken ELSE stored.access
    /\ flow' = AtRest
    /\ calls' = [c \in AllCalls |-> Ready] /\ renewal' = NoRenewal
    /\ cut' = IF renewal.pc = "save" THEN cut \cup {renewal.token} ELSE cut
    /\ push' = [NoPush EXCEPT !.row = push.row]
    /\ UNCHANGED <<rows, expired, storage, person>>

\* hydrate's question is answered: the account is confirmed, or no longer one
\* this app is for; a 401 or a network failure changes nothing.  The answer
\* comes while the session lasts; with "lateCheck" it may come after it.
Checked ==
    /\ asked # NoToken
    /\ \/ /\ Accepted(asked) /\ (asked = stored.access \/ "lateCheck" \in events)
          /\ \/ /\ stored' = [stored EXCEPT !.user = UserOf(asked)]
                /\ screen' = UserOf(asked)
                /\ UNCHANGED <<queue, owner>>
             \/ /\ stored' = Empty /\ screen' = Nobody
                /\ queue' = {} /\ owner' = Nobody
       \/ UNCHANGED <<storage, screen>>
    /\ asked' = NoToken
    /\ push' = [push EXCEPT !.late = @ \/ (push.known /\ screen' # screen)]
    /\ UNCHANGED <<rows, expired, flow, calls, renewal, person, cut>>

----------------------------------------------------------------------------
\* What goes on beside them

\* The screens of a signed-in account register the phone for pushes, unless the
\* app remembers that it has (registeredToken); the server files the phone under
\* the account of the call, also when the phone does not hear of it.  Bound: one
\* registration at a time.
RegisterPush ==
    /\ "push" \in events /\ screen # Nobody
    /\ calls[Register].pc = "idle" /\ ~push.known
    /\ calls' = [calls EXCEPT ![Register] = Sent]
    /\ UNCHANGED <<rows, expired, storage, screen, flow, asked, renewal, person, cut, push>>

FiledUnder(u) == u

PushRegistered ==
    LET u == UserOf(calls[Register].token) IN
    /\ calls[Register].pc = "sent"
    /\ \/ /\ Accepted(calls[Register].token)
          /\ push' = [row |-> FiledUnder(u), known |-> TRUE,
                      late |-> push.late \/ screen # u \/ flow # AtRest]
       \/ /\ Accepted(calls[Register].token) /\ "lost" \in events
          /\ push' = [push EXCEPT !.row = FiledUnder(u)]
       \/ NotServed(Register) /\ UNCHANGED push
    /\ calls' = [calls EXCEPT ![Register] = Ready]
    /\ UNCHANGED <<rows, expired, storage, screen, flow, asked, renewal, person, cut>>

\* A change is saved for later while an account is shown (offlineStore.enqueue);
\* bound: not in the worlds that are about pushes.
SaveChange ==
    /\ screen # Nobody /\ "push" \notin events
    /\ queue' = queue \cup {person}
    /\ UNCHANGED <<rows, expired, stored, owner, screen, flow, asked,
                   calls, renewal, person, cut, push>>

\* Fifteen minutes pass.
Expire ==
    /\ Accepted(stored.access)
    /\ expired' = expired \cup {stored.access}
    /\ UNCHANGED <<rows, storage, screen, flow, asked, calls, renewal,
                   person, cut, push>>

Renewal   == RenewalReads \/ Rotate \/ RenewalFails \/ RenewalSaves
Answer(c) == \/ c \in Calls /\ Answered(c)
             \/ c = Register /\ PushRegistered
             \/ c = Unregister /\ PushDropped
CallStep(c) == \/ Resend(c) \/ Answer(c) \/ Unauthorized(c)
               \/ ClearTokens(c) \/ ForcedSignOut(c)
FlowStep  == \/ WhoAmI \/ LoginRefused \/ TakeOver \/ Open
             \/ Unpushed \/ EndSession \/ Wipe \/ Discard
             \/ SaveNewTokens \/ AskAgain \/ ShowAgain

Step ==
    \/ \E c \in Calls : Send(c)
    \/ \E c \in AllCalls : CallStep(c)
    \/ Renewal
    \/ \E u \in Accounts : Login(u)
    \/ Logout \/ ChangePassword \/ FlowStep
    \/ Restart \/ Checked \/ SaveChange \/ Expire \/ RegisterPush

Next == Step /\ UNCHANGED events

Spec == Init /\ [][Next]_vars

\* axiosClient answers or gives up after fifteen seconds, and the app's code runs
\* on.  The renewal is posted without that timeout: nothing says that it is ever
\* answered.  What the postman does, and when tokens expire, is nobody's duty.
Fairness ==
    /\ \A c \in AllCalls : WF_vars(CallStep(c) /\ UNCHANGED events)
    /\ WF_vars((RenewalReads \/ RenewalSaves) /\ UNCHANGED events)
    /\ WF_vars(FlowStep /\ UNCHANGED events)

FairSpec == Spec /\ Fairness

----------------------------------------------------------------------------
\* Properties

\* Whoever is shown as signed in, the changes waiting on the phone are those of
\* the person who signed in last: what an earlier account left behind, after a
\* sign-out the server forced, is gone before the next one is let in.  It takes
\* an app stopped halfway through a sign-in, or a late answer to hydrate, to
\* undo that.
QueueIsThePersons ==
    screen # Nobody /\ events \cap {"lateCheck", "halfway"} = {} => queue \subseteq {person}

\* A refresh token already exchanged is never presented again, unless the
\* exchange was cut off before the phone heard of it: a burst of 401s rotates
\* once, and a late 401 uses the newer token.
SpentTokenNotPresented ==
    renewal.pc = "sent" /\ rows[renewal.token].state = "rotated" => renewal.token \in cut

\* A phone that counts as registered gets the pushes of the account on its
\* screen: "A device belongs to whoever signed in last", also when the call
\* that should have dropped it was lost.  After a sign-out the server forced, or
\* a registration answered late, it takes a restart of the app: registeredToken
\* is still set, and nothing registers the phone for the next account.
PushFollowsLogin ==
    /\ screen # Nobody /\ flow = AtRest
    /\ push.known /\ ~push.late
    => push.row = screen

\* Two people who share a phone stay apart: what waits, what is presented, and
\* whose pushes arrive.
AccountsStayApart == QueueIsThePersons /\ SpentTokenNotPresented /\ PushFollowsLogin

\* Every call is answered or rejected: no 401 is retried for ever and nothing
\* waits on a renewal that is not running.  Only a renewal whose request is never
\* answered keeps the calls that wait for it, and those for ever.
CallsSettle ==
    \A c \in AllCalls :
        []<>(calls[c].pc = "idle") \/ <>[](calls[c].pc = "waiting" /\ renewal.pc = "sent")

=============================================================================
