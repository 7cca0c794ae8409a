-------------------------- MODULE Sessions_proofs --------------------------
(***************************************************************************)
(* Two people who share a phone stay apart, for any number of accounts,    *)
(* calls and tokens and whatever may happen: AccountsStayApart follows     *)
(* from where a token that has been exchanged may still be (Rotations),    *)
(* from whose data the phone holds at each step of a sign-in or sign-out   *)
(* (Owners), and from when the phone may count as registered (Pushes).     *)
(***************************************************************************)
EXTENDS Sessions, TLAPS

People    == Accounts \cup {Nobody}
RowStates == {"live", "rotated", "ended"}
Row       == [user : Accounts, state : RowStates]
FlowSteps == {"idle", "me", "owner", "refused", "open", "unpush", "revoke", "wipe",
              "discard", "newTokens", "again", "shown"}
CallSteps == {"idle", "sent", "waiting", "resend", "clear", "signOut"}

StoredType  == [access : Nat, refresh : Nat, user : People]
FlowType    == [pc : FlowSteps, user : People, token : Nat]
CallType    == [pc : CallSteps, token : Nat, retried : BOOLEAN]
RenewalType == [pc : {"none", "read", "sent", "save"}, token : Nat, next : Nat]
PushType    == [row : People, known : BOOLEAN, late : BOOLEAN]

TypeOK ==
    /\ rows \in Seq(Row) /\ expired \subseteq Nat /\ cut \subseteq Nat
    /\ stored \in StoredType /\ flow \in FlowType /\ asked \in Nat
    /\ calls \in [AllCalls -> CallType] /\ renewal \in RenewalType
    /\ screen \in People /\ owner \in People /\ person \in People
    /\ queue \subseteq People /\ push \in PushType

(* No token is anywhere before the server has issued it.                   *)
OnlyIssued ==
    /\ stored.access <= Len(rows) /\ stored.refresh <= Len(rows)
    /\ flow.token <= Len(rows) /\ asked <= Len(rows)
    /\ renewal.token <= Len(rows) /\ renewal.next <= Len(rows)
    /\ renewal.pc = "sent" => renewal.token # NoToken
    /\ renewal.pc = "save" => renewal.next # NoToken
    /\ flow.pc = "newTokens" => flow.token # NoToken

CallsIssued == \A c \in AllCalls : calls[c].token <= Len(rows)

SpentIn(r, t) == t # NoToken /\ r[t].state = "rotated"
Spent(t)      == SpentIn(rows, t)

(* A token that has been exchanged is still stored only while the answer   *)
(* with its successor is being saved, or when that answer was cut off; a   *)
(* token on its way to the storage is not spent, and nobody presents it.   *)
Rotations ==
    /\ renewal.pc = "sent" /\ Spent(renewal.token) => renewal.token \in cut
    /\ Spent(stored.refresh) =>
         \/ stored.refresh \in cut
         \/ renewal.pc = "save" /\ renewal.token = stored.refresh
    /\ renewal.pc = "save" => ~Spent(renewal.next)
    /\ flow.pc = "newTokens" =>
         /\ ~Spent(flow.token) /\ flow.token # stored.refresh
         /\ renewal.pc = "sent" => renewal.token # flow.token
         /\ renewal.pc = "save" => renewal.next # flow.token

(* The app is not stopped halfway through a sign-in, and hydrate is not    *)
(* answered in a later session.                                            *)
InOneGo   == events \cap {"lateCheck", "halfway"} = {}
SigningIn == flow.pc \in {"me", "owner", "open", "refused"}

(* The phone holds nobody's data, or that of who signed in last.           *)
Ours == owner \in {Nobody, person} /\ queue \subseteq {person}

(* The changes on the phone are their owner's, and the owner is who signed *)
(* in last, wherever an account is shown, stored or being confirmed; while *)
(* somebody signs in nobody is shown, and hydrate asks about a token that  *)
(* is no longer stored.                                                    *)
Owners ==
    InOneGo =>
      /\ owner # Nobody => queue \subseteq {owner}
      /\ SigningIn => screen = Nobody
      /\ screen # Nobody => Ours
      /\ ~SigningIn /\ stored.user # Nobody => Ours
      /\ flow.pc = "owner" => flow.user # Nobody
      /\ flow.pc = "open" => owner = flow.user /\ queue \subseteq {flow.user}
      /\ flow.pc = "discard" => stored.user = Nobody
      /\ flow.pc \in {"newTokens", "again", "shown"} => Ours
      /\ asked # NoToken =>
           /\ SigningIn \/ flow.pc = "discard" => asked # stored.access
           /\ asked = stored.access => Ours
           /\ renewal.pc = "save" => renewal.next # asked
           /\ flow.pc = "newTokens" => flow.token # asked

(* A phone that counts as registered, and whose registration nothing has   *)
(* overtaken, is that of the account shown, and nobody signs in or out; a  *)
(* phone that is being registered does not count as registered, and it is  *)
(* dropped again only by a sign-out that waits for it.                     *)
Pushes ==
    /\ push.known /\ ~push.late =>
         /\ push.row = screen /\ screen # Nobody
         /\ flow.pc \in {"idle", "newTokens", "again", "shown"}
    /\ calls[Register].pc # "idle" => ~push.known
    /\ calls[Unregister].pc # "idle" => flow.pc = "unpush"

IInv == TypeOK /\ OnlyIssued /\ CallsIssued /\ Rotations /\ Owners /\ Pushes

----------------------------------------------------------------------------
(* The token table                                                         *)

(* What an operation that exchanges no token does to the table: rows stay, *)
(* with their account, and none becomes or ceases to be rotated.           *)
Grown(r, s) ==
    /\ s \in Seq(Row) /\ Len(s) >= Len(r)
    /\ \A t \in 1 .. Len(r) : /\ s[t].user = r[t].user
                              /\ s[t].state = "rotated" <=> r[t].state = "rotated"

LEMMA IssuedIsGrown ==
    ASSUME NEW r \in Seq(Row), NEW u \in Accounts
    PROVE  /\ Grown(r, Issued(r, u))
           /\ Len(Issued(r, u)) = Len(r) + 1
           /\ Issued(r, u)[Len(r) + 1].state = "live"
<1>. DEFINE new == [user |-> u, state |-> "live"]
<1>1. new \in Row
  BY DEF Row, RowStates
<1>2. /\ Append(r, new) \in Seq(Row)
      /\ Len(Append(r, new)) = Len(r) + 1
      /\ Append(r, new)[Len(r) + 1] = new
      /\ \A t \in 1 .. Len(r) : Append(r, new)[t] = r[t]
  <2>. HIDE DEF new
  <2>. QED
    BY <1>1
<1>3. Len(r) \in Nat
  OBVIOUS
<1>. QED
  BY <1>2, <1>3 DEF Grown, Issued

LEMMA EndedIsGrown ==
    ASSUME NEW r \in Seq(Row), NEW T
    PROVE  Grown(r, Ended(r, T)) /\ Len(Ended(r, T)) = Len(r)
<1>1. \A t \in 1 .. Len(r) : r[t] \in Row
  OBVIOUS
<1>2. DOMAIN r = 1 .. Len(r) /\ Len(r) \in Nat
  OBVIOUS
<1>3. \A t \in 1 .. Len(r) :
         /\ Ended(r, T)[t] \in Row
         /\ Ended(r, T)[t].user = r[t].user
         /\ Ended(r, T)[t].state = "rotated" <=> r[t].state = "rotated"
  BY <1>1, <1>2 DEF Ended, Row, RowStates
<1>4. Ended(r, T) = [t \in 1 .. Len(r) |-> Ended(r, T)[t]]
  BY <1>2 DEF Ended
<1>5. \A f, n : n \in Nat /\ f = [t \in 1 .. n |-> f[t]] /\ (\A t \in 1 .. n : f[t] \in Row)
              => f \in Seq(Row) /\ Len(f) = n
  OBVIOUS
<1>6. Ended(r, T) \in Seq(Row) /\ Len(Ended(r, T)) = Len(r)
  BY <1>2, <1>3, <1>4, <1>5
<1>. QED
  BY <1>2, <1>3, <1>6 DEF Grown

LEMMA GrownTransitive ==
    ASSUME NEW r \in Seq(Row), NEW s, NEW z, Grown(r, s), Grown(s, z)
    PROVE  Grown(r, z)
<1>1. Len(r) \in Nat /\ Len(s) \in Nat /\ Len(z) \in Nat
  BY DEF Grown
<1>2. \A t \in 1 .. Len(r) : t \in 1 .. Len(s)
  BY <1>1 DEF Grown
<1>. QED
  BY <1>1, <1>2 DEF Grown

----------------------------------------------------------------------------
(* The steps                                                               *)

LEMMA StepCases ==
    ASSUME Next
    PROVE  \/ \E c \in Calls : Send(c)
           \/ \E c \in AllCalls : Resend(c)
           \/ \E c \in Calls : Answered(c)
           \/ \E c \in AllCalls : Unauthorized(c)
           \/ \E c \in AllCalls : ClearTokens(c)
           \/ \E c \in AllCalls : ForcedSignOut(c)
           \/ \E u \in Accounts : Login(u)
           \/ RenewalReads \/ Rotate \/ RenewalFails \/ RenewalSaves
           \/ Logout \/ ChangePassword \/ WhoAmI \/ LoginRefused \/ TakeOver \/ Open
           \/ PushDropped \/ Unpushed \/ EndSession \/ Wipe \/ Discard
           \/ SaveNewTokens \/ AskAgain \/ ShowAgain
           \/ Restart \/ Checked \/ SaveChange \/ Expire
           \/ RegisterPush \/ PushRegistered
BY DEF Next, Step, CallStep, Answer, Renewal, FlowStep

LEMMA CallNames ==
    /\ Calls \subseteq AllCalls /\ Register \in AllCalls /\ Unregister \in AllCalls
    /\ Register \notin Calls /\ Unregister \notin Calls /\ Unregister # Register
  BY SessionsAssumption DEF AllCalls, Register, Unregister

LEMMA UserIsAccount ==
    ASSUME TypeOK, NEW t \in Nat, t # NoToken, t <= Len(rows)
    PROVE  rows[t] \in Row /\ UserOf(t) \in Accounts
<1>1. t \in 1 .. Len(rows) /\ Len(rows) \in Nat
  BY DEF TypeOK, NoToken
<1>2. rows[t] \in Row
  BY <1>1 DEF TypeOK
<1>. QED
  BY <1>2 DEF Row, UserOf

LEMMA RotatedRow ==
    ASSUME TypeOK, NEW t \in Nat, t # NoToken, t <= Len(rows)
    PROVE  LET r == [rows EXCEPT ![t].state = "rotated"]
           IN  /\ r \in Seq(Row) /\ Len(r) = Len(rows)
               /\ r[t].user = rows[t].user /\ r[t].state = "rotated"
               /\ \A s \in 1 .. Len(rows) : s # t => r[s] = rows[s]
<1>. DEFINE row == [rows[t] EXCEPT !.state = "rotated"]
            r   == [rows EXCEPT ![t] = row]
<1>1. t \in 1 .. Len(rows) /\ Len(rows) \in Nat /\ rows \in Seq(Row)
  BY DEF TypeOK, NoToken
<1>2. rows[t] \in Row
  BY UserIsAccount
<1>3. row \in Row /\ row.user = rows[t].user /\ row.state = "rotated"
  BY <1>2 DEF Row, RowStates
<1>4. r = [rows EXCEPT ![t].state = "rotated"]
  OBVIOUS
<1>5. /\ r \in Seq(Row) /\ Len(r) = Len(rows) /\ r[t] = row
      /\ \A s \in 1 .. Len(rows) : s # t => r[s] = rows[s]
  <2>. HIDE DEF row
  <2>. QED
    BY <1>1, <1>3
<1>. HIDE DEF row, r
<1>. QED
  BY <1>3, <1>4, <1>5

LEMMA RotateEffect ==
    ASSUME TypeOK, OnlyIssued, Rotate
    PROVE  /\ rows' \in Seq(Row) /\ Len(rows') = Len(rows) + 1
           /\ rows'[Len(rows) + 1].state = "live"
           /\ rows'[renewal.token].state = "rotated"
           /\ \A t \in 1 .. Len(rows) : t # renewal.token => rows'[t].state = rows[t].state
<1>. DEFINE t == renewal.token
            r == [rows EXCEPT ![t].state = "rotated"]
<1>1. t \in Nat /\ t # NoToken /\ t <= Len(rows) /\ Len(rows) \in Nat
  BY DEF Rotate, OnlyIssued, TypeOK, RenewalType
<1>2. /\ r \in Seq(Row) /\ Len(r) = Len(rows)
      /\ r[t].state = "rotated"
      /\ \A s \in 1 .. Len(rows) : s # t => r[s] = rows[s]
  BY <1>1, RotatedRow
<1>3. UserOf(t) \in Accounts
  BY <1>1, UserIsAccount
<1>4. rows' = Issued(r, UserOf(t))
  BY DEF Rotate
<1>5. /\ Grown(r, rows') /\ Len(rows') = Len(rows) + 1
      /\ rows'[Len(rows) + 1].state = "live"
  <2>. HIDE DEF r, t
  <2>. QED
    BY <1>2, <1>3, <1>4, IssuedIsGrown
<1>6. \A s \in 1 .. Len(rows) : Issued(r, UserOf(t))[s] = r[s]
  <2>. DEFINE new == [user |-> UserOf(t), state |-> "live"]
  <2>. HIDE DEF r, t, new
  <2>1. \A s \in 1 .. Len(rows) : Append(r, new)[s] = r[s]
    BY <1>1, <1>2
  <2>. QED
    BY <2>1 DEF Issued, new
<1>7. t \in 1 .. Len(rows)
  BY <1>1 DEF NoToken
<1>8. rows' \in Seq(Row)
  BY <1>5 DEF Grown
<1>. HIDE DEF r
<1>. QED
  BY <1>1, <1>2, <1>4, <1>5, <1>6, <1>7, <1>8

LEMMA OthersExchangeNothing ==
    ASSUME TypeOK, OnlyIssued, Next, ~Rotate
    PROVE  Grown(rows, rows')
<1>1. Grown(rows, rows) /\ rows \in Seq(Row) /\ Len(rows) \in Nat
  BY DEF Grown, TypeOK
<1>2. CASE \E u \in Accounts : Login(u)
  <2>1. PICK u \in Accounts : Login(u)
    BY <1>2
  <2>. QED
    BY <1>1, <2>1, IssuedIsGrown DEF Login
<1>3. CASE LoginRefused \/ EndSession
  <2>1. rows' = rows \/ \E T : rows' = Ended(rows, T)
    BY <1>3 DEF LoginRefused, EndSession
  <2>. QED
    BY <1>1, <2>1, EndedIsGrown
<1>4. CASE ChangePassword
  <2>. DEFINE u == UserOf(stored.access)
              T == TokensOf(u)
  <2>1. u \in Accounts /\ rows' = Issued(Ended(rows, T), u)
    <3>1. stored.access \in Nat /\ stored.access # NoToken /\ stored.access <= Len(rows)
      BY <1>4 DEF ChangePassword, Accepted, TypeOK, StoredType, OnlyIssued
    <3>. QED
      BY <1>4, <3>1, UserIsAccount DEF ChangePassword
  <2>. HIDE DEF u, T
  <2>2. Grown(rows, Ended(rows, T))
    BY <1>1, EndedIsGrown
  <2>3. Ended(rows, T) \in Seq(Row)
    BY <2>2 DEF Grown
  <2>4. Grown(Ended(rows, T), rows')
    BY <2>1, <2>3, IssuedIsGrown
  <2>. QED
    BY <1>1, <2>2, <2>4, GrownTransitive
<1>5. CASE ~(\E u \in Accounts : Login(u)) /\ ~LoginRefused /\ ~EndSession /\ ~ChangePassword
  <2>1. UNCHANGED rows
    BY <1>5, StepCases
       DEF storage, Send, Resend, Answered, Unauthorized, ClearTokens,
           ForcedSignOut, RenewalReads, RenewalFails,
           RenewalSaves, Logout, WhoAmI, TakeOver, Open, PushDropped, Unpushed,
           Wipe, Discard, SaveNewTokens, AskAgain, ShowAgain, Restart, Checked,
           SaveChange, Expire, RegisterPush, PushRegistered
  <2>. QED
    BY <1>1, <2>1
<1>. QED
  BY <1>2, <1>3, <1>4, <1>5

(* Rows and their users never leave their types.                           *)
LEMMA RowsGrow ==
    ASSUME TypeOK, OnlyIssued, Next
    PROVE  rows' \in Seq(Row) /\ Len(rows') \in Nat /\ Len(rows) \in Nat /\ Len(rows') >= Len(rows)
<1>1. Len(rows) \in Nat
  BY DEF TypeOK
<1>2. CASE Rotate
  BY <1>1, <1>2, RotateEffect
<1>3. CASE ~Rotate
  <2>1. Grown(rows, rows')
    BY <1>3, OthersExchangeNothing
  <2>. QED
    BY <1>1, <2>1 DEF Grown
<1>. QED
  BY <1>2, <1>3

(* The user, or nobody, that each question of the phone is answered with.  *)
LEMMA UserOfToken ==
    ASSUME TypeOK, OnlyIssued
    PROVE  /\ Accepted(stored.access) => UserOf(stored.access) \in Accounts
           /\ Accepted(asked) => UserOf(asked) \in Accounts
<1>1. /\ stored.access \in Nat /\ stored.access <= Len(rows)
      /\ asked \in Nat /\ asked <= Len(rows)
  BY DEF TypeOK, OnlyIssued, StoredType
<1>. QED
  BY <1>1, UserIsAccount DEF Accepted

LEMMA UserOfCall ==
    ASSUME TypeOK, CallsIssued, NEW c \in AllCalls, Accepted(calls[c].token)
    PROVE  UserOf(calls[c].token) \in Accounts
<1>1. calls[c].token \in Nat /\ calls[c].token <= Len(rows)
  BY DEF TypeOK, CallsIssued, CallType
<1>. QED
  BY <1>1, UserIsAccount DEF Accepted

(* After a new password the phone asks who it is, and learns it or not.    *)
LEMMA AskAgainEffect ==
    ASSUME TypeOK, OnlyIssued, AskAgain
    PROVE  /\ flow.pc = "again" /\ flow'.pc \in {"shown", "idle"}
           /\ flow' \in FlowType /\ flow'.token <= Len(rows)
<1>1. /\ flow \in FlowType /\ flow.token <= Len(rows) /\ Len(rows) \in Nat
      /\ Accepted(stored.access) => UserOf(stored.access) \in Accounts
  BY UserOfToken DEF TypeOK, OnlyIssued
<1>2. flow.pc = "again"
  BY DEF AskAgain
<1>. DEFINE u == UserOf(stored.access)
<1>3. \/ u \in Accounts /\ flow' = [flow EXCEPT !.pc = "shown", !.user = u]
      \/ flow' = AtRest
  BY <1>1 DEF AskAgain
<1>. HIDE DEF u
<1>4. CASE u \in Accounts /\ flow' = [flow EXCEPT !.pc = "shown", !.user = u]
  BY <1>1, <1>2, <1>4 DEF FlowType, FlowSteps, People
<1>5. CASE flow' = AtRest
  BY <1>1, <1>2, <1>5 DEF AtRest, FlowType, FlowSteps, People, NoToken
<1>. QED
  BY <1>3, <1>4, <1>5

(* A new password begins a flow with the token it was issued, unless the   *)
(* phone does not hear of it.                                              *)
LEMMA ChangePasswordFlow ==
    ASSUME ChangePassword
    PROVE  /\ flow.pc = "idle" /\ flow.token = 0
           /\ \/ flow'.pc = "idle" /\ flow'.token = 0
              \/ flow'.pc = "newTokens" /\ flow'.token = Len(rows) + 1
<1>1. /\ flow = AtRest
      /\ flow' = [AtRest EXCEPT !.pc = "newTokens", !.token = NextToken] \/ flow' = flow
  BY DEF ChangePassword
<1>2. flow = [pc |-> "idle", user |-> Nobody, token |-> 0]
  BY <1>1 DEF AtRest, NoToken
<1>3. \/ flow' = flow
      \/ flow' = [pc |-> "newTokens", user |-> Nobody, token |-> Len(rows) + 1]
  BY <1>1 DEF AtRest, NextToken
<1>. QED
  BY <1>2, <1>3

LEMMA SentType ==
    ASSUME TypeOK
    PROVE  Sent \in CallType /\ Ready \in CallType /\ Sent.token = stored.access
BY DEF TypeOK, Sent, Ready, CallType, CallSteps, StoredType, NoToken

LEMMA SettleTypes ==
    ASSUME TypeOK, NEW next \in {"resend", "clear"}, Settle(next)
    PROVE  calls' \in [AllCalls -> CallType] /\ renewal' \in RenewalType
<1>1. \A c \in AllCalls : calls[c] \in CallType
  BY DEF TypeOK
<1>2. \A c \in AllCalls : Continued(c, next) \in CallType
  BY <1>1 DEF Continued, CallType, CallSteps
<1>3. calls' \in [AllCalls -> CallType]
  BY <1>2 DEF Settle
<1>4. renewal' \in RenewalType
  BY DEF Settle, NoRenewal, RenewalType, NoToken
<1>. QED
  BY <1>3, <1>4

(* What a registration answered, or not answered, leaves.                  *)
LEMMA PushRegisteredEffect ==
    ASSUME TypeOK, CallsIssued, PushRegistered
    PROVE  /\ push' \in PushType
           /\ \/ push'.known = push.known /\ push'.late = push.late
              \/ /\ push'.known
                 /\ ~push'.late => /\ push'.row = screen /\ screen \in Accounts
                                   /\ flow = AtRest
<1>. DEFINE t == calls[Register].token
            u == UserOf(t)
            late == push.late \/ screen # u \/ flow # AtRest
<1>1. Accepted(t) => u \in Accounts
  BY UserOfCall, CallNames
<1>2. late \in BOOLEAN /\ push \in PushType
  BY DEF TypeOK, PushType
<1>3. \/ Accepted(t) /\ push' = [row |-> u, known |-> TRUE, late |-> late]
      \/ Accepted(t) /\ push' = [push EXCEPT !.row = u]
      \/ push' = push
  BY DEF PushRegistered, FiledUnder
<1>4. ~late => screen = u /\ flow = AtRest
  OBVIOUS
<1>. HIDE DEF late, u
<1>5. CASE Accepted(t) /\ push' = [row |-> u, known |-> TRUE, late |-> late]
  BY <1>1, <1>2, <1>4, <1>5 DEF PushType, People
<1>6. CASE Accepted(t) /\ push' = [push EXCEPT !.row = u]
  BY <1>1, <1>2, <1>6 DEF PushType, People
<1>7. CASE push' = push
  BY <1>2, <1>7
<1>. QED
  BY <1>3, <1>5, <1>6, <1>7

LEMMA TypesStep ==
    ASSUME TypeOK, OnlyIssued, CallsIssued, Next
    PROVE  TypeOK'
<1>0. rows' \in Seq(Row) /\ Len(rows) \in Nat /\ NextToken \in Nat
  BY RowsGrow DEF NextToken
<1>1. CASE \E c \in Calls : Send(c)
  <2>1. PICK c \in Calls : Send(c)
    BY <1>1
  <2>2. calls' \in [AllCalls -> CallType]
    BY <2>1, SentType DEF TypeOK, Send
  <2>. QED
    BY <1>0, <2>1, <2>2 DEF TypeOK, Send, storage
<1>2. CASE \E c \in AllCalls : Resend(c)
  <2>1. PICK c \in AllCalls : Resend(c)
    BY <1>2
  <2>2. calls' \in [AllCalls -> CallType]
    BY <1>0, <2>1
    DEF TypeOK, Resend, CallType, CallSteps, NoToken, Settle, Continued,
        Ready, StoredType
  <2>. QED
    BY <1>0, <2>1, <2>2 DEF TypeOK, Resend, storage
<1>3. CASE \E c \in Calls : Answered(c)
  <2>1. PICK c \in Calls : Answered(c)
    BY <1>3
  <2>2. calls' \in [AllCalls -> CallType]
    BY <2>1, SentType DEF TypeOK, Answered
  <2>. QED
    BY <1>0, <2>1, <2>2 DEF TypeOK, Answered, storage
<1>4. CASE \E c \in AllCalls : Unauthorized(c)
  <2>1. PICK c \in AllCalls : Unauthorized(c)
    BY <1>4
  <2>2. calls' \in [AllCalls -> CallType]
    BY <1>0, <2>1
    DEF TypeOK, Unauthorized, CallType, CallSteps, NoToken, Settle,
        Continued, Ready, NoneRunning
  <2>3. renewal' \in RenewalType
    BY <1>0, <2>1
    DEF TypeOK, Unauthorized, RenewalType, NoToken, Settle, NoRenewal,
        NoneRunning
  <2>. QED
    BY <1>0, <2>1, <2>2, <2>3 DEF TypeOK, Unauthorized, storage
<1>5. CASE \E c \in AllCalls : ClearTokens(c)
  <2>1. PICK c \in AllCalls : ClearTokens(c)
    BY <1>5
  <2>2. stored' \in StoredType
    BY <1>0, <2>1
    DEF TypeOK, ClearTokens, StoredType, People, NoToken, Empty
  <2>3. calls' \in [AllCalls -> CallType]
    BY <1>0, <2>1
    DEF TypeOK, ClearTokens, CallType, CallSteps, NoToken, Settle,
        Continued, Ready
  <2>. QED
    BY <1>0, <2>1, <2>2, <2>3 DEF TypeOK, ClearTokens, storage
<1>6. CASE \E c \in AllCalls : ForcedSignOut(c)
  <2>1. PICK c \in AllCalls : ForcedSignOut(c)
    BY <1>6
  <2>2. calls' \in [AllCalls -> CallType]
    BY <1>0, <2>1
    DEF TypeOK, ForcedSignOut, CallType, CallSteps, NoToken, Settle,
        Continued, Ready
  <2>3. push' \in PushType
    BY <1>0, <2>1
    DEF TypeOK, ForcedSignOut, PushType, People, NoToken, NoPush,
        FiledUnder
  <2>. QED
    BY <1>0, <2>1, <2>2, <2>3 DEF TypeOK, ForcedSignOut, storage, People
<1>7. CASE \E u \in Accounts : Login(u)
  <2>1. PICK u \in Accounts : Login(u)
    BY <1>7
  <2>2. stored' \in StoredType
    BY <1>0, <2>1
    DEF TypeOK, Login, StoredType, People, NoToken, Empty
  <2>3. flow' \in FlowType
    BY <1>0, <2>1
    DEF TypeOK, Login, FlowType, FlowSteps, People, NoToken, AtRest
  <2>. QED
    BY <1>0, <2>1, <2>2, <2>3 DEF TypeOK, Login, storage
<1>8. CASE RenewalReads
  <2>1. calls' \in [AllCalls -> CallType] /\ renewal' \in RenewalType
    BY <1>0, <1>8, SettleTypes DEF RenewalReads, TypeOK, RenewalType, StoredType
  <2>. QED
    BY <1>0, <1>8, <2>1 DEF TypeOK, RenewalReads, storage, Settle
<1>9. CASE Rotate
  <2>1. calls' \in [AllCalls -> CallType] /\ renewal' \in RenewalType
    BY <1>0, <1>9, SettleTypes DEF Rotate, TypeOK, RenewalType
  <2>2. cut' \subseteq Nat
    BY <1>9 DEF TypeOK, Rotate, RenewalType
  <2>. QED
    BY <1>0, <1>9, <2>1, <2>2 DEF TypeOK, Rotate, storage
<1>10. CASE RenewalFails
  <2>1. calls' \in [AllCalls -> CallType] /\ renewal' \in RenewalType
    BY <1>0, <1>10, SettleTypes DEF RenewalFails
  <2>. QED
    BY <1>0, <1>10, <2>1 DEF TypeOK, RenewalFails, storage, Settle
<1>11. CASE RenewalSaves
  <2>1. calls' \in [AllCalls -> CallType] /\ renewal' \in RenewalType
    BY <1>0, <1>11, SettleTypes DEF RenewalSaves
  <2>2. stored' \in StoredType
    BY <1>0, <1>11
    DEF TypeOK, RenewalSaves, StoredType, People, NoToken, Empty,
        RenewalType
  <2>. QED
    BY <1>0, <1>11, <2>1, <2>2 DEF TypeOK, RenewalSaves, storage, Settle
<1>12. CASE Logout
  <2>1. flow' \in FlowType
    BY <1>0, <1>12
    DEF TypeOK, Logout, FlowType, FlowSteps, People, NoToken, AtRest
  <2>2. push' \in PushType
    BY <1>0, <1>12
    DEF TypeOK, Logout, PushType, People, NoToken, NoPush, FiledUnder
  <2>3. calls' \in [AllCalls -> CallType]
    BY <1>12, SentType DEF TypeOK, Logout
  <2>. QED
    BY <1>0, <1>12, <2>1, <2>2, <2>3 DEF TypeOK, Logout, storage
<1>13. CASE ChangePassword
  <2>1. flow' = flow \/ flow' = [pc |-> "newTokens", user |-> Nobody, token |-> Len(rows) + 1]
    BY <1>13 DEF ChangePassword, AtRest, NextToken
  <2>2. flow' \in FlowType
    BY <1>0, <2>1 DEF TypeOK, FlowType, FlowSteps, People, NextToken
  <2>. QED
    BY <1>0, <1>13, <2>2 DEF TypeOK, ChangePassword, storage
<1>14. CASE WhoAmI
  <2>1. flow' \in FlowType
    BY <1>0, <1>14, UserOfToken
    DEF TypeOK, WhoAmI, FlowType, FlowSteps, People, NoToken, AtRest,
        StoredType
  <2>. QED
    BY <1>0, <1>14, <2>1 DEF TypeOK, WhoAmI, storage
<1>15. CASE LoginRefused
  <2>1. stored' \in StoredType
    BY <1>0, <1>15
    DEF TypeOK, LoginRefused, StoredType, People, NoToken, Empty
  <2>2. flow' \in FlowType
    BY <1>0, <1>15
    DEF TypeOK, LoginRefused, FlowType, FlowSteps, People, NoToken, AtRest
  <2>. QED
    BY <1>0, <1>15, <2>1, <2>2 DEF TypeOK, LoginRefused, storage
<1>16. CASE TakeOver
  <2>1. flow' \in FlowType
    BY <1>0, <1>16
    DEF TypeOK, TakeOver, FlowType, FlowSteps, People, NoToken, AtRest
  <2>. QED
    BY <1>0, <1>16, <2>1 DEF TypeOK, TakeOver, storage, OwnChanges, FlowType
<1>17. CASE Open
  <2>1. stored' \in StoredType
    BY <1>0, <1>17
    DEF TypeOK, Open, StoredType, People, NoToken, Empty, FlowType
  <2>2. flow' \in FlowType
    BY <1>0, <1>17
    DEF TypeOK, Open, FlowType, FlowSteps, People, NoToken, AtRest
  <2>. QED
    BY <1>0, <1>17, <2>1, <2>2 DEF TypeOK, Open, storage, FlowType
<1>18. CASE PushDropped
  <2>1. push' \in PushType
    <3>1. Accepted(calls[Unregister].token) => UserOf(calls[Unregister].token) \in Accounts
      BY UserOfCall, CallNames
    <3>. QED
      BY <1>18, <3>1 DEF TypeOK, PushDropped, Dropped, PushType, People
  <2>2. calls' \in [AllCalls -> CallType]
    BY <1>18, SentType DEF TypeOK, PushDropped
  <2>. QED
    BY <1>0, <1>18, <2>1, <2>2 DEF TypeOK, PushDropped, storage
<1>19. CASE EndSession
  <2>1. flow' \in FlowType
    BY <1>0, <1>19
    DEF TypeOK, EndSession, FlowType, FlowSteps, People, NoToken, AtRest
  <2>. QED
    BY <1>0, <1>19, <2>1 DEF TypeOK, EndSession, storage
<1>20. CASE Wipe
  <2>1. stored' \in StoredType
    BY <1>0, <1>20
    DEF TypeOK, Wipe, StoredType, People, NoToken, Empty
  <2>2. flow' \in FlowType
    BY <1>0, <1>20
    DEF TypeOK, Wipe, FlowType, FlowSteps, People, NoToken, AtRest
  <2>. QED
    BY <1>0, <1>20, <2>1, <2>2 DEF TypeOK, Wipe, storage
<1>21. CASE Discard
  <2>1. flow' \in FlowType
    BY <1>0, <1>21
    DEF TypeOK, Discard, FlowType, FlowSteps, People, NoToken, AtRest
  <2>. QED
    BY <1>0, <1>21, <2>1 DEF TypeOK, Discard, storage, People
<1>22. CASE SaveNewTokens
  <2>1. stored' \in StoredType
    BY <1>0, <1>22
    DEF TypeOK, SaveNewTokens, StoredType, People, NoToken, Empty, FlowType
  <2>2. flow' \in FlowType
    BY <1>0, <1>22
    DEF TypeOK, SaveNewTokens, FlowType, FlowSteps, People, NoToken, AtRest
  <2>. QED
    BY <1>0, <1>22, <2>1, <2>2 DEF TypeOK, SaveNewTokens, storage
<1>23. CASE Restart
  <2>1. calls' \in [AllCalls -> CallType]
    BY <1>0, <1>23
    DEF TypeOK, Restart, CallType, CallSteps, NoToken, Settle, Continued,
        Ready, StoredType
  <2>2. renewal' \in RenewalType
    BY <1>0, <1>23
    DEF TypeOK, Restart, RenewalType, NoToken, Settle, NoRenewal,
        StoredType
  <2>3. push' \in PushType
    BY <1>0, <1>23
    DEF TypeOK, Restart, PushType, People, NoToken, NoPush, FiledUnder,
        StoredType
  <2>4. flow' \in FlowType
    BY <1>0, <1>23
    DEF TypeOK, Restart, FlowType, FlowSteps, People, NoToken, AtRest,
        StoredType
  <2>5. screen' \in People
    BY <1>0, <1>23
    DEF TypeOK, Restart, People, NoToken, StoredType
  <2>6. asked' \in Nat
    BY <1>0, <1>23
    DEF TypeOK, Restart, NoToken, StoredType
  <2>7. cut' \subseteq Nat
    BY <1>23 DEF TypeOK, Restart, RenewalType
  <2>. QED
    BY <1>0, <1>23, <2>1, <2>2, <2>3, <2>4, <2>5, <2>6, <2>7 DEF TypeOK, Restart, storage, RenewalType
<1>24. CASE Checked
  <2>1. stored' \in StoredType
    BY <1>0, <1>24, UserOfToken
    DEF TypeOK, Checked, StoredType, People, NoToken, Empty, storage
  <2>2. screen' \in People
    BY <1>0, <1>24, UserOfToken
    DEF TypeOK, Checked, People, NoToken, storage
  <2>3. push' \in PushType
    BY <1>0, <1>24, UserOfToken
    DEF TypeOK, Checked, PushType, People, NoToken, NoPush, FiledUnder,
        storage
  <2>. QED
    BY <1>0, <1>24, <2>1, <2>2, <2>3, UserOfToken DEF TypeOK, Checked, storage, People, NoToken
<1>25. CASE SaveChange
  BY <1>0, <1>25 DEF TypeOK, SaveChange, storage
<1>26. CASE Expire
  BY <1>0, <1>26 DEF TypeOK, Expire, storage, Accepted, StoredType
<1>27. CASE RegisterPush
  <2>1. calls' \in [AllCalls -> CallType]
    BY <1>27, SentType DEF TypeOK, RegisterPush
  <2>. QED
    BY <1>0, <1>27, <2>1 DEF TypeOK, RegisterPush, storage
<1>28. CASE PushRegistered
  <2>1. push' \in PushType
    BY <1>28, PushRegisteredEffect
  <2>2. calls' \in [AllCalls -> CallType]
    BY <1>28, SentType DEF TypeOK, PushRegistered
  <2>. QED
    BY <1>0, <1>28, <2>1, <2>2 DEF TypeOK, PushRegistered, storage
<1>29. CASE Unpushed
  <2>1. flow' \in FlowType
    BY <1>29 DEF TypeOK, Unpushed, FlowType, FlowSteps
  <2>. QED
    BY <1>0, <1>29, <2>1 DEF TypeOK, Unpushed, storage
<1>30. CASE AskAgain
  <2>1. flow' \in FlowType
    BY <1>30, AskAgainEffect
  <2>. QED
    BY <1>0, <1>30, <2>1 DEF TypeOK, AskAgain, storage
<1>31. CASE ShowAgain
  <2>1. stored' \in StoredType /\ screen' \in People
    BY <1>31 DEF TypeOK, ShowAgain, StoredType, FlowType, People
  <2>2. push' \in PushType /\ flow' \in FlowType
    BY <1>31 DEF TypeOK, ShowAgain, PushType, FlowType, FlowSteps, People, AtRest, NoToken
  <2>. QED
    BY <1>0, <1>31, <2>1, <2>2 DEF TypeOK, ShowAgain, storage
<1>. QED
  BY <1>1, <1>2, <1>3, <1>4, <1>5, <1>6, <1>7, <1>8, <1>9, <1>10, <1>11,
     <1>12, <1>13, <1>14, <1>15, <1>16, <1>17, <1>18, <1>19, <1>20,
     <1>21, <1>22, <1>23, <1>24, <1>25, <1>26, <1>27, <1>28, <1>29,
     <1>30, <1>31, StepCases

(* A call goes out with the token that is stored, or keeps the one it had. *)
LEMMA CallsIssuedStep ==
    ASSUME TypeOK, OnlyIssued, CallsIssued, Next
    PROVE  CallsIssued'
<1>1. Len(rows) \in Nat /\ Len(rows') \in Nat /\ Len(rows') >= Len(rows)
  BY RowsGrow
<1>2. /\ stored.access \in Nat /\ stored.access <= Len(rows)
      /\ Ready.token = 0 /\ Sent.token = stored.access
      /\ \A c \in AllCalls : calls[c].token \in Nat /\ calls[c].token <= Len(rows)
  BY SentType DEF TypeOK, OnlyIssued, CallsIssued, StoredType, CallType, Ready, NoToken
<1>3. ASSUME \A c \in AllCalls : calls'[c].token \in {0, stored.access, calls[c].token}
      PROVE  CallsIssued'
  BY <1>1, <1>2, <1>3 DEF CallsIssued
<1>4. ASSUME NEW next, Settle(next)
      PROVE  \A c \in AllCalls : calls'[c].token = calls[c].token
  <2>1. \A c \in AllCalls : Continued(c, next).token = calls[c].token
    BY DEF TypeOK, Continued, CallType
  <2>. QED
    BY <1>4, <2>1 DEF Settle
<1>5. CASE UNCHANGED calls
  BY <1>2, <1>3, <1>5
<1>6. ASSUME NEW c \in AllCalls, NEW v, calls' = [calls EXCEPT ![c] = v],
             v.token \in {0, stored.access, calls[c].token}
      PROVE  CallsIssued'
  BY <1>3, <1>6 DEF TypeOK
<1>7. CASE (\E c \in Calls : Send(c)) \/ (\E c \in Calls : Answered(c))
  BY <1>2, <1>6, <1>7, CallNames DEF Send, Answered
<1>8. CASE \E c \in AllCalls : Resend(c)
  <2>1. PICK c \in AllCalls : Resend(c)
    BY <1>8
  <2>. QED
    BY <1>6, <2>1 DEF Resend
<1>9. CASE \E c \in AllCalls : Unauthorized(c) \/ ClearTokens(c)
  <2>1. PICK c \in AllCalls : Unauthorized(c) \/ ClearTokens(c)
    BY <1>9
  <2>2. \A d \in AllCalls : calls'[d].token = calls[d].token
    <3>1. calls \in [AllCalls -> CallType] /\ calls[c] \in CallType
      BY DEF TypeOK
    <3>2. CASE Unauthorized(c)
      BY <3>1, <3>2 DEF Unauthorized, CallType
    <3>3. CASE ClearTokens(c)
      BY <3>1, <3>3 DEF ClearTokens, CallType
    <3>. QED
      BY <2>1, <3>2, <3>3
  <2>3. \A d \in AllCalls : calls'[d].token \in {0, stored.access, calls[d].token}
    BY <2>2
  <2>. QED
    BY <1>3, <2>3
<1>10. CASE (\E c \in AllCalls : ForcedSignOut(c)) \/ PushRegistered \/ PushDropped
  BY <1>2, <1>6, <1>10, CallNames DEF ForcedSignOut, PushRegistered, PushDropped
<1>11. CASE Logout \/ RegisterPush
  BY <1>2, <1>5, <1>6, <1>11, CallNames DEF Logout, RegisterPush
<1>12. CASE RenewalReads \/ Rotate \/ RenewalFails \/ RenewalSaves
  <2>1. UNCHANGED calls \/ \E next : Settle(next)
    BY <1>12 DEF RenewalReads, Rotate, RenewalFails, RenewalSaves
  <2>. QED
    BY <1>3, <1>4, <1>5, <2>1
<1>13. CASE Restart
  BY <1>2, <1>3, <1>13 DEF Restart
<1>14. CASE \/ \E u \in Accounts : Login(u)
            \/ ChangePassword \/ WhoAmI \/ LoginRefused \/ TakeOver \/ Open
            \/ Unpushed \/ EndSession \/ Wipe \/ Discard
            \/ SaveNewTokens \/ AskAgain \/ ShowAgain
            \/ Checked \/ SaveChange \/ Expire
  <2>1. UNCHANGED calls
    BY <1>14 DEF Login, ChangePassword, WhoAmI, LoginRefused, TakeOver, Open, Unpushed,
           EndSession, Wipe, Discard, SaveNewTokens, AskAgain, ShowAgain, Checked,
           SaveChange, Expire
  <2>. QED
    BY <1>5, <2>1
<1>. QED
  BY <1>7, <1>8, <1>9, <1>10, <1>11, <1>12, <1>13, <1>14, StepCases

LEMMA OneIssued ==
    ASSUME TypeOK, OnlyIssued, Rotate \/ ChangePassword \/ \E u \in Accounts : Login(u)
    PROVE  Len(rows') = Len(rows) + 1 /\ rows'[Len(rows) + 1].state = "live"
<1>1. CASE Rotate
  BY <1>1, RotateEffect
<1>2. CASE ChangePassword
  <2>. DEFINE u == UserOf(stored.access)
              T == TokensOf(u)
  <2>1. u \in Accounts /\ rows' = Issued(Ended(rows, T), u)
    <3>1. stored.access \in Nat /\ stored.access # NoToken /\ stored.access <= Len(rows)
      BY <1>2 DEF ChangePassword, Accepted, TypeOK, StoredType, OnlyIssued
    <3>. QED
      BY <1>2, <3>1, UserIsAccount DEF ChangePassword
  <2>. HIDE DEF u, T
  <2>2. Ended(rows, T) \in Seq(Row) /\ Len(Ended(rows, T)) = Len(rows)
    BY EndedIsGrown DEF TypeOK, Grown
  <2>. QED
    BY <2>1, <2>2, IssuedIsGrown
<1>3. CASE \E u \in Accounts : Login(u)
  BY <1>3, IssuedIsGrown DEF Login, TypeOK
<1>. QED
  BY <1>1, <1>2, <1>3

LEMMA OnlyIssuedStep ==
    ASSUME TypeOK, OnlyIssued, Next
    PROVE  OnlyIssued'
<1>0. /\ Len(rows) \in Nat /\ Len(rows') \in Nat /\ Len(rows') >= Len(rows)
      /\ Rotate \/ ChangePassword \/ (\E u \in Accounts : Login(u)) => Len(rows') = Len(rows) + 1
      /\ stored \in StoredType /\ flow \in FlowType /\ asked \in Nat
      /\ renewal \in RenewalType
  BY RowsGrow, OneIssued DEF TypeOK
<1>. USE DEF OnlyIssued, storage, NoToken, NextToken, Settle, Empty, Ready,
             AtRest, NoRenewal, StoredType, FlowType, RenewalType
<1>1. CASE \E c \in Calls : Send(c)
  BY <1>0, <1>1 DEF Send
<1>2. CASE \E c \in AllCalls : Resend(c)
  BY <1>0, <1>2 DEF Resend
<1>3. CASE \E c \in Calls : Answered(c)
  BY <1>0, <1>3 DEF Answered
<1>4. CASE \E c \in AllCalls : Unauthorized(c)
  BY <1>0, <1>4 DEF Unauthorized, NoneRunning
<1>5. CASE \E c \in AllCalls : ClearTokens(c)
  BY <1>0, <1>5 DEF ClearTokens
<1>6. CASE \E c \in AllCalls : ForcedSignOut(c)
  BY <1>0, <1>6 DEF ForcedSignOut
<1>7. CASE \E u \in Accounts : Login(u)
  BY <1>0, <1>7 DEF Login
<1>8. CASE RenewalReads
  <2>1. \/ renewal' = NoRenewal
        \/ /\ stored.refresh # NoToken
           /\ renewal'.pc = "sent" /\ renewal'.token = stored.refresh
           /\ renewal'.next = renewal.next
    BY <1>0, <1>8 DEF RenewalReads
  <2>2. UNCHANGED <<rows, stored, flow, asked>>
    BY <1>8 DEF RenewalReads
  <2>. QED
    BY <1>0, <2>1, <2>2
<1>9. CASE Rotate
  <2>1. \/ renewal' = NoRenewal
        \/ /\ renewal'.pc = "save" /\ renewal'.token = renewal.token
           /\ renewal'.next = Len(rows) + 1
    BY <1>0, <1>9 DEF Rotate
  <2>2. UNCHANGED <<stored, flow, asked>>
    BY <1>9 DEF Rotate
  <2>3. Len(rows') = Len(rows) + 1
    BY <1>0, <1>9
  <2>. QED
    BY <1>0, <2>1, <2>2, <2>3
<1>10. CASE RenewalFails
  BY <1>0, <1>10 DEF RenewalFails
<1>11. CASE RenewalSaves
  BY <1>0, <1>11 DEF RenewalSaves
<1>12. CASE Logout
  BY <1>0, <1>12 DEF Logout
<1>13. CASE ChangePassword
  <2>1. UNCHANGED <<stored, asked, renewal>>
    BY <1>13 DEF ChangePassword
  <2>. QED
    BY <1>0, <1>13, <2>1, ChangePasswordFlow
<1>14. CASE WhoAmI
  BY <1>0, <1>14 DEF WhoAmI
<1>15. CASE LoginRefused
  BY <1>0, <1>15 DEF LoginRefused
<1>16. CASE TakeOver
  BY <1>0, <1>16 DEF TakeOver
<1>17. CASE Open
  BY <1>0, <1>17 DEF Open
<1>18. CASE PushDropped
  BY <1>0, <1>18 DEF PushDropped
<1>19. CASE EndSession
  BY <1>0, <1>19 DEF EndSession
<1>20. CASE Wipe
  BY <1>0, <1>20 DEF Wipe
<1>21. CASE Discard
  BY <1>0, <1>21 DEF Discard
<1>22. CASE SaveNewTokens
  BY <1>0, <1>22 DEF SaveNewTokens
<1>23. CASE Restart
  BY <1>0, <1>23 DEF Restart
<1>24. CASE Checked
  BY <1>0, <1>24 DEF Checked
<1>25. CASE SaveChange
  BY <1>0, <1>25 DEF SaveChange
<1>26. CASE Expire
  BY <1>0, <1>26 DEF Expire
<1>27. CASE RegisterPush
  BY <1>0, <1>27 DEF RegisterPush
<1>28. CASE PushRegistered
  BY <1>0, <1>28 DEF PushRegistered
<1>29. CASE Unpushed
  BY <1>0, <1>29 DEF Unpushed
<1>30. CASE AskAgain
  <2>1. UNCHANGED <<rows, stored, asked, renewal>>
    BY <1>30 DEF AskAgain
  <2>. QED
    BY <1>0, <1>30, <2>1, AskAgainEffect
<1>31. CASE ShowAgain
  BY <1>0, <1>31 DEF ShowAgain
<1>. QED
  BY <1>1, <1>2, <1>3, <1>4, <1>5, <1>6, <1>7, <1>8, <1>9, <1>10, <1>11,
     <1>12, <1>13, <1>14, <1>15, <1>16, <1>17, <1>18, <1>19, <1>20,
     <1>21, <1>22, <1>23, <1>24, <1>25, <1>26, <1>27, <1>28, <1>29,
     <1>30, <1>31, StepCases

LEMMA RotationsStep ==
    ASSUME TypeOK, OnlyIssued, Rotations, Next
    PROVE  Rotations'
<1>1. /\ Len(rows) \in Nat
      /\ stored \in StoredType /\ flow \in FlowType /\ renewal \in RenewalType
      /\ stored.refresh <= Len(rows) /\ flow.token <= Len(rows)
      /\ renewal.token <= Len(rows) /\ renewal.next <= Len(rows)
      /\ renewal.pc = "sent" => renewal.token # NoToken
      /\ flow.pc = "newTokens" => flow.token # NoToken
      /\ \A r : ~SpentIn(r, NoToken)
  BY DEF TypeOK, OnlyIssued, SpentIn
<1>2. ASSUME ~Rotate
      PROVE  \A t \in Nat : t <= Len(rows) => SpentIn(rows', t) = SpentIn(rows, t)
  <2>1. Grown(rows, rows')
    BY <1>2, OthersExchangeNothing
  <2>2. \A t \in Nat : t # NoToken /\ t <= Len(rows) => t \in 1 .. Len(rows)
    BY <1>1 DEF NoToken
  <2>. QED
    BY <2>1, <2>2 DEF Grown, SpentIn
<1>3. ASSUME Rotate \/ ChangePassword \/ \E u \in Accounts : Login(u)
      PROVE  ~SpentIn(rows', Len(rows) + 1)
  BY <1>3, OneIssued DEF SpentIn
<1>4. CASE Rotate
  <2>. DEFINE s == renewal.token
  <2>1. \A t \in Nat : t <= Len(rows) /\ t # s => SpentIn(rows', t) = SpentIn(rows, t)
    <3>1. \A t \in Nat : t # NoToken /\ t <= Len(rows) => t \in 1 .. Len(rows)
      BY <1>1 DEF NoToken
    <3>. QED
      BY <1>4, <3>1, RotateEffect DEF SpentIn
  <2>2. renewal.pc = "sent" /\ UNCHANGED <<stored, flow>>
    BY <1>4 DEF Rotate, storage
  <2>3. flow'.pc = "newTokens" =>
           /\ ~SpentIn(rows', flow'.token) /\ flow'.token # stored'.refresh
           /\ flow'.token # Len(rows) + 1
    BY <1>1, <2>1, <2>2 DEF Rotations, Spent, FlowType
  <2>4. stored'.refresh # s /\ SpentIn(rows', stored'.refresh) => stored'.refresh \in cut
    BY <1>1, <2>1, <2>2 DEF Rotations, Spent, StoredType
  <2>5. CASE /\ renewal'.pc = "save" /\ renewal'.token = s
             /\ renewal'.next = Len(rows) + 1 /\ UNCHANGED cut
    BY <1>3, <1>4, <2>3, <2>4, <2>5 DEF Rotations, Spent
  <2>6. CASE renewal' = NoRenewal /\ cut' = cut \cup {s}
    BY <2>3, <2>4, <2>6 DEF Rotations, Spent, NoRenewal
  <2>. QED
    BY <1>1, <1>4, <2>5, <2>6 DEF Rotate, Settle, NextToken, RenewalType
<1>5. CASE \E c \in Calls : Send(c) /\ ~Rotate
  BY <1>1, <1>2, <1>5
  DEF Rotations, Spent, storage, Send, StoredType, FlowType, RenewalType
<1>6. CASE \E c \in AllCalls : Resend(c) /\ ~Rotate
  BY <1>1, <1>2, <1>6
  DEF Rotations, Spent, storage, Resend, StoredType, FlowType, RenewalType
<1>7. CASE \E c \in Calls : Answered(c) /\ ~Rotate
  BY <1>1, <1>2, <1>7
  DEF Rotations, Spent, storage, Answered, StoredType, FlowType,
      RenewalType
<1>8. CASE \E c \in AllCalls : Unauthorized(c) /\ ~Rotate
  BY <1>1, <1>2, <1>8
  DEF Rotations, Spent, storage, Unauthorized, NoneRunning, NoRenewal,
      StoredType, FlowType, RenewalType
<1>9. CASE \E c \in AllCalls : ClearTokens(c) /\ ~Rotate
  BY <1>1, <1>2, <1>9
  DEF Rotations, Spent, storage, ClearTokens, Empty, StoredType, FlowType,
      RenewalType
<1>10. CASE \E c \in AllCalls : ForcedSignOut(c) /\ ~Rotate
  BY <1>1, <1>2, <1>10
  DEF Rotations, Spent, storage, ForcedSignOut, StoredType, FlowType,
      RenewalType
<1>11. CASE \E u \in Accounts : Login(u) /\ ~Rotate
  BY <1>1, <1>2, <1>3, <1>11
  DEF Rotations, Spent, storage, Login, NextToken, AtRest, StoredType,
      FlowType, RenewalType
<1>12. CASE RenewalReads /\ ~Rotate
  <2>1. \/ renewal' = NoRenewal
        \/ /\ renewal'.pc = "sent" /\ renewal'.token = stored.refresh
           /\ renewal'.next = renewal.next
    BY <1>1, <1>12 DEF RenewalReads, Settle, RenewalType
  <2>2. UNCHANGED <<rows, stored, flow, cut>> /\ renewal.pc = "read"
    BY <1>12 DEF RenewalReads, storage
  <2>. QED
    BY <1>1, <2>1, <2>2 DEF Rotations, Spent, NoRenewal
<1>13. CASE RenewalFails /\ ~Rotate
  BY <1>1, <1>2, <1>13
  DEF Rotations, Spent, storage, RenewalFails, Settle, NoRenewal,
      StoredType, FlowType, RenewalType
<1>14. CASE RenewalSaves /\ ~Rotate
  BY <1>1, <1>2, <1>14
  DEF Rotations, Spent, storage, RenewalSaves, Settle, NoRenewal,
      StoredType, FlowType, RenewalType
<1>15. CASE Logout /\ ~Rotate
  BY <1>1, <1>2, <1>15
  DEF Rotations, Spent, storage, Logout, AtRest, StoredType, FlowType,
      RenewalType
<1>16. CASE ChangePassword /\ ~Rotate
  <2>1. UNCHANGED <<stored, cut, renewal>>
    BY <1>16 DEF ChangePassword, storage
  <2>. QED
    BY <1>1, <1>2, <1>3, <1>16, <2>1, ChangePasswordFlow
    DEF Rotations, Spent, StoredType, RenewalType
<1>17. CASE WhoAmI /\ ~Rotate
  BY <1>1, <1>2, <1>17
  DEF Rotations, Spent, storage, WhoAmI, StoredType, FlowType, RenewalType
<1>18. CASE LoginRefused /\ ~Rotate
  BY <1>1, <1>2, <1>18
  DEF Rotations, Spent, storage, LoginRefused, Empty, AtRest, StoredType,
      FlowType, RenewalType
<1>19. CASE TakeOver /\ ~Rotate
  BY <1>1, <1>2, <1>19
  DEF Rotations, Spent, storage, TakeOver, StoredType, FlowType,
      RenewalType
<1>20. CASE Open /\ ~Rotate
  BY <1>1, <1>2, <1>20
  DEF Rotations, Spent, storage, Open, AtRest, StoredType, FlowType,
      RenewalType
<1>21. CASE PushDropped /\ ~Rotate
  BY <1>1, <1>2, <1>21
  DEF Rotations, Spent, storage, PushDropped, StoredType, FlowType,
      RenewalType
<1>22. CASE EndSession /\ ~Rotate
  BY <1>1, <1>2, <1>22
  DEF Rotations, Spent, storage, EndSession, StoredType, FlowType,
      RenewalType
<1>23. CASE Wipe /\ ~Rotate
  BY <1>1, <1>2, <1>23
  DEF Rotations, Spent, storage, Wipe, Empty, StoredType, FlowType,
      RenewalType
<1>24. CASE Discard /\ ~Rotate
  BY <1>1, <1>2, <1>24
  DEF Rotations, Spent, storage, Discard, AtRest, StoredType, FlowType,
      RenewalType
<1>25. CASE SaveNewTokens /\ ~Rotate
  BY <1>1, <1>2, <1>25
  DEF Rotations, Spent, storage, SaveNewTokens, AtRest, StoredType,
      FlowType, RenewalType
<1>26. CASE Restart /\ ~Rotate
  BY <1>1, <1>2, <1>26
  DEF Rotations, Spent, storage, Restart, NoRenewal, AtRest, StoredType,
      FlowType, RenewalType
<1>27. CASE Checked /\ ~Rotate
  BY <1>1, <1>2, <1>27
  DEF Rotations, Spent, storage, Checked, Empty, StoredType, FlowType,
      RenewalType
<1>28. CASE SaveChange /\ ~Rotate
  BY <1>1, <1>2, <1>28
  DEF Rotations, Spent, storage, SaveChange, StoredType, FlowType,
      RenewalType
<1>29. CASE Expire /\ ~Rotate
  BY <1>1, <1>2, <1>29
  DEF Rotations, Spent, storage, Expire, StoredType, FlowType, RenewalType
<1>30. CASE RegisterPush /\ ~Rotate
  BY <1>1, <1>2, <1>30
  DEF Rotations, Spent, storage, RegisterPush, StoredType, FlowType,
      RenewalType
<1>31. CASE PushRegistered /\ ~Rotate
  BY <1>1, <1>2, <1>31
  DEF Rotations, Spent, storage, PushRegistered, StoredType, FlowType,
      RenewalType
<1>32. CASE Unpushed /\ ~Rotate
  BY <1>1, <1>2, <1>32
  DEF Rotations, Spent, storage, Unpushed, StoredType, FlowType, RenewalType
<1>33. CASE AskAgain /\ ~Rotate
  <2>1. UNCHANGED <<rows, stored, cut, renewal>>
    BY <1>33 DEF AskAgain, storage
  <2>. QED
    BY <1>1, <1>2, <1>33, <2>1, AskAgainEffect DEF Rotations, Spent
<1>34. CASE ShowAgain /\ ~Rotate
  BY <1>1, <1>2, <1>34
  DEF Rotations, Spent, storage, ShowAgain, AtRest, StoredType, FlowType,
      RenewalType
<1>. QED
  BY <1>4, <1>5, <1>6, <1>7, <1>8, <1>9, <1>10, <1>11, <1>12, <1>13, <1>14,
     <1>15, <1>16, <1>17, <1>18, <1>19, <1>20, <1>21, <1>22, <1>23,
     <1>24, <1>25, <1>26, <1>27, <1>28, <1>29, <1>30, <1>31, <1>32,
     <1>33, <1>34, StepCases

LEMMA OwnersStep ==
    ASSUME TypeOK, OnlyIssued, Owners, Next
    PROVE  Owners'
<1>1. /\ Len(rows) \in Nat
      /\ stored \in StoredType /\ flow \in FlowType /\ renewal \in RenewalType
      /\ asked \in Nat /\ asked <= Len(rows) /\ Len(rows) + 1 # asked
  BY DEF TypeOK, OnlyIssued
<1>2. UNCHANGED events
  BY DEF Next
<1>3. CASE \E c \in Calls : Send(c)
  BY <1>1, <1>2, <1>3
  DEF Owners, Ours, InOneGo, SigningIn, storage, Send, StoredType, FlowType,
      RenewalType
<1>4. CASE \E c \in AllCalls : Resend(c)
  BY <1>1, <1>2, <1>4
  DEF Owners, Ours, InOneGo, SigningIn, storage, Resend, StoredType, FlowType,
      RenewalType
<1>5. CASE \E c \in Calls : Answered(c)
  BY <1>1, <1>2, <1>5
  DEF Owners, Ours, InOneGo, SigningIn, storage, Answered, StoredType, FlowType,
      RenewalType
<1>6. CASE \E c \in AllCalls : Unauthorized(c)
  BY <1>1, <1>2, <1>6
  DEF Owners, Ours, InOneGo, SigningIn, storage, Unauthorized, NoneRunning,
      NoRenewal, StoredType, FlowType, RenewalType
<1>7. CASE \E c \in AllCalls : ClearTokens(c)
  BY <1>1, <1>2, <1>7
  DEF Owners, Ours, InOneGo, SigningIn, storage, ClearTokens, Empty, NoToken,
      StoredType, FlowType, RenewalType
<1>8. CASE \E c \in AllCalls : ForcedSignOut(c)
  BY <1>1, <1>2, <1>8
  DEF Owners, Ours, InOneGo, SigningIn, storage, ForcedSignOut, StoredType,
      FlowType, RenewalType
<1>9. CASE \E u \in Accounts : Login(u)
  BY <1>1, <1>2, <1>9
  DEF Owners, Ours, InOneGo, SigningIn, storage, Login, NextToken, AtRest,
      StoredType, FlowType, RenewalType
<1>10. CASE RenewalReads
  <2>1. \/ renewal' = NoRenewal
        \/ /\ renewal'.pc = "sent" /\ renewal'.token = stored.refresh
           /\ renewal'.next = renewal.next
    BY <1>1, <1>10 DEF RenewalReads, Settle, RenewalType
  <2>2. UNCHANGED <<stored, queue, owner, screen, person, flow, asked>>
    BY <1>10 DEF RenewalReads, storage
  <2>. QED
    BY <1>1, <1>2, <2>1, <2>2 DEF Owners, Ours, InOneGo, SigningIn, NoRenewal
<1>11. CASE Rotate
  <2>1. \/ renewal' = NoRenewal
        \/ /\ renewal'.pc = "save" /\ renewal'.token = renewal.token
           /\ renewal'.next = Len(rows) + 1
    BY <1>1, <1>11 DEF Rotate, Settle, RenewalType, NextToken
  <2>2. UNCHANGED <<stored, queue, owner, screen, person, flow, asked>>
    BY <1>11 DEF Rotate, storage
  <2>. QED
    BY <1>1, <1>2, <2>1, <2>2 DEF Owners, Ours, InOneGo, SigningIn, NoRenewal
<1>12. CASE RenewalFails
  BY <1>1, <1>2, <1>12
  DEF Owners, Ours, InOneGo, SigningIn, storage, RenewalFails, Settle, NoRenewal,
      StoredType, FlowType, RenewalType
<1>13. CASE RenewalSaves
  BY <1>1, <1>2, <1>13
  DEF Owners, Ours, InOneGo, SigningIn, storage, RenewalSaves, Settle, NoRenewal,
      StoredType, FlowType, RenewalType
<1>14. CASE Logout
  BY <1>1, <1>2, <1>14
  DEF Owners, Ours, InOneGo, SigningIn, storage, Logout, AtRest, StoredType,
      FlowType, RenewalType
<1>15. CASE ChangePassword
  BY <1>1, <1>2, <1>15
  DEF Owners, Ours, InOneGo, SigningIn, storage, ChangePassword, NextToken,
      AtRest, StoredType, FlowType, RenewalType
<1>16. CASE WhoAmI
  BY <1>1, <1>2, <1>16, UserOfToken, SessionsAssumption
  DEF Owners, Ours, InOneGo, SigningIn, storage, WhoAmI, StoredType, FlowType,
      RenewalType
<1>17. CASE LoginRefused
  BY <1>1, <1>2, <1>17
  DEF Owners, Ours, InOneGo, SigningIn, storage, LoginRefused, Empty, NoToken,
      AtRest, StoredType, FlowType, RenewalType
<1>18. CASE TakeOver
  BY <1>1, <1>2, <1>18
  DEF Owners, Ours, InOneGo, SigningIn, storage, TakeOver, OwnChanges,
      StoredType, FlowType, RenewalType
<1>19. CASE Open
  BY <1>1, <1>2, <1>19
  DEF Owners, Ours, InOneGo, SigningIn, storage, Open, AtRest, StoredType,
      FlowType, RenewalType
<1>20. CASE PushDropped
  BY <1>1, <1>2, <1>20
  DEF Owners, Ours, InOneGo, SigningIn, storage, PushDropped, StoredType,
      FlowType, RenewalType
<1>21. CASE EndSession
  BY <1>1, <1>2, <1>21
  DEF Owners, Ours, InOneGo, SigningIn, storage, EndSession, StoredType,
      FlowType, RenewalType
<1>22. CASE Wipe
  BY <1>1, <1>2, <1>22
  DEF Owners, Ours, InOneGo, SigningIn, storage, Wipe, Empty, NoToken,
      StoredType, FlowType, RenewalType
<1>23. CASE Discard
  BY <1>1, <1>2, <1>23
  DEF Owners, Ours, InOneGo, SigningIn, storage, Discard, AtRest, StoredType,
      FlowType, RenewalType
<1>24. CASE SaveNewTokens
  BY <1>1, <1>2, <1>24
  DEF Owners, Ours, InOneGo, SigningIn, storage, SaveNewTokens, AtRest,
      StoredType, FlowType, RenewalType
<1>25. CASE Restart
  BY <1>1, <1>2, <1>25
  DEF Owners, Ours, InOneGo, SigningIn, storage, Restart, NoRenewal, AtRest,
      NoToken, StoredType, FlowType, RenewalType
<1>26. CASE Checked
  BY <1>1, <1>2, <1>26
  DEF Owners, Ours, InOneGo, SigningIn, storage, Checked, Empty, NoToken,
      StoredType, FlowType, RenewalType
<1>27. CASE SaveChange
  BY <1>1, <1>2, <1>27
  DEF Owners, Ours, InOneGo, SigningIn, storage, SaveChange, StoredType,
      FlowType, RenewalType
<1>28. CASE Expire
  BY <1>1, <1>2, <1>28
  DEF Owners, Ours, InOneGo, SigningIn, storage, Expire, StoredType, FlowType,
      RenewalType
<1>29. CASE RegisterPush
  BY <1>1, <1>2, <1>29
  DEF Owners, Ours, InOneGo, SigningIn, storage, RegisterPush, StoredType,
      FlowType, RenewalType
<1>30. CASE PushRegistered
  BY <1>1, <1>2, <1>30
  DEF Owners, Ours, InOneGo, SigningIn, storage, PushRegistered, StoredType,
      FlowType, RenewalType
<1>31. CASE Unpushed
  BY <1>1, <1>2, <1>31
  DEF Owners, Ours, InOneGo, SigningIn, storage, Unpushed, StoredType,
      FlowType, RenewalType
<1>32. CASE AskAgain
  <2>1. UNCHANGED <<stored, queue, owner, screen, person, asked, renewal>>
    BY <1>32 DEF AskAgain, storage
  <2>. QED
    BY <1>1, <1>2, <1>32, <2>1, AskAgainEffect DEF Owners, Ours, InOneGo, SigningIn
<1>33. CASE ShowAgain
  BY <1>1, <1>2, <1>33
  DEF Owners, Ours, InOneGo, SigningIn, storage, ShowAgain, AtRest,
      StoredType, FlowType, RenewalType
<1>. QED
  BY <1>3, <1>4, <1>5, <1>6, <1>7, <1>8, <1>9, <1>10, <1>11, <1>12, <1>13,
     <1>14, <1>15, <1>16, <1>17, <1>18, <1>19, <1>20, <1>21, <1>22,
     <1>23, <1>24, <1>25, <1>26, <1>27, <1>28, <1>29, <1>30, <1>31,
     <1>32, <1>33, StepCases

LEMMA PushesStep ==
    ASSUME TypeOK, OnlyIssued, CallsIssued, Pushes, Next
    PROVE  Pushes'
<1>1. /\ flow \in FlowType /\ push \in PushType
      /\ calls \in [AllCalls -> CallType]
      /\ Register \in AllCalls /\ Unregister \in AllCalls /\ Unregister # Register
  BY CallNames DEF TypeOK
<1>. DEFINE Quiet == \A c \in {Register, Unregister} :
                         calls'[c].pc # "idle" => calls[c].pc # "idle"
<1>2. CASE UNCHANGED <<push, screen, flow>> /\ Quiet
  BY <1>2 DEF Pushes
<1>3. ASSUME NEW next, Settle(next)
      PROVE  Quiet
  BY <1>1, <1>3 DEF Settle, Continued
<1>4. CASE \E c \in AllCalls : ForcedSignOut(c)
  <2>1. PICK c \in AllCalls : ForcedSignOut(c)
    BY <1>4
  <2>2. Quiet
    BY <1>1, <2>1 DEF ForcedSignOut, Ready
  <2>3. UNCHANGED flow /\ push'.known = push.known /\ (push'.late <=> (push.late \/ push.known))
    BY <1>1, <2>1 DEF ForcedSignOut, PushType
  <2>. QED
    BY <1>1, <2>2, <2>3 DEF Pushes, PushType
<1>5. CASE \E u \in Accounts : Login(u)
  BY <1>1, <1>5 DEF Pushes, Login, AtRest, FlowType, PushType
<1>6. CASE Logout
  BY <1>1, <1>6 DEF Pushes, Logout, AtRest, FlowType, PushType
<1>7. CASE ChangePassword
  BY <1>1, <1>7 DEF Pushes, ChangePassword, AtRest, FlowType, PushType
<1>8. CASE WhoAmI \/ LoginRefused \/ TakeOver \/ Open
  BY <1>1, <1>8 DEF Pushes, WhoAmI, LoginRefused, TakeOver, Open, AtRest, FlowType, PushType
<1>9. CASE EndSession \/ Wipe \/ Discard \/ Unpushed
  BY <1>1, <1>9 DEF Pushes, EndSession, Wipe, Discard, Unpushed, AtRest, FlowType, PushType
<1>10. CASE SaveNewTokens
  BY <1>1, <1>10 DEF Pushes, SaveNewTokens, FlowType, PushType
<1>21. CASE AskAgain
  <2>1. UNCHANGED <<push, screen, calls>>
    BY <1>21 DEF AskAgain
  <2>. QED
    BY <1>1, <1>21, <2>1, AskAgainEffect DEF Pushes
<1>11. CASE ShowAgain
  BY <1>1, <1>11 DEF Pushes, ShowAgain, AtRest, FlowType, PushType
<1>12. CASE PushDropped
  <2>1. UNCHANGED <<screen, flow>>
    BY <1>12 DEF PushDropped
  <2>2. Quiet
    BY <1>1, <1>12 DEF PushDropped, Ready
  <2>3. push' = push \/ push' = [push EXCEPT !.row = Dropped(UserOf(calls[Unregister].token))]
    BY <1>12 DEF PushDropped
  <2>4. push.known => push.late
    BY <1>1, <1>12 DEF Pushes, PushDropped
  <2>. QED
    BY <1>1, <1>12, <2>1, <2>2, <2>3, <2>4 DEF Pushes, PushType
<1>13. CASE Restart
  BY <1>1, <1>13 DEF Pushes, Restart, NoPush, FlowType, PushType, Ready
<1>14. CASE Checked
  BY <1>1, <1>14 DEF Pushes, Checked, FlowType, PushType
<1>15. CASE RegisterPush
  BY <1>1, <1>15 DEF Pushes, RegisterPush, FlowType, PushType
<1>16. CASE PushRegistered
  <2>1. UNCHANGED <<screen, flow>> /\ calls'[Register].pc = "idle" /\ ~push.known
    BY <1>1, <1>16 DEF PushRegistered, Ready, Pushes
  <2>3. calls'[Unregister] = calls[Unregister]
    BY <1>1, <1>16 DEF PushRegistered
  <2>2. \/ ~push'.known
        \/ push'.known /\ (~push'.late => push'.row = screen /\ screen # Nobody /\ flow.pc = "idle")
    BY <1>16, <2>1, PushRegisteredEffect, SessionsAssumption DEF AtRest
  <2>. QED
    BY <2>1, <2>2, <2>3 DEF Pushes
<1>17. CASE \E c \in Calls : Send(c) \/ Answered(c)
  <2>1. PICK c \in Calls : Send(c) \/ Answered(c)
    BY <1>17
  <2>2. UNCHANGED <<push, screen, flow>> /\ c \notin {Register, Unregister}
    BY <2>1, CallNames DEF Send, Answered
  <2>3. \A d \in {Register, Unregister} : calls'[d] = calls[d]
    BY <1>1, <2>1, <2>2 DEF Send, Answered
  <2>. QED
    BY <1>2, <2>2, <2>3
<1>18. CASE \E c \in AllCalls : Resend(c) \/ Unauthorized(c) \/ ClearTokens(c)
  <2>1. PICK c \in AllCalls : Resend(c) \/ Unauthorized(c) \/ ClearTokens(c)
    BY <1>18
  <2>2. UNCHANGED <<push, screen, flow>> /\ calls[c].pc # "idle"
    BY <2>1 DEF Resend, Unauthorized, ClearTokens
  <2>3. \A d \in AllCalls : d # c => calls'[d] = calls[d]
    BY <1>1, <2>1 DEF Resend, Unauthorized, ClearTokens
  <2>. QED
    BY <1>1, <1>2, <2>2, <2>3
<1>19. CASE RenewalReads \/ Rotate \/ RenewalFails \/ RenewalSaves
  <2>1. UNCHANGED calls \/ \E next : Settle(next)
    BY <1>19 DEF RenewalReads, Rotate, RenewalFails, RenewalSaves
  <2>2. UNCHANGED <<push, screen, flow>>
    BY <1>19 DEF RenewalReads, Rotate, RenewalFails, RenewalSaves
  <2>. QED
    BY <1>2, <1>3, <2>1, <2>2
<1>20. CASE SaveChange \/ Expire
  BY <1>2, <1>20 DEF SaveChange, Expire
<1>. QED
  BY <1>4, <1>5, <1>6, <1>7, <1>8, <1>9, <1>10, <1>11, <1>12, <1>13, <1>14,
     <1>15, <1>16, <1>17, <1>18, <1>19, <1>20, <1>21, StepCases

LEMMA InvInit ==
    ASSUME Init
    PROVE  IInv
<1>1. PICK w \in Worlds : InitIn(w)
  BY DEF Init
<1>. USE DEF InitIn, NoToken, Empty, AtRest, NoRenewal, NoPush, Ready
<1>0. Register \in AllCalls /\ Unregister \in AllCalls
  BY CallNames
<1>2. Len(rows) = 0 /\ rows \in Seq(Row)
  BY <1>1
<1>3. TypeOK
  BY <1>1, <1>2
     DEF TypeOK, People, StoredType, FlowType, FlowSteps, CallType, CallSteps,
         RenewalType, PushType
<1>4. OnlyIssued /\ CallsIssued
  BY <1>1, <1>2 DEF OnlyIssued, CallsIssued
<1>5. Rotations /\ Owners /\ Pushes
  BY <1>0, <1>1 DEF Rotations, Spent, SpentIn, Owners, Ours, SigningIn, Pushes
<1>. QED
  BY <1>3, <1>4, <1>5 DEF IInv

LEMMA InvStutter ==
    ASSUME IInv, UNCHANGED vars
    PROVE  IInv'
<1>1. /\ UNCHANGED <<rows, expired, stored, queue, owner, screen, flow, asked>>
      /\ UNCHANGED <<calls, renewal, person, cut, push, events>>
  BY DEF vars, storage
<1>2. TypeOK' /\ OnlyIssued' /\ CallsIssued'
  BY <1>1 DEF IInv, TypeOK, OnlyIssued, CallsIssued
<1>3. Rotations' /\ Owners' /\ Pushes'
  BY <1>1 DEF IInv, Rotations, Spent, Owners, Ours, InOneGo, SigningIn, Pushes
<1>. QED
  BY <1>2, <1>3 DEF IInv

LEMMA InvStep ==
    ASSUME IInv, [Next]_vars
    PROVE  IInv'
BY TypesStep, OnlyIssuedStep, CallsIssuedStep, RotationsStep, OwnersStep, PushesStep, InvStutter DEF IInv

LEMMA Invariance == Spec => []IInv
<1>. QED
  BY InvInit, InvStep, PTL DEF Spec

----------------------------------------------------------------------------
(* The results                                                             *)

(* Every variable of the phone and of the server's table stays in its      *)
(* type, and no token is stored, presented or awaited that the server has  *)
(* not issued: what issueRefreshToken returns is the only source of them.  *)
THEOREM SessionsTypeCorrect == Spec => [](TypeOK /\ OnlyIssued /\ CallsIssued)
<1>1. IInv => TypeOK /\ OnlyIssued /\ CallsIssued
  BY DEF IInv
<1>. QED
  BY <1>1, Invariance, PTL

(* Two people who share a phone stay apart, whatever is lost, renewed or   *)
(* answered late: nobody's saved changes wait under another account, no    *)
(* token is presented twice unless the answer to its exchange was cut off, *)
(* and a phone registered for pushes gets those of the account it shows.   *)
THEOREM PeopleStayApart == Spec => []AccountsStayApart
<1>1. IInv => QueueIsThePersons
  BY DEF IInv, Owners, Ours, InOneGo, QueueIsThePersons
<1>2. ASSUME IInv
      PROVE  SpentTokenNotPresented
  <2>1. renewal.pc = "sent" => renewal.token # NoToken
    BY <1>2 DEF IInv, OnlyIssued
  <2>. QED
    BY <1>2, <2>1 DEF IInv, Rotations, Spent, SpentIn, SpentTokenNotPresented
<1>3. IInv => PushFollowsLogin
  BY DEF IInv, Pushes, PushFollowsLogin
<1>4. IInv => AccountsStayApart
  BY <1>1, <1>2, <1>3 DEF AccountsStayApart
<1>. QED
  BY <1>4, Invariance, PTL

=============================================================================
