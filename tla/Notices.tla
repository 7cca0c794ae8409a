------------------------------- MODULE Notices -------------------------------
(***************************************************************************)
(* What a postman is told of deliveries that come and go                   *)
(* (postmanNotifications.service.ts).  A change that is committed is       *)
(* announced; urgent ones at once, the others counted in a batch per       *)
(* postman that a timer sends.  The batches live in the memory of the      *)
(* server.  A notice is stored as a row and then pushed to the phones; a   *)
(* failure is logged and nothing is tried again.                           *)
(***************************************************************************)
EXTENDS Naturals, FiniteSets

CONSTANTS
    Postmen,
    WithLogin,      \* postmen who have an active login, an app to tell
    Urgent          \* deliveries whose priority is URGENT

Nobody == "Nobody"
Kinds == {"assigned", "reassigned"}

ASSUME NoticesAssumption == Nobody \notin Postmen /\ WithLogin \subseteq Postmen

VARIABLES
    batch,      \* [Kinds -> [Postmen -> how many changes wait for the timer]]
    told,       \* [Kinds -> [Postmen -> changes the stored notices tell of]]
    due         \* history: [Kinds -> [Postmen -> changes committed]]

noticeVars == <<batch, told, due>>

NoChanges == [k \in Kinds |-> [p \in Postmen |-> 0]]
NoticesInit == batch = NoChanges /\ told = NoChanges /\ due = NoChanges

Counted(counts, k, p, n) == [counts EXCEPT ![k][p] = @ + n]
ChangesOf(from, to) == \* who a change concerns, and how
    IF from = to THEN {}
    ELSE ({"reassigned"} \X ({from} \ {Nobody})) \cup ({"assigned"} \X ({to} \ {Nobody}))
Plus(counts, changes) ==
    [k \in Kinds |-> [p \in Postmen |->
        IF <<k, p>> \in changes THEN counts[k][p] + 1 ELSE counts[k][p]]]

Owe(from, to) == due' = Plus(due, ChangesOf(from, to))

(* An urgent one goes out now, if the postman has an app to tell.          *)
AtOnce(d, changes) == {c \in changes : c[1] = "assigned" /\ d \in Urgent}
Tellable(changes) == {c \in changes : c[2] \in WithLogin}

SlipNewBatchOnly(counts, changes) ==
    [k \in Kinds |-> [p \in Postmen |-> IF <<k, p>> \in changes THEN 1 ELSE counts[k][p]]]
AddToBatch(counts, changes) == Plus(counts, changes)

announceAssignmentChanges(d, from, to) ==
    LET changes == ChangesOf(from, to)
        now == AtOnce(d, changes)
    IN /\ batch' = AddToBatch(batch, changes \ now)
       /\ told' = Plus(told, Tellable(now))

(* The timer of a batch: it is taken out and sent as one notice.           *)
Flush(k, p) ==
    /\ batch[k][p] > 0
    /\ batch' = [batch EXCEPT ![k][p] = 0]
    /\ told' = IF p \in WithLogin THEN Counted(told, k, p, batch[k][p]) ELSE told
    /\ UNCHANGED due

(* The server stops: flushPostmanNotifications is not called.              *)
ForgetBatches == batch' = NoChanges /\ UNCHANGED <<told, due>>
=============================================================================
