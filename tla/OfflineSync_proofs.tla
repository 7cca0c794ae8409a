------------------------- MODULE OfflineSync_proofs -------------------------
(***************************************************************************)
(* What the postman was told is saved is in the phone's storage until it   *)
(* is settled, for any number of changes and deliveries and whatever is    *)
(* lost, rejected or killed, as long as no screen puts back what it read   *)
(* of the storage (Held). What is dropped is reported, and only when it    *)
(* was not applied; and what was applied is what the postman was told, in  *)
(* order (Told, and who went before whom).                                 *)
(***************************************************************************)
EXTENDS OfflineSync, TLAPS, FiniteSetTheorems, WellFoundedInduction

(* Types, as wide as the argument needs them.                              *)
Queued == [change : Nat, queuedAt : Nat, attempts : Nat]
Writes == [op : {"set"}, queue : SUBSET Queued, by : Nat]
Sent   == [pc : {"proof", "status"}, change : Nat \ {Drainer}]

QueueTypes ==
    /\ made \in Seq([delivery : Deliveries, to : Status])
    /\ clock \in Nat
    /\ queue \in SUBSET Queued /\ disk \in SUBSET Queued
    /\ ops \in Seq(Writes)
    /\ loaded = {}
    /\ direct \in {DirectIdle} \cup Sent

(* A change that was saved and is not settled is in storage, in memory,    *)
(* and in every write that is on its way: no write may take it out again.  *)
SavedIsHeld ==
    \A c \in saved \ settled :
        /\ c \in ChangesIn(disk) /\ c \in ChangesIn(queue)
        /\ \A i \in DOMAIN ops : c \in ChangesIn(ops[i].queue)

(* A change whose write is on its way is in that write and in all later    *)
(* ones, unless it is settled first.                                       *)
WrittenIsHeld ==
    \A i \in DOMAIN ops :
        ops[i].by \notin {Drainer} \cup settled =>
            /\ ops[i].by \in ChangesIn(queue)
            /\ \A j \in DOMAIN ops : j >= i => ops[i].by \in ChangesIn(ops[j].queue)

Held == QueueTypes /\ SavedIsHeld /\ WrittenIsHeld

-----------------------------------------------------------------------------
(* What a step does to memory and storage.  Its changes of the queue lose  *)
(* only what it settles, and are written by whoever made them.             *)
Rewrites(by, lost) ==
    /\ queue' \in SUBSET Queued
    /\ ChangesIn(queue) \ lost \subseteq ChangesIn(queue)'
    /\ settled' = settled \cup lost
    /\ by \in Nat /\ (by # Drainer => by \in ChangesIn(queue)')
    /\ Persist(by)
    /\ UNCHANGED <<disk, saved, loaded>>

QueueStays == UNCHANGED <<queue, disk, ops, saved, settled, loaded>>

SmallTypes ==
    /\ made \in Seq([delivery : Deliveries, to : Status])
    /\ clock \in Nat
    /\ direct \in {DirectIdle} \cup Sent

LEMMA AppendFacts ==
    ASSUME NEW S, NEW s \in Seq(S), NEW x \in S
    PROVE  /\ Append(s, x) \in Seq(S)
           /\ DOMAIN Append(s, x) = DOMAIN s \cup {Len(s) + 1}
           /\ \A i \in DOMAIN s : Append(s, x)[i] = s[i]
           /\ Append(s, x)[Len(s) + 1] = x
           /\ DOMAIN s = 1 .. Len(s) /\ Len(s) \in Nat
OBVIOUS

LEMMA TailFacts ==
    ASSUME NEW S, NEW s \in Seq(S), s # <<>>
    PROVE  /\ Tail(s) \in Seq(S) /\ Head(s) = s[1] /\ 1 \in DOMAIN s
           /\ \A i \in DOMAIN Tail(s) : i + 1 \in DOMAIN s /\ Tail(s)[i] = s[i + 1]
           /\ DOMAIN s \subseteq Nat \ {0} /\ DOMAIN Tail(s) \subseteq Nat \ {0}
OBVIOUS

LEMMA StaysKeepsHeld ==
    ASSUME Held, QueueStays, SmallTypes'
    PROVE  Held'
BY DEF Held, QueueStays, SmallTypes, QueueTypes, SavedIsHeld, WrittenIsHeld, ChangesIn

LEMMA RewritesKeepsHeld ==
    ASSUME Held, SmallTypes', NEW by, NEW lost, Rewrites(by, lost)
    PROVE  Held'
<1> DEFINE w == [op |-> "set", queue |-> queue', by |-> by]
<1>1. /\ w \in Writes /\ w.by = by /\ w.queue = queue' /\ ops' = Append(ops, w)
  BY DEF Rewrites, Persist, Writes
<1>. HIDE DEF w
<1>2. /\ ops' \in Seq(Writes) /\ DOMAIN ops' = DOMAIN ops \cup {Len(ops) + 1}
      /\ \A i \in DOMAIN ops : ops'[i] = ops[i]
      /\ ops'[Len(ops) + 1] = w
      /\ DOMAIN ops = 1 .. Len(ops) /\ Len(ops) \in Nat
  BY <1>1, AppendFacts DEF Held, QueueTypes
<1>3. QueueTypes'
  BY <1>2 DEF Held, QueueTypes, Rewrites, SmallTypes
<1>4. \A c : c \in ChangesIn(queue) /\ c \notin settled' =>
               c \in ChangesIn(queue)' /\ c \in ChangesIn(w.queue)
  BY <1>1 DEF Rewrites, ChangesIn
<1>5. SavedIsHeld'
  <2>1. ASSUME NEW c \in saved \ settled'
        PROVE  /\ c \in ChangesIn(disk) /\ c \in ChangesIn(queue)'
               /\ \A i \in DOMAIN ops' : c \in ChangesIn(ops'[i].queue)
    BY <1>2, <1>4 DEF Held, SavedIsHeld, Rewrites
  <2>. QED
    BY <2>1 DEF SavedIsHeld, Rewrites, ChangesIn
<1>6. WrittenIsHeld'
  <2>1. ASSUME NEW i \in DOMAIN ops', ops'[i].by \notin {Drainer} \cup settled'
        PROVE  /\ ops'[i].by \in ChangesIn(queue)'
               /\ \A j \in DOMAIN ops' : j >= i => ops'[i].by \in ChangesIn(ops'[j].queue)
    <3>1. CASE i = Len(ops) + 1
      <4>1. ops'[i].by = by /\ by \in ChangesIn(queue)' /\ by \in ChangesIn(w.queue)
        BY <1>1, <1>2, <2>1, <3>1 DEF Rewrites, ChangesIn
      <4>. QED
        BY <1>2, <3>1, <4>1
    <3>2. CASE i \in DOMAIN ops
      <4>1. ops'[i] = ops[i] /\ ops[i].by \notin {Drainer} \cup settled
        BY <1>2, <2>1, <3>2 DEF Rewrites
      <4>2. /\ ops[i].by \in ChangesIn(queue)
            /\ \A j \in DOMAIN ops : j >= i => ops[i].by \in ChangesIn(ops[j].queue)
        BY <3>2, <4>1 DEF Held, WrittenIsHeld
      <4>. QED
        BY <1>2, <1>4, <2>1, <4>1, <4>2
    <3>. QED
      BY <1>2, <3>1, <3>2
  <2>. QED
    BY <2>1 DEF WrittenIsHeld, ChangesIn
<1>. QED
  BY <1>3, <1>5, <1>6 DEF Held

LEMMA WriteKeepsHeld ==
    ASSUME Held, StorageWrites
    PROVE  Held'
<1>1. /\ ops' \in Seq(Writes) /\ Head(ops) = ops[1] /\ 1 \in DOMAIN ops
      /\ \A i \in DOMAIN ops' : i + 1 \in DOMAIN ops /\ ops'[i] = ops[i + 1]
      /\ DOMAIN ops \subseteq Nat \ {0} /\ DOMAIN ops' \subseteq Nat \ {0}
  BY TailFacts DEF Held, QueueTypes, StorageWrites
<1>2. ops[1] \in Writes
  BY <1>1 DEF Held, QueueTypes
<1>3. disk' = ops[1].queue /\ UNCHANGED <<queue, settled, made, clock, loaded, direct>>
  BY <1>1 DEF StorageWrites
<1>4. saved' \subseteq saved \cup ({ops[1].by} \ {Drainer})
  BY <1>1 DEF StorageWrites
<1>5. QueueTypes'
  BY <1>1, <1>2, <1>3 DEF Held, QueueTypes, Writes
<1>6. SavedIsHeld'
  <2>1. ASSUME NEW c \in saved' \ settled
        PROVE  /\ c \in ChangesIn(ops[1].queue) /\ c \in ChangesIn(queue)
               /\ \A i \in DOMAIN ops' : c \in ChangesIn(ops'[i].queue)
    <3>1. CASE c \in saved
      BY <1>1, <2>1, <3>1 DEF Held, SavedIsHeld
    <3>2. CASE c = ops[1].by /\ c # Drainer
      <4>1. \A j \in DOMAIN ops : j >= 1 => c \in ChangesIn(ops[j].queue)
        BY <1>1, <2>1, <3>2 DEF Held, WrittenIsHeld
      <4>2. c \in ChangesIn(queue)
        BY <1>1, <2>1, <3>2 DEF Held, WrittenIsHeld
      <4>. QED
        BY <1>1, <4>1, <4>2
    <3>. QED
      BY <1>4, <2>1, <3>1, <3>2
  <2>. QED
    BY <1>3, <2>1 DEF SavedIsHeld, ChangesIn
<1>7. WrittenIsHeld'
  <2>1. ASSUME NEW i \in DOMAIN ops', ops'[i].by \notin {Drainer} \cup settled
        PROVE  /\ ops'[i].by \in ChangesIn(queue)
               /\ \A j \in DOMAIN ops' : j >= i => ops'[i].by \in ChangesIn(ops'[j].queue)
    <3>1. /\ ops[i + 1].by \in ChangesIn(queue)
          /\ \A j \in DOMAIN ops : j >= i + 1 => ops[i + 1].by \in ChangesIn(ops[j].queue)
      BY <1>1, <2>1 DEF Held, WrittenIsHeld
    <3>2. \A j \in DOMAIN ops' : j >= i => j + 1 \in DOMAIN ops /\ j + 1 >= i + 1
      BY <1>1
    <3>. QED
      BY <1>1, <3>1, <3>2
  <2>. QED
    BY <1>3, <2>1 DEF WrittenIsHeld, ChangesIn
<1>. QED
  BY <1>5, <1>6, <1>7 DEF Held

LEMMA RestartKeepsHeld ==
    ASSUME Held, "slowRead" \notin world, Restart
    PROVE  Held'
<1>1. /\ queue' = disk /\ ops' = <<>> /\ loaded' = {} /\ direct' = DirectIdle
      /\ UNCHANGED <<disk, saved, settled, made, clock>>
  BY DEF Restart
<1>. QED
  BY <1>1 DEF Held, QueueTypes, SavedIsHeld, WrittenIsHeld, ChangesIn

-----------------------------------------------------------------------------
(* The operations of the queue. *)

LEMMA EnqueueRewrites ==
    ASSUME Held, NEW c \in Nat, c # Drainer, Enqueue(c),
           UNCHANGED <<settled, disk, saved, loaded>>
    PROVE  Rewrites(c, {}) /\ clock' \in Nat
<1> DEFINE e == [change |-> c, queuedAt |-> clock + 1, attempts |-> 0]
<1>1. queue' = queue \cup {e} /\ clock' = clock + 1 /\ Persist(c)
  BY DEF Enqueue
<1>2. e \in Queued /\ e.change = c
  BY DEF Held, QueueTypes, Queued
<1>. HIDE DEF e
<1>3. ChangesIn(queue)' = ChangesIn(queue) \cup {c}
  BY <1>1, <1>2 DEF ChangesIn
<1>4. queue' \in SUBSET Queued /\ clock' \in Nat
  BY <1>1, <1>2 DEF Held, QueueTypes
<1>5. settled' = settled \cup {}
  OBVIOUS
<1>. QED
  BY <1>1, <1>3, <1>4, <1>5 DEF Rewrites

LEMMA LeaveRewrites ==
    ASSUME Held, Leave, UNCHANGED <<disk, saved, loaded>>
    PROVE  Rewrites(Drainer, {Current.change})
<1>1. /\ queue' = {e \in queue : e.change # Current.change} /\ Persist(Drainer)
      /\ settled' = settled \cup {Current.change}
  BY DEF Leave
<1>2. ChangesIn(queue) \ {Current.change} \subseteq ChangesIn(queue)'
  BY <1>1 DEF ChangesIn
<1>. QED
  BY <1>1, <1>2 DEF Rewrites, Held, QueueTypes, Drainer

LEMMA KeepRewrites ==
    ASSUME Held, Keep, UNCHANGED <<disk, saved, loaded>>
    PROVE  Rewrites(Drainer, {})
<1>1. queue' = {Attempted(e) : e \in queue} /\ Persist(Drainer) /\ UNCHANGED settled
  BY DEF Keep
<1>2. \A e \in queue : Attempted(e) \in Queued /\ Attempted(e).change = e.change
  BY DEF Attempted, Held, QueueTypes, Queued
<1>3. ChangesIn(queue)' = ChangesIn(queue)
  BY <1>1, <1>2 DEF ChangesIn
<1>4. queue' \in SUBSET Queued
  BY <1>1, <1>2
<1>. QED
  BY <1>1, <1>3, <1>4 DEF Rewrites, Drainer

(* Every step leaves the queue alone or rewrites it.                       *)
StaysOrRewrites == (QueueStays \/ \E by, lost : Rewrites(by, lost)) /\ SmallTypes'

LEMMA ChooseHolds ==
    ASSUME Held, NEW d \in Deliveries, NEW to \in Status, Choose(d, to)
    PROVE  StaysOrRewrites
<1> DEFINE c == Len(made) + 1
<1>1. c \in Nat /\ c # Drainer
  BY DEF Held, QueueTypes, Drainer
<1>2. /\ made' = Append(made, [delivery |-> d, to |-> to])
      /\ UNCHANGED <<settled, disk, saved, loaded>>
  BY DEF Choose, readVars
<1>3. made' \in Seq([delivery : Deliveries, to : Status])
  BY <1>2 DEF Held, QueueTypes
<1>4. CASE online
  <2>1. /\ direct' = [pc |-> IF ProofRequired /\ to = "DELIVERED"
                               THEN "proof" ELSE "status", change |-> c]
        /\ UNCHANGED <<queue, clock, ops>>
    BY <1>4 DEF Choose
  <2>2. direct' \in Sent
    BY <1>1, <2>1 DEF Sent
  <2>. QED
    BY <1>2, <1>3, <2>1, <2>2 DEF StaysOrRewrites, QueueStays, SmallTypes, Held, QueueTypes
<1>5. CASE ~online
  <2>1. Enqueue(c) /\ UNCHANGED direct
    BY <1>5 DEF Choose
  <2>. HIDE DEF c
  <2>2. Rewrites(c, {}) /\ clock' \in Nat
    BY <1>1, <1>2, <2>1, EnqueueRewrites
  <2>. QED
    BY <1>3, <2>1, <2>2 DEF StaysOrRewrites, SmallTypes, Held, QueueTypes
<1>. QED
  BY <1>4, <1>5

LEMMA DirectHolds ==
    ASSUME Held, NEW reply, DirectSendsProof(reply) \/ DirectSendsStatus(reply)
    PROVE  StaysOrRewrites
<1>1. direct \in Sent /\ UNCHANGED <<made, settled, disk, saved, loaded>>
  BY DEF DirectSendsProof, DirectSendsStatus, Held, QueueTypes, DirectIdle, readVars
<1>2. CASE DirectEnds(reply)
  <2>1. CASE reply \in Lost
    <3>1. Rewrites(direct.change, {}) /\ clock' \in Nat /\ direct' = DirectIdle
      BY <1>1, <1>2, <2>1, EnqueueRewrites DEF DirectEnds, Sent
    <3>. QED
      BY <1>1, <3>1 DEF StaysOrRewrites, SmallTypes, Held, QueueTypes
  <2>2. CASE reply \notin Lost
    BY <1>1, <1>2, <2>2 DEF DirectEnds, StaysOrRewrites, QueueStays, SmallTypes, Held, QueueTypes
  <2>. QED
    BY <2>1, <2>2
<1>3. CASE ~DirectEnds(reply)
  <2>1. direct' = [direct EXCEPT !.pc = "status"] /\ UNCHANGED <<queue, clock, ops>>
    BY <1>3 DEF DirectSendsProof, DirectSendsStatus
  <2>2. direct' \in Sent
    BY <1>1, <2>1 DEF Sent
  <2>. QED
    BY <1>1, <2>1, <2>2 DEF StaysOrRewrites, QueueStays, SmallTypes, Held, QueueTypes
<1>. QED
  BY <1>2, <1>3

LEMMA DrainHolds ==
    ASSUME Held, NEW reply,
           DrainSendsProof(reply) \/ DrainSendsStatus(reply) \/ DrainRefreshes
    PROVE  StaysOrRewrites
<1>1. UNCHANGED <<made, direct, disk, saved, loaded>>
  BY DEF DrainSendsProof, DrainSendsStatus, DrainRefreshes, readVars
<1>2. Leave \/ Keep \/ UNCHANGED <<phoneVars, settled>>
  BY DEF DrainSendsProof, DrainSendsStatus, DrainRefreshes, DrainFails
<1>3. CASE Leave
  BY <1>1, <1>3, LeaveRewrites DEF StaysOrRewrites, SmallTypes, Held, QueueTypes, Leave
<1>4. CASE Keep
  BY <1>1, <1>4, KeepRewrites DEF StaysOrRewrites, SmallTypes, Held, QueueTypes, Keep
<1>5. CASE UNCHANGED <<phoneVars, settled>>
  BY <1>1, <1>5 DEF StaysOrRewrites, QueueStays, SmallTypes, Held, QueueTypes, phoneVars
<1>. QED
  BY <1>2, <1>3, <1>4, <1>5

LEMMA OthersHold ==
    ASSUME Held, \/ GoOnline \/ GoOffline \/ SyncNow \/ UNCHANGED vars
                 \/ \E d \in Deliveries :
                      \/ ClearConflict(d) \/ Reassign(d)
                      \/ \E to \in Status : OfficeMoves(d, to)
    PROVE  StaysOrRewrites
<1>1. QueueStays /\ UNCHANGED <<made, clock, direct>>
  BY DEF GoOnline, GoOffline, SyncNow, ClearConflict, Reassign, OfficeMoves, vars,
         QueueStays, phoneVars, readVars
<1>. QED
  BY <1>1 DEF StaysOrRewrites, SmallTypes, Held, QueueTypes

(* Without "slowRead" nothing is read back while the app runs.             *)
HeldIn == "slowRead" \notin world => Held

LEMMA HeldInit == Init => HeldIn
BY DEF Init, HeldIn, Held, QueueTypes, SavedIsHeld, WrittenIsHeld, ChangesIn

LEMMA WorldStays == ASSUME [Next]_vars PROVE world' = world
BY DEF Next, Choose, OfficeMoves, ClearConflict, Reassign, DirectSendsProof,
       DirectSendsStatus, DrainSendsProof, DrainSendsStatus, DrainRefreshes,
       GoOnline, GoOffline, SyncNow, StorageWrites, StorageReads, HydrateSets,
       MountScreen, Restart, vars

LEMMA HeldNext == HeldIn /\ [Next]_vars => HeldIn'
<1> SUFFICES ASSUME Held, "slowRead" \notin world, [Next]_vars PROVE Held'
  BY WorldStays DEF HeldIn
<1>1. CASE StaysOrRewrites
  BY <1>1, StaysKeepsHeld, RewritesKeepsHeld DEF StaysOrRewrites
<1>2. ~StorageReads /\ ~HydrateSets /\ ~MountScreen
  <2>1. ops # <<>> => Head(ops) \in Writes
    BY DEF Held, QueueTypes
  <2>. QED
    BY <2>1 DEF StorageReads, HydrateSets, MountScreen, Held, QueueTypes, Writes
<1>3. CASE \E d \in Deliveries, to \in Status : Choose(d, to)
  BY <1>1, <1>3, ChooseHolds
<1>4. CASE \E reply \in Replies :
             \/ DirectSendsProof(reply) \/ DirectSendsStatus(reply)
             \/ DrainSendsProof(reply)  \/ DrainSendsStatus(reply)
  BY <1>1, <1>4, DirectHolds, DrainHolds
<1>5. CASE DrainRefreshes
  BY <1>1, <1>5, DrainHolds
<1>6. CASE StorageWrites
  BY <1>6, WriteKeepsHeld
<1>7. CASE Restart
  BY <1>7, RestartKeepsHeld
<1>. QED
  BY <1>1, <1>2, <1>3, <1>4, <1>5, <1>6, <1>7, OthersHold DEF Next

(* NothingSavedIsLost for any number of changes and deliveries: the queue  *)
(* in memory is ahead of every write on its way, and each write is ahead   *)
(* of the storage.                                                         *)
THEOREM SavedChangeIsKept == Spec => []NothingSavedIsLost
<1>1. HeldIn => NothingSavedIsLost
  BY DEF HeldIn, Held, SavedIsHeld, NothingSavedIsLost, SavedIsStored
<1>. QED
  BY HeldInit, HeldNext, <1>1, PTL DEF Spec
-----------------------------------------------------------------------------
(* What leaves the queue without the server's yes is shown as a conflict.  *)
(* All that is needed of applied is that it is a sequence.                 *)

AppliedSet     == {applied[i] : i \in DOMAIN applied}
AppliedIsAList == applied \in Seq(AppliedSet)

LEMMA AppliedGrows ==
    ASSUME AppliedIsAList, NEW c, applied' = Append(applied, c)
    PROVE  AppliedSet' = AppliedSet \cup {c} /\ AppliedIsAList'
<1> DEFINE S == AppliedSet \cup {c}
<1>1. applied \in Seq(S) /\ c \in S
  BY DEF AppliedIsAList
<1>2. /\ applied' \in Seq(S)
      /\ DOMAIN applied' = DOMAIN applied \cup {Len(applied) + 1}
      /\ \A i \in DOMAIN applied : applied'[i] = applied[i]
      /\ applied'[Len(applied) + 1] = c
      /\ DOMAIN applied = 1 .. Len(applied) /\ Len(applied) \in Nat
  <2>. HIDE DEF S
  <2>. QED
    BY <1>1, AppendFacts
<1>3. AppliedSet' = S
  BY <1>2 DEF AppliedSet
<1>. QED
  BY <1>2, <1>3 DEF AppliedIsAList

(* The server applies a change only when it is sent.                       *)
LEMMA AppliedByReply ==
    ASSUME [Next]_vars
    PROVE  \/ UNCHANGED applied
           \/ \E c : applied' = Append(applied, c)
<1>1. ASSUME NEW c, NEW reply, UploadProof(c, reply) \/ SendStatus(c, reply)
      PROVE  UNCHANGED applied \/ applied' = Append(applied, c)
  BY <1>1 DEF UploadProof, SendStatus
<1>2. CASE \E reply \in Replies :
             \/ DirectSendsProof(reply) \/ DirectSendsStatus(reply)
             \/ DrainSendsProof(reply)  \/ DrainSendsStatus(reply)
  BY <1>1, <1>2 DEF DirectSendsProof, DirectSendsStatus, DrainSendsProof, DrainSendsStatus
<1>3. CASE ~ \E reply \in Replies :
             \/ DirectSendsProof(reply) \/ DirectSendsStatus(reply)
             \/ DrainSendsProof(reply)  \/ DrainSendsStatus(reply)
  BY <1>3 DEF Next, Choose, OfficeMoves, ClearConflict, Reassign, DrainRefreshes,
     GoOnline, GoOffline, SyncNow, StorageWrites, StorageReads, HydrateSets,
     MountScreen, Restart, vars, serverVars
<1>. QED
  BY <1>2, <1>3

LEMMA AppliedListed ==
    /\ Init => AppliedIsAList
    /\ AppliedIsAList /\ [Next]_vars => AppliedIsAList'
<1>1. Init => AppliedIsAList
  BY DEF Init, AppliedIsAList, AppliedSet
<1>2. AppliedIsAList /\ [Next]_vars => AppliedIsAList'
  BY AppliedByReply, AppliedGrows DEF AppliedIsAList, AppliedSet
<1>. QED
  BY <1>1, <1>2

(* The steps that settle a change: the server has taken it, or it is       *)
(* dropped for a conflict, or for nothing when the refresh fails too.      *)
LEMMA SettledBy ==
    ASSUME [Next]_vars, settled' # settled
    PROVE  /\ settled' = settled \cup {Current.change}
           /\ \/ applied' = Append(applied, Current.change)
              \/ \E st : AddConflict(Current.change, st)
              \/ "lostRefresh" \in world
<1>1. CASE \E reply \in Replies : DrainSendsProof(reply) \/ DrainSendsStatus(reply)
  <2>1. PICK reply \in Replies : DrainSendsProof(reply) \/ DrainSendsStatus(reply)
    BY <1>1
  <2>2. Leave
    BY <2>1 DEF DrainSendsProof, DrainSendsStatus, DrainFails, Keep
  <2>3. \/ reply = "ok" /\ SendStatus(Current.change, reply)
        \/ AddConflict(Current.change, "OUT_FOR_DELIVERY")
    BY <2>1 DEF DrainSendsProof, DrainSendsStatus, DrainFails, Keep
  <2>4. reply = "ok" => reply \in Done
    BY DEF Done
  <2>. QED
    BY <2>2, <2>3, <2>4 DEF Leave, SendStatus
<1>2. CASE DrainRefreshes
  BY <1>2 DEF DrainRefreshes, Leave
<1>3. CASE ~DrainRefreshes /\ ~ \E reply \in Replies : DrainSendsProof(reply) \/ DrainSendsStatus(reply)
  BY <1>3 DEF Next, Choose, OfficeMoves, ClearConflict, Reassign, DirectSendsProof,
     DirectSendsStatus, GoOnline, GoOffline, SyncNow, StorageWrites, StorageReads,
     HydrateSets, MountScreen, Restart, vars
<1>. QED
  BY <1>1, <1>2, <1>3

(* RejectionIsReported for any number of changes and in every world.       *)
THEOREM DroppedIsReported == Spec => RejectionIsReported
<1> DEFINE Reported ==
      \A c \in settled' \ settled :
           \/ "lostRefresh" \in world
           \/ c \in {applied'[i] : i \in DOMAIN applied'}
           \/ c \in {k.change : k \in conflicts'}
<1>1. AppliedIsAList /\ [Next]_vars => Reported
  <2> SUFFICES ASSUME AppliedIsAList, [Next]_vars, settled' # settled PROVE Reported
    OBVIOUS
  <2>1. CASE applied' = Append(applied, Current.change)
    <3>1. Current.change \in AppliedSet'
      BY <2>1, AppliedGrows
    <3>. QED
      BY <3>1, SettledBy DEF AppliedSet
  <2>2. ASSUME NEW st, AddConflict(Current.change, st)
        PROVE  Reported
    <3>1. [change |-> Current.change, serverStatus |-> st] \in conflicts'
      BY <2>2 DEF AddConflict
    <3>2. Current.change \in {k.change : k \in conflicts'}
      BY <3>1
    <3>. QED
      BY <3>2, SettledBy
  <2>3. CASE "lostRefresh" \in world
    BY <2>3
  <2>. QED
    BY <2>1, <2>2, <2>3, SettledBy
<1>. QED
  BY AppliedListed, <1>1, PTL DEF Spec, RejectionIsReported

-----------------------------------------------------------------------------
(* processQueue takes the oldest entry first.                              *)

(* A set of numbers has a least one: the sets 1 .. n are ordered as the    *)
(* numbers are, and being a strict subset is well-founded.                 *)
LEMMA HasLeast ==
    ASSUME NEW T \in SUBSET Nat, T # {}
    PROVE  \E n \in T : \A m \in T : n <= m
<1> DEFINE U == {1 .. n : n \in T}
<1>1. U \subseteq FiniteSubsetsOf(Nat) /\ U # {}
  <2>1. \A n \in T : IsFiniteSet(1 .. n)
    BY FS_Interval
  <2>2. \A n \in T : 1 .. n \in SUBSET Nat
    OBVIOUS
  <2>. QED
    BY <2>1, <2>2 DEF FiniteSubsetsOf
<1>2. IsWellFoundedOn(StrictSubsetOrdering(Nat), FiniteSubsetsOf(Nat))
  BY FS_StrictSubsetOrderingWellFounded
<1>3. PICK x \in U : \A y \in U : <<y, x>> \notin StrictSubsetOrdering(Nat)
  <2>. HIDE DEF U
  <2>. QED
    BY <1>1, <1>2, WFMin
<1>4. PICK n \in T : x = 1 .. n
  OBVIOUS
<1>5. ASSUME NEW m \in T, m < n
      PROVE  FALSE
  <2>1. 1 .. m \in U /\ 1 .. m \subseteq 1 .. n /\ n \in 1 .. n /\ n \notin 1 .. m
    BY <1>5
  <2>2. <<1 .. m, x>> \in StrictSubsetOrdering(Nat)
    BY <1>4, <2>1 DEF StrictSubsetOrdering
  <2>. QED
    BY <1>3, <2>1, <2>2
<1>. QED
  BY <1>4, <1>5

Sending == {"proof", "status", "refresh"}

DrainOK ==
    /\ drain \in [pc : Sending \cup {"idle", "persist"}, rest : SUBSET Queued]
    /\ drain.pc \in Sending => drain.rest # {}

LEMMA OldestIsFirst ==
    ASSUME NEW q \in SUBSET Queued, q # {}
    PROVE  Oldest(q) \in q /\ \A f \in q : Oldest(q).queuedAt <= f.queuedAt
<1> DEFINE T == {e.queuedAt : e \in q}
<1>1. T \in SUBSET Nat /\ T # {}
  BY DEF Queued
<1>2. \E n \in T : \A m \in T : n <= m
  <2>. HIDE DEF T
  <2>. QED
    BY <1>1, HasLeast
<1>3. \E e \in q : \A f \in q : e.queuedAt <= f.queuedAt
  BY <1>2
<1>. QED
  BY <1>3 DEF Oldest

LEMMA CurrentIsOldest ==
    ASSUME DrainOK, drain.pc \in Sending
    PROVE  /\ Current \in drain.rest /\ Current \in Queued
           /\ \A f \in drain.rest : Current.queuedAt <= f.queuedAt
<1>1. drain.rest \in SUBSET Queued /\ drain.rest # {}
  BY DEF DrainOK
<1>. QED
  BY <1>1, OldestIsFirst DEF Current

OneEach(q) == \A e, f \in q : e.change = f.change => e = f

(* What the steps of the queue make of the changes in it.                  *)
LEMMA ContinueEffect ==
    ASSUME NEW q \in SUBSET Queued, drain' = Continue(q)
    PROVE  DrainOK' /\ drain'.rest = q /\ drain'.pc # "persist"
BY DEF Continue, FirstStep, DrainOK, Sending

LEMMA LeaveEffect ==
    ASSUME DrainOK, drain.pc \in Sending, queue \in SUBSET Queued, Leave,
           OneEach(queue), OneEach(drain.rest)
    PROVE  /\ DrainOK' /\ drain'.pc = "persist" /\ drain'.rest = drain.rest \ {Current}
           /\ OneEach(queue') /\ OneEach(drain'.rest)
           /\ ChangesIn(queue') = ChangesIn(queue) \ {Current.change}
           /\ ChangesIn(drain'.rest) = ChangesIn(drain.rest) \ {Current.change}
           /\ Current.change \in ChangesIn(drain.rest)
           /\ queue' \subseteq queue
<1>1. Current \in drain.rest
  BY CurrentIsOldest
<1>2. /\ queue' = {e \in queue : e.change # Current.change}
      /\ drain' = [pc |-> "persist", rest |-> drain.rest \ {Current}]
  BY DEF Leave
<1>. HIDE DEF Current
<1>. QED
  BY <1>1, <1>2 DEF DrainOK, Sending, OneEach, ChangesIn

LEMMA KeepEffect ==
    ASSUME DrainOK, queue \in SUBSET Queued, Keep, OneEach(queue)
    PROVE  /\ DrainOK' /\ drain'.pc = "persist" /\ drain'.rest = {}
           /\ OneEach(queue') /\ ChangesIn(queue') = ChangesIn(queue)
           /\ \A e \in queue' : \E f \in queue : e.change = f.change /\ e.queuedAt = f.queuedAt
<1>1. queue' = {Attempted(e) : e \in queue} /\ drain' = [pc |-> "persist", rest |-> {}]
  BY DEF Keep
<1>2. \A e \in queue : Attempted(e).change = e.change /\ Attempted(e).queuedAt = e.queuedAt
  BY DEF Attempted, Queued
<1>. HIDE DEF Attempted
<1>3. OneEach(queue')
  BY <1>1, <1>2 DEF OneEach
<1>4. ChangesIn(queue') = ChangesIn(queue)
  BY <1>1, <1>2 DEF ChangesIn
<1>. QED
  BY <1>1, <1>2, <1>3, <1>4 DEF DrainOK, Sending

LEMMA EnqueueEffect ==
    ASSUME NEW c, Enqueue(c)
    PROVE  /\ ChangesIn(queue') = ChangesIn(queue) \cup {c}
           /\ OneEach(queue) /\ c \notin ChangesIn(queue) => OneEach(queue')
<1> DEFINE e == [change |-> c, queuedAt |-> clock + 1, attempts |-> 0]
<1>1. queue' = queue \cup {e} /\ e.change = c
  BY DEF Enqueue
<1>. HIDE DEF e
<1>. QED
  BY <1>1 DEF ChangesIn, OneEach

-----------------------------------------------------------------------------
(* A conflict is a change the server did not take.  While no answer is     *)
(* lost and the app is not killed, every change is in at most one place:   *)
(* still to be sent, being sent without the queue, refused, or applied.    *)

Asked   == ChangesIn(queue) \cup ChangesIn(drain.rest)
InHand  == IF direct = DirectIdle THEN {} ELSE {direct.change}
Refused == {k.change : k \in conflicts}

OnePlace ==
    /\ Asked \cup InHand \cup Refused \cup AppliedSet \subseteq 1 .. Len(made)
    /\ Asked \cap InHand = {} /\ Asked \cap Refused = {} /\ Asked \cap AppliedSet = {}
    /\ InHand \cap Refused = {} /\ InHand \cap AppliedSet = {}
    /\ Refused \cap AppliedSet = {}

Told == AppliedIsAList /\ DrainOK /\ OneEach(queue) /\ OneEach(drain.rest) /\ OnePlace

Honest == {"lostResponse", "restart", "slowRead"} \cap world = {}

LEMMA MadeGrows ==
    ASSUME Held, NEW x, x \in [delivery : Deliveries, to : Status], made' = Append(made, x)
    PROVE  Len(made') = Len(made) + 1 /\ Len(made) \in Nat
BY DEF Held, QueueTypes

LEMMA ChooseTold ==
    ASSUME Held, Told, NEW d \in Deliveries, NEW to \in Status, Choose(d, to)
    PROVE  Told'
<1> DEFINE c == Len(made) + 1
<1>1. /\ made' = Append(made, [delivery |-> d, to |-> to])
      /\ UNCHANGED <<applied, conflicts, drain>>
  BY DEF Choose, serverVars
<1>2. Len(made') = c /\ Len(made) \in Nat
  BY <1>1, MadeGrows
<1>3. /\ c \notin Asked \cup InHand \cup Refused \cup AppliedSet
      /\ 1 .. Len(made') = (1 .. Len(made)) \cup {c}
  BY <1>2 DEF Told, OnePlace
<1>4. CASE online
  <2>1. UNCHANGED queue /\ direct = DirectIdle /\ direct'.change = c /\ direct' # DirectIdle
    <3>1. direct' = [pc |-> IF ProofRequired /\ to = "DELIVERED" THEN "proof" ELSE "status",
                     change |-> c]
      BY <1>4 DEF Choose
    <3>. QED
      BY <1>4, <3>1 DEF Choose, DirectIdle
  <2>2. InHand' = {c} /\ InHand = {}
    BY <2>1 DEF InHand
  <2>. HIDE DEF c
  <2>3. OnePlace'
    <3>1. Asked' = Asked /\ Refused' = Refused /\ AppliedSet' = AppliedSet
      BY <1>1, <2>1 DEF Asked, Refused, AppliedSet
    <3>. QED
      BY <1>3, <2>2, <3>1 DEF Told, OnePlace
  <2>. QED
    BY <1>1, <2>1, <2>3 DEF Told, AppliedIsAList, AppliedSet, DrainOK, OneEach
<1>5. CASE ~online
  <2>1. Enqueue(c) /\ UNCHANGED direct
    BY <1>5 DEF Choose
  <2>. HIDE DEF c
  <2>2. ChangesIn(queue') = ChangesIn(queue) \cup {c} /\ OneEach(queue')
    BY <1>3, <2>1, EnqueueEffect DEF Told, Asked
  <2>3. OnePlace'
    <3>1. /\ Asked' = Asked \cup {c} /\ InHand' = InHand
          /\ Refused' = Refused /\ AppliedSet' = AppliedSet
      BY <1>1, <2>1, <2>2 DEF Asked, Refused, AppliedSet, InHand, ChangesIn
    <3>. QED
      BY <1>3, <3>1 DEF Told, OnePlace
  <2>. QED
    BY <1>1, <2>2, <2>3 DEF Told, AppliedIsAList, AppliedSet, DrainOK, OneEach
<1>. QED
  BY <1>4, <1>5

(* What a request does to applied: while no answer is lost, a change that  *)
(* is said to be lost was not applied.                                     *)
LEMMA RequestEffect ==
    ASSUME Honest, NEW c, NEW reply, UploadProof(c, reply) \/ SendStatus(c, reply)
    PROVE  \/ UNCHANGED applied
           \/ reply = "ok" /\ applied' = Append(applied, c)
<1>1. Done = {"ok"}
  BY DEF Honest, Done
<1>. QED
  BY <1>1 DEF UploadProof, SendStatus

LEMMA DirectTold ==
    ASSUME Held, Told, Honest, NEW reply, DirectSendsProof(reply) \/ DirectSendsStatus(reply)
    PROVE  Told'
<1> DEFINE c == direct.change
<1>1. direct \in Sent /\ UNCHANGED <<made, conflicts, drain>>
  BY DEF DirectSendsProof, DirectSendsStatus, Held, QueueTypes, DirectIdle
<1>2. InHand = {c}
  BY <1>1 DEF InHand, Sent, DirectIdle
<1>3. Refused' = Refused /\ DrainOK' /\ OneEach(drain.rest)' /\ ChangesIn(drain.rest)' = ChangesIn(drain.rest)
  BY <1>1 DEF Refused, Told, DrainOK, OneEach, ChangesIn
<1>4. CASE DirectEnds(reply)
  <2>1. direct' = DirectIdle /\ InHand' = {}
    BY <1>4 DEF DirectEnds, InHand
  <2>2. CASE reply \in Lost
    <3>1. Enqueue(c) /\ UNCHANGED applied
      <4>1. reply # "ok"
        BY <2>2 DEF Lost
      <4>. QED
        BY <1>4, <2>2, <4>1, RequestEffect DEF DirectEnds, DirectSendsProof, DirectSendsStatus
    <3>2. c \notin ChangesIn(queue)
      BY <1>2 DEF Told, OnePlace, Asked
    <3>. HIDE DEF c
    <3>3. ChangesIn(queue') = ChangesIn(queue) \cup {c} /\ OneEach(queue')
      BY <3>1, <3>2, EnqueueEffect DEF Told
    <3>4. Asked' = Asked \cup {c} /\ AppliedSet' = AppliedSet /\ AppliedIsAList'
      BY <1>3, <3>1, <3>3 DEF Asked, AppliedSet, Told, AppliedIsAList, ChangesIn
    <3>5. OnePlace'
      BY <1>1, <1>2, <1>3, <2>1, <3>4 DEF Told, OnePlace
    <3>. QED
      BY <1>3, <3>3, <3>4, <3>5 DEF Told, OneEach
  <2>3. CASE reply \notin Lost
    <3>1. UNCHANGED queue
      BY <1>4, <2>3 DEF DirectEnds
    <3>2. UNCHANGED applied \/ applied' = Append(applied, c)
      BY RequestEffect DEF DirectSendsProof, DirectSendsStatus
    <3>. HIDE DEF c
    <3>3. AppliedIsAList' /\ AppliedSet' \subseteq AppliedSet \cup {c}
      BY <3>2, AppliedGrows DEF Told, AppliedIsAList, AppliedSet
    <3>4. Asked' = Asked /\ OneEach(queue')
      BY <1>3, <3>1 DEF Asked, Told, ChangesIn
    <3>5. OnePlace'
      BY <1>1, <1>2, <1>3, <2>1, <3>3, <3>4 DEF Told, OnePlace
    <3>. QED
      BY <1>3, <3>3, <3>4, <3>5 DEF Told, OneEach
  <2>. QED
    BY <2>2, <2>3
<1>5. CASE ~DirectEnds(reply)
  <2>1. /\ reply = "ok" /\ direct' = [direct EXCEPT !.pc = "status"] /\ UNCHANGED queue
        /\ UNCHANGED applied
    BY <1>5 DEF DirectSendsProof, DirectSendsStatus, UploadProof
  <2>2. InHand' = InHand
    BY <1>1, <1>2, <2>1 DEF InHand, Sent, DirectIdle
  <2>. HIDE DEF c
  <2>3. OnePlace'
    BY <1>1, <1>3, <2>1, <2>2 DEF Told, OnePlace, Asked, AppliedSet, ChangesIn
  <2>. QED
    BY <1>3, <2>1, <2>3 DEF Told, OneEach, AppliedIsAList, AppliedSet
<1>. QED
  BY <1>4, <1>5

LEMMA ConflictEffect ==
    ASSUME NEW c, NEW st, AddConflict(c, st)
    PROVE  Refused' \subseteq Refused \cup {c}
BY DEF AddConflict, Refused

(* What processQueue makes of an answer: the change leaves the queue,      *)
(* stays in it, or is asked about again.                                   *)
Request(c, reply) == UploadProof(c, reply) \/ SendStatus(c, reply)

Accepted(reply) == /\ reply = "ok" /\ SendStatus(Current.change, reply)
                   /\ Leave /\ UNCHANGED conflicts
GivenUp(reply)  == /\ reply \in Lost /\ Request(Current.change, reply)
                   /\ Leave /\ \E st : AddConflict(Current.change, st)
Kept(reply)     == /\ reply # "ok" /\ Request(Current.change, reply)
                   /\ Keep /\ UNCHANGED conflicts
GoesOn(reply)   == /\ \/ UploadProof(Current.change, reply)
                      \/ reply # "ok" /\ Request(Current.change, reply)
                   /\ \E step \in Sending : drain' = [drain EXCEPT !.pc = step]
                   /\ UNCHANGED phoneVars

LEMMA DrainAnswers ==
    ASSUME NEW reply, DrainSendsProof(reply) \/ DrainSendsStatus(reply)
    PROVE  Accepted(reply) \/ GivenUp(reply) \/ Kept(reply) \/ GoesOn(reply)
<1>1. ASSUME DrainFails(reply), Request(Current.change, reply)
      PROVE  GivenUp(reply) \/ Kept(reply) \/ GoesOn(reply)
  BY <1>1 DEF DrainFails, GivenUp, Kept, GoesOn, Sending, Lost
<1>2. CASE DrainSendsProof(reply)
  BY <1>1, <1>2 DEF DrainSendsProof, Request, GoesOn, Sending
<1>3. CASE DrainSendsStatus(reply)
  BY <1>1, <1>3 DEF DrainSendsStatus, Request, Accepted
<1>. QED
  BY <1>2, <1>3

(* The run of processQueue: its current change leaves the queue for the    *)
(* server or for a conflict, or stays.                                     *)
LEMMA DrainTold ==
    ASSUME Held, Told, Honest, NEW reply,
           DrainSendsProof(reply) \/ DrainSendsStatus(reply) \/ DrainRefreshes
    PROVE  Told'
<1> DEFINE c == Current.change
<1>1. UNCHANGED <<made, direct>> /\ drain.pc \in Sending
  BY DEF DrainSendsProof, DrainSendsStatus, DrainRefreshes, Sending
<1>2. queue \in SUBSET Queued
  BY DEF Held, QueueTypes
<1>3. ASSUME UNCHANGED applied
      PROVE  AppliedSet' = AppliedSet /\ AppliedIsAList'
  BY <1>3 DEF AppliedSet, AppliedIsAList, Told
<1>4. ASSUME Leave,
             \/ UNCHANGED applied /\ Refused' \subseteq Refused \cup {c}
             \/ (UNCHANGED applied \/ applied' = Append(applied, c)) /\ Refused' = Refused
      PROVE  Told'
  <2>1. /\ DrainOK' /\ OneEach(queue') /\ OneEach(drain'.rest)
        /\ ChangesIn(queue') = ChangesIn(queue) \ {c}
        /\ ChangesIn(drain'.rest) = ChangesIn(drain.rest) \ {c}
        /\ c \in ChangesIn(drain.rest)
    BY <1>1, <1>2, <1>4, LeaveEffect DEF Told
  <2>. HIDE DEF c
  <2>2. Asked' = Asked \ {c} /\ c \in Asked /\ InHand' = InHand
    BY <1>1, <2>1 DEF Asked, InHand, ChangesIn
  <2>3. \/ AppliedSet' = AppliedSet /\ AppliedIsAList' /\ Refused' \subseteq Refused \cup {c}
        \/ AppliedSet' = AppliedSet \cup {c} /\ AppliedIsAList' /\ Refused' = Refused
    BY <1>3, <1>4, AppliedGrows DEF Told
  <2>4. OnePlace'
    BY <1>1, <2>2, <2>3 DEF Told, OnePlace
  <2>. QED
    BY <2>1, <2>3, <2>4 DEF Told, OneEach
<1>5. ASSUME UNCHANGED applied, UNCHANGED conflicts,
             /\ DrainOK' /\ OneEach(queue') /\ OneEach(drain'.rest)
             /\ ChangesIn(queue') = ChangesIn(queue)
             /\ ChangesIn(drain'.rest) \subseteq ChangesIn(drain.rest)
      PROVE  Told'
  <2>1. /\ Asked' \subseteq Asked /\ InHand' = InHand /\ Refused' = Refused
        /\ AppliedSet' = AppliedSet /\ AppliedIsAList'
    BY <1>1, <1>3, <1>5 DEF Asked, InHand, Refused, ChangesIn
  <2>2. OnePlace'
    BY <1>1, <2>1 DEF Told, OnePlace
  <2>. QED
    BY <1>5, <2>1, <2>2 DEF Told, OneEach
<1>6. CASE DrainRefreshes
  <2>1. Leave /\ UNCHANGED applied
    BY <1>6 DEF DrainRefreshes, serverVars
  <2>2. Refused' \subseteq Refused \cup {c}
    BY <1>6, ConflictEffect DEF DrainRefreshes, Refused
  <2>. QED
    BY <1>4, <2>1, <2>2
<1>7. CASE Accepted(reply)
  <2>1. UNCHANGED applied \/ applied' = Append(applied, c)
    BY <1>7, RequestEffect DEF Accepted
  <2>2. Leave /\ Refused' = Refused
    BY <1>7 DEF Accepted, Refused
  <2>. QED
    BY <1>4, <2>1, <2>2
<1>8. CASE GivenUp(reply)
  <2>1. Leave /\ UNCHANGED applied
    BY <1>8, RequestEffect DEF GivenUp, Request, Lost
  <2>2. Refused' \subseteq Refused \cup {c}
    BY <1>8, ConflictEffect DEF GivenUp
  <2>. QED
    BY <1>4, <2>1, <2>2
<1>9. CASE Kept(reply)
  <2>1. UNCHANGED applied /\ UNCHANGED conflicts /\ Keep
    BY <1>9, RequestEffect DEF Kept, Request
  <2>2. /\ DrainOK' /\ OneEach(queue') /\ OneEach(drain'.rest)
        /\ ChangesIn(queue') = ChangesIn(queue) /\ drain'.rest = {}
    BY <1>1, <1>2, <2>1, KeepEffect DEF Told, OneEach
  <2>. QED
    BY <1>5, <2>1, <2>2 DEF ChangesIn
<1>10. CASE GoesOn(reply)
  <2>1. UNCHANGED applied
    BY <1>10, RequestEffect DEF GoesOn, Request, UploadProof
  <2>2. PICK step \in Sending : drain' = [drain EXCEPT !.pc = step] /\ UNCHANGED <<queue, conflicts>>
    BY <1>10 DEF GoesOn, phoneVars
  <2>3. DrainOK' /\ drain'.rest = drain.rest
    BY <1>1, <2>2 DEF Told, DrainOK
  <2>. QED
    BY <1>5, <2>1, <2>2, <2>3 DEF Told
<1>. QED
  BY <1>6, <1>7, <1>8, <1>9, <1>10, DrainAnswers

(* The run of processQueue starts, or takes its next change.               *)
LEMMA ContinueTold ==
    ASSUME Told, NEW q \in SUBSET Queued, drain' = Continue(q), OneEach(q),
           ChangesIn(q) \subseteq Asked,
           UNCHANGED <<made, applied, direct, conflicts, queue>>
    PROVE  Told'
<1>1. DrainOK' /\ drain'.rest = q
  BY ContinueEffect
<1>2. /\ Asked' \subseteq Asked /\ InHand' = InHand /\ Refused' = Refused
      /\ AppliedSet' = AppliedSet /\ AppliedIsAList'
  BY <1>1 DEF Asked, InHand, Refused, AppliedSet, AppliedIsAList, Told, ChangesIn
<1>3. OnePlace'
  BY <1>2 DEF Told, OnePlace
<1>. QED
  BY <1>1, <1>2, <1>3 DEF Told, OneEach

LEMMA FewerTold ==
    ASSUME Told, Refused' \subseteq Refused,
           UNCHANGED <<made, applied, direct, queue, drain>>
    PROVE  Told'
<1>1. /\ Asked' = Asked /\ InHand' = InHand /\ AppliedSet' = AppliedSet /\ AppliedIsAList'
  BY DEF Asked, InHand, AppliedSet, AppliedIsAList, Told, ChangesIn
<1>2. OnePlace'
  BY <1>1 DEF Told, OnePlace
<1>. QED
  BY <1>1, <1>2 DEF Told, OneEach, DrainOK

LEMMA OthersTold ==
    ASSUME Held, Told, \/ GoOnline \/ GoOffline \/ SyncNow \/ UNCHANGED vars
                       \/ StorageWrites
                       \/ \E d \in Deliveries :
                            \/ ClearConflict(d) \/ Reassign(d)
                            \/ \E to \in Status : OfficeMoves(d, to)
    PROVE  Told'
<1>1. UNCHANGED <<made, applied, direct, queue>>
  BY DEF GoOnline, GoOffline, SyncNow, ClearConflict, Reassign, OfficeMoves,
     StorageWrites, vars, phoneVars, readVars, serverVars
<1>2. CASE UNCHANGED conflicts /\ drain' = Continue(queue)
  BY <1>1, <1>2, ContinueTold DEF Told, Asked, Held, QueueTypes
<1>3. CASE UNCHANGED conflicts /\ drain' = Continue(drain.rest)
  BY <1>1, <1>3, ContinueTold DEF Told, Asked, DrainOK
<1>4. CASE UNCHANGED conflicts /\ UNCHANGED drain
  BY <1>1, <1>4, FewerTold DEF Refused
<1>5. CASE \E d \in Deliveries : ClearConflict(d)
  <2>1. Refused' \subseteq Refused /\ UNCHANGED drain
    BY <1>5 DEF ClearConflict, Refused
  <2>. QED
    BY <1>1, <2>1, FewerTold
<1>. QED
  BY <1>2, <1>3, <1>4, <1>5
     DEF GoOnline, GoOffline, SyncNow, ProcessQueue, StorageWrites, Reassign,
         OfficeMoves, vars, phoneVars

ToldIn == Honest => Told

LEMMA ToldInit == Init => ToldIn
BY DEF Init, ToldIn, Told, AppliedIsAList, AppliedSet, DrainOK, DrainIdle, Sending,
       OneEach, OnePlace, Asked, InHand, Refused, ChangesIn

LEMMA ToldNext == HeldIn /\ ToldIn /\ [Next]_vars => ToldIn'
<1> SUFFICES ASSUME Held, Told, Honest, [Next]_vars PROVE Told'
  BY WorldStays DEF HeldIn, ToldIn, Honest
<1>1. ~StorageReads /\ ~HydrateSets /\ ~MountScreen /\ ~Restart
  <2>1. ops # <<>> => Head(ops) \in Writes
    BY DEF Held, QueueTypes
  <2>. QED
    BY <2>1 DEF StorageReads, HydrateSets, MountScreen, Restart, Held, QueueTypes,
       Writes, Honest
<1>2. CASE \E d \in Deliveries, to \in Status : Choose(d, to)
  BY <1>2, ChooseTold
<1>3. CASE \E reply \in Replies : DirectSendsProof(reply) \/ DirectSendsStatus(reply)
  BY <1>3, DirectTold
<1>4. CASE \/ DrainRefreshes
           \/ \E reply \in Replies : DrainSendsProof(reply) \/ DrainSendsStatus(reply)
  BY <1>4, DrainTold
<1>. QED
  BY <1>1, <1>2, <1>3, <1>4, OthersTold DEF Next

(* ConflictIsReal for any number of changes: a change the postman is told  *)
(* was refused is not among those the server applied, for it is in no two  *)
(* of the places a change can be in.                                       *)
THEOREM RefusedIsNotApplied == Spec => []ConflictIsReal
<1>1. ToldIn => ConflictIsReal
  <2> SUFFICES ASSUME Told PROVE \A k \in conflicts : k.change \notin AppliedSet
    BY DEF ToldIn, Honest, ConflictIsReal, AppliedSet
  <2>. QED
    BY DEF Told, OnePlace, Refused
<1>. QED
  BY HeldInit, HeldNext, ToldInit, ToldNext, <1>1, PTL DEF Spec
-----------------------------------------------------------------------------
(* The order of changes, where every change goes through the queue.  Every *)
(* copy of the queue holds each change once, numbered as it was made; and  *)
(* what processQueue still holds comes before what was queued meanwhile.   *)

Good(q, n) ==
    /\ OneEach(q)
    /\ \A e \in q : e.queuedAt = e.change /\ e.change \in 1 .. n

GoodCopies ==
    /\ clock = Len(made) /\ direct = DirectIdle
    /\ Good(queue, clock) /\ Good(disk, clock) /\ Good(drain.rest, clock)
    /\ \A i \in DOMAIN ops : Good(ops[i].queue, clock)

RestComesFirst ==
    /\ ChangesIn(drain.rest) \subseteq ChangesIn(queue)
    /\ \A e \in queue : \/ e.change \in ChangesIn(drain.rest)
                        \/ \A f \in drain.rest : f.change < e.change

(* Nothing that has left the queue is in a copy of it, except in those     *)
(* that the write processQueue waits for is to replace.                    *)
Behind(q) == ChangesIn(q) \subseteq ChangesIn(queue)

NoneAhead ==
    /\ drain.pc # "persist" =>
         /\ Behind(disk)
         /\ \A j \in DOMAIN ops : ops[j].by # Drainer /\ Behind(ops[j].queue)
    /\ drain.pc = "persist" =>
         \E k \in DOMAIN ops :
            /\ ops[k].by = Drainer
            /\ \A j \in DOMAIN ops : /\ ops[j].by = Drainer => j = k
                                     /\ j >= k => Behind(ops[j].queue)

Tidy == DrainOK /\ GoodCopies /\ RestComesFirst /\ NoneAhead

Plain == {"direct", "slowRead"} \cap world = {}

LEMMA GoodGrows ==
    ASSUME NEW q, NEW n \in Nat, Good(q, n)
    PROVE  Good(q, n + 1)
BY DEF Good

(* Only changes that waited before, and the one just made, wait after.     *)
Waiting == ChangesIn(queue) \cup ChangesIn(disk)
             \cup UNION {ChangesIn(ops[i].queue) : i \in DOMAIN ops}

LEMMA IsWaiting ==
    ASSUME NEW x
    PROVE  /\ x \in Waiting <=> \/ x \in ChangesIn(queue) \/ x \in ChangesIn(disk)
                                \/ \E i \in DOMAIN ops : x \in ChangesIn(ops[i].queue)
           /\ x \in Waiting' <=> \/ x \in ChangesIn(queue') \/ x \in ChangesIn(disk')
                                 \/ \E i \in DOMAIN ops' : x \in ChangesIn(ops'[i].queue)
BY DEF Waiting, ChangesIn

(* The queue is changed and written.                                       *)
LEMMA PersistEffect ==
    ASSUME Held, NEW by, Persist(by), queue' \in SUBSET Queued, by \in Nat
    PROVE  /\ DOMAIN ops' = DOMAIN ops \cup {Len(ops) + 1}
           /\ \A i \in DOMAIN ops : ops'[i] = ops[i]
           /\ ops'[Len(ops) + 1].queue = queue' /\ ops'[Len(ops) + 1].by = by
           /\ DOMAIN ops = 1 .. Len(ops) /\ Len(ops) \in Nat
<1> DEFINE w == [op |-> "set", queue |-> queue', by |-> by]
<1>1. w \in Writes /\ ops' = Append(ops, w) /\ w.queue = queue' /\ w.by = by
  BY DEF Writes, Persist
<1>. HIDE DEF w
<1>. QED
  BY <1>1, AppendFacts DEF Held, QueueTypes

LEMMA ChooseTidy ==
    ASSUME Held, Tidy, Plain, NEW d \in Deliveries, NEW to \in Status, Choose(d, to)
    PROVE  Tidy' /\ Waiting' \subseteq Waiting \cup {Len(made) + 1}
<1> DEFINE c == Len(made) + 1
           e == [change |-> c, queuedAt |-> clock + 1, attempts |-> 0]
<1>1. /\ made' = Append(made, [delivery |-> d, to |-> to])
      /\ UNCHANGED <<disk, drain, direct>>
      /\ Enqueue(c)
  BY DEF Choose, Plain, readVars
<1>2. Len(made') = c /\ clock' = c /\ clock \in Nat /\ Len(made) = clock
  BY <1>1, MadeGrows DEF Tidy, GoodCopies, Enqueue, Held, QueueTypes
<1>3. e.change = c /\ e.queuedAt = c /\ queue' = queue \cup {e} /\ Persist(c) /\ e \in Queued
  BY <1>1, <1>2 DEF Enqueue, Queued
<1>4. c \in Nat /\ c # Drainer /\ c = clock + 1
  BY <1>2 DEF Drainer
<1>. HIDE DEF c, e
<1>5. queue' \in SUBSET Queued
  BY <1>3 DEF Held, QueueTypes
<1>6. /\ DOMAIN ops' = DOMAIN ops \cup {Len(ops) + 1}
      /\ \A i \in DOMAIN ops : ops'[i] = ops[i]
      /\ ops'[Len(ops) + 1].queue = queue' /\ ops'[Len(ops) + 1].by = c
      /\ DOMAIN ops = 1 .. Len(ops) /\ Len(ops) \in Nat
  BY <1>3, <1>4, <1>5, PersistEffect
<1>7. ChangesIn(queue') = ChangesIn(queue) \cup {c}
  BY <1>3 DEF ChangesIn
<1>8. Good(queue', clock')
  BY <1>2, <1>3, <1>4 DEF Good, OneEach, Tidy, GoodCopies
<1>9. GoodCopies'
  <2>1. \A i \in DOMAIN ops : Good(ops[i].queue, clock')
    BY <1>2, <1>4, GoodGrows DEF Tidy, GoodCopies
  <2>2. Good(disk, clock') /\ Good(drain.rest, clock')
    BY <1>2, <1>4, GoodGrows DEF Tidy, GoodCopies
  <2>. QED
    BY <1>1, <1>2, <1>6, <1>8, <2>1, <2>2 DEF Tidy, GoodCopies
<1>10. RestComesFirst'
  <2>1. \A f \in drain.rest : f.change < c
    BY <1>2, <1>4 DEF Tidy, GoodCopies, Good
  <2>. QED
    BY <1>1, <1>3, <1>7, <2>1 DEF Tidy, RestComesFirst, ChangesIn
<1>11. NoneAhead'
  <2>1. ASSUME NEW q, Behind(q)
        PROVE  ChangesIn(q) \subseteq ChangesIn(queue')
    BY <1>7, <2>1 DEF Behind
  <2>2. CASE drain.pc # "persist"
    <3>1. ASSUME NEW j \in DOMAIN ops'
          PROVE  ops'[j].by # Drainer /\ ChangesIn(ops'[j].queue) \subseteq ChangesIn(queue')
      BY <1>4, <1>6, <2>1, <2>2 DEF Tidy, NoneAhead
    <3>2. ChangesIn(disk) \subseteq ChangesIn(queue')
      BY <2>1, <2>2 DEF Tidy, NoneAhead
    <3>. QED
      BY <1>1, <2>2, <3>1, <3>2 DEF NoneAhead, Behind, ChangesIn
  <2>3. CASE drain.pc = "persist"
    <3>1. PICK k \in DOMAIN ops :
            /\ ops[k].by = Drainer
            /\ \A j \in DOMAIN ops : /\ ops[j].by = Drainer => j = k
                                     /\ j >= k => Behind(ops[j].queue)
      BY <2>3 DEF Tidy, NoneAhead
    <3>2. k \in DOMAIN ops' /\ ops'[k].by = Drainer
      BY <1>6, <3>1
    <3>3. ASSUME NEW j \in DOMAIN ops'
          PROVE  /\ ops'[j].by = Drainer => j = k
                 /\ j >= k => ChangesIn(ops'[j].queue) \subseteq ChangesIn(queue')
      BY <1>4, <1>6, <2>1, <3>1
    <3>. QED
      BY <1>1, <2>3, <3>2, <3>3 DEF NoneAhead, Behind, ChangesIn
  <2>. QED
    BY <2>2, <2>3
<1>12. Waiting' \subseteq Waiting \cup {c}
  <2> SUFFICES ASSUME NEW x, x \in Waiting' PROVE x \in Waiting \cup {c}
    OBVIOUS
  <2>. QED
    BY <1>1, <1>6, <1>7, IsWaiting
<1>13. DrainOK'
  BY <1>1 DEF Tidy, DrainOK
<1>14. Tidy'
  BY <1>9, <1>10, <1>11, <1>13 DEF Tidy
<1>. QED
  BY <1>12, <1>14 DEF c

(* A request answered: the run of processQueue writes the queue without    *)
(* its current change, or with it, or goes on.                             *)
LEMMA PersistTidy ==
    ASSUME Held, Tidy, drain.pc \in Sending, Persist(Drainer),
           UNCHANGED <<made, clock, disk, direct>>, DrainOK',
           drain'.pc = "persist", drain'.rest \subseteq drain.rest,
           queue' \in SUBSET Queued, Good(queue', clock),
           ChangesIn(queue') \subseteq ChangesIn(queue), RestComesFirst'
    PROVE  Tidy' /\ Waiting' \subseteq Waiting
<1>1. /\ DOMAIN ops' = DOMAIN ops \cup {Len(ops) + 1}
      /\ \A i \in DOMAIN ops : ops'[i] = ops[i]
      /\ ops'[Len(ops) + 1].queue = queue' /\ ops'[Len(ops) + 1].by = Drainer
      /\ DOMAIN ops = 1 .. Len(ops) /\ Len(ops) \in Nat
  BY PersistEffect DEF Drainer
<1>2. GoodCopies'
  <2>1. Good(drain'.rest, clock)
    BY DEF Tidy, GoodCopies, Good, OneEach
  <2>. QED
    BY <1>1, <2>1 DEF Tidy, GoodCopies
<1>3. NoneAhead'
  <2>1. \A j \in DOMAIN ops : ops[j].by # Drainer
    BY DEF Tidy, NoneAhead, Sending
  <2>2. ASSUME NEW j \in DOMAIN ops'
        PROVE  /\ ops'[j].by = Drainer => j = Len(ops) + 1
               /\ j >= Len(ops) + 1 => ChangesIn(ops'[j].queue) \subseteq ChangesIn(queue')
    BY <1>1, <2>1
  <2>. QED
    BY <1>1, <2>2 DEF NoneAhead, Behind, ChangesIn
<1>4. Waiting' \subseteq Waiting
  <2> SUFFICES ASSUME NEW x, x \in Waiting' PROVE x \in Waiting
    OBVIOUS
  <2>. QED
    BY <1>1, IsWaiting
<1>. QED
  BY <1>2, <1>3, <1>4 DEF Tidy

(* The current change is the oldest that waits anywhere.                   *)
LEMMA CurrentIsFirst ==
    ASSUME Held, Tidy, drain.pc \in Sending
    PROVE  /\ Current.change \in Waiting /\ Current.change \in 1 .. Len(made)
           /\ \A c \in Waiting : Current.change <= c
<1>1. /\ Current \in drain.rest /\ Current \in Queued
      /\ \A f \in drain.rest : Current.queuedAt <= f.queuedAt
  BY CurrentIsOldest DEF Tidy
<1>2. \A f \in drain.rest : f.queuedAt = f.change /\ f.change \in 1 .. Len(made)
  BY DEF Tidy, GoodCopies, Good
<1>. HIDE DEF Current
<1>3. Current.change \in ChangesIn(queue) /\ Current.change \in Nat
  BY <1>1 DEF Tidy, RestComesFirst, ChangesIn, Queued
<1>4. \A c \in ChangesIn(drain.rest) : Current.change <= c
  BY <1>1, <1>2 DEF ChangesIn
<1>5. ASSUME NEW e \in queue
      PROVE  Current.change <= e.change
  <2>1. e.change \in Nat
    BY DEF Held, QueueTypes, Queued
  <2>. QED
    BY <1>1, <1>3, <1>4, <2>1 DEF Tidy, RestComesFirst
<1>6. Waiting = ChangesIn(queue)
  BY DEF Tidy, NoneAhead, Sending, Behind, Waiting
<1>. QED
  BY <1>1, <1>2, <1>3, <1>5, <1>6 DEF ChangesIn

LEMMA DrainTidy ==
    ASSUME Held, Tidy, NEW reply,
           DrainSendsProof(reply) \/ DrainSendsStatus(reply) \/ DrainRefreshes
    PROVE  Tidy' /\ Waiting' \subseteq Waiting
<1>1. UNCHANGED <<made, direct, disk>> /\ drain.pc \in Sending
  BY DEF DrainSendsProof, DrainSendsStatus, DrainRefreshes, Sending, readVars
<1>2. queue \in SUBSET Queued /\ OneEach(queue) /\ OneEach(drain.rest) /\ DrainOK
  BY DEF Held, QueueTypes, Tidy, GoodCopies, Good
<1>3. CASE Leave
  <2>1. /\ DrainOK' /\ drain'.pc = "persist" /\ drain'.rest = drain.rest \ {Current}
        /\ OneEach(queue')
        /\ ChangesIn(queue') = ChangesIn(queue) \ {Current.change}
        /\ ChangesIn(drain'.rest) = ChangesIn(drain.rest) \ {Current.change}
        /\ queue' \subseteq queue
    BY <1>1, <1>2, <1>3, LeaveEffect
  <2>2. Persist(Drainer) /\ UNCHANGED clock
    BY <1>3 DEF Leave
  <2>. HIDE DEF Current
  <2>3. Good(queue', clock) /\ queue' \in SUBSET Queued
    BY <1>2, <2>1 DEF Tidy, GoodCopies, Good
  <2>4. RestComesFirst'
    <3>1. ASSUME NEW e \in queue'
          PROVE  e.change \in ChangesIn(drain'.rest) \/ \A f \in drain'.rest : f.change < e.change
      <4>1. e.change # Current.change
        BY <2>1 DEF ChangesIn
      <4>. QED
        BY <2>1, <4>1 DEF Tidy, RestComesFirst
    <3>. QED
      BY <2>1, <3>1 DEF Tidy, RestComesFirst, ChangesIn
  <2>. QED
    BY <1>1, <2>1, <2>2, <2>3, <2>4, PersistTidy
<1>4. CASE Keep
  <2>1. /\ DrainOK' /\ drain'.pc = "persist" /\ drain'.rest = {}
        /\ OneEach(queue') /\ ChangesIn(queue') = ChangesIn(queue)
        /\ \A e \in queue' : \E f \in queue : e.change = f.change /\ e.queuedAt = f.queuedAt
    BY <1>1, <1>2, <1>4, KeepEffect
  <2>2. Persist(Drainer) /\ UNCHANGED clock
    BY <1>4 DEF Keep
  <2>3. queue' \in SUBSET Queued
    BY <1>1, <1>4, <1>2, KeepRewrites, <2>2 DEF Keep, Attempted, Queued
  <2>4. Good(queue', clock)
    BY <2>1 DEF Tidy, GoodCopies, Good
  <2>5. RestComesFirst'
    BY <2>1 DEF RestComesFirst, ChangesIn
  <2>. QED
    BY <1>1, <2>1, <2>2, <2>3, <2>4, <2>5, PersistTidy
<1>5. CASE UNCHANGED phoneVars /\ \E step \in Sending : drain' = [drain EXCEPT !.pc = step]
  <2>1. /\ UNCHANGED <<queue, clock, ops>> /\ drain'.rest = drain.rest /\ drain'.pc \in Sending
        /\ DrainOK'
    BY <1>1, <1>5 DEF Tidy, DrainOK, phoneVars
  <2>2. drain'.pc # "persist" /\ drain.pc # "persist"
    BY <1>1, <2>1 DEF Sending
  <2>3. GoodCopies' /\ RestComesFirst' /\ NoneAhead'
    BY <1>1, <2>1, <2>2 DEF Tidy, GoodCopies, RestComesFirst, NoneAhead, Behind, ChangesIn
  <2>4. Waiting' = Waiting
    BY <1>1, <2>1 DEF Waiting, ChangesIn
  <2>. QED
    BY <2>1, <2>3, <2>4 DEF Tidy
<1>. QED
  BY <1>3, <1>4, <1>5, DrainAnswers DEF DrainRefreshes, Accepted, GivenUp, Kept, GoesOn

LEMMA WriteTidy ==
    ASSUME Held, Tidy, StorageWrites
    PROVE  Tidy' /\ Waiting' \subseteq Waiting
<1>1. /\ Head(ops) = ops[1] /\ 1 \in DOMAIN ops
      /\ \A i \in DOMAIN ops' : i + 1 \in DOMAIN ops /\ ops'[i] = ops[i + 1]
      /\ DOMAIN ops \subseteq Nat \ {0} /\ DOMAIN ops' \subseteq Nat \ {0}
  BY TailFacts DEF Held, QueueTypes, StorageWrites
<1>2. disk' = ops[1].queue /\ UNCHANGED <<queue, made, clock, direct>>
  BY <1>1 DEF StorageWrites
<1>3. Waiting' \subseteq Waiting
  <2> SUFFICES ASSUME NEW x, x \in Waiting' PROVE x \in Waiting
    OBVIOUS
  <2>. QED
    BY <1>1, <1>2, IsWaiting
<1>4. \A i \in DOMAIN ops' : Good(ops'[i].queue, clock)
  BY <1>1 DEF Tidy, GoodCopies
<1>5. Good(disk', clock)
  BY <1>1, <1>2 DEF Tidy, GoodCopies
<1>6. drain'.rest = drain.rest /\ DrainOK'
  <2>1. CASE UNCHANGED drain
    BY <2>1 DEF Tidy, DrainOK
  <2>2. CASE drain' = Continue(drain.rest)
    BY <2>2, ContinueEffect DEF Tidy, DrainOK
  <2>. QED
    BY <2>1, <2>2 DEF StorageWrites
<1>7. GoodCopies' /\ RestComesFirst'
  BY <1>2, <1>4, <1>5, <1>6 DEF Tidy, GoodCopies, RestComesFirst, ChangesIn
<1>8. NoneAhead'
  <2>1. CASE ops[1].by = Drainer
    <3>1. drain.pc = "persist"
      BY <1>1, <2>1 DEF Tidy, NoneAhead
    <3>2. PICK k \in DOMAIN ops :
            /\ ops[k].by = Drainer
            /\ \A j \in DOMAIN ops : /\ ops[j].by = Drainer => j = k
                                     /\ j >= k => Behind(ops[j].queue)
      BY <3>1 DEF Tidy, NoneAhead
    <3>3. k = 1
      BY <1>1, <2>1, <3>2
    <3>4. Behind(ops[1].queue)
      BY <1>1, <3>2, <3>3
    <3>5. ASSUME NEW j \in DOMAIN ops'
          PROVE  ops'[j].by # Drainer /\ Behind(ops'[j].queue)
      <4>1. j + 1 \in DOMAIN ops /\ j + 1 # 1 /\ j + 1 >= 1
        BY <1>1
      <4>. QED
        BY <1>1, <3>2, <3>3, <4>1
    <3>6. drain'.pc # "persist"
      BY <1>1, <2>1, ContinueEffect DEF StorageWrites, Tidy, DrainOK
    <3>. QED
      BY <1>2, <3>4, <3>5, <3>6 DEF NoneAhead, Behind, ChangesIn
  <2>2. CASE ops[1].by # Drainer
    <3>1. UNCHANGED drain
      BY <1>1, <2>2 DEF StorageWrites
    <3>2. CASE drain.pc # "persist"
      <4>1. Behind(ops[1].queue) /\ \A j \in DOMAIN ops' : ops'[j].by # Drainer /\ Behind(ops'[j].queue)
        BY <1>1, <3>2 DEF Tidy, NoneAhead
      <4>. QED
        BY <1>2, <3>1, <3>2, <4>1 DEF NoneAhead, Behind, ChangesIn
    <3>3. CASE drain.pc = "persist"
      <4>1. PICK k \in DOMAIN ops :
              /\ ops[k].by = Drainer
              /\ \A j \in DOMAIN ops : /\ ops[j].by = Drainer => j = k
                                       /\ j >= k => Behind(ops[j].queue)
        BY <3>3 DEF Tidy, NoneAhead
      <4>2. k - 1 \in DOMAIN ops' /\ (k - 1) + 1 = k
        <5>1. k # 1 /\ k \in Nat \ {0}
          BY <1>1, <2>2, <4>1
        <5>2. DOMAIN ops = 1 .. Len(ops) /\ DOMAIN ops' = 1 .. Len(ops) - 1 /\ Len(ops) \in Nat
          BY <1>1 DEF StorageWrites, Held, QueueTypes
        <5>. QED
          BY <4>1, <5>1, <5>2
      <4>3. ASSUME NEW j \in DOMAIN ops'
            PROVE  /\ ops'[j].by = Drainer => j = k - 1
                   /\ j >= k - 1 => Behind(ops'[j].queue)
        <5>1. j + 1 \in DOMAIN ops /\ (j + 1 = k => j = k - 1) /\ (j >= k - 1 => j + 1 >= k)
          BY <1>1, <4>2
        <5>. QED
          BY <1>1, <4>1, <5>1
      <4>4. ops'[k - 1].by = Drainer
        BY <1>1, <4>1, <4>2
      <4>. QED
        BY <1>2, <3>1, <3>3, <4>2, <4>3, <4>4 DEF NoneAhead, Behind, ChangesIn
    <3>. QED
      BY <3>2, <3>3
  <2>. QED
    BY <2>1, <2>2
<1>. QED
  BY <1>3, <1>6, <1>7, <1>8 DEF Tidy

LEMMA RestartTidy ==
    ASSUME Held, Tidy, Plain, Restart
    PROVE  Tidy' /\ Waiting' \subseteq Waiting
<1>1. /\ queue' = disk /\ ops' = <<>> /\ direct' = DirectIdle /\ drain' = DrainIdle
      /\ UNCHANGED <<disk, made, clock>>
  BY DEF Restart, Plain
<1>2. DrainOK' /\ drain'.pc # "persist" /\ drain'.rest = {}
  BY <1>1 DEF DrainIdle, DrainOK, Sending
<1>3. GoodCopies'
  BY <1>1, <1>2 DEF Tidy, GoodCopies, Good, OneEach
<1>4. RestComesFirst' /\ NoneAhead'
  BY <1>1, <1>2 DEF RestComesFirst, NoneAhead, Behind, ChangesIn
<1>5. Waiting' \subseteq Waiting
  <2> SUFFICES ASSUME NEW x, x \in Waiting' PROVE x \in Waiting
    OBVIOUS
  <2>. QED
    BY <1>1, IsWaiting
<1>. QED
  BY <1>2, <1>3, <1>4, <1>5 DEF Tidy

LEMMA OthersTidy ==
    ASSUME Held, Tidy, \/ GoOnline \/ GoOffline \/ SyncNow \/ UNCHANGED vars
                       \/ \E d \in Deliveries :
                            \/ ClearConflict(d) \/ Reassign(d)
                            \/ \E to \in Status : OfficeMoves(d, to)
    PROVE  Tidy' /\ Waiting' \subseteq Waiting
<1>1. UNCHANGED <<made, queue, clock, disk, ops, direct>>
  BY DEF GoOnline, GoOffline, SyncNow, ClearConflict, Reassign, OfficeMoves,
     vars, phoneVars, readVars
<1>2. Waiting' \subseteq Waiting
  BY <1>1 DEF Waiting, ChangesIn
<1>3. UNCHANGED drain \/ (drain.pc = "idle" /\ drain' = Continue(queue))
  BY DEF GoOnline, GoOffline, SyncNow, ClearConflict, Reassign, OfficeMoves,
     vars, ProcessQueue
<1>4. CASE UNCHANGED drain
  <2>1. GoodCopies' /\ RestComesFirst' /\ NoneAhead' /\ DrainOK'
    BY <1>1, <1>4 DEF Tidy, GoodCopies, RestComesFirst, NoneAhead, Behind, ChangesIn, DrainOK
  <2>. QED
    BY <1>2, <2>1 DEF Tidy
<1>5. CASE drain.pc = "idle" /\ drain' = Continue(queue)
  <2>1. DrainOK' /\ drain'.rest = queue /\ drain'.pc # "persist" /\ drain.pc # "persist"
    BY <1>5, ContinueEffect DEF Held, QueueTypes
  <2>2. GoodCopies' /\ RestComesFirst' /\ NoneAhead'
    BY <1>1, <2>1 DEF Tidy, GoodCopies, RestComesFirst, NoneAhead, Behind, ChangesIn
  <2>. QED
    BY <1>2, <2>1, <2>2 DEF Tidy
<1>. QED
  BY <1>3, <1>4, <1>5

TidyIn == Plain => Tidy

LEMMA TidyInit == Init => TidyIn
<1> SUFFICES ASSUME Init PROVE Tidy
  BY DEF TidyIn
<1>1. DrainOK
  BY DEF Init, DrainOK, DrainIdle, Sending
<1>2. GoodCopies
  BY DEF Init, GoodCopies, Good, OneEach, DrainIdle
<1>3. RestComesFirst /\ NoneAhead
  BY DEF Init, RestComesFirst, NoneAhead, Behind, ChangesIn, DrainIdle
<1>. QED
  BY <1>1, <1>2, <1>3 DEF Tidy

(* Without "direct" and "slowRead" these are all the steps there are.      *)
LEMMA PlainSteps ==
    ASSUME Held, Tidy, Plain, [Next]_vars
    PROVE  \/ \E d \in Deliveries, to \in Status : Choose(d, to)
           \/ \E reply \in Replies : DrainSendsProof(reply) \/ DrainSendsStatus(reply)
           \/ DrainRefreshes \/ StorageWrites \/ Restart
           \/ GoOnline \/ GoOffline \/ SyncNow \/ UNCHANGED vars
           \/ \E d \in Deliveries :
                \/ ClearConflict(d) \/ Reassign(d)
                \/ \E to \in Status : OfficeMoves(d, to)
<1>1. ~StorageReads /\ ~HydrateSets /\ ~MountScreen
  <2>1. ops # <<>> => Head(ops) \in Writes
    BY DEF Held, QueueTypes
  <2>2. ~StorageReads
    BY <2>1 DEF StorageReads, Writes
  <2>3. ~HydrateSets /\ ~MountScreen
    BY DEF HydrateSets, MountScreen, Held, QueueTypes, Plain
  <2>. QED
    BY <2>2, <2>3
<1>2. \A reply : ~DirectSendsProof(reply) /\ ~DirectSendsStatus(reply)
  BY DEF DirectSendsProof, DirectSendsStatus, Tidy, GoodCopies, DirectIdle
<1>. QED
  BY <1>1, <1>2 DEF Next

LEMMA TidySteps ==
    ASSUME Held, Tidy, Plain, [Next]_vars
    PROVE  Tidy' /\ Waiting' \subseteq Waiting \cup {Len(made) + 1}
BY PlainSteps, ChooseTidy, DrainTidy, WriteTidy, RestartTidy, OthersTidy

LEMMA TidyNext == HeldIn /\ TidyIn /\ [Next]_vars => TidyIn'
<1> SUFFICES ASSUME Held, Tidy, Plain, [Next]_vars PROVE Tidy'
  BY WorldStays DEF HeldIn, TidyIn, Plain
<1>. QED
  BY TidySteps

-----------------------------------------------------------------------------
(* What the server has applied, against what still waits.  A change whose  *)
(* answer was lost waits although it was applied: it is the oldest of its  *)
(* delivery, and the server's own status forbids to take it again until    *)
(* the post office moves the delivery to where it is allowed, which        *)
(* reopened records.                                                       *)
Past ==
    /\ AppliedIsAList /\ AppliedSet \subseteq 1 .. Len(made)
    /\ server \in [Deliveries -> Status]
    /\ \A c \in 1 .. Len(made) : made[c].to \in Choices
    /\ \A a \in AppliedSet, c \in Waiting :
           made[c].delivery = made[a].delivery => a <= c
    /\ \A a \in AppliedSet \cap Waiting :
           a \notin reopened =>
             made[a].to \notin AllowedTransitions[server[made[a].delivery]]
    /\ \A i, j \in DOMAIN applied :
           applied[i] = applied[j] => i = j \/ applied[i] \in reopened

LEMMA WaitingIsMade ==
    ASSUME Held, Tidy
    PROVE  Waiting \subseteq 1 .. Len(made) /\ Len(made) \in Nat
<1>1. clock = Len(made) /\ Len(made) \in Nat
  BY DEF Tidy, GoodCopies, Held, QueueTypes
<1>2. ASSUME NEW q, Good(q, clock) PROVE ChangesIn(q) \subseteq 1 .. Len(made)
  BY <1>1, <1>2 DEF Good, ChangesIn
<1>. QED
  BY <1>1, <1>2, IsWaiting DEF Tidy, GoodCopies

LEMMA SeqElement ==
    ASSUME NEW S, NEW s \in Seq(S), NEW i \in 1 .. Len(s)
    PROVE  s[i] \in S
OBVIOUS

LEMMA MadeTypes ==
    ASSUME Held, NEW i \in 1 .. Len(made)
    PROVE  made[i].delivery \in Deliveries /\ made[i].to \in Status
<1> DEFINE R == [delivery : Deliveries, to : Status]
<1>1. made[i] \in R
  <2>1. made \in Seq(R)
    BY DEF Held, QueueTypes
  <2>. HIDE DEF R
  <2>. QED
    BY <2>1, SeqElement
<1>2. \A x : x \in [delivery : Deliveries, to : Status] =>
              x.delivery \in Deliveries /\ x.to \in Status
  OBVIOUS
<1>. QED
  BY <1>1, <1>2, Zenon

(* Steps that send nothing.                                                *)
LEMMA QuietPast ==
    ASSUME Held, Tidy, Past, UNCHANGED applied,
           Waiting' \subseteq Waiting \cup {Len(made) + 1},
           \/ UNCHANGED made
           \/ \E d \in Deliveries, to \in Choices :
                made' = Append(made, [delivery |-> d, to |-> to]),
           \/ UNCHANGED <<server, reopened>>
           \/ \E d \in Deliveries, to \in Status : OfficeMoves(d, to)
    PROVE  Past'
<1>1. /\ Len(made) \in Nat /\ Waiting \subseteq 1 .. Len(made)
      /\ made \in Seq([delivery : Deliveries, to : Status])
  BY WaitingIsMade DEF Held, QueueTypes
<1>2. /\ 1 .. Len(made) \subseteq 1 .. Len(made')
      /\ \A c \in 1 .. Len(made) : made'[c] = made[c]
      /\ \A c \in 1 .. Len(made') : made'[c].to \in Choices
      /\ Len(made') \in Nat
  <2>1. CASE UNCHANGED made
    BY <1>1, <2>1 DEF Past
  <2>2. CASE \E d \in Deliveries, to \in Choices :
                made' = Append(made, [delivery |-> d, to |-> to])
    <3>1. PICK d \in Deliveries, to \in Choices :
             made' = Append(made, [delivery |-> d, to |-> to])
      BY <2>2
    <3>2. to \in Status
      BY OfflineAssumption
    <3>. DEFINE x == [delivery |-> d, to |-> to]
    <3>3. x \in [delivery : Deliveries, to : Status] /\ x.to \in Choices
      BY <3>2
    <3>. HIDE DEF x
    <3>4. /\ DOMAIN made' = DOMAIN made \cup {Len(made) + 1}
          /\ \A i \in DOMAIN made : made'[i] = made[i]
          /\ made'[Len(made) + 1] = x /\ DOMAIN made = 1 .. Len(made)
          /\ Len(made') = Len(made) + 1
      BY <1>1, <3>1, <3>3, AppendFacts, MadeGrows DEF x
    <3>5. \A c \in 1 .. Len(made') : c \in 1 .. Len(made) \/ c = Len(made) + 1
      BY <1>1, <3>4
    <3>. QED
      BY <1>1, <3>3, <3>4, <3>5 DEF Past
  <2>. QED
    BY <2>1, <2>2
<1>3. AppliedIsAList' /\ AppliedSet' = AppliedSet /\ AppliedSet' \subseteq 1 .. Len(made')
  BY <1>2 DEF Past, AppliedIsAList, AppliedSet
<1>4. server' \in [Deliveries -> Status]
  BY DEF Past, OfficeMoves
<1>5. ASSUME NEW a \in AppliedSet, NEW c \in Waiting', made'[c].delivery = made'[a].delivery
      PROVE  a <= c
  <2>1. a \in 1 .. Len(made)
    BY DEF Past
  <2>2. CASE c \in Waiting
    BY <1>1, <1>2, <1>5, <2>1, <2>2 DEF Past
  <2>3. CASE c = Len(made) + 1
    BY <1>1, <2>1, <2>3
  <2>. QED
    BY <2>2, <2>3
<1>6. reopened \subseteq reopened'
  BY DEF OfficeMoves
<1>7. ASSUME NEW a \in AppliedSet, a \in Waiting', a \notin reopened'
      PROVE  made'[a].to \notin AllowedTransitions[server'[made'[a].delivery]]
  <2>1. a \in 1 .. Len(made) /\ a \in Waiting /\ made'[a] = made[a] /\ a \notin reopened
    BY <1>1, <1>2, <1>6, <1>7 DEF Past
  <2>. DEFINE e == made[a].delivery
              to == made[a].to
  <2>2. to \notin AllowedTransitions[server[e]] /\ e \in Deliveries
    <3>1. e \in Deliveries
      BY <2>1, MadeTypes
    <3>2. to \notin AllowedTransitions[server[e]]
      BY <2>1 DEF Past
    <3>. QED
      BY <3>1, <3>2
  <2>3. to \notin AllowedTransitions[server'[e]]
    <3>1. CASE UNCHANGED <<server, reopened>>
      BY <2>2, <3>1
    <3>2. CASE \E d \in Deliveries, s \in Status : OfficeMoves(d, s)
      <4>1. PICK d \in Deliveries, s \in Status : OfficeMoves(d, s)
        BY <3>2
      <4>2. /\ server' = [server EXCEPT ![d] = s]
            /\ e = d /\ to \in AllowedTransitions[s] => a \in reopened'
        <5>1. server' = [server EXCEPT ![d] = s]
          BY <4>1 DEF OfficeMoves
        <5>2. ASSUME e = d, to \in AllowedTransitions[s] PROVE a \in reopened'
          BY <4>1, <5>2 DEF OfficeMoves, AppliedSet
        <5>. QED
          BY <5>1, <5>2
      <4>. HIDE DEF e, to
      <4>3. e # d => server'[e] = server[e]
        BY <2>2, <4>2 DEF Past
      <4>4. e = d => server'[e] = s
        BY <2>2, <4>2 DEF Past
      <4>. QED
        BY <1>7, <2>2, <4>2, <4>3, <4>4
    <3>. QED
      BY <3>1, <3>2
  <2>. QED
    BY <2>1, <2>3
<1>8. \A i, j \in DOMAIN applied' :
         applied'[i] = applied'[j] => i = j \/ applied'[i] \in reopened'
  BY <1>6 DEF Past
<1>. QED
  BY <1>2, <1>3, <1>4, <1>5, <1>7, <1>8 DEF Past

(* The server takes the current change: it was not applied before or was   *)
(* reopened, and no other change of its delivery that was applied waits.   *)
LEMMA SendPast ==
    ASSUME Held, Tidy, Past, drain.pc \in Sending,
           NEW reply, SendStatus(Current.change, reply),
           Waiting' \subseteq Waiting \cup {Len(made) + 1}, UNCHANGED made,
           applied' # applied \/ server' # server
    PROVE  Past'
<1> DEFINE c == Current.change
           d == made[c].delivery
           to == made[c].to
<1>1. /\ c \in Waiting /\ c \in 1 .. Len(made)
      /\ \A w \in Waiting : c <= w
  BY CurrentIsFirst
<1>2. Len(made) \in Nat /\ Waiting \subseteq 1 .. Len(made)
  BY WaitingIsMade
<1>3. \A i \in 1 .. Len(made) : made[i].delivery \in Deliveries /\ made[i].to \in Status
  BY MadeTypes
<1>4. /\ server' = [server EXCEPT ![d] = to] /\ applied' = Append(applied, c)
      /\ to \in AllowedTransitions[server[d]] /\ reopened' = reopened
  <2>1. reply \in Done /\ reply \in StatusReplies(c)
    BY DEF SendStatus
  <2>2. StatusAccepted(c)
    BY <2>1 DEF StatusReplies, MayBeLost, Done
  <2>. QED
    BY <2>1, <2>2 DEF SendStatus, StatusAccepted
<1>. HIDE DEF c
<1>5. d \in Deliveries /\ to \in Status
  BY <1>1, <1>3
<1>6. c \in AppliedSet => c \in reopened
  <2>1. c \in AppliedSet /\ c \notin reopened => to \notin AllowedTransitions[server[d]]
    BY <1>1 DEF Past
  <2>. HIDE DEF d, to
  <2>. QED
    BY <1>4, <2>1
<1>7. AppliedIsAList' /\ AppliedSet' = AppliedSet \cup {c}
  BY <1>4, AppliedGrows DEF Past
<1>8. AppliedSet' \subseteq 1 .. Len(made')
  BY <1>1, <1>7 DEF Past
<1>9. /\ server' \in [Deliveries -> Status] /\ server'[d] = to
      /\ \A x \in Deliveries : x # d => server'[x] = server[x]
  BY <1>4, <1>5 DEF Past
<1>10. ASSUME NEW a \in AppliedSet', NEW w \in Waiting', made'[w].delivery = made'[a].delivery
       PROVE  a <= w
  <2>1. CASE w = Len(made) + 1
    BY <1>1, <1>2, <1>7, <2>1 DEF Past
  <2>2. CASE w \in Waiting /\ a = c
    BY <1>1, <2>2
  <2>3. CASE w \in Waiting /\ a \in AppliedSet
    BY <1>10, <2>3 DEF Past
  <2>. QED
    BY <1>7, <2>1, <2>2, <2>3
<1>11. ASSUME NEW a \in AppliedSet', a \in Waiting', a \notin reopened'
       PROVE  made'[a].to \notin AllowedTransitions[server'[made'[a].delivery]]
  <2>1. CASE a = c
    <3>1. to \notin AllowedTransitions[to]
      <4>. HIDE DEF to
      <4>. QED
        BY <1>5 DEF AllowedTransitions, Status, FailedAttempt
    <3>. QED
      BY <1>9, <2>1, <3>1
  <2>2. CASE a # c
    <3>1. a \in AppliedSet /\ a \in 1 .. Len(made)
      BY <1>7, <2>2 DEF Past
    <3>2. a \in Waiting
      BY <1>2, <1>11, <3>1
    <3>3. made[a].delivery # d
      <4> SUFFICES ASSUME made[c].delivery = made[a].delivery PROVE FALSE
        OBVIOUS
      <4>1. a <= c
        BY <1>1, <3>1 DEF Past
      <4>2. c <= a
        BY <1>1, <3>2
      <4>. QED
        BY <1>1, <2>2, <3>1, <4>1, <4>2
    <3>4. made[a].to \notin AllowedTransitions[server[made[a].delivery]]
      BY <1>4, <1>11, <3>1, <3>2 DEF Past
    <3>. QED
      BY <1>3, <1>9, <3>1, <3>3, <3>4
  <2>. QED
    BY <2>1, <2>2
<1>12. \A i, j \in DOMAIN applied' :
          applied'[i] = applied'[j] => i = j \/ applied'[i] \in reopened'
  <2>1. /\ DOMAIN applied' = DOMAIN applied \cup {Len(applied) + 1}
        /\ \A i \in DOMAIN applied : applied'[i] = applied[i]
        /\ applied'[Len(applied) + 1] = c
    <3> DEFINE S == AppliedSet \cup {c}
    <3>1. applied \in Seq(S) /\ c \in S
      BY DEF Past, AppliedIsAList
    <3>. HIDE DEF S
    <3>. QED
      BY <1>4, <3>1, AppendFacts
  <2>2. \A i \in DOMAIN applied : applied[i] = c => c \in reopened
    BY <1>6 DEF AppliedSet
  <2>. QED
    BY <1>4, <2>1, <2>2 DEF Past
<1>. QED
  BY <1>7, <1>8, <1>9, <1>10, <1>11, <1>12 DEF Past

PastIn == Plain => Past

LEMMA PastInit == Init => PastIn
<1> SUFFICES ASSUME Init PROVE Past
  BY DEF PastIn
<1>1. AppliedIsAList /\ AppliedSet = {}
  BY DEF Init, AppliedIsAList, AppliedSet
<1>2. server \in [Deliveries -> Status] /\ Len(made) = 0 /\ applied = <<>>
  BY DEF Init, Status
<1>. QED
  BY <1>1, <1>2 DEF Past

LEMMA PastNext == HeldIn /\ TidyIn /\ PastIn /\ [Next]_vars => PastIn'
<1> SUFFICES ASSUME Held, Tidy, Past, Plain, [Next]_vars PROVE Past'
  BY WorldStays DEF HeldIn, TidyIn, PastIn, Plain
<1>1. Waiting' \subseteq Waiting \cup {Len(made) + 1}
  BY TidySteps
<1>2. ASSUME NEW d \in Deliveries, NEW to \in Status, Choose(d, to)
      PROVE  Past'
  <2>1. /\ to \in Choices /\ UNCHANGED applied /\ UNCHANGED <<server, reopened>>
        /\ made' = Append(made, [delivery |-> d, to |-> to])
    BY <1>2 DEF Choose, serverVars
  <2>. QED
    BY <1>1, <2>1, QuietPast
<1>3. ASSUME NEW reply, DrainSendsProof(reply) \/ DrainSendsStatus(reply)
      PROVE  Past'
  <2>1. UNCHANGED made /\ drain.pc \in Sending
    BY <1>3 DEF DrainSendsProof, DrainSendsStatus, Sending
  <2>2. CASE UNCHANGED applied /\ UNCHANGED <<server, reopened>>
    BY <1>1, <2>1, <2>2, QuietPast
  <2>3. CASE SendStatus(Current.change, reply) /\ (applied' # applied \/ server' # server)
    BY <1>1, <2>1, <2>3, SendPast
  <2>. QED
    BY <1>3, <2>2, <2>3 DEF DrainSendsProof, DrainSendsStatus, UploadProof, SendStatus
<1>4. ASSUME UNCHANGED <<made, applied, server, reopened>>
      PROVE  Past'
  BY <1>1, <1>4, QuietPast
<1>5. ASSUME NEW d \in Deliveries, NEW to \in Status, OfficeMoves(d, to)
      PROVE  Past'
  <2>1. UNCHANGED <<made, applied>>
    BY <1>5 DEF OfficeMoves
  <2>. QED
    BY <1>1, <1>5, <2>1, QuietPast
<1>6. CASE \/ DrainRefreshes \/ StorageWrites \/ Restart
           \/ GoOnline \/ GoOffline \/ SyncNow \/ UNCHANGED vars
           \/ \E d \in Deliveries : ClearConflict(d) \/ Reassign(d)
  <2>1. UNCHANGED <<made, applied, server, reopened>>
    BY <1>6 DEF DrainRefreshes, StorageWrites, Restart, GoOnline, GoOffline,
       SyncNow, vars, ClearConflict, Reassign, serverVars
  <2>. QED
    BY <1>4, <2>1
<1>. QED
  BY <1>2, <1>3, <1>5, <1>6, PlainSteps

(* AppliedAsTold for any number of changes and deliveries, whatever the    *)
(* post office sets: processQueue sends what waits in the order in which   *)
(* it was made, so what was applied and still waits is the oldest change   *)
(* of its delivery, and the server takes it again only once the office has *)
(* moved the delivery back to where it may.                                *)
THEOREM AppliedIsWhatWasTold == Spec => []AppliedAsTold
<1>1. HeldIn /\ TidyIn /\ PastIn => NoOvertaking
  <2>1. Plain => "slowRead" \notin world
    BY DEF Plain
  <2>2. ASSUME Held, Tidy, Past, NEW i \in DOMAIN applied, NEW e \in queue,
               made[e.change].delivery = made[applied[i]].delivery,
               e.change \notin {applied[j] : j \in DOMAIN applied}
        PROVE  applied[i] < e.change
    <3>1. applied[i] \in AppliedSet /\ e.change \in Waiting /\ e.change # applied[i]
      BY <2>2 DEF AppliedSet, Waiting, ChangesIn
    <3>2. applied[i] <= e.change
      BY <2>2, <3>1 DEF Past
    <3>3. applied[i] \in 1 .. Len(made) /\ e.change \in 1 .. Len(made)
      BY <2>2, <3>1, WaitingIsMade DEF Past
    <3>. QED
      BY <3>1, <3>2, <3>3
  <2>. QED
    BY <2>1, <2>2 DEF HeldIn, TidyIn, PastIn, NoOvertaking, Plain
<1>2. PastIn => AppliedOnce
  BY DEF PastIn, Past, AppliedOnce, Plain
<1>3. HeldIn /\ TidyIn /\ PastIn => NoOvertaking /\ AppliedOnce
  BY <1>1, <1>2
<1>4. Spec => [](HeldIn /\ TidyIn /\ PastIn)
  BY HeldInit, HeldNext, TidyInit, TidyNext, PastInit, PastNext, PTL DEF Spec
<1>. QED
  BY <1>3, <1>4, RefusedIsNotApplied, PTL DEF AppliedAsTold
================================================================================
