----------------------------- MODULE OfflineSync -----------------------------
(***************************************************************************)
(* The postman app's offline queue (syncService.ts, offlineStore.ts,       *)
(* useOfflineSync.ts, useDeliveries.ts) against the server.  The queue is  *)
(* kept in memory and written to the phone's storage, whose calls are      *)
(* answered later and in the order they were made.  The app and the server *)
(* meet in two requests, the proof upload and the status change; each is   *)
(* one step of the server, as in DeliveryStateMachine, and its request or  *)
(* its answer may be lost.  Time stamps are a counter: only their order    *)
(* matters.                                                                *)
(***************************************************************************)
EXTENDS DeliveryStatus, Sequences, Naturals, FiniteSets

CONSTANTS
    Deliveries,
    Choices,            \* statuses the postman may choose in the app
    OfficeChoices,      \* statuses the post office may set meanwhile
    ProofRequired,      \* the post office asks for a photo or signature
    MaxProofAttempts,   \* MAX_PROOF_ATTEMPTS, 8 in the code
    MaxChanges,         \* bound: how many changes the postman makes
    Worlds              \* what may happen: sets of WorldEvents, one per behaviour

WorldEvents ==
    {"lostRequest", "lostResponse", "lostRefresh", "badPhoto", "reassign",
     "restart", "slowRead", "direct", "syncNow", "office"}

ASSUME OfflineAssumption ==
    /\ Choices \subseteq Status /\ OfficeChoices \subseteq Status
    /\ ProofRequired \in BOOLEAN
    /\ MaxProofAttempts \in Nat \ {0} /\ MaxChanges \in Nat
    /\ Worlds \subseteq SUBSET WorldEvents

VARIABLES
    server,     \* [Deliveries -> Status]: the status on the server
    proven,     \* deliveries whose proof the server stores
    mine,       \* deliveries assigned to this postman
    made,       \* the changes the postman made, in order: delivery and status
    applied,    \* the changes the server applied, in order
    online,     \* the app's isOnline flag
    queue,      \* the mutation queue in memory: entries ordered by queuedAt
    clock,      \* Date.now(): the last queuedAt given out
    conflicts,  \* conflicts shown to the postman
    disk,       \* the queue in the phone's storage
    ops,        \* storage calls not answered yet, oldest first
    loaded,     \* what hydrate has read and not yet put in memory: one queue or none
    drain,      \* the run of processQueue: its step and what it still holds
    direct,     \* the change being sent without the queue
    saved,      \* changes the postman was told are saved
    settled,    \* changes processQueue took off the queue
    reopened,   \* history: applied changes the office made acceptable again
    world       \* what may happen in this behaviour; it never changes

serverVars == <<server, proven, mine, applied, reopened>>
phoneVars  == <<queue, clock, conflicts, ops>>
readVars   == <<disk, loaded>>
vars == <<serverVars, made, online, phoneVars, readVars, drain, direct, saved,
          settled, world>>

Changes  == 1..MaxChanges
Entry    == [change : Changes, queuedAt : Changes, attempts : 0..MaxProofAttempts]
Conflict == [change : Changes, serverStatus : Status]
Drainer  == 0       \* who waits for a write: processQueue, or a change's sender

StorageOp == [op : {"set"}, queue : SUBSET Entry, by : Changes \cup {Drainer}]
                \cup {[op |-> "get"]}

TypeOK ==
    /\ server \in [Deliveries -> Status]
    /\ proven \in SUBSET Deliveries /\ mine \in SUBSET Deliveries
    /\ made \in Seq([delivery : Deliveries, to : Status])
    /\ Len(made) <= MaxChanges
    /\ applied \in Seq(Changes)
    /\ online \in BOOLEAN
    /\ queue \in SUBSET Entry /\ disk \in SUBSET Entry
    /\ clock \in 0..Len(made)
    /\ conflicts \in SUBSET Conflict
    /\ ops \in Seq(StorageOp)
    /\ loaded \in SUBSET SUBSET Entry
    /\ drain \in [pc : {"idle", "proof", "status", "refresh", "persist"},
                  rest : SUBSET Entry]
    /\ direct \in [pc : {"idle"}] \cup [pc : {"proof", "status"}, change : Changes]
    /\ saved \in SUBSET Changes /\ settled \in SUBSET Changes
    /\ reopened \in SUBSET Changes
    /\ world \in Worlds

DrainIdle  == [pc |-> "idle", rest |-> {}]
DirectIdle == [pc |-> "idle"]

Init ==
    /\ server = [d \in Deliveries |-> "ASSIGNED"]
    /\ proven = {} /\ mine = Deliveries /\ made = <<>> /\ applied = <<>>
    /\ online \in BOOLEAN
    /\ queue = {} /\ clock = 0 /\ conflicts = {}
    /\ disk = {} /\ ops = <<>> /\ loaded = {}
    /\ drain = DrainIdle /\ direct = DirectIdle
    /\ saved = {} /\ settled = {} /\ reopened = {}
    /\ world \in Worlds

-----------------------------------------------------------------------------
(* The queue and its entries.                                              *)
ChangesIn(q) == {e.change : e \in q}
Oldest(q)    == CHOOSE e \in q : \A f \in q : e.queuedAt <= f.queuedAt
Newest(q)    == CHOOSE e \in q : \A f \in q : e.queuedAt >= f.queuedAt
HasProof(c)  == ProofRequired /\ made[c].to = "DELIVERED"

(* What the screens show: the last queued change wins (pendingStatusMap).  *)
Shown(d) ==
    LET pending == {e \in queue : made[e.change].delivery = d}
    IN  IF pending = {} THEN server[d] ELSE made[Newest(pending).change].to

(* The queue in memory changes at once; the write to storage is awaited.   *)
SlipPersistsBefore(by) ==
    ops' = Append(ops, [op |-> "set", queue |-> queue, by |-> by])
Persist(by) == ops' = Append(ops, [op |-> "set", queue |-> queue', by |-> by])

Enqueue(c) ==
    /\ clock' = clock + 1
    /\ queue' = queue \cup {[change |-> c, queuedAt |-> clock + 1, attempts |-> 0]}
    /\ Persist(c)

FirstStep(rest) == IF rest = {} THEN "idle"
                   ELSE IF HasProof(Oldest(rest).change) THEN "proof" ELSE "status"
Continue(rest) == [pc |-> FirstStep(rest), rest |-> rest]

-----------------------------------------------------------------------------
(* The two requests, as the server answers them.  A request that arrived   *)
(* but whose answer is lost has been carried out all the same.             *)
MayBeLost == IF ~online \/ "lostRequest" \in world THEN {"lostRequest"} ELSE {}
Done      == {"ok"} \cup (IF "lostResponse" \in world THEN {"lostResponse"} ELSE {})
Lost      == {"lostRequest", "lostResponse"}

ProofReplies(c) ==
    MayBeLost \cup
    IF made[c].delivery \in mine /\ server[made[c].delivery] = "OUT_FOR_DELIVERY"
      THEN Done \cup (IF "badPhoto" \in world THEN {"rejected"} ELSE {})
      ELSE {"refused"}

StatusAccepted(c) ==
    /\ made[c].to \in AllowedTransitions[server[made[c].delivery]]
    /\ HasProof(c) => made[c].delivery \in proven

StatusReplies(c) ==
    MayBeLost \cup IF made[c].delivery \notin mine THEN {"refused"}
                   ELSE IF StatusAccepted(c) THEN Done ELSE {"rejected"}

UploadProof(c, reply) ==
    /\ reply \in ProofReplies(c)
    /\ proven' = IF reply \in Done THEN proven \cup {made[c].delivery} ELSE proven
    /\ UNCHANGED <<server, mine, applied, reopened>>

SendStatus(c, reply) ==
    /\ reply \in StatusReplies(c)
    /\ IF reply \in Done
         THEN /\ server' = [server EXCEPT ![made[c].delivery] = made[c].to]
              /\ applied' = Append(applied, c)
         ELSE UNCHANGED <<server, applied>>
    /\ UNCHANGED <<proven, mine, reopened>>

-----------------------------------------------------------------------------
(* useUpdateDeliveryStatus: offline a change is queued; online it is sent  *)
(* at once, whatever the queue holds.                                      *)
Choose(d, to) ==
    LET c == Len(made) + 1 IN
    /\ c <= MaxChanges
    /\ d \in mine
    /\ to \in Choices \cap AllowedTransitions[Shown(d)]
    /\ made' = Append(made, [delivery |-> d, to |-> to])
    /\ IF online
         THEN /\ "direct" \in world
              /\ direct = DirectIdle
              /\ direct' = [pc |-> IF ProofRequired /\ to = "DELIVERED"
                                     THEN "proof" ELSE "status",
                            change |-> c]
              /\ UNCHANGED <<queue, clock, ops>>
         ELSE Enqueue(c) /\ UNCHANGED direct
    /\ UNCHANGED <<world, serverVars, online, conflicts, readVars, drain,
                   saved, settled>>

(* A network error falls back to the queue; any other answer is shown.     *)
DirectEnds(reply) ==
    /\ direct' = DirectIdle
    /\ IF reply \in Lost THEN Enqueue(direct.change) ELSE UNCHANGED <<queue,
                                                                      clock, ops>>

DirectSendsProof(reply) ==
    /\ direct.pc = "proof"
    /\ UploadProof(direct.change, reply)
    /\ IF reply = "ok"
         THEN direct' = [direct EXCEPT !.pc = "status"] /\ UNCHANGED <<queue,
                                                                       clock, ops>>
         ELSE DirectEnds(reply)
    /\ UNCHANGED <<world, made, online, conflicts, readVars, drain, saved,
                   settled>>

DirectSendsStatus(reply) ==
    /\ direct.pc = "status"
    /\ SendStatus(direct.change, reply)
    /\ DirectEnds(reply)
    /\ UNCHANGED <<world, made, online, conflicts, readVars, drain, saved,
                   settled>>

-----------------------------------------------------------------------------
(* processQueue and applyMutation *)
Current == Oldest(drain.rest)

SlipFirstConflictStays(c, status) ==
    conflicts' = conflicts \cup
        {k \in {[change |-> c, serverStatus |-> status]} :
             made[c].delivery \notin {made[x.change].delivery : x \in conflicts}}

AddConflict(c, status) ==
    conflicts' = {k \in conflicts : made[k.change].delivery # made[c].delivery}
                    \cup {[change |-> c, serverStatus |-> status]}


(* dequeue: the change is synced or in conflict, on to the next one.       *)
Leave ==
    /\ queue' = {e \in queue : e.change # Current.change}
    /\ Persist(Drainer)
    /\ settled' = settled \cup {Current.change}
    /\ drain' = [pc |-> "persist", rest |-> drain.rest \ {Current}]
    /\ UNCHANGED clock

(* markAttempt and break: the change stays first in the queue.  Attempts   *)
(* are only ever compared with MaxProofAttempts, so they saturate there.   *)
Attempted(e) ==
    IF e.change = Current.change /\ e.attempts < MaxProofAttempts
      THEN [e EXCEPT !.attempts = @ + 1] ELSE e

SlipNoBreak ==
    /\ queue' = {Attempted(e) : e \in queue}
    /\ Persist(Drainer)
    /\ drain' = [pc |-> "persist", rest |-> drain.rest \ {Current}]
    /\ UNCHANGED <<clock, settled>>

Keep ==
    /\ queue' = {Attempted(e) : e \in queue}
    /\ Persist(Drainer)
    /\ drain' = [pc |-> "persist", rest |-> {}]
    /\ UNCHANGED <<clock, settled>>

GivesUp == HasProof(Current.change) /\ Current.attempts + 1 >= MaxProofAttempts

SlipRejectedIsKept(reply) ==
    /\ IF reply \in Lost /\ GivesUp
         THEN AddConflict(Current.change, "OUT_FOR_DELIVERY") /\ Leave
         ELSE Keep /\ UNCHANGED conflicts
    /\ reply # "ok"

(* The catch block of applyMutation.                                       *)
DrainFails(reply) ==
    \/ /\ reply = "rejected"                    \* 400
       /\ drain' = [drain EXCEPT !.pc = "refresh"]
       /\ UNCHANGED <<phoneVars, settled>>
    \/ /\ reply = "refused"                     \* 403, 404, 409
       /\ Keep
       /\ UNCHANGED conflicts
    \/ /\ reply \in Lost
       /\ IF GivesUp
            THEN AddConflict(Current.change, "OUT_FOR_DELIVERY") /\ Leave
            ELSE Keep /\ UNCHANGED conflicts

DrainSendsProof(reply) ==
    /\ drain.pc = "proof"
    /\ UploadProof(Current.change, reply)
    /\ \/ /\ reply = "ok"
          /\ drain' = [drain EXCEPT !.pc = "status"]
          /\ UNCHANGED <<phoneVars, settled>>
       \/ DrainFails(reply)
    /\ UNCHANGED <<world, made, online, readVars, direct, saved>>

DrainSendsStatus(reply) ==
    /\ drain.pc = "status"
    /\ SendStatus(Current.change, reply)
    /\ \/ reply = "ok" /\ Leave /\ UNCHANGED conflicts
       \/ DrainFails(reply)
    /\ UNCHANGED <<world, made, online, readVars, direct, saved>>

(* After a 400 the server's record is read for the conflict; if that fails *)
(* too, the change is dropped all the same.                                *)
DrainRefreshes ==
    /\ drain.pc = "refresh"
    /\ \/ AddConflict(Current.change, server[made[Current.change].delivery])
       \/ "lostRefresh" \in world /\ UNCHANGED conflicts
    /\ Leave
    /\ UNCHANGED <<serverVars, world, made, online, readVars, direct, saved>>

-----------------------------------------------------------------------------
(* NetInfo, the Sync now button and the Dismiss link *)
ProcessQueue == IF drain.pc = "idle" THEN drain' = Continue(queue) ELSE UNCHANGED drain

GoOnline ==
    /\ ~online
    /\ online' = TRUE
    /\ ProcessQueue
    /\ UNCHANGED <<serverVars, world, made, phoneVars, readVars, direct,
                   saved, settled>>

GoOffline ==
    /\ online
    /\ online' = FALSE
    /\ UNCHANGED <<serverVars, world, made, phoneVars, readVars, drain,
                   direct, saved, settled>>

SyncNow ==
    /\ "syncNow" \in world
    /\ online /\ queue # {} /\ drain.pc = "idle"
    /\ ProcessQueue
    /\ UNCHANGED <<serverVars, world, made, online, phoneVars, readVars,
                   direct, saved, settled>>

ClearConflict(d) ==
    /\ \E k \in conflicts : made[k.change].delivery = d
    /\ conflicts' = {k \in conflicts : made[k.change].delivery # d}
    /\ UNCHANGED <<serverVars, world, made, online, queue, clock, ops,
                   readVars, drain,
                   direct, saved, settled>>

-----------------------------------------------------------------------------
(* The phone's storage, hydrate, and the app's restart.  Unless "slowRead" *)
(* is in world, hydrate's read is answered before anything else happens.   *)
StorageWrites ==
    /\ ops # <<>> /\ Head(ops).op = "set"
    /\ disk' = Head(ops).queue
    /\ ops' = Tail(ops)
    /\ IF Head(ops).by = Drainer
         THEN drain' = Continue(drain.rest) /\ UNCHANGED saved
         ELSE saved' = saved \cup {Head(ops).by} /\ UNCHANGED drain
    /\ UNCHANGED <<serverVars, world, made, online, queue, clock, conflicts,
                   loaded, direct,
                   settled>>

StorageReads ==
    /\ ops # <<>> /\ Head(ops).op = "get"
    /\ loaded' = {disk}
    /\ ops' = Tail(ops)
    /\ UNCHANGED <<serverVars, world, made, online, queue, clock, conflicts,
                   disk, drain,
                   direct, saved, settled>>

HydrateSets ==
    /\ \E q \in loaded : queue' = q
    /\ loaded' = {}
    /\ UNCHANGED <<serverVars, world, made, online, clock, conflicts, ops,
                   disk, drain,
                   direct, saved, settled>>

(* Every screen that uses useOfflineSync hydrates when it mounts.  Bound:   *)
(* none mounts after MaxChanges changes were applied, since a queue put     *)
(* back is sent again.                                                      *)
MountScreen ==
    /\ "slowRead" \in world
    /\ Len(applied) < MaxChanges
    /\ [op |-> "get"] \notin {ops[i] : i \in DOMAIN ops} /\ loaded = {}
    /\ ops' = Append(ops, [op |-> "get"])
    /\ UNCHANGED <<serverVars, world, made, online, queue, clock, conflicts,
                   readVars, drain,
                   direct, saved, settled>>

Restart ==
    /\ "restart" \in world
    /\ online' = TRUE
    /\ conflicts' = {} /\ drain' = DrainIdle /\ direct' = DirectIdle
    /\ loaded' = {}
    /\ IF "slowRead" \in world THEN queue' = {} /\ ops' = <<[op |-> "get"]>>
                               ELSE queue' = disk /\ ops' = <<>>
    /\ UNCHANGED <<serverVars, world, made, clock, disk, saved, settled>>

(* The post office moves the delivery on, be it to where a change that was *)
(* applied would be accepted again, or gives it to another postman.        *)
(* Bound: it moves nothing once more than MaxChanges changes were applied. *)
OfficeMoves(d, to) ==
    /\ "office" \in world /\ Len(applied) <= MaxChanges
    /\ to \in OfficeChoices \cap AllowedTransitions[server[d]]
    /\ server' = [server EXCEPT ![d] = to]
    /\ reopened' = reopened \cup
         {c \in {applied[i] : i \in DOMAIN applied} :
            made[c].delivery = d /\ made[c].to \in AllowedTransitions[to]}
    /\ UNCHANGED <<proven, mine, applied, world, made, online, phoneVars,
                   readVars, drain,
                   direct, saved, settled>>

Reassign(d) ==
    /\ "reassign" \in world
    /\ d \in mine
    /\ mine' = mine \ {d}
    /\ UNCHANGED <<server, proven, applied, reopened, world, made, online, phoneVars,
                   readVars, drain,
                   direct, saved, settled>>

Replies == {"ok", "rejected", "refused"} \cup Lost

Next ==
    \/ \E d \in Deliveries :
        \/ \E to \in Status : Choose(d, to) \/ OfficeMoves(d, to)
        \/ ClearConflict(d)
        \/ Reassign(d)
    \/ \E reply \in Replies :
        \/ DirectSendsProof(reply) \/ DirectSendsStatus(reply)
        \/ DrainSendsProof(reply)  \/ DrainSendsStatus(reply)
    \/ DrainRefreshes
    \/ GoOnline \/ GoOffline \/ SyncNow
    \/ StorageWrites \/ StorageReads \/ HydrateSets
    \/ MountScreen \/ Restart

Spec == Init /\ [][Next]_vars

(* Storage answers, awaited code goes on, and of the requests that are     *)
(* sent again and again not all are lost.  Nothing is assumed of when a    *)
(* drain starts: neither of the network nor of the Sync now button.        *)
Fairness ==
    /\ WF_vars(StorageWrites) /\ WF_vars(StorageReads) /\ WF_vars(HydrateSets)
    /\ WF_vars(DrainRefreshes)
    /\ SF_vars(\E reply \in Replies \ Lost : DrainSendsProof(reply))
    /\ SF_vars(\E reply \in Replies \ Lost : DrainSendsStatus(reply))

FairSpec == Spec /\ Fairness
-----------------------------------------------------------------------------
SavedIsStored == saved \ settled \subseteq ChangesIn(disk)

(* What the postman was told is saved is never lost: until processQueue    *)
(* has settled it with the server, it is in the phone's storage, through    *)
(* lost requests, restarts and changes sent past the queue.                *)
NothingSavedIsLost == "slowRead" \notin world => SavedIsStored

(* "A later status change never races ahead of an earlier one for the same *)
(* delivery": where every change goes through the queue, what the server   *)
(* has applied is older than what waits.                                   *)
NoOvertaking ==
    {"direct", "slowRead"} \cap world = {} =>
    \A i \in DOMAIN applied : \A e \in queue :
        /\ made[e.change].delivery = made[applied[i]].delivery
        /\ e.change \notin {applied[j] : j \in DOMAIN applied}
        => applied[i] < e.change

(* However often a queued change is sent again, the server applies it      *)
(* once, unless the office has moved the delivery back to where it would   *)
(* be accepted again.                                                      *)
AppliedOnce ==
    {"direct", "slowRead"} \cap world = {} =>
    \A i, j \in DOMAIN applied :
        applied[i] = applied[j] => i = j \/ applied[i] \in reopened

(* While no answer is lost and the app is not killed, a change the postman *)
(* is told was not applied is not on the server.                           *)
ConflictIsReal ==
    {"lostResponse", "restart", "slowRead"} \cap world = {} =>
    \A k \in conflicts : k.change \notin {applied[i] : i \in DOMAIN applied}

(* What the server has applied is what the postman believes: in the order  *)
(* in which it was chosen, once unless the office took it back, and never  *)
(* what he was told had failed.                                            *)
AppliedAsTold == NoOvertaking /\ AppliedOnce /\ ConflictIsReal

(* Unless the refresh fails, a change that leaves the queue without being  *)
(* applied leaves a conflict the postman sees.                             *)
RejectionIsReported ==
    [][\A c \in settled' \ settled :
           \/ "lostRefresh" \in world
           \/ c \in {applied'[i] : i \in DOMAIN applied'}
           \/ c \in {k.change : k \in conflicts'}]_vars

(* The oldest queued change is one the server answers 403, 404 or 409:     *)
(* processQueue keeps it, and stops at it.                                 *)
Blocked ==
    /\ queue # {}
    /\ LET c == Oldest(queue).change
           d == made[c].delivery
       IN  d \notin mine \/ (HasProof(c) /\ server[d] # "OUT_FOR_DELIVERY")

(* A drain starts only when the connection returns (or somebody presses    *)
(* Sync now), and a return during a drain that is breaking off is missed.  *)
(* No such miss is for good: if the connection goes and returns again and  *)
(* again, every change the postman was told is saved is settled, with      *)
(* nobody pressing anything, unless the queue ends up behind a change the  *)
(* server keeps refusing without an answer that settles it.                *)
SavedIsSettled ==
    []<>online /\ []<>(~online) =>
        \/ <>[]Blocked
        \/ \A c \in Changes : (c \in saved) ~> (c \in settled)
=============================================================================
