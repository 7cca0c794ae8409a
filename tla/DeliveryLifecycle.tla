-------------------------- MODULE DeliveryLifecycle --------------------------
(***************************************************************************)
(* One delivery and the HTTP requests that act on it at the same time:     *)
(* POST /deliveries/:id/status (transitionDeliveryStatus),                 *)
(* POST /deliveries/:id/proof (saveDeliveryProof) and                      *)
(* PUT /post-offices/:id/proof-mode.  The handlers run on one Node process *)
(* but none of them opens a transaction, so each database or file call is  *)
(* a step of its own and the requests interleave at every await.  The      *)
(* delivery's postman does not change here (module Assignment).            *)
(***************************************************************************)
EXTENDS DeliveryStatus, Sequences, Naturals, FiniteSets

CONSTANTS
    Requests,       \* handler slots: how many requests may be in flight
    Postmen,        \* who the delivery may be assigned to
    Keys,           \* random storage keys of proof files, never issued twice
    ProofModes,     \* the proof settings the post office may choose from
    Faults,         \* what may go wrong: a subset of FaultKinds
    MaxChanges      \* bound: history rows before no new change is accepted

FaultKinds == {"abort", "database", "afterUpsert"}

Nobody == "Nobody"  \* assignedPostmanId = null
NoKey  == "NoKey"   \* no proof row, or no file

ASSUME LifecycleAssumption ==
    /\ Nobody \notin Postmen
    /\ NoKey \notin Keys
    /\ ProofModes \subseteq {"NONE", "PHOTO", "SIGNATURE"}
    /\ Faults \subseteq FaultKinds
    /\ MaxChanges \in Nat

VARIABLES
    status,         \* Delivery.status
    postman,        \* Delivery.assignedPostmanId
    history,        \* DeliveryStatusHistory rows, oldest first
    attempts,       \* DeliveryAttempt rows, oldest first
    published,      \* statuses announced on the delivery event bus
    proofMode,      \* PostOffice.proofMode
    proof,          \* DeliveryProof.storageKey
    files,          \* files in the private proof folder
    issued,         \* keys randomUUID has returned so far
    undone,         \* history: files removed by a clean-up after the upsert
    req             \* [Requests -> local state of the handler]

logVars    == <<history, attempts, published>>
proofVars  == <<proof, files, issued, undone>>
officeVars == <<postman, proofMode>>
rows == <<status, logVars, proofVars, officeVars>>
vars == <<rows, req>>

StatusSteps == {"read", "checkProof", "write", "record", "attempt", "publish"}
ProofSteps  == {"readProof", "saveFile", "upsert", "removeOld", "audit"}

Change  == [from : Status, to : Status]
Attempt == [postman : Postmen, outcome : Status]

RequestState ==
    [pc     : StatusSteps \cup ProofSteps \cup {"idle"},
     to     : Status,                       \* the requested status
     from   : Status,                       \* the status the handler read
     holder : Postmen \cup {Nobody},        \* the postman the handler read
     key    : Keys \cup {NoKey},            \* the file the handler wrote
     old    : Keys \cup {NoKey}]            \* the file it will replace

IdleRequest == [pc |-> "idle", to |-> "RECEIVED", from |-> "RECEIVED",
                holder |-> Nobody, key |-> NoKey, old |-> NoKey]

TypeOK ==
    /\ status \in Status
    /\ postman \in Postmen \cup {Nobody}
    /\ history \in Seq(Change)
    /\ attempts \in Seq(Attempt)
    /\ published \in SUBSET ReoptimizeTriggers
    /\ proofMode \in ProofModes
    /\ proof \in Keys \cup {NoKey}
    /\ files \in SUBSET Keys
    /\ issued \in SUBSET Keys /\ undone \in SUBSET Keys
    /\ req \in [Requests -> RequestState]

(* A delivery is created RECEIVED and unassigned; the assignment service   *)
(* moves it to ASSIGNED with a postman, writing no status history row.     *)
Init ==
    /\ \/ status = "RECEIVED" /\ postman = Nobody
       \/ status = "ASSIGNED" /\ postman \in Postmen
    /\ history = <<>> /\ attempts = <<>> /\ published = {}
    /\ proofMode \in ProofModes
    /\ proof = NoKey /\ files = {} /\ issued = {} /\ undone = {}
    /\ req = [r \in Requests |-> IdleRequest]

At(r, step)   == req[r].pc = step
Goto(r, step) == req' = [req EXCEPT ![r].pc = step]
Finish(r)     == req' = [req EXCEPT ![r] = IdleRequest]

-----------------------------------------------------------------------------
(* POST /deliveries/:id/status *)

AcceptStatusRequest(r, to) ==
    /\ At(r, "idle")
    /\ Len(history) < MaxChanges
    /\ req' = [req EXCEPT ![r].pc = "read", ![r].to = to]
    /\ UNCHANGED rows

TransitionAllowed(from, to) == to \in AllowedTransitions[from]

(* The row is read once; the check, the history row and the attempt all    *)
(* use this copy.  A transition that is not allowed is answered 400.       *)
ReadAndCheckTransition(r) ==
    /\ At(r, "read")
    /\ IF TransitionAllowed(status, req[r].to)
         THEN req' = [req EXCEPT
                        ![r].pc = IF req[r].to = "DELIVERED" THEN "checkProof"
                                                             ELSE "write",
                        ![r].from = status,
                        ![r].holder = postman]
         ELSE Finish(r)
    /\ UNCHANGED rows

SlipOnlyPhotoEnforced == proofMode # "PHOTO" \/ proof # NoKey
ProofPresent == proofMode = "NONE" \/ proof # NoKey

AssertProofPresent(r) ==
    /\ At(r, "checkProof")
    /\ IF ProofPresent THEN Goto(r, "write") ELSE Finish(r)
    /\ UNCHANGED rows

(* prisma.delivery.update({ where: { id } }): no condition on the status.  *)
WriteStatus(r) ==
    /\ At(r, "write")
    /\ status' = req[r].to
    /\ Goto(r, "record")
    /\ UNCHANGED <<logVars, proofVars, officeVars>>

SlipFromIsCurrent(r) == [from |-> status, to |-> req[r].to]
HistoryRow(r)        == [from |-> req[r].from, to |-> req[r].to]

HasPostman(r) == req[r].holder # Nobody

SlipOnlyCancelledPublished(r) ==
    IF req[r].to = "CANCELLED" THEN Goto(r, "publish") ELSE Finish(r)
AfterRecording(r) ==
    IF req[r].to \in ReoptimizeTriggers THEN Goto(r, "publish") ELSE Finish(r)

RecordHistory(r) ==
    /\ At(r, "record")
    /\ history' = Append(history, HistoryRow(r))
    /\ IF HasPostman(r) THEN Goto(r, "attempt") ELSE AfterRecording(r)
    /\ UNCHANGED <<status, attempts, published, proofVars, officeVars>>

SlipOutcomeReread(r) == [postman |-> req[r].holder, outcome |-> status]
AttemptRow(r) == [postman |-> req[r].holder, outcome |-> req[r].to]

RecordAttempt(r) ==
    /\ At(r, "attempt")
    /\ attempts' = Append(attempts, AttemptRow(r))
    /\ AfterRecording(r)
    /\ UNCHANGED <<status, history, published, proofVars, officeVars>>

PublishDeliveryEvent(r) ==
    /\ At(r, "publish")
    /\ published' = published \cup {req[r].to}
    /\ Finish(r)
    /\ UNCHANGED <<status, history, attempts, proofVars, officeVars>>

-----------------------------------------------------------------------------
(* POST /deliveries/:id/proof *)

AcceptProof(r) ==
    /\ At(r, "idle")
    /\ Keys \ issued # {}
    /\ Goto(r, "readProof")
    /\ UNCHANGED rows

(* A delivery that is not out for delivery is answered 409.                *)
ReadForProof(r) ==
    /\ At(r, "readProof")
    /\ IF status = "OUT_FOR_DELIVERY"
         THEN req' = [req EXCEPT ![r].pc = "saveFile", ![r].old = proof]
         ELSE Finish(r)
    /\ UNCHANGED rows

SaveProofPhoto(r) ==
    /\ At(r, "saveFile")
    /\ \E k \in Keys \ issued :
        /\ files' = files \cup {k}
        /\ issued' = issued \cup {k}
        /\ req' = [req EXCEPT ![r].pc = "upsert", ![r].key = k]
    /\ UNCHANGED <<status, logVars, officeVars, proof, undone>>

UpsertProof(r) ==
    /\ At(r, "upsert")
    /\ proof' = req[r].key
    /\ Goto(r, "removeOld")
    /\ UNCHANGED <<status, logVars, officeVars, files, issued, undone>>

SlipReplacedIsCurrent(r) == proof
ReplacedPhoto(r) == req[r].old

RemoveOldPhoto(r) ==
    /\ At(r, "removeOld")
    /\ files' = files \ {ReplacedPhoto(r)}
    /\ Goto(r, "audit")
    /\ UNCHANGED <<status, logVars, officeVars, proof, issued, undone>>

RecordProofAudit(r) ==
    /\ At(r, "audit")
    /\ Finish(r)
    /\ UNCHANGED rows

SlipFailedIsReplaced(r) == req[r].old
FailedPhoto(r) == req[r].key

(* The catch block: whatever failed after the file was saved, the new file *)
(* is removed and the error is rethrown.  It is meant for an upsert that   *)
(* failed; after the upsert it removes a file that a row names.            *)
RemoveFailedPhoto(r) ==
    /\ files' = files \ {FailedPhoto(r)}
    /\ Finish(r)
    /\ UNCHANGED <<status, logVars, officeVars, proof, issued>>

UpsertFails(r) == /\ "database" \in Faults
                  /\ At(r, "upsert")
                  /\ RemoveFailedPhoto(r)
                  /\ UNCHANGED undone

RemoveOrAuditFails(r) == /\ "afterUpsert" \in Faults
                         /\ At(r, "removeOld") \/ At(r, "audit")
                         /\ RemoveFailedPhoto(r)
                         /\ undone' = undone \cup {req[r].key}

-----------------------------------------------------------------------------
SetProofMode(mode) ==
    /\ mode # proofMode
    /\ proofMode' = mode
    /\ UNCHANGED <<status, logVars, proofVars, postman, req>>

(* The server stops, or a call of the status handler throws: the handler   *)
(* ends where it is and what it has already written stays written.         *)
Abort(r) ==
    /\ "abort" \in Faults
    /\ ~At(r, "idle")
    /\ Finish(r)
    /\ UNCHANGED rows

StatusStep(r) ==
    \/ ReadAndCheckTransition(r)
    \/ AssertProofPresent(r)
    \/ WriteStatus(r)
    \/ RecordHistory(r)
    \/ RecordAttempt(r)
    \/ PublishDeliveryEvent(r)

ProofStep(r) ==
    \/ ReadForProof(r)
    \/ SaveProofPhoto(r)
    \/ UpsertProof(r)
    \/ RemoveOldPhoto(r)
    \/ RecordProofAudit(r)

Next ==
    \/ \E r \in Requests :
        \/ \E to \in Status : AcceptStatusRequest(r, to)
        \/ StatusStep(r)
        \/ AcceptProof(r)
        \/ ProofStep(r)
        \/ UpsertFails(r)
        \/ RemoveOrAuditFails(r)
        \/ Abort(r)
    \/ \E mode \in ProofModes : SetProofMode(mode)

Spec == Init /\ [][Next]_vars

(* The event loop runs every accepted status request to its end.           *)
FairSpec == Spec /\ \A r \in Requests : WF_vars(StatusStep(r))

-----------------------------------------------------------------------------
(* Where the recorded changes are used: finishedIn of                      *)
(* deliveryHistory.service.ts joins the row with its own history.          *)
FinishedStatuses == {"DELIVERED", "RETURNED"}
InPastDeliveries ==
    /\ status \in FinishedStatuses
    /\ \E i \in DOMAIN history : history[i].to = status

(* A post office that always requires proof never has a delivered parcel   *)
(* without a proof row, whichever requests overlap and wherever they fail. *)
DeliveredHasProof ==
    "NONE" \notin ProofModes /\ status = "DELIVERED" => proof # NoKey

(* The proof row names a file that is on disk, with uploads overlapping,   *)
(* cut off and failing: neither the removal of a replaced file nor that of *)
(* a refused one takes the file of another upload.  The one way to lose it *)
(* is the row's own upload failing after its upsert.                       *)
ProofFileStored == proof # NoKey => proof \in files \cup undone

(* Every delivery attempt on record is backed by a status change on record *)
(* with that outcome: attempts never outnumber the changes they stand for. *)
AttemptsAreRecorded ==
    \A s \in Status :
        Cardinality({i \in DOMAIN attempts : attempts[i].outcome = s})
          <= Cardinality({i \in DOMAIN history : history[i].to = s})

(* A finished delivery is on its postman's list of past deliveries as soon *)
(* as no handler is between the status update and the history row.         *)
FinishedIsListed ==
    /\ status \in FinishedStatuses
    /\ \A r \in Requests : ~At(r, "record")
    => InPastDeliveries

(* No proof file is left on disk that no row names (a recipient's photo    *)
(* nobody can ever delete) once the handlers have ended.                   *)
NoOrphanFile ==
    (\A r \in Requests : At(r, "idle")) => files \subseteq {proof}

(* What the handlers leave behind is what the lists and the store expect.  *)
NothingIsStranded == FinishedIsListed /\ NoOrphanFile

(* "No arbitrary status writes": every change follows the allow-list.      *)
StatusMovesAlongTable ==
    [][status' \in AllowedTransitions[status]]_status

(* Every change that takes a stop off a route is eventually announced, so  *)
(* that the route is planned again.                                        *)
TriggersArePublished ==
    \A s \in ReoptimizeTriggers : (status = s) ~> (s \in published)

(* The history as the abstract machine sees it: a change already written   *)
(* to the row counts, though its history row is still to come.             *)
Recording == {r \in Requests : At(r, "record")}
LoggedChanges ==
    IF Recording = {} THEN history
    ELSE LET r == CHOOSE x \in Recording : TRUE
         IN  Append(history, [from |-> req[r].from, to |-> req[r].to])

Machine == INSTANCE DeliveryStateMachine
             WITH ProofRequired <- "NONE" \notin ProofModes,
                  log <- LoggedChanges,
                  proven <- proof # NoKey

(* One request at a time, the handlers implement the abstract machine: the *)
(* allow-list, a log without gaps and no completion without a proof.       *)
ImplementsMachine == Machine!Spec
=============================================================================
