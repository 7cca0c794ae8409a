----------------------- MODULE DeliveryLifecycle_proofs -----------------------
(***************************************************************************)
(* Theorems about DeliveryLifecycle, for every number of overlapping       *)
(* requests, every set of postmen and keys and every fault the assumption  *)
(* of the theorem leaves in.                                               *)
(***************************************************************************)
EXTENDS DeliveryLifecycle, TLAPS, FiniteSetTheorems

(* Facts about the status table that the proofs below cite.                *)
LEMMA TableFacts ==
    /\ AllowedTransitions \in [Status -> SUBSET Status]
    /\ ReoptimizeTriggers \subseteq Status
    /\ "RECEIVED" \in Status /\ "ASSIGNED" \in Status
BY DEF AllowedTransitions, Status, FailedAttempt, ReoptimizeTriggers

-----------------------------------------------------------------------------
(* Type correctness.  TypeOK is not inductive: RecordAttempt credits a     *)
(* postman read earlier, PublishDeliveryEvent announces a status tested    *)
(* earlier and the proof handlers use a key chosen earlier.                *)

HandlerOK(x) ==
    /\ x \in RequestState
    /\ x.pc = "attempt" => x.holder \in Postmen
    /\ x.pc = "publish" => x.to \in ReoptimizeTriggers
    /\ x.pc \in {"upsert", "removeOld", "audit"} => x.key \in Keys

Handlers == /\ req \in [Requests -> RequestState]
            /\ \A r \in Requests : HandlerOK(req[r])

RowsOK ==
    /\ status \in Status
    /\ postman \in Postmen \cup {Nobody}
    /\ history \in Seq(Change)
    /\ attempts \in Seq(Attempt)
    /\ published \in SUBSET ReoptimizeTriggers
    /\ proofMode \in ProofModes
    /\ proof \in Keys \cup {NoKey}
    /\ files \in SUBSET Keys
    /\ issued \in SUBSET Keys /\ undone \in SUBSET Keys

LEMMA IdleOK == HandlerOK(IdleRequest)
BY DEF HandlerOK, IdleRequest, RequestState, Status, StatusSteps, ProofSteps

(* One handler changes, the others keep their state.                       *)
LEMMA OneHandler ==
    ASSUME Handlers, NEW r \in Requests, NEW x, HandlerOK(x)
    PROVE  LET f == [req EXCEPT ![r] = x]
           IN  /\ f \in [Requests -> RequestState]
               /\ \A q \in Requests : HandlerOK(f[q])
BY DEF Handlers, HandlerOK

LEMMA GotoOK ==
    ASSUME Handlers, NEW r \in Requests,
           NEW step \in StatusSteps \cup ProofSteps,
           HandlerOK([req[r] EXCEPT !.pc = step]), Goto(r, step)
    PROVE  Handlers'
BY OneHandler DEF Handlers, Goto

LEMMA FinishOK ==
    ASSUME Handlers, NEW r \in Requests, Finish(r)
    PROVE  Handlers'
BY OneHandler, IdleOK DEF Handlers, Finish

LEMMA AfterRecordingOK ==
    ASSUME Handlers, NEW r \in Requests, AfterRecording(r)
    PROVE  Handlers'
<1>1. CASE req[r].to \in ReoptimizeTriggers
  <2>1. HandlerOK([req[r] EXCEPT !.pc = "publish"])
    BY <1>1 DEF Handlers, HandlerOK, RequestState, StatusSteps
  <2>. QED
    BY <1>1, <2>1, GotoOK DEF AfterRecording, StatusSteps
<1>2. CASE req[r].to \notin ReoptimizeTriggers
  BY <1>2, FinishOK DEF AfterRecording
<1>. QED
  BY <1>1, <1>2

LEMMA TypeInit == Init => RowsOK /\ Handlers
<1> SUFFICES ASSUME Init PROVE RowsOK /\ Handlers
  OBVIOUS
<1>1. RowsOK
  BY TableFacts DEF Init, RowsOK
<1>2. Handlers
  BY IdleOK DEF Init, Handlers, HandlerOK
<1>. QED
  BY <1>1, <1>2

LEMMA TypeNext == RowsOK /\ Handlers /\ [Next]_vars => RowsOK' /\ Handlers'
<1> SUFFICES ASSUME RowsOK, Handlers, [Next]_vars
             PROVE  RowsOK' /\ Handlers'
  OBVIOUS
<1> USE DEF rows, logVars, proofVars, officeVars
<1>1. ASSUME NEW r \in Requests, NEW to \in Status, AcceptStatusRequest(r, to)
      PROVE  RowsOK' /\ Handlers'
  <2>1. HandlerOK([req[r] EXCEPT !.pc = "read", !.to = to])
    BY DEF Handlers, HandlerOK, RequestState, StatusSteps
  <2>2. req' = [req EXCEPT ![r] = [req[r] EXCEPT !.pc = "read", !.to = to]]
    BY <1>1 DEF AcceptStatusRequest
  <2>3. Handlers'
    BY <2>1, <2>2, OneHandler DEF Handlers
  <2>. QED
    BY <1>1, <2>3 DEF AcceptStatusRequest, RowsOK
<1>2. ASSUME NEW r \in Requests, ReadAndCheckTransition(r)
      PROVE  RowsOK' /\ Handlers'
  <2>1. ASSUME NEW step \in {"checkProof", "write"}
        PROVE  HandlerOK([req[r] EXCEPT !.pc = step, !.from = status,
                                        !.holder = postman])
    BY DEF Handlers, HandlerOK, RequestState, StatusSteps, RowsOK
  <2>2. \/ Finish(r)
        \/ \E step \in {"checkProof", "write"} :
             req' = [req EXCEPT ![r] = [req[r] EXCEPT !.pc = step,
                                          !.from = status, !.holder = postman]]
    BY <1>2 DEF ReadAndCheckTransition
  <2>3. Handlers'
    BY <2>1, <2>2, OneHandler, FinishOK DEF Handlers
  <2>. QED
    BY <1>2, <2>3 DEF ReadAndCheckTransition, RowsOK
<1>3. ASSUME NEW r \in Requests, AssertProofPresent(r)
      PROVE  RowsOK' /\ Handlers'
  <2>1. HandlerOK([req[r] EXCEPT !.pc = "write"])
    BY DEF Handlers, HandlerOK, RequestState, StatusSteps
  <2>2. Handlers'
    BY <1>3, <2>1, GotoOK, FinishOK DEF AssertProofPresent, StatusSteps
  <2>. QED
    BY <1>3, <2>2 DEF AssertProofPresent, RowsOK
<1>4. ASSUME NEW r \in Requests, WriteStatus(r)
      PROVE  RowsOK' /\ Handlers'
  <2>1. HandlerOK([req[r] EXCEPT !.pc = "record"])
    BY DEF Handlers, HandlerOK, RequestState, StatusSteps
  <2>2. Handlers'
    BY <1>4, <2>1, GotoOK DEF WriteStatus, StatusSteps
  <2>3. req[r].to \in Status
    BY DEF Handlers, RequestState
  <2>. QED
    BY <1>4, <2>2, <2>3 DEF WriteStatus, RowsOK
<1>5. ASSUME NEW r \in Requests, RecordHistory(r)
      PROVE  RowsOK' /\ Handlers'
  <2>1. HistoryRow(r) \in Change
    BY DEF HistoryRow, Change, Handlers, RequestState
  <2>2. history' \in Seq(Change)
    BY <1>5, <2>1 DEF RecordHistory, RowsOK
  <2>3. CASE HasPostman(r)
    <3>1. HandlerOK([req[r] EXCEPT !.pc = "attempt"])
      BY <2>3 DEF Handlers, HandlerOK, RequestState, StatusSteps, HasPostman
    <3>2. Handlers'
      BY <1>5, <2>3, <3>1, GotoOK DEF RecordHistory, StatusSteps
    <3>. QED
      BY <1>5, <2>2, <3>2 DEF RecordHistory, RowsOK
  <2>4. CASE ~HasPostman(r)
    <3>1. Handlers'
      BY <1>5, <2>4, AfterRecordingOK DEF RecordHistory
    <3>. QED
      BY <1>5, <2>2, <3>1 DEF RecordHistory, RowsOK
  <2>. QED
    BY <2>3, <2>4
<1>6. ASSUME NEW r \in Requests, RecordAttempt(r)
      PROVE  RowsOK' /\ Handlers'
  <2>1. AttemptRow(r) \in Attempt
    BY <1>6 DEF RecordAttempt, At, AttemptRow, Attempt, Handlers, HandlerOK,
                RequestState
  <2>2. attempts' \in Seq(Attempt)
    BY <1>6, <2>1 DEF RecordAttempt, RowsOK
  <2>3. Handlers'
    BY <1>6, AfterRecordingOK DEF RecordAttempt
  <2>. QED
    BY <1>6, <2>2, <2>3 DEF RecordAttempt, RowsOK
<1>7. ASSUME NEW r \in Requests, PublishDeliveryEvent(r)
      PROVE  RowsOK' /\ Handlers'
  <2>1. req[r].to \in ReoptimizeTriggers
    BY <1>7 DEF PublishDeliveryEvent, At, Handlers, HandlerOK
  <2>2. Handlers'
    BY <1>7, FinishOK DEF PublishDeliveryEvent
  <2>. QED
    BY <1>7, <2>1, <2>2 DEF PublishDeliveryEvent, RowsOK
<1>8. ASSUME NEW r \in Requests, AcceptProof(r)
      PROVE  RowsOK' /\ Handlers'
  <2>1. HandlerOK([req[r] EXCEPT !.pc = "readProof"])
    BY DEF Handlers, HandlerOK, RequestState, ProofSteps
  <2>2. Handlers'
    BY <1>8, <2>1, GotoOK DEF AcceptProof, ProofSteps
  <2>. QED
    BY <1>8, <2>2 DEF AcceptProof, RowsOK
<1>9. ASSUME NEW r \in Requests, ReadForProof(r)
      PROVE  RowsOK' /\ Handlers'
  <2>1. HandlerOK([req[r] EXCEPT !.pc = "saveFile", !.old = proof])
    BY DEF Handlers, HandlerOK, RequestState, ProofSteps, RowsOK
  <2>2. \/ Finish(r)
        \/ req' = [req EXCEPT ![r] = [req[r] EXCEPT !.pc = "saveFile",
                                                    !.old = proof]]
    BY <1>9 DEF ReadForProof
  <2>3. Handlers'
    BY <2>1, <2>2, OneHandler, FinishOK DEF Handlers
  <2>. QED
    BY <1>9, <2>3 DEF ReadForProof, RowsOK
<1>10. ASSUME NEW r \in Requests, SaveProofPhoto(r)
       PROVE  RowsOK' /\ Handlers'
  <2>1. PICK k \in Keys \ issued :
          /\ files' = files \cup {k}
          /\ issued' = issued \cup {k}
          /\ req' = [req EXCEPT ![r] = [req[r] EXCEPT !.pc = "upsert",
                                                      !.key = k]]
    BY <1>10 DEF SaveProofPhoto
  <2>2. HandlerOK([req[r] EXCEPT !.pc = "upsert", !.key = k])
    BY DEF Handlers, HandlerOK, RequestState, ProofSteps
  <2>3. Handlers'
    BY <2>1, <2>2, OneHandler DEF Handlers
  <2>. QED
    BY <1>10, <2>1, <2>3 DEF SaveProofPhoto, RowsOK
<1>11. ASSUME NEW r \in Requests, UpsertProof(r)
       PROVE  RowsOK' /\ Handlers'
  <2>1. req[r].key \in Keys
    BY <1>11 DEF UpsertProof, At, Handlers, HandlerOK
  <2>2. HandlerOK([req[r] EXCEPT !.pc = "removeOld"])
    BY <2>1 DEF Handlers, HandlerOK, RequestState, ProofSteps
  <2>3. Handlers'
    BY <1>11, <2>2, GotoOK DEF UpsertProof, ProofSteps
  <2>. QED
    BY <1>11, <2>1, <2>3 DEF UpsertProof, RowsOK
<1>12. ASSUME NEW r \in Requests, RemoveOldPhoto(r)
       PROVE  RowsOK' /\ Handlers'
  <2>1. HandlerOK([req[r] EXCEPT !.pc = "audit"])
    BY <1>12 DEF RemoveOldPhoto, At, Handlers, HandlerOK, RequestState,
                 ProofSteps
  <2>2. Handlers'
    BY <1>12, <2>1, GotoOK DEF RemoveOldPhoto, ProofSteps
  <2>. QED
    BY <1>12, <2>2 DEF RemoveOldPhoto, RowsOK
<1>13. ASSUME NEW r \in Requests, RecordProofAudit(r) \/ Abort(r)
       PROVE  RowsOK' /\ Handlers'
  BY <1>13, FinishOK DEF RecordProofAudit, Abort, RowsOK
<1>14. ASSUME NEW r \in Requests, UpsertFails(r) \/ RemoveOrAuditFails(r)
       PROVE  RowsOK' /\ Handlers'
  <2>1. req[r].key \in Keys
    BY <1>14 DEF UpsertFails, RemoveOrAuditFails, Handlers, HandlerOK, At
  <2>. QED
    BY <1>14, <2>1, FinishOK
       DEF UpsertFails, RemoveOrAuditFails, RemoveFailedPhoto, RowsOK
<1>15. ASSUME NEW mode \in ProofModes, SetProofMode(mode)
       PROVE  RowsOK' /\ Handlers'
  BY <1>15 DEF SetProofMode, RowsOK, Handlers
<1>16. CASE UNCHANGED vars
  BY <1>16 DEF vars, RowsOK, Handlers
<1>. QED
  BY <1>1, <1>2, <1>3, <1>4, <1>5, <1>6, <1>7, <1>8, <1>9, <1>10, <1>11,
     <1>12, <1>13, <1>14, <1>15, <1>16
     DEF Next, StatusStep, ProofStep

(* Every row and every handler's local state keep their types.             *)
THEOREM TypeCorrect == Spec => []TypeOK
<1>1. RowsOK /\ Handlers => TypeOK
  BY DEF RowsOK, Handlers, TypeOK
<1>. QED
  BY TypeInit, TypeNext, <1>1, PTL DEF Spec
-----------------------------------------------------------------------------
(* What a step of one handler leaves: the other handlers are as they were. *)

LEMMA GotoEffect ==
    ASSUME Handlers, NEW r \in Requests, NEW step, Goto(r, step)
    PROVE  /\ req'[r] = [req[r] EXCEPT !.pc = step]
           /\ req'[r].pc = step /\ req'[r].to = req[r].to
           /\ req'[r].from = req[r].from
           /\ req'[r].key = req[r].key /\ req'[r].old = req[r].old
           /\ \A q \in Requests \ {r} : req'[q] = req[q]
<1>1. req'[r] = [req[r] EXCEPT !.pc = step]
  BY DEF Handlers, Goto
<1>2. \A q \in Requests \ {r} : req'[q] = req[q]
  BY DEF Handlers, Goto
<1>. QED
  BY <1>1, <1>2 DEF Handlers, RequestState

LEMMA FinishEffect ==
    ASSUME Handlers, NEW r \in Requests, Finish(r)
    PROVE  /\ req'[r] = IdleRequest
           /\ req'[r].pc = "idle"
           /\ \A q \in Requests \ {r} : req'[q] = req[q]
BY DEF Handlers, Finish, IdleRequest

LEMMA AfterRecordingEffect ==
    ASSUME Handlers, NEW r \in Requests, AfterRecording(r)
    PROVE  /\ req'[r].pc \in {"publish", "idle"}
           /\ \A q \in Requests \ {r} : req'[q] = req[q]
BY GotoEffect, FinishEffect DEF AfterRecording

(* The steps that neither write the row nor touch the proof.               *)
LEMMA BookkeepingSteps ==
    ASSUME NEW r \in Requests, Handlers,
           \/ RecordHistory(r) \/ RecordAttempt(r) \/ PublishDeliveryEvent(r)
           \/ AcceptProof(r) \/ RecordProofAudit(r) \/ Abort(r)
           \/ \E to \in Status : AcceptStatusRequest(r, to)
    PROVE  /\ UNCHANGED <<status, proof, files, issued, undone>>
           /\ req'[r].pc \in {"read", "attempt", "publish", "readProof", "idle"}
           /\ \A q \in Requests \ {r} : req'[q] = req[q]
<1> USE DEF rows, proofVars
<1>1. CASE RecordHistory(r)
  BY <1>1, GotoEffect, AfterRecordingEffect DEF RecordHistory
<1>2. CASE RecordAttempt(r)
  BY <1>2, AfterRecordingEffect DEF RecordAttempt
<1>3. CASE PublishDeliveryEvent(r) \/ RecordProofAudit(r) \/ Abort(r)
  BY <1>3, FinishEffect DEF PublishDeliveryEvent, RecordProofAudit, Abort
<1>4. CASE AcceptProof(r)
  BY <1>4, GotoEffect DEF AcceptProof
<1>5. CASE \E to \in Status : AcceptStatusRequest(r, to)
  <2>1. PICK to \in Status : AcceptStatusRequest(r, to)
    BY <1>5
  <2>2. req' = [req EXCEPT ![r] = [req[r] EXCEPT !.pc = "read", !.to = to]]
    BY <2>1 DEF AcceptStatusRequest
  <2>3. req'[r].pc = "read" /\ \A q \in Requests \ {r} : req'[q] = req[q]
    BY <2>2 DEF Handlers, RequestState
  <2>. QED
    BY <2>1, <2>3 DEF AcceptStatusRequest
<1>. QED
  BY <1>1, <1>2, <1>3, <1>4, <1>5

(* A handler that has read the row goes on to the proof check or, when the *)
(* requested status needs none, to the write.                              *)
LEMMA ReadEffect ==
    ASSUME NEW r \in Requests, Handlers, ReadAndCheckTransition(r)
    PROVE  /\ UNCHANGED rows
           /\ \A q \in Requests \ {r} : req'[q] = req[q]
           /\ \/ req'[r] = IdleRequest
              \/ /\ TransitionAllowed(status, req[r].to)
                 /\ req'[r].to = req[r].to /\ req'[r].from = status
                 /\ req'[r].pc = IF req[r].to = "DELIVERED" THEN "checkProof"
                                                            ELSE "write"
<1>1. CASE TransitionAllowed(status, req[r].to)
  <2> DEFINE x == [req[r] EXCEPT
                     !.pc = IF req[r].to = "DELIVERED" THEN "checkProof"
                                                       ELSE "write",
                     !.from = status, !.holder = postman]
  <2>1. req' = [req EXCEPT ![r] = x]
    BY <1>1 DEF ReadAndCheckTransition
  <2>2. req'[r] = x /\ \A q \in Requests \ {r} : req'[q] = req[q]
    BY <2>1 DEF Handlers
  <2>3. /\ x.to = req[r].to /\ x.from = status
        /\ x.pc = IF req[r].to = "DELIVERED" THEN "checkProof" ELSE "write"
    BY DEF Handlers, RequestState
  <2>. QED
    BY <1>1, <2>2, <2>3 DEF ReadAndCheckTransition
<1>2. CASE ~TransitionAllowed(status, req[r].to)
  BY <1>2, FinishEffect DEF ReadAndCheckTransition
<1>. QED
  BY <1>1, <1>2

-----------------------------------------------------------------------------
(* No completion without proof.  The check and the write are two steps, so *)
(* the invariant carries the result of the check to the write: proof rows  *)
(* are replaced, never deleted.                                            *)

ProofCarried ==
    /\ status = "DELIVERED" => proof # NoKey
    /\ \A r \in Requests : req[r].pc = "write" /\ req[r].to = "DELIVERED"
                             => proof # NoKey

LEMMA ProofCarriedNext ==
    ASSUME "NONE" \notin ProofModes, RowsOK, Handlers, ProofCarried, [Next]_vars
    PROVE  ProofCarried'
<1> USE DEF rows, proofVars, ProofCarried
<1>1. ASSUME NEW r \in Requests, ReadAndCheckTransition(r)
      PROVE  ProofCarried'
  BY <1>1, ReadEffect DEF IdleRequest
<1>2. ASSUME NEW r \in Requests, AssertProofPresent(r)
      PROVE  ProofCarried'
  <2>1. CASE ProofPresent
    <3>1. proof # NoKey
      BY <2>1 DEF ProofPresent, RowsOK
    <3>. QED
      BY <1>2, <3>1 DEF AssertProofPresent
  <2>2. CASE ~ProofPresent
    BY <1>2, <2>2, FinishEffect DEF AssertProofPresent
  <2>. QED
    BY <2>1, <2>2
<1>3. ASSUME NEW r \in Requests, WriteStatus(r)
      PROVE  ProofCarried'
  <2>1. req[r].pc = "write" /\ status' = req[r].to /\ proof' = proof
    BY <1>3 DEF WriteStatus, At
  <2>2. req'[r].pc = "record" /\ \A q \in Requests \ {r} : req'[q] = req[q]
    BY <1>3, GotoEffect DEF WriteStatus
  <2>. QED
    BY <2>1, <2>2
<1>4. ASSUME NEW r \in Requests, UpsertProof(r)
      PROVE  ProofCarried'
  <2>1. proof' \in Keys
    BY <1>4 DEF UpsertProof, At, Handlers, HandlerOK
  <2>. QED
    BY <1>4, <2>1, GotoEffect, LifecycleAssumption DEF UpsertProof
<1>5. ASSUME NEW r \in Requests,
             \/ RecordHistory(r) \/ RecordAttempt(r) \/ PublishDeliveryEvent(r)
             \/ AcceptProof(r) \/ RecordProofAudit(r) \/ Abort(r)
             \/ \E to \in Status : AcceptStatusRequest(r, to)
      PROVE  ProofCarried'
  BY <1>5, BookkeepingSteps
<1>6. ASSUME NEW r \in Requests, ReadForProof(r) \/ SaveProofPhoto(r)
      PROVE  ProofCarried'
  <2>1. UNCHANGED <<status, proof>>
    BY <1>6 DEF ReadForProof, SaveProofPhoto
  <2>2. /\ req'[r].pc # "write"
        /\ \A q \in Requests \ {r} : req'[q] = req[q]
    BY <1>6, FinishEffect DEF ReadForProof, SaveProofPhoto, Handlers, RequestState
  <2>. QED
    BY <2>1, <2>2
<1>7. ASSUME NEW r \in Requests, RemoveOldPhoto(r)
      PROVE  ProofCarried'
  <2>1. req'[r].pc = "audit" /\ \A q \in Requests \ {r} : req'[q] = req[q]
    BY <1>7, GotoEffect DEF RemoveOldPhoto
  <2>. QED
    BY <1>7, <2>1 DEF RemoveOldPhoto
<1>8. ASSUME NEW r \in Requests, UpsertFails(r) \/ RemoveOrAuditFails(r)
      PROVE  ProofCarried'
  BY <1>8, FinishEffect DEF UpsertFails, RemoveOrAuditFails, RemoveFailedPhoto
<1>9. ASSUME NEW mode \in ProofModes, SetProofMode(mode)
      PROVE  ProofCarried'
  BY <1>9 DEF SetProofMode
<1>10. CASE UNCHANGED vars
  BY <1>10 DEF vars
<1>. QED
  BY <1>1, <1>2, <1>3, <1>4, <1>5, <1>6, <1>7, <1>8, <1>9, <1>10
     DEF Next, StatusStep, ProofStep

(* A post office that always requires proof never has a delivered parcel   *)
(* without one, however many requests overlap and wherever they fail.      *)
THEOREM ProofBeforeDelivered == Spec => []DeliveredHasProof
<1>1. CASE "NONE" \notin ProofModes
  <2>1. Init => ProofCarried
    BY DEF Init, ProofCarried, IdleRequest
  <2>2. RowsOK /\ Handlers /\ ProofCarried /\ [Next]_vars => ProofCarried'
    BY <1>1, ProofCarriedNext
  <2>3. ProofCarried => DeliveredHasProof
    BY DEF ProofCarried, DeliveredHasProof
  <2>. QED
    BY TypeInit, TypeNext, <2>1, <2>2, <2>3, PTL DEF Spec
<1>2. CASE "NONE" \in ProofModes
  <2>1. DeliveredHasProof
    BY <1>2 DEF DeliveredHasProof
  <2>. QED
    BY <2>1, PTL
<1>. QED
  BY <1>1, <1>2

-----------------------------------------------------------------------------
(* The proof row's file.  Keys are never issued twice, so a key is in one  *)
(* uploading handler only until its upsert, and no other handler can have  *)
(* read it as the photo to replace before then.                            *)

Replacing == {"saveFile", "upsert", "removeOld"}

FilesInv ==
    /\ ProofFileStored
    /\ files \subseteq issued
    /\ proof \in issued \cup {NoKey}
    /\ \A r \in Requests :
        /\ req[r].pc \in Replacing => req[r].old \in issued \cup {NoKey}
        /\ req[r].pc = "removeOld" => req[r].old # proof
        /\ req[r].pc \in {"removeOld", "audit"} => req[r].key \in issued
        /\ req[r].pc = "upsert" =>
             /\ req[r].key \in files
             /\ req[r].key # proof
             /\ \A q \in Requests :
                  /\ req[q].pc \in Replacing => req[q].old # req[r].key
                  /\ q # r /\ req[q].pc \in {"upsert", "removeOld", "audit"} =>
                       req[q].key # req[r].key

LEMMA FilesInvNext ==
    ASSUME RowsOK, Handlers, FilesInv, [Next]_vars
    PROVE  FilesInv'
<1> USE DEF FilesInv, ProofFileStored, Replacing, Handlers, At
<1>0. ASSUME UNCHANGED proofVars,
             \A q \in Requests : req'[q] = req[q] \/ req'[q].pc \notin Replacing \cup {"audit"}
      PROVE  FilesInv'
  BY <1>0 DEF proofVars
<1>1. ASSUME NEW r \in Requests, ReadForProof(r)
      PROVE  FilesInv'
  <2>1. CASE req' = [req EXCEPT ![r].pc = "saveFile", ![r].old = proof]
    BY <1>1, <2>1 DEF ReadForProof, rows, proofVars, RowsOK
  <2>2. CASE Finish(r)
    BY <1>0, <1>1, <2>2 DEF ReadForProof, Finish, IdleRequest, rows
  <2>. QED
    BY <1>1, <2>1, <2>2 DEF ReadForProof
<1>2. ASSUME NEW r \in Requests, SaveProofPhoto(r)
      PROVE  FilesInv'
  <2>1. PICK k \in Keys \ issued :
          /\ files' = files \cup {k}
          /\ issued' = issued \cup {k}
          /\ req' = [req EXCEPT ![r].pc = "upsert", ![r].key = k]
    BY <1>2 DEF SaveProofPhoto
  <2>2. /\ proof' = proof /\ undone' = undone
        /\ k # NoKey
        /\ req[r].pc = "saveFile"
    BY <1>2, LifecycleAssumption DEF SaveProofPhoto
  <2>3. /\ req'[r].pc = "upsert" /\ req'[r].key = k /\ req'[r].old = req[r].old
        /\ \A q \in Requests \ {r} : req'[q] = req[q]
    BY <2>1
  <2>. QED
    BY <2>1, <2>2, <2>3
<1>3. ASSUME NEW r \in Requests, UpsertProof(r)
      PROVE  FilesInv'
  <2>1. /\ proof' = req[r].key /\ files' = files /\ issued' = issued /\ undone' = undone
        /\ req[r].pc = "upsert"
    BY <1>3 DEF UpsertProof
  <2>2. /\ req'[r].pc = "removeOld" /\ req'[r].old = req[r].old /\ req'[r].key = req[r].key
        /\ \A q \in Requests \ {r} : req'[q] = req[q]
    BY <1>3 DEF UpsertProof, Goto
  <2>. QED
    BY <2>1, <2>2
<1>4. ASSUME NEW r \in Requests, RemoveOldPhoto(r)
      PROVE  FilesInv'
  <2>1. /\ files' = files \ {req[r].old} /\ proof' = proof /\ issued' = issued
        /\ undone' = undone /\ req[r].pc = "removeOld"
    BY <1>4 DEF RemoveOldPhoto, ReplacedPhoto
  <2>2. /\ req'[r].pc = "audit" /\ req'[r].key = req[r].key
        /\ \A q \in Requests \ {r} : req'[q] = req[q]
    BY <1>4 DEF RemoveOldPhoto, Goto
  <2>. QED
    BY <2>1, <2>2
<1>5. ASSUME NEW r \in Requests, UpsertFails(r)
      PROVE  FilesInv'
  <2>1. /\ files' = files \ {req[r].key} /\ proof' = proof /\ issued' = issued
        /\ undone' = undone /\ req[r].pc = "upsert"
    BY <1>5 DEF UpsertFails, RemoveFailedPhoto, FailedPhoto
  <2>2. /\ req'[r].pc = "idle"
        /\ \A q \in Requests \ {r} : req'[q] = req[q]
    BY <1>5 DEF UpsertFails, RemoveFailedPhoto, Finish, IdleRequest
  <2>. QED
    BY <2>1, <2>2
<1>6. ASSUME NEW r \in Requests,
             \/ RecordHistory(r) \/ RecordAttempt(r) \/ PublishDeliveryEvent(r)
             \/ AcceptProof(r) \/ RecordProofAudit(r) \/ Abort(r)
             \/ \E to \in Status : AcceptStatusRequest(r, to)
      PROVE  FilesInv'
  BY <1>0, <1>6, BookkeepingSteps DEF proofVars
<1>10. ASSUME NEW r \in Requests,
              \/ ReadAndCheckTransition(r)
              \/ AssertProofPresent(r) \/ WriteStatus(r)
       PROVE  FilesInv'
  <2>1. UNCHANGED proofVars
    BY <1>10 DEF ReadAndCheckTransition, AssertProofPresent, WriteStatus, rows
  <2>2. CASE ReadAndCheckTransition(r)
    BY <1>0, <2>1, <2>2, ReadEffect DEF IdleRequest
  <2>3. CASE AssertProofPresent(r)
    <3>1. /\ req'[r].pc \in {"idle", "write"}
          /\ \A q \in Requests \ {r} : req'[q] = req[q]
      BY <2>3, GotoEffect, FinishEffect DEF AssertProofPresent
    <3>. QED
      BY <1>0, <2>1, <3>1
  <2>4. CASE WriteStatus(r)
    <3>1. req'[r].pc = "record" /\ \A q \in Requests \ {r} : req'[q] = req[q]
      BY <2>4, GotoEffect DEF WriteStatus
    <3>. QED
      BY <1>0, <2>1, <3>1
  <2>. QED
    BY <1>10, <2>2, <2>3, <2>4
<1>7. ASSUME NEW mode \in ProofModes, SetProofMode(mode)
      PROVE  FilesInv'
  BY <1>7, <1>0 DEF SetProofMode
<1>8. CASE UNCHANGED vars
  BY <1>8, <1>0 DEF vars, rows
<1>9. ASSUME NEW r \in Requests, RemoveOrAuditFails(r)
      PROVE  FilesInv'
  <2>1. /\ files' = files \ {req[r].key} /\ undone' = undone \cup {req[r].key}
        /\ proof' = proof /\ issued' = issued
        /\ req[r].pc \in {"removeOld", "audit"}
    BY <1>9 DEF RemoveOrAuditFails, RemoveFailedPhoto, FailedPhoto
  <2>2. /\ req'[r].pc = "idle"
        /\ \A q \in Requests \ {r} : req'[q] = req[q]
    BY <1>9 DEF RemoveOrAuditFails, RemoveFailedPhoto, Finish, IdleRequest
  <2>. QED
    BY <2>1, <2>2
<1>. QED
  BY <1>1, <1>2, <1>3, <1>4, <1>5, <1>6, <1>7, <1>8, <1>9, <1>10
     DEF Next, StatusStep, ProofStep

(* The proof row names a stored file, with any number of uploads and       *)
(* replacements overlapping and any of them cut off, refused or failing,   *)
(* unless its own upload failed after the upsert.                          *)
THEOREM ProofRowHasFile == Spec => []ProofFileStored
<1>1. Init => FilesInv
  BY DEF Init, FilesInv, ProofFileStored, IdleRequest, Replacing
<1>2. RowsOK /\ Handlers /\ FilesInv /\ [Next]_vars => FilesInv'
  BY FilesInvNext
<1>3. FilesInv => ProofFileStored
  BY DEF FilesInv
<1>. QED
  BY TypeInit, TypeNext, <1>1, <1>2, <1>3, PTL DEF Spec
-----------------------------------------------------------------------------
(* One request at a time.  Then nothing changes the row between a          *)
(* handler's read and its write, and what the handler read still holds.    *)

Serial == \A r, q \in Requests : r = q

StillAsRead ==
    \A r \in Requests :
        /\ req[r].pc = "checkProof" => req[r].to = "DELIVERED"
        /\ req[r].pc \in {"checkProof", "write"} =>
             /\ req[r].from = status
             /\ req[r].to \in AllowedTransitions[status]
        /\ req[r].pc = "record" => req[r].to = status
        /\ req[r].pc \in {"saveFile", "upsert"} => status = "OUT_FOR_DELIVERY"

LEMMA StillAsReadNext ==
    ASSUME Serial, RowsOK, Handlers, StillAsRead, [Next]_vars
    PROVE  StillAsRead'
<1> USE DEF Serial, StillAsRead
<1>1. ASSUME NEW r \in Requests, ReadAndCheckTransition(r)
      PROVE  StillAsRead'
  BY <1>1, ReadEffect DEF IdleRequest, TransitionAllowed, rows
<1>2. ASSUME NEW r \in Requests, AssertProofPresent(r)
      PROVE  StillAsRead'
  <2>1. CASE ProofPresent
    <3>1. /\ req'[r].pc = "write" /\ req'[r].to = req[r].to
          /\ req'[r].from = req[r].from /\ status' = status
      BY <1>2, <2>1, GotoEffect DEF AssertProofPresent, rows
    <3>. QED
      BY <1>2, <3>1 DEF AssertProofPresent, At
  <2>2. CASE ~ProofPresent
    BY <1>2, <2>2, FinishEffect DEF AssertProofPresent
  <2>. QED
    BY <2>1, <2>2
<1>3. ASSUME NEW r \in Requests, WriteStatus(r)
      PROVE  StillAsRead'
  <2>1. req'[r].pc = "record" /\ req'[r].to = req[r].to /\ status' = req[r].to
    BY <1>3, GotoEffect DEF WriteStatus
  <2>. QED
    BY <2>1
<1>4. ASSUME NEW r \in Requests,
             \/ RecordHistory(r) \/ RecordAttempt(r) \/ PublishDeliveryEvent(r)
             \/ AcceptProof(r) \/ RecordProofAudit(r) \/ Abort(r)
             \/ \E to \in Status : AcceptStatusRequest(r, to)
      PROVE  StillAsRead'
  BY <1>4, BookkeepingSteps
<1>5. ASSUME NEW r \in Requests, ReadForProof(r)
      PROVE  StillAsRead'
  <2>1. CASE status = "OUT_FOR_DELIVERY"
    <3>1. req'[r].pc = "saveFile" /\ status' = status
      BY <1>5, <2>1 DEF ReadForProof, rows, Handlers, RequestState
    <3>. QED
      BY <2>1, <3>1
  <2>2. CASE status # "OUT_FOR_DELIVERY"
    BY <1>5, <2>2, FinishEffect DEF ReadForProof
  <2>. QED
    BY <2>1, <2>2
<1>6. ASSUME NEW r \in Requests, SaveProofPhoto(r)
      PROVE  StillAsRead'
  <2>1. req'[r].pc = "upsert" /\ req[r].pc = "saveFile" /\ status' = status
    BY <1>6 DEF SaveProofPhoto, At, Handlers, RequestState
  <2>. QED
    BY <2>1
<1>7. ASSUME NEW r \in Requests, UpsertProof(r) \/ RemoveOldPhoto(r)
      PROVE  StillAsRead'
  <2>1. req'[r].pc \in {"removeOld", "audit"}
    BY <1>7, GotoEffect DEF UpsertProof, RemoveOldPhoto
  <2>. QED
    BY <2>1
<1>8. ASSUME NEW r \in Requests, UpsertFails(r) \/ RemoveOrAuditFails(r)
      PROVE  StillAsRead'
  BY <1>8, FinishEffect DEF UpsertFails, RemoveOrAuditFails, RemoveFailedPhoto
<1>9. ASSUME NEW mode \in ProofModes, SetProofMode(mode)
      PROVE  StillAsRead'
  BY <1>9 DEF SetProofMode
<1>10. CASE UNCHANGED vars
  BY <1>10 DEF vars, rows
<1>. QED
  BY <1>1, <1>2, <1>3, <1>4, <1>5, <1>6, <1>7, <1>8, <1>9, <1>10
     DEF Next, StatusStep, ProofStep

LEMMA SerialInit == Init => StillAsRead /\ ProofCarried
BY DEF Init, StillAsRead, ProofCarried, IdleRequest

(* Every status write is WriteStatus.                                      *)
LEMMA OnlyWriteStatus ==
    ASSUME [Next]_vars, status' # status
    PROVE  \E r \in Requests : WriteStatus(r)
<1>1. PICK r \in Requests : StatusStep(r)
  BY DEF Next, AcceptStatusRequest, AcceptProof, ProofStep, ReadForProof,
         SaveProofPhoto, UpsertProof, RemoveOldPhoto, RecordProofAudit,
         UpsertFails, RemoveOrAuditFails, RemoveFailedPhoto, Abort,
         SetProofMode, vars, rows
<1>. QED
  BY <1>1 DEF StatusStep, ReadAndCheckTransition, AssertProofPresent,
         RecordHistory, RecordAttempt, PublishDeliveryEvent, rows

(* With one request at a time, whatever fails and wherever it stops, the   *)
(* status moves only along the allow-list.                                 *)
THEOREM SerialStatusMovesAlongTable ==
    ASSUME Serial
    PROVE  Spec => StatusMovesAlongTable
<1>1. RowsOK /\ Handlers /\ StillAsRead /\ [Next]_vars => StillAsRead'
  BY StillAsReadNext
<1>2. StillAsRead /\ [Next]_vars
        => [status' \in AllowedTransitions[status]]_status
  <2> SUFFICES ASSUME StillAsRead, [Next]_vars, status' # status
               PROVE  status' \in AllowedTransitions[status]
    OBVIOUS
  <2>1. PICK r \in Requests : WriteStatus(r)
    BY OnlyWriteStatus
  <2>. QED
    BY <2>1 DEF WriteStatus, At, StillAsRead
<1>. QED
  BY TypeInit, TypeNext, SerialInit, <1>1, <1>2, PTL
     DEF Spec, StatusMovesAlongTable
-----------------------------------------------------------------------------
(* Refinement: with one request at a time and no handler cut off, the      *)
(* handlers implement the abstract machine of DeliveryStateMachine.  A     *)
(* change enters the abstract log with the row's update.                   *)

LEMMA LogWhileRecording ==
    ASSUME Serial, NEW r \in Requests
    PROVE  LoggedChanges = IF req[r].pc = "record"
                             THEN Append(history, [from |-> req[r].from,
                                                   to   |-> req[r].to])
                             ELSE history
<1>1. CASE req[r].pc = "record"
  <2>1. r \in Recording /\ \A x \in Recording : x = r
    BY <1>1 DEF Recording, At, Serial
  <2>2. (CHOOSE x \in Recording : TRUE) = r
    BY <2>1
  <2>. QED
    BY <1>1, <2>1, <2>2 DEF LoggedChanges
<1>2. CASE req[r].pc # "record"
  <2>1. Recording = {}
    BY <1>2 DEF Recording, At, Serial
  <2>. QED
    BY <1>2, <2>1 DEF LoggedChanges
<1>. QED
  BY <1>1, <1>2

LEMMA LogWhileRecordingNext ==
    ASSUME Serial, NEW r \in Requests
    PROVE  LoggedChanges' = IF req'[r].pc = "record"
                              THEN Append(history', [from |-> req'[r].from,
                                                     to   |-> req'[r].to])
                              ELSE history'
<1>1. CASE req'[r].pc = "record"
  <2>1. r \in Recording' /\ \A x \in Recording' : x = r
    BY <1>1 DEF Recording, At, Serial
  <2>2. (CHOOSE x \in Recording' : TRUE) = r
    BY <2>1
  <2>. QED
    BY <1>1, <2>1, <2>2 DEF LoggedChanges
<1>2. CASE req'[r].pc # "record"
  <2>1. Recording' = {}
    BY <1>2 DEF Recording, At, Serial
  <2>. QED
    BY <1>2, <2>1 DEF LoggedChanges
<1>. QED
  BY <1>1, <1>2

CarriedIfRequired == "NONE" \notin ProofModes => ProofCarried

LEMMA StepImplementsMachine ==
    ASSUME Serial, "abort" \notin Faults,
           RowsOK, Handlers, StillAsRead, CarriedIfRequired, [Next]_vars
    PROVE  [Machine!Next]_(Machine!machineVars)
<1> DEFINE stutter == UNCHANGED <<status, LoggedChanges, proof>>
<1>0. stutter => [Machine!Next]_(Machine!machineVars)
  BY DEF Machine!machineVars
<1>1. ASSUME NEW r \in Requests, WriteStatus(r)
      PROVE  Machine!Next
  <2>1. /\ req[r].pc = "write" /\ status' = req[r].to
        /\ proof' = proof /\ history' = history
        /\ req'[r].pc = "record" /\ req'[r].from = req[r].from
        /\ req'[r].to = req[r].to
    BY <1>1, GotoEffect DEF WriteStatus, At, logVars, proofVars
  <2>2. LoggedChanges = history
    BY <2>1, LogWhileRecording
  <2>3. LoggedChanges' = Append(history, [from |-> req[r].from, to |-> req[r].to])
    BY <2>1, LogWhileRecordingNext
  <2>4. /\ req[r].from = status
        /\ req[r].to \in AllowedTransitions[status]
        /\ req[r].to \in Status
    BY <2>1 DEF StillAsRead, Handlers, RequestState
  <2>5. Machine!Move(req[r].to)
    BY <2>1, <2>2, <2>3, <2>4 DEF Machine!Move, ProofCarried, CarriedIfRequired,
       Machine!AllowedTransitions, AllowedTransitions, Machine!Status, Status,
       Machine!FailedAttempt, FailedAttempt
  <2>. QED
    BY <2>4, <2>5 DEF Machine!Next, Machine!Status, Status
<1>2. ASSUME NEW r \in Requests, RecordHistory(r)
      PROVE  stutter
  <2>1. req[r].pc = "record" /\ history' = Append(history, HistoryRow(r))
    BY <1>2 DEF RecordHistory, At
  <2>2. req'[r].pc # "record" /\ UNCHANGED <<status, proof>>
    BY <1>2, BookkeepingSteps
  <2>. QED
    BY <2>1, <2>2, LogWhileRecording, LogWhileRecordingNext DEF HistoryRow
<1>3. ASSUME NEW r \in Requests, UpsertProof(r)
      PROVE  [Machine!Next]_(Machine!machineVars)
  <2>1. /\ status = "OUT_FOR_DELIVERY" /\ status' = status
        /\ proof' \in Keys /\ history' = history
        /\ req[r].pc = "upsert"
    BY <1>3 DEF UpsertProof, At, StillAsRead, Handlers, HandlerOK, logVars
  <2>2. req'[r].pc = "removeOld"
    BY <1>3, GotoEffect DEF UpsertProof
  <2>3. LoggedChanges' = LoggedChanges
    BY <2>1, <2>2, LogWhileRecording, LogWhileRecordingNext
  <2>4. proof' # NoKey
    BY <2>1, LifecycleAssumption
  <2>5. Machine!AddProof
    BY <2>1, <2>3, <2>4 DEF Machine!AddProof
  <2>. QED
    BY <2>5 DEF Machine!Next
<1>4. ASSUME NEW r \in Requests, UNCHANGED <<status, proof, history>>,
             req[r].pc # "record", req'[r].pc # "record"
      PROVE  stutter
  BY <1>4, LogWhileRecording, LogWhileRecordingNext
<1>5. ASSUME NEW r \in Requests,
             \/ ReadAndCheckTransition(r) \/ AssertProofPresent(r)
             \/ ReadForProof(r) \/ SaveProofPhoto(r)
      PROVE  stutter
  <2>1. UNCHANGED <<status, proof, history>> /\ req[r].pc # "record"
    BY <1>5 DEF ReadAndCheckTransition, AssertProofPresent, ReadForProof,
                SaveProofPhoto, rows, logVars, proofVars, At
  <2>2. CASE ReadAndCheckTransition(r)
    BY <2>2, <2>1, <1>4, ReadEffect DEF IdleRequest
  <2>3. CASE AssertProofPresent(r)
    <3>1. req'[r].pc \in {"write", "idle"}
      BY <2>3, GotoEffect, FinishEffect DEF AssertProofPresent
    <3>. QED
      BY <2>1, <1>4, <3>1
  <2>4. CASE ReadForProof(r) \/ SaveProofPhoto(r)
    <3>1. ReadForProof(r) => req'[r].pc # "record"
      BY FinishEffect DEF ReadForProof, Handlers, RequestState
    <3>2. SaveProofPhoto(r) => req'[r].pc # "record"
      BY DEF SaveProofPhoto, Handlers, RequestState
    <3>. QED
      BY <2>1, <2>4, <1>4, <3>1, <3>2
  <2>. QED
    BY <1>5, <2>2, <2>3, <2>4
<1>6. ASSUME NEW r \in Requests,
             \/ RecordAttempt(r) \/ PublishDeliveryEvent(r)
             \/ AcceptProof(r) \/ RecordProofAudit(r)
             \/ \E to \in Status : AcceptStatusRequest(r, to)
      PROVE  stutter
  <2>1. req[r].pc # "record" /\ history' = history
    BY <1>6 DEF RecordAttempt, PublishDeliveryEvent, AcceptProof,
         RecordProofAudit, AcceptStatusRequest, rows, logVars, At
  <2>. QED
    BY <1>6, <1>4, <2>1, BookkeepingSteps
<1>7. ASSUME NEW r \in Requests, RemoveOldPhoto(r)
      PROVE  stutter
  <2>1. req'[r].pc = "audit"
    BY <1>7, GotoEffect DEF RemoveOldPhoto
  <2>2. UNCHANGED <<status, proof, history>> /\ req[r].pc # "record"
    BY <1>7 DEF RemoveOldPhoto, logVars, At
  <2>. QED
    BY <2>1, <2>2, <1>4
<1>8. ASSUME NEW r \in Requests, UpsertFails(r) \/ RemoveOrAuditFails(r)
      PROVE  stutter
  BY <1>8, <1>4, FinishEffect
     DEF UpsertFails, RemoveOrAuditFails, RemoveFailedPhoto, logVars, At
<1>9. ASSUME UNCHANGED <<status, proof, history, req>>
      PROVE  stutter
  BY <1>9 DEF LoggedChanges, Recording, At
<1>10. ASSUME NEW mode \in ProofModes, SetProofMode(mode)
       PROVE  stutter
  BY <1>10, <1>9 DEF SetProofMode, logVars, proofVars
<1>11. CASE UNCHANGED vars
  BY <1>11, <1>9, <1>0 DEF vars, rows, logVars, proofVars
<1>12. ASSUME NEW r \in Requests, Abort(r)
       PROVE  FALSE
  BY <1>12 DEF Abort
<1>. QED
  BY <1>0, <1>1, <1>2, <1>3, <1>5, <1>6, <1>7, <1>8, <1>10, <1>11, <1>12
     DEF Next, StatusStep, ProofStep

(* One request at a time, none cut off: the handlers implement the state   *)
(* machine with its gap-free log and its proof-before-completion rule.     *)
THEOREM SerialImplementsMachine ==
    ASSUME Serial, "abort" \notin Faults
    PROVE  Spec => ImplementsMachine
<1>1. Init => Machine!Init
  <2> SUFFICES ASSUME Init PROVE Machine!Init
    OBVIOUS
  <2>1. Recording = {}
    BY DEF Init, Recording, At, IdleRequest
  <2>2. LoggedChanges = <<>>
    BY <2>1 DEF Init, LoggedChanges
  <2>3. (proof # NoKey) = FALSE
    BY DEF Init
  <2>4. status \in {"RECEIVED", "ASSIGNED"}
    BY DEF Init
  <2>. QED
    BY <2>2, <2>3, <2>4 DEF Machine!Init
<1>2. RowsOK /\ Handlers /\ StillAsRead /\ [Next]_vars => StillAsRead'
  BY StillAsReadNext
<1>3. CarriedIfRequired /\ RowsOK /\ Handlers /\ [Next]_vars
        => CarriedIfRequired'
  BY ProofCarriedNext DEF CarriedIfRequired
<1>4. RowsOK /\ Handlers /\ StillAsRead /\ CarriedIfRequired /\ [Next]_vars
        => [Machine!Next]_(Machine!machineVars)
  BY StepImplementsMachine
<1>5. Init => CarriedIfRequired
  BY SerialInit DEF CarriedIfRequired
<1>. QED
  BY TypeInit, TypeNext, SerialInit, <1>1, <1>2, <1>3, <1>4, <1>5, PTL
     DEF Spec, ImplementsMachine, Machine!Spec
-----------------------------------------------------------------------------
(* Attempts against the changes on record.  A handler that has written its *)
(* history row and not yet its attempt is owed one attempt of that outcome; *)
(* made and owed attempts together never outnumber the rows.               *)

Where(q, T)  == {i \in DOMAIN q : q[i] \in T}
AttemptsOf(s) == {a \in Attempt : a.outcome = s}
ChangesTo(s)  == {c \in Change : c.to = s}
Owed(s)       == {r \in Requests : req[r].pc = "attempt" /\ req[r].to = s}

AttemptsBacked ==
    \A s \in Status :
        /\ IsFiniteSet(Owed(s))
        /\ Cardinality(Where(attempts, AttemptsOf(s))) + Cardinality(Owed(s))
             <= Cardinality(Where(history, ChangesTo(s)))

(* Appending to a sequence adds at most its new place to the places that   *)
(* hold a value of T.                                                      *)
LEMMA WhereAppend ==
    ASSUME NEW S, NEW q \in Seq(S), NEW x \in S, NEW T
    PROVE  /\ Cardinality(Where(q, T)) \in Nat
           /\ Cardinality(Where(Append(q, x), T))
                = Cardinality(Where(q, T)) + (IF x \in T THEN 1 ELSE 0)
<1> DEFINE n == Len(q) + 1
<1>1. /\ DOMAIN q = 1 .. Len(q) /\ Len(q) \in Nat
      /\ DOMAIN Append(q, x) = DOMAIN q \cup {n}
      /\ \A i \in DOMAIN q : Append(q, x)[i] = q[i]
      /\ Append(q, x)[n] = x /\ n \notin DOMAIN q
  OBVIOUS
<1>2. IsFiniteSet(Where(q, T)) /\ n \notin Where(q, T)
  <2>1. IsFiniteSet(1 .. Len(q))
    BY <1>1, FS_Interval
  <2>. QED
    BY <1>1, <2>1, FS_Subset DEF Where
<1>3. Where(Append(q, x), T) = IF x \in T THEN Where(q, T) \cup {n} ELSE Where(q, T)
  BY <1>1 DEF Where
<1>. HIDE DEF n
<1>4. Cardinality(Where(q, T)) \in Nat
  BY <1>2, FS_CardinalityType
<1>5. CASE x \in T
  BY <1>2, <1>3, <1>4, <1>5, FS_AddElement
<1>6. CASE x \notin T
  BY <1>3, <1>4, <1>6
<1>. QED
  BY <1>4, <1>5, <1>6

LEMMA WhereCounted ==
    ASSUME NEW S, NEW q \in Seq(S), NEW T
    PROVE  Cardinality(Where(q, T)) \in Nat
<1>1. DOMAIN q = 1 .. Len(q) /\ Len(q) \in Nat
  OBVIOUS
<1>2. IsFiniteSet(1 .. Len(q))
  BY <1>1, FS_Interval
<1>. QED
  BY <1>1, <1>2, FS_Subset, FS_CardinalityType DEF Where

LEMMA AttemptsCounted ==
    ASSUME RowsOK, NEW s
    PROVE  Cardinality(Where(attempts, AttemptsOf(s))) \in Nat
BY WhereCounted DEF RowsOK

LEMMA ChangesCounted ==
    ASSUME RowsOK, NEW s
    PROVE  Cardinality(Where(history, ChangesTo(s))) \in Nat
BY WhereCounted DEF RowsOK

(* Every step but RecordHistory and RecordAttempt leaves both logs alone   *)
(* and brings no handler to the point where it owes an attempt.            *)
LEMMA OwesNoMore ==
    ASSUME Handlers, [Next]_vars,
           \A r \in Requests : ~RecordHistory(r) /\ ~RecordAttempt(r)
    PROVE  /\ UNCHANGED <<history, attempts>>
           /\ \A q \in Requests : req'[q].pc = "attempt" => req'[q] = req[q]
<1> USE DEF rows, logVars
<1>1. ASSUME NEW r \in Requests,
             \/ PublishDeliveryEvent(r) \/ RecordProofAudit(r) \/ Abort(r)
             \/ UpsertFails(r) \/ RemoveOrAuditFails(r)
      PROVE  UNCHANGED <<history, attempts>> /\ Finish(r)
  BY <1>1 DEF PublishDeliveryEvent, RecordProofAudit, Abort, UpsertFails,
              RemoveOrAuditFails, RemoveFailedPhoto
<1>2. ASSUME NEW r \in Requests,
             \/ AssertProofPresent(r) \/ WriteStatus(r) \/ AcceptProof(r)
             \/ UpsertProof(r) \/ RemoveOldPhoto(r)
      PROVE  /\ UNCHANGED <<history, attempts>>
             /\ \/ Finish(r)
                \/ \E step \in {"write", "record", "readProof", "removeOld", "audit"} :
                     Goto(r, step)
  BY <1>2 DEF AssertProofPresent, WriteStatus, AcceptProof, UpsertProof, RemoveOldPhoto
<1>3. ASSUME NEW r \in Requests, ReadForProof(r) \/ SaveProofPhoto(r)
      PROVE  /\ UNCHANGED <<history, attempts>>
             /\ req'[r].pc # "attempt"
             /\ \A q \in Requests \ {r} : req'[q] = req[q]
  BY <1>3, FinishEffect DEF ReadForProof, SaveProofPhoto, Handlers, RequestState
<1>4. ASSUME NEW r \in Requests, NEW to \in Status, AcceptStatusRequest(r, to)
      PROVE  /\ UNCHANGED <<history, attempts>>
             /\ req'[r].pc # "attempt"
             /\ \A q \in Requests \ {r} : req'[q] = req[q]
  BY <1>4 DEF AcceptStatusRequest, Handlers, RequestState
<1>5. ASSUME NEW r \in Requests, ReadAndCheckTransition(r)
      PROVE  /\ UNCHANGED <<history, attempts>>
             /\ req'[r].pc # "attempt"
             /\ \A q \in Requests \ {r} : req'[q] = req[q]
  BY <1>5, ReadEffect DEF IdleRequest
<1>6. ASSUME NEW r \in Requests, Finish(r) \/ \E step \in
               {"write", "record", "readProof", "removeOld", "audit"} : Goto(r, step)
      PROVE  /\ req'[r].pc # "attempt"
             /\ \A q \in Requests \ {r} : req'[q] = req[q]
  BY <1>6, FinishEffect, GotoEffect
<1>7. CASE UNCHANGED vars \/ \E mode \in ProofModes : SetProofMode(mode)
  BY <1>7 DEF vars, SetProofMode
<1>. QED
  BY <1>1, <1>2, <1>3, <1>4, <1>5, <1>6, <1>7 DEF Next, StatusStep, ProofStep

(* No step brings a set of handlers that owe an attempt to more.           *)
LEMMA FewerOwed ==
    ASSUME NEW S, NEW T, IsFiniteSet(S), T \subseteq S
    PROVE  IsFiniteSet(T) /\ Cardinality(T) <= Cardinality(S)
           /\ Cardinality(T) \in Nat /\ Cardinality(S) \in Nat
BY FS_Subset, FS_CardinalityType

LEMMA OneMore ==
    ASSUME NEW S, NEW x, IsFiniteSet(S)
    PROVE  /\ IsFiniteSet(S \cup {x}) /\ Cardinality(S) \in Nat
           /\ Cardinality(S \cup {x}) <= Cardinality(S) + 1
BY FS_AddElement, FS_CardinalityType

LEMMA AttemptsBackedNext ==
    ASSUME RowsOK, Handlers, AttemptsBacked, [Next]_vars
    PROVE  AttemptsBacked'
<1> DEFINE A(s) == Cardinality(Where(attempts, AttemptsOf(s)))
           H(s) == Cardinality(Where(history, ChangesTo(s)))
           D(s) == Cardinality(Owed(s))
<1>1. ASSUME NEW r \in Requests, RecordHistory(r)
      PROVE  AttemptsBacked'
  <2>1. /\ history' = Append(history, HistoryRow(r)) /\ attempts' = attempts
        /\ req[r].pc = "record"
    BY <1>1 DEF RecordHistory, At
  <2>2. HistoryRow(r) \in Change /\ HistoryRow(r).to = req[r].to
    BY DEF HistoryRow, Change, Handlers, RequestState
  <2>3. /\ req'[r].pc = "attempt" => req'[r].to = req[r].to
        /\ \A q \in Requests \ {r} : req'[q] = req[q]
    BY <1>1, GotoEffect, AfterRecordingEffect DEF RecordHistory
  <2>4. ASSUME NEW s \in Status
        PROVE  IsFiniteSet(Owed(s))' /\ A(s)' + D(s)' <= H(s)'
    <3>1. HistoryRow(r) \in ChangesTo(s) <=> req[r].to = s
      BY <2>2 DEF ChangesTo
    <3>2. /\ H(s) \in Nat
          /\ H(s)' = H(s) + (IF req[r].to = s THEN 1 ELSE 0)
      <4>1. ChangesTo(s)' = ChangesTo(s)
        BY DEF ChangesTo
      <4>. QED
        BY <2>1, <2>2, <3>1, <4>1, WhereAppend DEF RowsOK
    <3>3. A(s)' = A(s)
      BY <2>1 DEF Where, AttemptsOf
    <3>4. IsFiniteSet(Owed(s)) /\ A(s) + D(s) <= H(s)
      BY DEF AttemptsBacked
    <3>5. /\ Owed(s)' \subseteq Owed(s) \cup {r}
          /\ req[r].to # s => Owed(s)' \subseteq Owed(s)
      BY <2>3 DEF Owed
    <3>6. /\ IsFiniteSet(Owed(s) \cup {r})
          /\ Cardinality(Owed(s) \cup {r}) <= D(s) + 1
          /\ D(s) \in Nat
      BY <3>4, OneMore
    <3>7. /\ IsFiniteSet(Owed(s)')
          /\ Cardinality(Owed(s)') \in Nat
          /\ Cardinality(Owed(s)') <= D(s) + (IF req[r].to = s THEN 1 ELSE 0)
      BY <3>4, <3>5, <3>6, FewerOwed
    <3>8. A(s) \in Nat
      BY AttemptsCounted
    <3>. QED
      BY <3>2, <3>3, <3>4, <3>6, <3>7, <3>8
  <2>. QED
    BY <2>4 DEF AttemptsBacked
<1>2. ASSUME NEW r \in Requests, RecordAttempt(r)
      PROVE  AttemptsBacked'
  <2>1. /\ attempts' = Append(attempts, AttemptRow(r)) /\ history' = history
        /\ req[r].pc = "attempt"
    BY <1>2 DEF RecordAttempt, At
  <2>2. AttemptRow(r) \in Attempt /\ AttemptRow(r).outcome = req[r].to
    BY <2>1 DEF AttemptRow, Attempt, Handlers, HandlerOK, RequestState
  <2>3. req'[r].pc # "attempt" /\ \A q \in Requests \ {r} : req'[q] = req[q]
    BY <1>2, AfterRecordingEffect DEF RecordAttempt
  <2>4. ASSUME NEW s \in Status
        PROVE  IsFiniteSet(Owed(s))' /\ A(s)' + D(s)' <= H(s)'
    <3>1. AttemptRow(r) \in AttemptsOf(s) <=> req[r].to = s
      BY <2>2 DEF AttemptsOf
    <3>2. /\ A(s) \in Nat
          /\ A(s)' = A(s) + (IF req[r].to = s THEN 1 ELSE 0)
      <4>1. AttemptsOf(s)' = AttemptsOf(s)
        BY DEF AttemptsOf
      <4>. QED
        BY <2>1, <2>2, <3>1, <4>1, WhereAppend DEF RowsOK
    <3>3. H(s)' = H(s)
      BY <2>1 DEF Where, ChangesTo
    <3>4. IsFiniteSet(Owed(s)) /\ A(s) + D(s) <= H(s)
      BY DEF AttemptsBacked
    <3>5. Owed(s)' = Owed(s) \ {r} /\ (r \in Owed(s) <=> req[r].to = s)
      BY <2>1, <2>3 DEF Owed
    <3>6. /\ IsFiniteSet(Owed(s)') /\ D(s) \in Nat
          /\ Cardinality(Owed(s)') = D(s) - (IF req[r].to = s THEN 1 ELSE 0)
      BY <3>4, <3>5, FS_RemoveElement, FS_CardinalityType
    <3>7. H(s) \in Nat
      BY ChangesCounted
    <3>. QED
      BY <3>2, <3>3, <3>4, <3>6, <3>7
  <2>. QED
    BY <2>4 DEF AttemptsBacked
<1>3. CASE \A r \in Requests : ~RecordHistory(r) /\ ~RecordAttempt(r)
  <2>1. ASSUME NEW s \in Status
        PROVE  IsFiniteSet(Owed(s))' /\ A(s)' + D(s)' <= H(s)'
    <3>1. A(s)' = A(s) /\ H(s)' = H(s) /\ Owed(s)' \subseteq Owed(s)
      BY <1>3, OwesNoMore DEF Where, AttemptsOf, ChangesTo, Owed
    <3>2. IsFiniteSet(Owed(s)) /\ A(s) + D(s) <= H(s)
      BY DEF AttemptsBacked
    <3>3. /\ IsFiniteSet(Owed(s)') /\ Cardinality(Owed(s)') <= D(s)
          /\ Cardinality(Owed(s)') \in Nat /\ D(s) \in Nat
      BY <3>1, <3>2, FewerOwed
    <3>. QED
      BY <3>1, <3>2, <3>3, AttemptsCounted, ChangesCounted
  <2>. QED
    BY <2>1 DEF AttemptsBacked
<1>. QED
  BY <1>1, <1>2, <1>3

(* AttemptsAreRecorded for every number of overlapping requests, whatever  *)
(* fails and wherever the server stops.                                    *)
THEOREM AttemptsAreBacked == Spec => []AttemptsAreRecorded
<1>1. Init => AttemptsBacked
  <2> SUFFICES ASSUME Init, NEW s \in Status
               PROVE  /\ IsFiniteSet(Owed(s))
                      /\ Cardinality(Where(attempts, AttemptsOf(s))) + Cardinality(Owed(s))
                           <= Cardinality(Where(history, ChangesTo(s)))
    BY DEF AttemptsBacked
  <2>1. /\ Owed(s) = {} /\ Where(attempts, AttemptsOf(s)) = {}
        /\ Where(history, ChangesTo(s)) = {}
    BY DEF Init, Owed, Where, IdleRequest
  <2>. QED
    BY <2>1, FS_EmptySet
<1>2. RowsOK /\ Handlers /\ AttemptsBacked /\ [Next]_vars => AttemptsBacked'
  BY AttemptsBackedNext
<1>3. RowsOK /\ AttemptsBacked => AttemptsAreRecorded
  <2> SUFFICES ASSUME RowsOK, AttemptsBacked, NEW s \in Status
               PROVE  Cardinality({i \in DOMAIN attempts : attempts[i].outcome = s})
                        <= Cardinality({i \in DOMAIN history : history[i].to = s})
    BY DEF AttemptsAreRecorded
  <2>1. /\ {i \in DOMAIN attempts : attempts[i].outcome = s} = Where(attempts, AttemptsOf(s))
        /\ {i \in DOMAIN history : history[i].to = s} = Where(history, ChangesTo(s))
    BY DEF Where, AttemptsOf, ChangesTo, RowsOK
  <2>2. Cardinality(Owed(s)) \in Nat
    BY FS_CardinalityType DEF AttemptsBacked
  <2>3. Cardinality(Where(attempts, AttemptsOf(s))) + Cardinality(Owed(s))
          <= Cardinality(Where(history, ChangesTo(s)))
    BY DEF AttemptsBacked
  <2>4. Cardinality(Where(attempts, AttemptsOf(s)))
          <= Cardinality(Where(history, ChangesTo(s)))
    <3>1. /\ Cardinality(Where(attempts, AttemptsOf(s))) \in Nat
          /\ Cardinality(Where(history, ChangesTo(s))) \in Nat
      BY AttemptsCounted, ChangesCounted
    <3>. QED
      BY <2>2, <2>3, <3>1
  <2>. QED
    BY <2>1, <2>4, Zenon
<1>. QED
  BY TypeInit, TypeNext, <1>1, <1>2, <1>3, PTL DEF Spec
-----------------------------------------------------------------------------
(* What the handlers leave behind.  A finished delivery's history row has   *)
(* been written or its handler is about to write it.                       *)

FinishedInv ==
    status \in FinishedStatuses =>
        \/ \E r \in Requests : req[r].pc = "record" /\ req[r].to = status
        \/ \E i \in DOMAIN history : history[i].to = status

(* A handler at "record" goes on only by writing its row: nothing else     *)
(* moves it, unless it is cut off.                                         *)
LEMMA RecordingStays ==
    ASSUME "abort" \notin Faults, Handlers, [Next]_vars,
           \A r \in Requests : ~RecordHistory(r)
    PROVE  /\ UNCHANGED history
           /\ \A q \in Requests : req[q].pc = "record" => req'[q] = req[q]
<1> USE DEF rows, logVars, At
<1>1. ASSUME NEW r \in Requests, req[r].pc # "record", UNCHANGED history,
             \E x : req' = [req EXCEPT ![r] = x]
      PROVE  /\ UNCHANGED history
             /\ \A q \in Requests : req[q].pc = "record" => req'[q] = req[q]
  BY <1>1 DEF Handlers
<1>2. ASSUME NEW r \in Requests,
             \/ \E to \in Status : AcceptStatusRequest(r, to)
             \/ ReadAndCheckTransition(r) \/ AssertProofPresent(r) \/ WriteStatus(r)
             \/ RecordAttempt(r) \/ PublishDeliveryEvent(r)
      PROVE  /\ req[r].pc # "record" /\ UNCHANGED history
             /\ \E x : req' = [req EXCEPT ![r] = x]
  <2>1. req[r].pc # "record" /\ UNCHANGED history
    BY <1>2 DEF AcceptStatusRequest, ReadAndCheckTransition, AssertProofPresent,
                WriteStatus, RecordAttempt, PublishDeliveryEvent
  <2>2. \E x : req' = [req EXCEPT ![r] = x]
    <3>1. CASE \E to \in Status : AcceptStatusRequest(r, to)
      BY <3>1 DEF AcceptStatusRequest
    <3>2. CASE ReadAndCheckTransition(r)
      BY <3>2 DEF ReadAndCheckTransition, Finish
    <3>3. CASE \/ AssertProofPresent(r) \/ WriteStatus(r)
               \/ RecordAttempt(r) \/ PublishDeliveryEvent(r)
      BY <3>3 DEF AssertProofPresent, WriteStatus, RecordAttempt,
                  PublishDeliveryEvent, AfterRecording, Goto, Finish
    <3>. QED
      BY <1>2, <3>1, <3>2, <3>3
  <2>. QED
    BY <2>1, <2>2
<1>3. ASSUME NEW r \in Requests,
             \/ AcceptProof(r) \/ ProofStep(r) \/ UpsertFails(r) \/ RemoveOrAuditFails(r)
      PROVE  /\ req[r].pc # "record" /\ UNCHANGED history
             /\ \E x : req' = [req EXCEPT ![r] = x]
  <2>1. req[r].pc # "record" /\ UNCHANGED history
    BY <1>3 DEF AcceptProof, ProofStep, ReadForProof, SaveProofPhoto, UpsertProof,
       RemoveOldPhoto, RecordProofAudit, UpsertFails, RemoveOrAuditFails, RemoveFailedPhoto
  <2>2. \E x : req' = [req EXCEPT ![r] = x]
    BY <1>3 DEF AcceptProof, ProofStep, ReadForProof, SaveProofPhoto, UpsertProof,
       RemoveOldPhoto, RecordProofAudit, UpsertFails, RemoveOrAuditFails,
       RemoveFailedPhoto, Goto, Finish
  <2>. QED
    BY <2>1, <2>2
<1>4. CASE UNCHANGED vars \/ \E mode \in ProofModes : SetProofMode(mode)
  BY <1>4 DEF vars, SetProofMode
<1>. QED
  BY <1>1, <1>2, <1>3, <1>4 DEF Next, StatusStep, Abort

LEMMA FinishedInvNext ==
    ASSUME "abort" \notin Faults, RowsOK, Handlers, FinishedInv, [Next]_vars
    PROVE  FinishedInv'
<1>1. ASSUME NEW r \in Requests, WriteStatus(r)
      PROVE  FinishedInv'
  <2>1. req'[r].pc = "record" /\ req'[r].to = req[r].to /\ status' = req[r].to
    BY <1>1, GotoEffect DEF WriteStatus
  <2>. QED
    BY <2>1 DEF FinishedInv
<1>2. ASSUME NEW r \in Requests, RecordHistory(r)
      PROVE  FinishedInv'
  <2>1. /\ history' = Append(history, HistoryRow(r)) /\ status' = status
        /\ \A q \in Requests \ {r} : req'[q] = req[q]
    BY <1>2, BookkeepingSteps DEF RecordHistory
  <2>2. /\ DOMAIN history = 1 .. Len(history) /\ Len(history) \in Nat
        /\ DOMAIN history' = DOMAIN history \cup {Len(history) + 1}
        /\ \A i \in DOMAIN history : history'[i] = history[i]
        /\ history'[Len(history) + 1].to = req[r].to
    <3>1. HistoryRow(r) \in Change /\ HistoryRow(r).to = req[r].to
      BY DEF HistoryRow, Change, Handlers, RequestState
    <3>. HIDE DEF HistoryRow
    <3>. QED
      BY <2>1, <3>1 DEF RowsOK
  <2>. QED
    BY <2>1, <2>2 DEF FinishedInv
<1>3. CASE \A r \in Requests : ~RecordHistory(r) /\ ~WriteStatus(r)
  <2>1. status' = status
    BY <1>3, OnlyWriteStatus
  <2>2. /\ UNCHANGED history
        /\ \A q \in Requests : req[q].pc = "record" => req'[q] = req[q]
    BY <1>3, RecordingStays
  <2>. QED
    BY <2>1, <2>2 DEF FinishedInv
<1>. QED
  BY <1>1, <1>2, <1>3

(* With any number of overlapping requests, a finished delivery is listed  *)
(* as soon as no handler is between the row's update and its history row,  *)
(* as long as no handler is cut off there.                                 *)
THEOREM FinishedAreListed ==
    ASSUME "abort" \notin Faults
    PROVE  Spec => []FinishedIsListed
<1>1. Init => FinishedInv
  BY DEF Init, FinishedInv, FinishedStatuses
<1>2. RowsOK /\ Handlers /\ FinishedInv /\ [Next]_vars => FinishedInv'
  BY FinishedInvNext
<1>3. FinishedInv => FinishedIsListed
  BY DEF FinishedInv, FinishedIsListed, InPastDeliveries, At
<1>. QED
  BY TypeInit, TypeNext, <1>1, <1>2, <1>3, PTL DEF Spec

(* The files on disk are the proof's, the one about to become the proof's  *)
(* and the one about to be removed.                                        *)
Uploading == {req[r].key : r \in {q \in Requests : req[q].pc = "upsert"}}
Removing  == {req[r].old : r \in {q \in Requests : req[q].pc = "removeOld"}}

NoStrayFile ==
    /\ files \subseteq {proof} \cup Uploading \cup Removing
    /\ \A r \in Requests : req[r].pc \in {"saveFile", "upsert"} => req[r].old = proof

LEMMA NoStrayFileNext ==
    ASSUME Serial, "abort" \notin Faults, "afterUpsert" \notin Faults,
           RowsOK, Handlers, NoStrayFile, [Next]_vars
    PROVE  NoStrayFile'
<1> USE DEF Serial, NoStrayFile, At, Uploading, Removing
<1>1. ASSUME NEW r \in Requests, ReadForProof(r)
      PROVE  NoStrayFile'
  <2>1. CASE req' = [req EXCEPT ![r].pc = "saveFile", ![r].old = proof]
    <3>1. /\ req'[r].pc = "saveFile" /\ req'[r].old = proof
          /\ req[r].pc = "readProof" /\ UNCHANGED <<files, proof>>
      BY <1>1, <2>1 DEF ReadForProof, rows, proofVars, Handlers, RequestState
    <3>. QED
      BY <3>1
  <2>2. CASE Finish(r)
    BY <1>1, <2>2, FinishEffect DEF ReadForProof, rows, proofVars
  <2>. QED
    BY <1>1, <2>1, <2>2 DEF ReadForProof
<1>2. ASSUME NEW r \in Requests, SaveProofPhoto(r)
      PROVE  NoStrayFile'
  <2>1. PICK k \in Keys \ issued :
          /\ files' = files \cup {k}
          /\ req' = [req EXCEPT ![r].pc = "upsert", ![r].key = k]
    BY <1>2 DEF SaveProofPhoto
  <2>2. proof' = proof /\ req[r].pc = "saveFile"
    BY <1>2 DEF SaveProofPhoto
  <2>3. req'[r].pc = "upsert" /\ req'[r].key = k /\ req'[r].old = req[r].old
    BY <2>1 DEF Handlers, RequestState
  <2>4. k \in Uploading'
    BY <2>3
  <2>5. files \subseteq {proof}
    BY <2>2
  <2>6. files' \subseteq {proof'} \cup Uploading' \cup Removing'
    <3>. HIDE DEF Uploading, Removing, NoStrayFile, Serial
    <3>. QED
      BY <2>1, <2>2, <2>4, <2>5
  <2>7. \A q \in Requests : q = r
    OBVIOUS
  <2>8. \A q \in Requests : req'[q].pc \in {"saveFile", "upsert"} => req'[q].old = proof'
    BY <2>2, <2>3, <2>7
  <2>. QED
    BY <2>6, <2>8
<1>3. ASSUME NEW r \in Requests, UpsertProof(r)
      PROVE  NoStrayFile'
  <2>1. /\ proof' = req[r].key /\ files' = files /\ req[r].pc = "upsert"
        /\ req[r].old = proof
    BY <1>3 DEF UpsertProof
  <2>2. req'[r].pc = "removeOld" /\ req'[r].old = req[r].old
    BY <1>3, GotoEffect DEF UpsertProof
  <2>. QED
    BY <2>1, <2>2
<1>4. ASSUME NEW r \in Requests, RemoveOldPhoto(r)
      PROVE  NoStrayFile'
  <2>1. files' = files \ {req[r].old} /\ proof' = proof /\ req[r].pc = "removeOld"
    BY <1>4 DEF RemoveOldPhoto, ReplacedPhoto
  <2>2. req'[r].pc = "audit"
    BY <1>4, GotoEffect DEF RemoveOldPhoto
  <2>. QED
    BY <2>1, <2>2
<1>5. ASSUME NEW r \in Requests, UpsertFails(r)
      PROVE  NoStrayFile'
  <2>1. files' = files \ {req[r].key} /\ proof' = proof /\ req[r].pc = "upsert"
    BY <1>5 DEF UpsertFails, RemoveFailedPhoto, FailedPhoto
  <2>2. req'[r].pc = "idle"
    BY <1>5, FinishEffect DEF UpsertFails, RemoveFailedPhoto
  <2>. QED
    BY <2>1, <2>2
<1>6. ASSUME UNCHANGED <<files, proof>>, NEW r \in Requests,
             req[r].pc \notin Replacing \ {"saveFile"},
             req'[r].pc \notin Replacing
      PROVE  NoStrayFile'
  BY <1>6 DEF Replacing
<1>7. ASSUME NEW r \in Requests,
             \/ RecordHistory(r) \/ RecordAttempt(r) \/ PublishDeliveryEvent(r)
             \/ AcceptProof(r) \/ RecordProofAudit(r)
             \/ \E to \in Status : AcceptStatusRequest(r, to)
      PROVE  NoStrayFile'
  <2>1. req[r].pc \notin Replacing
    BY <1>7 DEF RecordHistory, RecordAttempt, PublishDeliveryEvent, AcceptProof,
                RecordProofAudit, AcceptStatusRequest, Replacing
  <2>2. UNCHANGED <<files, proof>> /\ req'[r].pc \notin Replacing
    BY <1>7, BookkeepingSteps DEF Replacing
  <2>. QED
    BY <1>6, <2>1, <2>2
<1>8. ASSUME NEW r \in Requests,
             ReadAndCheckTransition(r) \/ AssertProofPresent(r) \/ WriteStatus(r)
      PROVE  NoStrayFile'
  <2>1. UNCHANGED <<files, proof>> /\ req[r].pc \notin Replacing
    BY <1>8 DEF ReadAndCheckTransition, AssertProofPresent, WriteStatus, rows,
                proofVars, Replacing
  <2>2. req'[r].pc \in {"idle", "checkProof", "write", "record"}
    <3>1. CASE ReadAndCheckTransition(r)
      BY <3>1, ReadEffect DEF IdleRequest
    <3>2. CASE AssertProofPresent(r) \/ WriteStatus(r)
      BY <3>2, GotoEffect, FinishEffect DEF AssertProofPresent, WriteStatus
    <3>. QED
      BY <1>8, <3>1, <3>2
  <2>. QED
    BY <1>6, <2>1, <2>2 DEF Replacing
<1>9. CASE UNCHANGED vars \/ \E mode \in ProofModes : SetProofMode(mode)
  BY <1>9 DEF vars, rows, proofVars, SetProofMode
<1>. QED
  BY <1>1, <1>2, <1>3, <1>4, <1>5, <1>7, <1>8, <1>9
     DEF Next, StatusStep, ProofStep, Abort, RemoveOrAuditFails

(* One request at a time, where the database may refuse a proof row but    *)
(* nothing fails after it is stored: the handlers leave no finished        *)
(* delivery unlisted and no file that no row names.                        *)
THEOREM SerialStrandsNothing ==
    ASSUME Serial, "abort" \notin Faults, "afterUpsert" \notin Faults
    PROVE  Spec => []NothingIsStranded
<1>1. Init => NoStrayFile
  BY DEF Init, NoStrayFile, IdleRequest
<1>2. RowsOK /\ Handlers /\ NoStrayFile /\ [Next]_vars => NoStrayFile'
  BY NoStrayFileNext
<1>3. NoStrayFile => NoOrphanFile
  BY DEF NoStrayFile, NoOrphanFile, At, Uploading, Removing
<1>. QED
  BY TypeInit, TypeNext, FinishedAreListed, <1>1, <1>2, <1>3, PTL
     DEF Spec, NothingIsStranded
================================================================================
