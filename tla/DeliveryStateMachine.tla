------------------------ MODULE DeliveryStateMachine ------------------------
(***************************************************************************)
(* What the delivery status service promises: a delivery's status moves    *)
(* only along the allow-list, every move is logged as it happens, and a    *)
(* delivery whose post office requires proof is completed only once a      *)
(* proof, taken while it was out for delivery, is stored.                  *)
(***************************************************************************)
EXTENDS DeliveryStatus, Sequences

CONSTANT ProofRequired      \* the post office asks for a photo or signature

VARIABLES status,           \* the delivery's status
          log,              \* its status history, oldest first
          proven            \* a proof of delivery is stored

machineVars == <<status, log, proven>>

Init == /\ status \in {"RECEIVED", "ASSIGNED"}
        /\ log = <<>>
        /\ proven = FALSE

Move(to) ==
    /\ to \in AllowedTransitions[status]
    /\ (to = "DELIVERED" /\ ProofRequired) => proven
    /\ status' = to
    /\ log' = Append(log, [from |-> status, to |-> to])
    /\ UNCHANGED proven

AddProof ==
    /\ status = "OUT_FOR_DELIVERY"
    /\ proven' = TRUE
    /\ UNCHANGED <<status, log>>

Next == AddProof \/ \E to \in Status : Move(to)

Spec == Init /\ [][Next]_machineVars
=============================================================================
