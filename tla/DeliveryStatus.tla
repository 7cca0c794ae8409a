--------------------------- MODULE DeliveryStatus ---------------------------
(***************************************************************************)
(* The delivery status enumeration and the state machine's allow-list      *)
(* (backend/src/services/deliveryStatus.service.ts), with the groups of    *)
(* statuses the other services decide on.                                  *)
(***************************************************************************)

Status == {"RECEIVED", "SORTED", "ASSIGNED", "OUT_FOR_DELIVERY", "DELIVERED",
           "RECIPIENT_UNAVAILABLE", "REJECTED", "WRONG_ADDRESS",
           "ADDRESS_NOT_FOUND", "RESCHEDULED", "RETURNED", "FAILED",
           "CANCELLED"}

(* The outcomes a postman reports at the door, other than DELIVERED.       *)
FailedAttempt == {"RECIPIENT_UNAVAILABLE", "REJECTED", "WRONG_ADDRESS",
                  "ADDRESS_NOT_FOUND", "FAILED"}

AllowedTransitions ==
    [s \in Status |->
        CASE s = "RECEIVED"         -> {"SORTED", "CANCELLED"}
          [] s = "SORTED"           -> {"ASSIGNED", "CANCELLED"}
          [] s = "ASSIGNED"         -> {"OUT_FOR_DELIVERY", "CANCELLED",
                                        "RESCHEDULED"}
          [] s = "OUT_FOR_DELIVERY" -> FailedAttempt \cup {"DELIVERED"}
          [] s = "RESCHEDULED"      -> {"OUT_FOR_DELIVERY", "CANCELLED"}
          [] s = "REJECTED"         -> {"RETURNED"}
          [] s \in FailedAttempt \ {"REJECTED"} -> {"RESCHEDULED", "RETURNED"}
          [] OTHER                  -> {}]

(* The statuses after which the postman's remaining route is re-planned.   *)
ReoptimizeTriggers ==
    {"RECIPIENT_UNAVAILABLE", "REJECTED", "WRONG_ADDRESS", "CANCELLED"}

(* "Finished" for overrideAssignment and the bulk endpoint.                *)
TerminalStatuses == {"DELIVERED", "RETURNED", "CANCELLED"}

(* Statuses whose beat and postman the automatic assignment may set.       *)
AutoAssignable == {"SORTED", "ASSIGNED", "RESCHEDULED"}
=============================================================================
