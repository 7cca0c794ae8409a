------------------------- MODULE MCDeliveryLifecycle -------------------------
(* Small instances of DeliveryLifecycle for TLC.                            *)
EXTENDS DeliveryLifecycle, TLC

(* Handler slots, storage keys and postmen are interchangeable.             *)
Symmetry == Permutations(Requests) \cup Permutations(Keys)
=============================================================================
