---------------------------- MODULE MCPostOffice ----------------------------
(* MCAdministration, or the same office with a street that its two beats    *)
(* share: three houses, d1 in both territories, d2 in the first and as far  *)
(* from d1 as counts for close by, d3 in the second and a little too far.   *)
(* Nothing has a name there, so only places and neighbours tell.            *)
EXTENDS MCAdministration

CONSTANTS d2, d3

Houses3 == {d1, d2, d3}
Letters3 == [d \in Houses3 |-> Received(Nameless)]
Places3 == [d \in Houses3 |-> [precision |-> "HOUSE", within |->
              CASE d = d1 -> {s1, s2} [] d = d2 -> {s1} [] d = d3 -> {s2}]]
Metres3 == d1 :> (d2 :> 300 @@ d3 :> 310) @@ d2 :> (d1 :> 300 @@ d3 :> 120) @@ d3 :> (d1 :> 310 @@ d2 :> 120)
StreetBounds == {"create", "status", "deliver"} :> 5

Street == INSTANCE BeatOffice WITH
              Deliveries <- Houses3, Address <- Letters3, Place <- Places3, Distance <- Metres3,
              Localities <- {}, Areas <- {}, Words <- Empty :> <<>>, Rows <- <<>>,
              Worlds <- DOMAIN StreetBounds, MaxRequests <- StreetBounds

InStreet == DOMAIN parcel = Houses3

StartStreet == Street!Init /\ Staff!InitIn(Nothing)
StreetStep == InStreet /\ Street!Next /\ UNCHANGED staffVars

PostOffice ==
    /\ OfficeOrStaff \/ StartStreet
    /\ [][(~InStreet /\ (OfficeStep \/ StaffStep)) \/ StreetStep]_<<vars, staffVars>>

(* WaitingIsUnknown of the street: where two beats claim a house, the       *)
(* parcels that their postmen already have close by decide                  *)
(* (assignment.service.ts, nearestActiveDeliveryDistanceM), so none waits   *)
(* that they could place, unless one of them moved after it was matched.    *)
NeighboursDecide == InStreet => Street!WaitingIsUnknown
=============================================================================
