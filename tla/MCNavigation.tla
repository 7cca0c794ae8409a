---------------------------- MODULE MCNavigation ----------------------------
(* A door up a street that starts at a crossing. By bicycle the way from    *)
(* the crossing leads along a lane, back again, and only then up the street.*)
EXTENDS Navigation, TLC

Crossing == <<60, 0>>
LaneEnd == <<120, 0>>
South == <<60, -60>>
AtTheDoor == <<60, 130>>
TheDoor == <<60, 150>>
Lane == {<<60, 0>>, <<80, 8>>, <<100, 8>>, <<120, 0>>}
UpTheStreet == <<60, 25>>
Corner(p) == <<60, p[2]>>

Step(kind, geometry) == [kind |-> kind, geometry |-> geometry]
ByFoot(p) == <<Step("depart", <<p, Corner(p)>>), Step("turn", <<Corner(p), TheDoor>>), Step("arrive", <<TheDoor, TheDoor>>)>>
ByBike(p) == IF p # Crossing THEN ByFoot(p)
             ELSE <<Step("depart", <<Crossing, LaneEnd>>), Step("turn", <<LaneEnd, Crossing>>),
                    Step("turn", <<Crossing, TheDoor>>), Step("arrive", <<TheDoor, TheDoor>>)>>
Starts == Lane \cup {South, UpTheStreet, AtTheDoor}
Map == "BIKE" :> [p \in Starts |-> ByBike(p)] @@ "FOOT" :> [p \in Starts |-> ByFoot(p)]

TwoModes == {"BIKE", "FOOT"}
Situations ==
    {\* a shaky network and engine, fixes on and off the way
     [mode |-> "BIKE", modes |-> TwoModes, recent |-> Unknown, noGps |-> FALSE, gpsChanges |-> FALSE, engine |-> "shaky",
      places |-> {Crossing, South}, accuracies |-> {10}],
     \* no engine, vague fixes, GPS taken away and given
     [mode |-> "FOOT", modes |-> {}, recent |-> Somewhere(South), noGps |-> TRUE, gpsChanges |-> TRUE, engine |-> "none",
      places |-> {Crossing, AtTheDoor}, accuracies |-> {10, 60}],
     \* a ride along the lane and back
     [mode |-> "BIKE", modes |-> {}, recent |-> Somewhere(Crossing), noGps |-> FALSE, gpsChanges |-> FALSE, engine |-> "up",
      places |-> Lane \cup {UpTheStreet, AtTheDoor}, accuracies |-> {10}]}
=============================================================================
