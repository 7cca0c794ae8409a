-------------------------- MODULE MCBeatListWizard --------------------------
(* A directory with a title above its header, a column without one, offices *)
(* written in several ways, a row of an unknown beat, one of another office *)
(* and one whose territory cannot be read; a file that is empty.            *)
EXTENDS BeatListWizard

NoText == Empty
Directory ==
    << <<"Beats of Bhandup", NoText, NoText, NoText, NoText, NoText>>,
       <<"Beat No", "Locality", "Area", "Office", "Boundary", NoText>>,
       <<"20", "Farid Nagar", NoText, "Bhandup West SO", NoText, NoText>>,
       <<"20", "Farid Nagar", "Sai Chawl", NoText, "wkt", "corner">>,
       <<"21", "Farid Nagar", NoText, "bhw", NoText, NoText>>,
       <<"21", "Farid Nagar", NoText, "Bhandup West", NoText, NoText>>,
       <<NoText, NoText, NoText, NoText, NoText, NoText>>,
       <<NoText, "Tembipada", NoText, NoText, NoText, NoText>>,
       <<"22", "Tembipada", NoText, "Mulund", NoText, NoText>>,
       <<"23", "Tembipada", NoText, NoText, "doodle", NoText>> >>
TheFiles == [directory |-> Directory, empty |-> <<>>]

Headers ==
    "Beat No" :> "beatNumber" @@ "Locality" :> "locality" @@ "Area" :> "mainArea" @@ "Office" :> "postOffice"
      @@ "Boundary" :> "territory"
TheNumberLike == {"Beat Code"}
TheOffices == {[id |-> "bw", name |-> <<"BHANDUP", "WEST", "PO">>, code |-> <<"BHW">>],
               [id |-> "mu", name |-> <<"MULUND", "PO">>, code |-> <<"MUL">>]}
TheWords == "Bhandup West SO" :> <<"BHANDUP", "WEST", "SO">> @@ "Bhandup West" :> <<"BHANDUP", "WEST">>
              @@ "bhw" :> <<"BHW">> @@ "Mulund" :> <<"MULUND">>
              @@ "Farid Nagar" :> <<"FARID", "NAGAR">> @@ "Tembipada" :> <<"TEMBIPADA">>
Shape(format, area) == [format |-> format, closed |-> TRUE, simple |-> TRUE, area |-> area, distance |-> 900]
TheSurvey == "wkt" :> Shape("WKT", 250000) @@ "doodle" :> Shape("GEOJSON", 12) @@ "corner" :> Shape("unreadable", 0)

TheBeats == "21" :> {}
TwoBounds == {[lists |-> 1, changes |-> 2], [lists |-> 2, changes |-> 0]}
TheColumns == {<<"mainArea", NoColumn>>, <<"postOffice", NoColumn>>}
=============================================================================
