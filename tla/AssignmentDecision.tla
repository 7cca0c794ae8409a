------------------------- MODULE AssignmentDecision -------------------------
(***************************************************************************)
(* From evidence to a verdict: how sure the name match is (classify in     *)
(* beatMatcher.ts) and what is decided from it together with the location  *)
(* and the verified territories around it (assignmentDecision.ts).         *)
(* A candidate is [beat, score]: a beat and the points of its best row of  *)
(* the beat list.  Of two candidates with one score the code takes the     *)
(* lower beat number; here it is any fixed choice.                         *)
(***************************************************************************)
EXTENDS Naturals, FiniteSets

High == 65          \* points to assign by name alone
Medium == 45        \* points for a suggestion
Margin == 15        \* lead over the next beat
NearbyM == 300      \* metres from a delivery the postman already has

isStrong(p) == p = "HOUSE"
isUsable(p) == p \in {"HOUSE", "STREET"}

Best(candidates) == CHOOSE c \in candidates : \A o \in candidates : o.score <= c.score
SlipNoRunnerUp(c, candidates) == c.score
Ahead(c, candidates) ==     \* the lead of c over the best of the others
    c.score - (IF candidates = {c} THEN 0 ELSE Best(candidates \ {c}).score)
Contenders(candidates) ==
    {c \in candidates : Best(candidates).score - c.score < Margin}

Level(candidates) ==
    IF candidates = {} THEN "NONE"
    ELSE LET best == Best(candidates) IN
         IF best.score < Medium THEN "LOW"
         ELSE IF Ahead(best, candidates) < Margin THEN "AMBIGUOUS"
         ELSE IF best.score >= High THEN "HIGH" ELSE "MEDIUM"

Assign(b, method) == [action |-> "ASSIGN", beat |-> b, by |-> method]
Exception(reason) == [action |-> "EXCEPTION", reason |-> reason]

(* "Exactly one candidate postman already has a delivery this close":      *)
(* nearest maps the beats that have a postman to a distance in metres.     *)
TieBreak(territories, nearest) ==
    LET near == {b \in territories \cap DOMAIN nearest : nearest[b] <= NearbyM} IN
    IF Cardinality(near) = 1 THEN Assign(CHOOSE b \in near : TRUE, "TERRITORY")
    ELSE Exception("MULTIPLE_BEAT_MATCH")

(* The name evidence is weak or missing: only a house-level location in    *)
(* one verified territory may decide.                                      *)
DecideByPlace(candidates, precision, territories, nearest) ==
    IF isStrong(precision)
      THEN IF Cardinality(territories) = 1
             THEN Assign(CHOOSE b \in territories : TRUE, "TERRITORY")
           ELSE IF territories # {} THEN TieBreak(territories, nearest)
           ELSE Exception("NO_BEAT_MATCH")
      ELSE IF precision = "NONE" /\ candidates = {} THEN Exception("GEOCODING_FAILED")
           ELSE Exception("WEAK_LOCATION")

(* territories are the verified ones that contain the point; they are not  *)
(* looked up for an unusable location.                                     *)
decideAssignment(candidates, precision, found, nearest) ==
    LET territories == IF isUsable(precision) THEN found ELSE {}
        level == Level(candidates)
        best  == Best(candidates)
        Only(b) == territories = {b}        \* the point is in b alone
        elsewhere == Cardinality(territories) = 1 /\ ~Only(best.beat)
        settled == {c \in Contenders(candidates) : Only(c.beat)}
    IN CASE level = "HIGH" ->
              IF isStrong(precision) /\ elsewhere THEN Exception("AMBIGUOUS_MATCH")
              ELSE Assign(best.beat, IF Only(best.beat) THEN "NAME_AND_TERRITORY" ELSE "NAME")
         [] level = "MEDIUM" ->
              IF Only(best.beat) THEN Assign(best.beat, "NAME_AND_TERRITORY")
              ELSE Exception("LOW_CONFIDENCE_MATCH")
         [] level = "AMBIGUOUS" ->
              IF isStrong(precision) /\ settled # {}
                THEN Assign((CHOOSE c \in settled : TRUE).beat, "NAME_AND_TERRITORY")
                ELSE Exception("AMBIGUOUS_MATCH")
         [] OTHER -> DecideByPlace(candidates, precision, territories, nearest)
=============================================================================
