----------------------------- MODULE MCGeocoding -----------------------------
(* Three parcels to one house, the third with another second line, and a    *)
(* fourth next door whose address is too vague to learn from.               *)
EXTENDS Geocoding, TLC

CONSTANTS p1, p2, p3, p4, k1, nokey, lane, hall, full, suite, vague, j1, j2

TheKey == p1 :> k1 @@ p2 :> k1 @@ p3 :> k1 @@ p4 :> nokey
TheLine == p1 :> lane @@ p2 :> lane @@ p3 :> lane @@ p4 :> hall
AllFields == p1 :> full @@ p2 :> full @@ p3 :> suite @@ p4 :> vague
Area == p1 :> TRUE @@ p2 :> TRUE @@ p3 :> TRUE @@ p4 :> FALSE
Door == [p \in Parcels |-> 20]

Osm(postcode, numbered, kind, class) ==
    [postcode |-> postcode, numbered |-> numbered, kind |-> kind, class |-> class]
OsmMatches == {Osm(FALSE, TRUE, "other", "place"), Osm(FALSE, FALSE, "house", "building"),
               Osm(FALSE, FALSE, "other", "highway"), Osm(FALSE, FALSE, "yes", "place"), Osm(TRUE, TRUE, "other", "place")}
Google(postcode, located, point, route) ==
    [postcode |-> postcode, location |-> located, point |-> point, route |-> route]
GoogleMatches == {Google(FALSE, "ROOFTOP", TRUE, FALSE), Google(FALSE, "RANGE_INTERPOLATED", FALSE, TRUE),
                  Google(FALSE, "APPROXIMATE", FALSE, TRUE), Google(FALSE, "ROOFTOP", FALSE, FALSE), Google(TRUE, "APPROXIMATE", FALSE, FALSE)}

NewRows == [p \in Parcels |-> Absent]
Failed == [Absent EXCEPT !.status = "FAILED"]
OldRow == [status |-> "SUCCESS", at |-> AreaCentre, source |-> "area", precision |-> "NONE"]
NoFixes == [p \in Parcels |-> {}]
Good(at) == [at |-> at, accuracy |-> 20]
Serial == p1 :> {Good(0), [at |-> 0, accuracy |-> 51]} @@ p2 :> {Good(120), [at |-> 0, accuracy |-> Unstated]}
          @@ p3 :> {Good(140), Good(220)} @@ p4 :> {Good(0)}
AtOnce == p1 :> {Good(0)} @@ p2 :> {Good(120)} @@ p3 :> {Good(140)} @@ p4 :> {}

Situation(jobs, parcels, provider, matches, refusals, rows, fixes, overlap, stops, n) ==
    [jobs |-> jobs, parcels |-> parcels, provider |-> provider, matches |-> matches, refusals |-> refusals,
     rows |-> rows, fixes |-> fixes, overlap |-> overlap, stops |-> stops, lookups |-> n]

TwoJobs == {j1, j2}
FewMatches == {Osm(FALSE, TRUE, "other", "place"), Osm(FALSE, FALSE, "other", "highway")}
OneMatch == {Osm(FALSE, TRUE, "other", "place")}
TheSituations ==
    {\* overlapping calls that meet every answer of the provider
     Situation(TwoJobs, {p1, p4}, "nominatim", OneMatch, {"limited"}, [NewRows EXCEPT ![p4] = Failed], NoFixes, FALSE, FALSE, 2),
     Situation(TwoJobs, {p1, p4}, "google", GoogleMatches, {}, [NewRows EXCEPT ![p4] = Failed], NoFixes, FALSE, FALSE, 2),
     \* one at a time, with stops
     Situation({j1}, {p1, p3}, "nominatim", OsmMatches, {"limited", "denied"}, [NewRows EXCEPT ![p1] = Failed], NoFixes, FALSE, TRUE, 3),
     \* retries of rows from before precisions were stored
     Situation(TwoJobs, {p1, p2, p3}, "nominatim", FewMatches, {}, [NewRows EXCEPT ![p1] = OldRow, ![p3] = Failed], NoFixes, FALSE, FALSE, 2),
     \* deliveries that teach, one after the other and overlapping
     Situation({j1}, {p2}, "none", {}, {}, [p \in Parcels |-> Failed], Serial, FALSE, TRUE, 1),
     Situation({j1}, {p3}, "nominatim", FewMatches, {}, [NewRows EXCEPT ![p1] = Failed, ![p2] = OldRow, ![p3] = Failed], AtOnce, TRUE, FALSE, 1),
     \* what was learned is read, and then cannot be
     Situation({j1}, {p1}, "none", {}, {}, [NewRows EXCEPT ![p1] = Failed], [NoFixes EXCEPT ![p1] = {Good(0)}], FALSE, FALSE, 2)}
=============================================================================
