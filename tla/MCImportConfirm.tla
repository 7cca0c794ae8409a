--------------------------- MODULE MCImportConfirm ---------------------------
(* Two files that share a tracking id; the second mapping reads another     *)
(* column, so that a row changes its id, loses it, or repeats one.          *)
EXTENDS ImportConfirm, TLC

CONSTANTS i1, i2, a, b, c

TwoRows == 1..2
Files ==
    [m1 |-> (i1 :> <<a, b>> @@ i2 :> <<b, NoId>>),
     m2 |-> (i1 :> <<c, c>> @@ i2 :> <<b, NoId>>)]
=============================================================================
