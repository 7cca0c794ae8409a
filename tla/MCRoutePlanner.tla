--------------------------- MODULE MCRoutePlanner ---------------------------
(* Small instances of RoutePlanner for TLC.                                 *)
EXTENDS RoutePlanner
=============================================================================
