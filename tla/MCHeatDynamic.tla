--------------------------- MODULE MCHeatDynamic ---------------------------
(* HeatDynamic for TLC: a plate of three rows and four columns, whose      *)
(* interior cells are 5 and 6.                                             *)
EXTENDS HeatDynamic

MCUnits == {5, 6}
=============================================================================
