----------------------------- MODULE MCHeatMpi -----------------------------
(* HeatMpi for TLC: plates of one and of two rows, so that equal tags      *)
(* belong to different parts of a result, and of two widths.               *)
EXTENDS HeatMpi

MCShape == [j \in Jobs |-> [rows |-> 1 + (j % 2), cols |-> 3 + ((j \div 2) % 2)]]
=============================================================================
