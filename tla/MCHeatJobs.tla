----------------------------- MODULE MCHeatJobs -----------------------------
(* HeatJobs for TLC: three plates, two of which differ in the extension    *)
(* only.                                                                   *)
EXTENDS HeatJobs

MCPlates == {<<"p1", "bin">>, <<"p1", "txt">>, <<"p2", "bin">>}
=============================================================================
