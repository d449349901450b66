-------------------------- MODULE MCHeatPthreads --------------------------
(* HeatPthreads for TLC.  Rows 1 .. 2 are the interior of a plate of four  *)
(* rows; the chunks of three threads are those RowPartition gives, so that *)
(* thread 2 owns border rows only and always finds its part in balance.    *)
EXTENDS HeatPthreads, RowPartition

MCRows == 1 .. 2
MCChunk == [t \in Threads |-> MCRows \intersect RowsOf(t, ThreadCount, 4)]
=============================================================================
