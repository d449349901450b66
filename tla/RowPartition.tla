---------------------------- MODULE RowPartition ----------------------------
(***************************************************************************)
(* The static mapping of rows to threads in calcNewTemperature()           *)
(* (homeworks/pthreads): blocks of rows \div n rows, the first rows % n of *)
(* them one row longer.                                                    *)
(***************************************************************************)
EXTENDS Integers

(* startRow of thread t of n.                                              *)
StartRow(t, n, rows) ==
  IF t < rows % n
  THEN t * ((rows \div n) + 1)
  ELSE t * (rows \div n) + (rows % n)

(* endRow of thread t of n: the first row after its block.                 *)
EndRow(t, n, rows) ==
  IF t < rows % n
  THEN StartRow(t, n, rows) + (rows \div n) + 1
  ELSE StartRow(t, n, rows) + (rows \div n)

RowsOf(t, n, rows) ==
  {r \in 0 .. rows - 1 : StartRow(t, n, rows) <= r /\ r < EndRow(t, n, rows)}

-----------------------------------------------------------------------------
(* C's / and %, which truncate towards zero, for a divisor above zero.     *)
Quot(a, b) == IF a >= 0 THEN a \div b ELSE -((-a) \div b)
Rem(a, b)  == IF a >= 0 THEN a % b ELSE -((-a) % b)

CalculateStart(rank, end, workers, begin) ==
  LET range     == end - begin
      extraWork == IF Rem(range, workers) < rank THEN Rem(range, workers) ELSE rank
  IN  begin + rank * Quot(range, workers) + extraWork

CalculateFinish(rank, end, workers, begin) == CalculateStart(rank + 1, end, workers, begin)

(* The indexes of the loop of a process.                                   *)
ProcessRange(rank, end, workers, begin) ==
  {index \in Int : /\ CalculateStart(rank, end, workers, begin) <= index
                   /\ index < CalculateFinish(rank, end, workers, begin)}
=============================================================================
