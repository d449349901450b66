----------------------------- MODULE HeatDynamic -----------------------------
(***************************************************************************)
(* homeworks/optimized with its default, dynamic mapping: the threads of   *)
(* the team take the cells of the plate one by one from a shared counter,  *)
(* which the last thread to arrive at the barrier sets back to 0 when      *)
(* another iteration follows.                                              *)
(***************************************************************************)
EXTENDS HeatTeam

CONSTANT TotalCells    (* rows * cols, the border included                 *)

ASSUME CellsAssumption ==
  /\ TotalCells \in Nat
  /\ Units \subseteq 0 .. TotalCells - 1    (* the interior cells          *)

VARIABLES
  currentCell,    (* sharedData->currentCell: the next cell to take        *)
  myCell          (* thread-local: the interior cell being computed        *)

NoCell == -1

cellVars    == <<currentCell, myCell>>
dynamicVars == <<vars, cellVars>>

DynamicInit ==
  /\ Init
  /\ currentCell = 0
  /\ myCell = [t \in Threads |-> NoCell]

(* Mutant of TakeCell: the counter is incremented without its mutex, so    *)
(* that an increment may be lost.                                          *)
TakeCellUnlocked(t) ==
  /\ pc[t] = "compute"
  /\ myCell[t] = NoCell
  /\ currentCell' \in {currentCell, currentCell + 1}
  /\ IF currentCell >= TotalCells
     THEN /\ Goto(t, "compute", "and")
          /\ rounds' = [rounds EXCEPT ![t] = @ + 1]
          /\ UNCHANGED myCell
     ELSE /\ myCell' = [myCell EXCEPT ![t] = IF currentCell \in Units
                                             THEN currentCell ELSE NoCell]
          /\ UNCHANGED <<pc, rounds>>
  /\ UNCHANGED <<mainVars, currentPlate, newPlate, localIsBalanced, plateVars,
                 barrier>>

(* Mutant of TakeCell: the border is not skipped.                          *)
TakeAnyCell(t) ==
  /\ pc[t] = "compute"
  /\ myCell[t] = NoCell
  /\ currentCell' = currentCell + 1
  /\ IF currentCell >= TotalCells
     THEN /\ Goto(t, "compute", "and")
          /\ rounds' = [rounds EXCEPT ![t] = @ + 1]
          /\ UNCHANGED myCell
     ELSE /\ myCell' = [myCell EXCEPT ![t] = currentCell]
          /\ UNCHANGED <<pc, rounds>>
  /\ UNCHANGED <<mainVars, currentPlate, newPlate, localIsBalanced, plateVars,
                 barrier>>

(* Read the counter and increment it, under its mutex.  A border cell is   *)
(* skipped, and past the last cell the thread's work is over.              *)
TakeCell(t) ==
  /\ pc[t] = "compute"
  /\ myCell[t] = NoCell
  /\ currentCell' = currentCell + 1
  /\ IF currentCell >= TotalCells
     THEN /\ Goto(t, "compute", "and")
          /\ rounds' = [rounds EXCEPT ![t] = @ + 1]
          /\ UNCHANGED myCell
     ELSE /\ myCell' = [myCell EXCEPT ![t] = IF currentCell \in Units
                                             THEN currentCell ELSE NoCell]
          /\ UNCHANGED <<pc, rounds>>
  /\ UNCHANGED <<mainVars, currentPlate, newPlate, localIsBalanced, plateVars,
                 barrier>>

(* The new temperature of the cell, and whether it moved too much.         *)
ComputeCell(t) ==
  /\ pc[t] = "compute"
  /\ myCell[t] # NoCell
  /\ age' = [age EXCEPT ![newPlate[t]][myCell[t]] =
               age[currentPlate[t]][myCell[t]] + 1]
  /\ \E outcome \in Outcomes :
       localIsBalanced' = [localIsBalanced EXCEPT ![t] = @ /\ outcome]
  /\ myCell' = [myCell EXCEPT ![t] = NoCell]
  /\ UNCHANGED <<mainVars, pc, currentPlate, newPlate, rounds, readPlate,
                 writePlate, isBalanced, totalIterations, barrier,
                 currentCell>>

(* Mutant of DecideAndReset: the counter is not set back.                  *)
DecideOnly(t) == Decide(t) /\ UNCHANGED cellVars

(* The decision also sets the counter back, but only to go on.             *)
DecideAndReset(t) ==
  /\ Decide(t)
  /\ currentCell' = IF isBalanced[writePlate] = 0 THEN 0 ELSE currentCell
  /\ UNCHANGED myCell

DynamicThreadStep(t) ==
  \/ CommonStep(t) /\ UNCHANGED cellVars
  \/ TakeCell(t)
  \/ ComputeCell(t)
  \/ DecideAndReset(t)

DynamicMainStep == MainStep /\ UNCHANGED cellVars

DynamicNext == DynamicMainStep \/ \E t \in Threads : DynamicThreadStep(t)

(* As in HeatPthreads, every thread that can take a step eventually does.  *)
DynamicFairness ==
  /\ WF_dynamicVars(DynamicMainStep)
  /\ \A t \in Threads : WF_dynamicVars(DynamicThreadStep(t))

DynamicSpec ==
  DynamicInit /\ [][DynamicNext]_dynamicVars /\ DynamicFairness

-----------------------------------------------------------------------------
(* Types.                                                                  *)
CellsTypeOK ==
  /\ currentCell \in Nat
  /\ myCell \in [Threads -> Units \union {NoCell}]

(* Every interior cell is computed once per iteration: a cell a thread is  *)
(* about to write is nobody else's and has not been written yet, although  *)
(* the reset of the counter does not take the counter's mutex.             *)
CellComputedOnce ==
  \A t \in Threads : myCell[t] # NoCell =>
    /\ age[newPlate[t]][myCell[t]] < totalIterations + 1
    /\ \A u \in Threads : u # t => myCell[u] # myCell[t]

(* The counter runs past the plate once per thread at most, so that it     *)
(* cannot wrap around.                                                     *)
CounterBounded == currentCell <= TotalCells + ThreadCount

-----------------------------------------------------------------------------
(* The inductive invariant, for the dynamic mapping as a whole.            *)

(* A cell is held by a thread at work and is behind the counter.           *)
HeldInv ==
  \A t \in Threads : myCell[t] # NoCell =>
    pc[t] = "compute" /\ myCell[t] < currentCell

(* A cell behind the counter is computed or held, any other is not.        *)
CounterInv ==
  \A x \in Units :
    IF x < currentCell
    THEN age[writePlate][x] = totalIterations + 1
         \/ \E t \in Threads : myCell[t] = x
    ELSE age[writePlate][x] < totalIterations + 1

(* When some thread has ended its part the counter is past the plate.      *)
EndedInv ==
  \A t \in Threads :
    rounds[t] = totalIterations + 1 => currentCell >= TotalCells

CellsInv ==
  CellsTypeOK /\ CellComputedOnce /\ HeldInv /\ CounterInv /\ EndedInv

DynamicIInv == TeamInv /\ CellsInv
=============================================================================
