---------------------------- MODULE HeatPthreads ----------------------------
(***************************************************************************)
(* homeworks/pthreads: every thread of the team computes the rows of its   *)
(* own block, Chunk[t], in each iteration.                                 *)
(***************************************************************************)
EXTENDS HeatTeam

CONSTANT Chunk     (* the rows of each thread                              *)

Rows == Units

ASSUME ChunkAssumption ==
  /\ Chunk \in [Threads -> SUBSET Rows]
  /\ \A r \in Rows : \E t \in Threads : r \in Chunk[t]
  /\ \A t, u \in Threads : t # u => Chunk[t] \intersect Chunk[u] = {}

(* The loop over the thread's rows.  A thread without interior rows leaves *)
(* localIsBalanced as it was, 1.                                           *)
ComputeRows(t) ==
  /\ Goto(t, "compute", "and")
  /\ age' = [age EXCEPT ![newPlate[t]] =
               [r \in Rows |-> IF r \in Chunk[t]
                               THEN age[currentPlate[t]][r] + 1 ELSE @[r]]]
  /\ \E outcome \in IF Chunk[t] = {} THEN {localIsBalanced[t]} ELSE Outcomes :
       localIsBalanced' = [localIsBalanced EXCEPT ![t] = outcome]
  /\ rounds' = [rounds EXCEPT ![t] = @ + 1]
  /\ UNCHANGED <<mainVars, currentPlate, newPlate, readPlate, writePlate,
                 isBalanced, totalIterations, barrier>>

ThreadStep(t) == CommonStep(t) \/ ComputeRows(t) \/ Decide(t)

Next == MainStep \/ \E t \in Threads : ThreadStep(t)

(* Every thread that can take a step eventually does: the kernel schedules *)
(* all of them.                                                            *)
Fairness ==
  /\ WF_vars(MainStep)
  /\ \A t \in Threads : WF_vars(ThreadStep(t))

Spec == Init /\ [][Next]_vars /\ Fairness

-----------------------------------------------------------------------------
(* A thread that has computed the iteration has updated its rows.          *)
ChunkInv ==
  \A t \in Threads : rounds[t] = totalIterations + 1 =>
    \A r \in Chunk[t] : age[writePlate][r] = totalIterations + 1

(* The inductive invariant: the barrier keeps the threads in one half of   *)
(* it, and that keeps plates, flags and iteration counts in step           *)
(* (calcNewTemperature() as a whole).                                      *)
IInv == TeamInv /\ ChunkInv
=============================================================================
