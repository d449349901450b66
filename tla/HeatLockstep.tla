---------------------------- MODULE HeatLockstep ----------------------------
(***************************************************************************)
(* What the parallel heat simulations promise: the plate is computed one   *)
(* iteration at a time.  Each worker computes its part of an iteration     *)
(* once, nobody starts the next iteration before everybody has finished    *)
(* this one, and the simulation stops at the first iteration, after the    *)
(* WarmUp first ones, in which every worker saw its part in balance.       *)
(*                                                                         *)
(* Threads, locks, semaphores and plates do not appear here: HeatPthreads  *)
(* implements this specification with WarmUp = 2 and HeatDynamic with its  *)
(* own mapping of cells to threads.                                        *)
(***************************************************************************)
EXTENDS Naturals

CONSTANTS Workers,    (* who computes                                      *)
          WarmUp      (* iterations whose balance is never believed        *)

VARIABLES iteration,  (* the iteration being computed, from 1              *)
          computed,   (* the workers that have finished their part of it   *)
          calm,       (* every finished part of it was in balance          *)
          status      (* "running" until the plate is declared balanced    *)

vars == <<iteration, computed, calm, status>>

Init ==
  /\ iteration = 1
  /\ computed = {}
  /\ calm = TRUE
  /\ status = "running"

(* Worker w finishes its part of the iteration; the data decides whether   *)
(* the part was in balance.                                                *)
FinishPart(w) ==
  /\ status = "running"
  /\ w \notin computed
  /\ computed' = computed \union {w}
  /\ calm' \in {calm, FALSE}
  /\ UNCHANGED <<iteration, status>>

Balanced == calm /\ iteration > WarmUp

(* The iteration is complete and some part was still moving.               *)
NextIteration ==
  /\ status = "running"
  /\ computed = Workers
  /\ ~Balanced
  /\ iteration' = iteration + 1
  /\ computed' = {}
  /\ calm' = TRUE
  /\ UNCHANGED status

(* The iteration is complete and every part was in balance.                *)
DeclareBalanced ==
  /\ status = "running"
  /\ computed = Workers
  /\ Balanced
  /\ status' = "balanced"
  /\ UNCHANGED <<iteration, computed, calm>>

Next ==
  \/ \E w \in Workers : FinishPart(w)
  \/ NextIteration
  \/ DeclareBalanced

Spec == Init /\ [][Next]_vars
=============================================================================
