------------------------------- MODULE JobFarm -------------------------------
(***************************************************************************)
(* What the distributed heat simulation promises: every job is given to    *)
(* one worker, a worker has one job at a time, each result is stored once  *)
(* and the report is written when all of them are.  HeatMpi implements     *)
(* this specification when its sends are synchronous.                      *)
(***************************************************************************)
CONSTANTS Jobs, Workers

VARIABLES jobs,      (* the jobs there are                                 *)
          waiting,   (* jobs not given to anybody                          *)
          doing,     (* the jobs in each worker's hands                    *)
          stored,    (* jobs whose own result is in the table              *)
          reported   (* the report has been written                        *)

vars == <<jobs, waiting, doing, stored, reported>>

Init ==
  /\ jobs \in SUBSET Jobs
  /\ waiting = jobs
  /\ doing = [w \in Workers |-> {}]
  /\ stored = {}
  /\ reported = FALSE

Give(w, j) ==
  /\ doing[w] = {}
  /\ j \in waiting
  /\ waiting' = waiting \ {j}
  /\ doing' = [doing EXCEPT ![w] = {j}]
  /\ UNCHANGED <<jobs, stored, reported>>

Store(w) ==
  /\ doing[w] # {}
  /\ stored' = stored \union doing[w]
  /\ doing' = [doing EXCEPT ![w] = {}]
  /\ UNCHANGED <<jobs, waiting, reported>>

Report ==
  /\ ~reported
  /\ stored = jobs
  /\ reported' = TRUE
  /\ UNCHANGED <<jobs, waiting, doing, stored>>

Next ==
  \/ \E w \in Workers : Store(w) \/ \E j \in Jobs : Give(w, j)
  \/ Report

Spec == Init /\ [][Next]_vars
=============================================================================
