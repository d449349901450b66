------------------------------ MODULE TaskTeam ------------------------------
(***************************************************************************)
(* A team of threads with one routine each, ordered by semaphores: the     *)
(* thread team of examples/pthreads/building_tasks/src/ethread.c running   *)
(* routines of the shape all those of main.c have: wait for some           *)
(* semaphores, work, post some semaphores.  BuildingTasks gives the        *)
(* routines of the program.                                                *)
(***************************************************************************)
EXTENDS Naturals, Sequences, FiniteSets

CONSTANTS
  Team,           (* the routines, in the order add_thread receives them   *)
  Capacity,       (* what reserve_threads reserves                         *)
  Semaphores,     (* all of them start at zero                             *)
  Waits,          (* Waits[t]: the semaphores routine t waits for          *)
  Posts,          (* Posts[t]: the semaphores it posts                     *)
  Dependencies,   (* Dependencies[t]: what must be complete before t       *)
  MaxFailures     (* how many calls of pthread_create may fail             *)

Tasks == {Team[i] : i \in DOMAIN Team}
PostedBy(u, s) == \E k \in DOMAIN Posts[u] : Posts[u][k] = s
WaitedBy(t, s) == \E k \in DOMAIN Waits[t] : Waits[t][k] = s

(* A semaphore belongs to the routine that posts it, and whoever depends   *)
(* on a routine waits for one of its semaphores.                           *)
ASSUME TeamAssumption ==
  /\ Team \in Seq(Tasks)
  /\ \A i, j \in DOMAIN Team : Team[i] = Team[j] => i = j
  /\ Capacity \in Nat /\ Len(Team) <= Capacity
  /\ Waits \in [Tasks -> Seq(Semaphores)]
  /\ Posts \in [Tasks -> Seq(Semaphores)]
  /\ Dependencies \in [Tasks -> SUBSET Tasks]
  /\ \A s \in Semaphores, t, u \in Tasks :
       PostedBy(t, s) /\ PostedBy(u, s) => t = u
  /\ \A t \in Tasks : \A u \in Dependencies[t] :
       \E s \in Semaphores : PostedBy(u, s) /\ WaitedBy(t, s)
  /\ MaxFailures \in Nat

(* Where a semaphore is in a table: the routine and the place in its list. *)
Places(table, s) ==
  UNION {{<<t, k>> : k \in {j \in DOMAIN table[t] : table[t][j] = s}} : t \in Tasks}

(* It is posted as often as it is waited for.                              *)
ASSUME BalanceAssumption ==
  \A s \in Semaphores : Cardinality(Places(Posts, s)) = Cardinality(Places(Waits, s))

(* Whoever posts it was added before those that wait for it.               *)
ASSUME OrderAssumption ==
  \A i, j \in DOMAIN Team : \A s \in Semaphores :
    PostedBy(Team[j], s) /\ WaitedBy(Team[i], s) => j < i

VARIABLES
  stage,    (* what the main thread is doing                               *)
  number,   (* thread_count while adding, thread_number while joining      *)
  failed,   (* the routines whose thread could not be created              *)
  ready,    (* the values of the semaphores                                *)
  phase,    (* where each routine is                                       *)
  passed    (* the semaphores it has waited for, then those it has posted  *)

vars == <<stage, number, failed, ready, phase, passed>>

(* Mutant of Init: the semaphores start at one.                            *)
SemaphoresAtOne ==
  /\ stage = "add" /\ number = 0
  /\ failed = {}
  /\ ready = [s \in Semaphores |-> 1]
  /\ phase = [t \in Tasks |-> "unborn"]
  /\ passed = [t \in Tasks |-> 0]

Init ==
  /\ stage = "add" /\ number = 0
  /\ failed = {}
  /\ ready = [s \in Semaphores |-> 0]
  /\ phase = [t \in Tasks |-> "unborn"]
  /\ passed = [t \in Tasks |-> 0]

(* A routine works once its waits are over; it is done once it has posted. *)
Working(t)  == phase[t] = "wait" /\ passed[t] = Len(Waits[t])
Complete(t) == phase[t] = "post"
Done(t)     == phase[t] = "post" /\ passed[t] = Len(Posts[t])

-----------------------------------------------------------------------------
(* The main thread.                                                        *)

(* add_thread counts the thread in any case; its result is not looked at.  *)
AddThread ==
  /\ stage = "add" /\ number < Len(Team)
  /\ number' = number + 1
  /\ \/ /\ phase' = [phase EXCEPT ![Team[number + 1]] = "wait"]
        /\ UNCHANGED failed
     \/ /\ Cardinality(failed) < MaxFailures
        /\ failed' = failed \union {Team[number + 1]}
        /\ UNCHANGED phase
  /\ UNCHANGED <<stage, ready, passed>>

StartJoining ==
  /\ stage = "add" /\ number = Len(Team)
  /\ stage' = "join" /\ number' = 0
  /\ UNCHANGED <<failed, ready, phase, passed>>

(* The identifier of a thread that was never created is zero: joining it   *)
(* returns an error or ends the process.                                   *)
JoinThread ==
  /\ stage = "join" /\ number < Len(Team)
  /\ Team[number + 1] \in failed \/ Done(Team[number + 1])
  /\ number' = number + 1
  /\ UNCHANGED <<stage, failed, ready, phase, passed>>

JoinCrashes ==
  /\ stage = "join" /\ number < Len(Team)
  /\ Team[number + 1] \in failed
  /\ stage' = "crashed"
  /\ UNCHANGED <<number, failed, ready, phase, passed>>

(* Mutant of Destroy: the joining loop stops one thread early.             *)
JoinAllButOne ==
  /\ stage = "join" /\ number = Len(Team) - 1
  /\ stage' = "destroyed"
  /\ UNCHANGED <<number, failed, ready, phase, passed>>

(* The team is freed and the semaphores destroyed.                         *)
Destroy ==
  /\ stage = "join" /\ number = Len(Team)
  /\ stage' = "destroyed"
  /\ UNCHANGED <<number, failed, ready, phase, passed>>

-----------------------------------------------------------------------------
(* A routine.                                                              *)

WaitSemaphore(t) ==
  /\ phase[t] = "wait" /\ passed[t] < Len(Waits[t])
  /\ LET s == Waits[t][passed[t] + 1]
     IN  /\ ready[s] > 0
         /\ ready' = [ready EXCEPT ![s] = @ - 1]
  /\ passed' = [passed EXCEPT ![t] = @ + 1]
  /\ UNCHANGED <<stage, number, failed, phase>>

FinishWork(t) ==
  /\ Working(t)
  /\ phase' = [phase EXCEPT ![t] = "post"]
  /\ passed' = [passed EXCEPT ![t] = 0]
  /\ UNCHANGED <<stage, number, failed, ready>>

(* Mutant of PostSemaphore: a semaphore that is up stays as it is.         *)
PostBinary(t) ==
  /\ phase[t] = "post" /\ passed[t] < Len(Posts[t])
  /\ ready' = [ready EXCEPT ![Posts[t][passed[t] + 1]] = 1]
  /\ passed' = [passed EXCEPT ![t] = @ + 1]
  /\ UNCHANGED <<stage, number, failed, phase>>

PostSemaphore(t) ==
  /\ phase[t] = "post" /\ passed[t] < Len(Posts[t])
  /\ ready' = [ready EXCEPT ![Posts[t][passed[t] + 1]] = @ + 1]
  /\ passed' = [passed EXCEPT ![t] = @ + 1]
  /\ UNCHANGED <<stage, number, failed, phase>>

MainStep == AddThread \/ StartJoining \/ JoinThread \/ JoinCrashes \/ Destroy
TaskStep(t) ==
  /\ stage # "crashed"
  /\ WaitSemaphore(t) \/ FinishWork(t) \/ PostSemaphore(t)

Next == MainStep \/ \E t \in Tasks : TaskStep(t)

Spec == Init /\ [][Next]_vars

(* The operating system keeps every thread that can run running.  A post   *)
(* wakes one of those waiting; each waits once for each of its semaphores. *)
FairSpec == Spec /\ WF_vars(MainStep) /\ \A t \in Tasks : WF_vars(TaskStep(t))

-----------------------------------------------------------------------------
(* Properties.                                                             *)

(* No routine starts its work before everything it depends on is complete, *)
(* whichever routine takes which post and whichever thread was not created *)
(* (building_tasks/readme.adoc, main.c lines 91-190).                      *)
DependenciesRespected ==
  \A t \in Tasks :
    Working(t) \/ Complete(t) =>
      \A u \in Dependencies[t] : Complete(u)

(* The semaphores and the team are not destroyed under a running routine:  *)
(* add_thread counts every thread and join_threads waits for all of them   *)
(* (main.c lines 77-86, ethread.c lines 125-138).                          *)
DestroyedLast ==
  stage = "destroyed" =>
    /\ \A t \in Tasks \ failed : Done(t)
    /\ failed = {} => \A s \in Semaphores : ready[s] = 0

(* When every thread was created the whole graph is carried out: no post   *)
(* is missing or taken twice, and main ends.                               *)
GraphCompletes == (stage = "join" /\ failed = {}) ~> (stage = "destroyed")
=============================================================================
