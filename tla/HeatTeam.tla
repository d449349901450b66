------------------------------ MODULE HeatTeam ------------------------------
(***************************************************************************)
(* What the two threaded heat simulations (homeworks/pthreads and          *)
(* homeworks/optimized) have in common: simulate() creates a team of       *)
(* threads that all run calcNewTemperature().  An iteration reads          *)
(* readPlate and writes writePlate; iterations are separated by a          *)
(* two-turnstile barrier, and the last thread to arrive decides whether    *)
(* the plate is balanced or swaps the plates.  How the threads share the   *)
(* work of an iteration is added by HeatPthreads (blocks of rows) and by   *)
(* HeatDynamic (one cell at a time).                                       *)
(*                                                                         *)
(* Temperatures are abstracted to the age of a unit of work, a row or a    *)
(* cell: the number of iterations its contents have been through.  Whether *)
(* a thread sees its work in balance is the data's choice, except that     *)
(* from iteration MaxIterations on every plate is in balance (the bound of *)
(* the model).                                                             *)
(*                                                                         *)
(* Critical sections that cannot block inside are one step.  Only the last *)
(* thread to arrive at, or to leave, the barrier waits for a semaphore     *)
(* with barrierMutex held, so the mutex is a variable.  The other mutexes  *)
(* protect single steps only.                                              *)
(***************************************************************************)
EXTENDS Integers, FiniteSets

CONSTANTS ThreadCount,    (* min(args.threadsCount, rows * cols)           *)
          Units,          (* the rows, or the cells, that are recomputed   *)
          MaxIterations,  (* bound: the plate is balanced by then          *)
          CreateMayFail   (* whether pthread_create may fail               *)

Threads == 0 .. ThreadCount - 1

ASSUME ThreadCountAssumption == ThreadCount \in Nat \ {0}
ASSUME MaxIterationsAssumption == MaxIterations \in Nat
ASSUME CreateMayFailAssumption == CreateMayFail \in BOOLEAN

(* The two plates: the one read from the file and simulate()'s copy of it. *)
Plates == {"plate", "copy"}

VARIABLES
  main,             (* where simulate() is                                 *)
  created,          (* threads created so far                              *)
  pc,               (* where each thread is in calcNewTemperature()        *)
  currentPlate,     (* thread-local: plate behind currentPlateData         *)
  newPlate,         (* thread-local: plate behind newPlateData             *)
  localIsBalanced,  (* thread-local                                        *)
  rounds,           (* history: iterations each thread has computed        *)
  readPlate,        (* sharedData->readPlate                               *)
  writePlate,       (* sharedData->writePlate                              *)
  isBalanced,       (* the isBalanced field of each plate: 0, 1 or 2       *)
  age,              (* iterations behind the contents of each unit         *)
  totalIterations,
  barrierCount,
  barrierMutex,     (* its holder, or Free                                 *)
  turnstile1,
  turnstile2

Free == -1

mainVars  == <<main, created>>
locals    == <<currentPlate, newPlate, localIsBalanced, rounds>>
plateVars == <<readPlate, writePlate, isBalanced, age, totalIterations>>
barrier   == <<barrierCount, barrierMutex, turnstile1, turnstile2>>

vars == <<mainVars, pc, locals, plateVars, barrier>>

Labels ==
  {"new", "load", "test", "compute", "and", "arrive",     \* the iteration
   "takeTwo", "openOne", "decide", "unlockIn",            \* last to arrive
   "gateOne", "passOne", "leave",                         \* first turnstile
   "takeOne", "openTwo", "unlockOut",                     \* last to leave
   "gateTwo", "passTwo",                                  \* second turnstile
   "done"}

Init ==
  /\ main = "create"
  /\ created = 0
  /\ pc = [t \in Threads |-> "new"]
  /\ currentPlate = [t \in Threads |-> "copy"]
  /\ newPlate = [t \in Threads |-> "plate"]
  /\ localIsBalanced = [t \in Threads |-> TRUE]
  /\ rounds = [t \in Threads |-> 0]
  /\ readPlate = "copy"
  /\ writePlate = "plate"
  /\ isBalanced = [p \in Plates |-> 0]
  /\ age = [p \in Plates |-> [x \in Units |-> 0]]
  /\ totalIterations = 0
  /\ barrierCount = 0
  /\ barrierMutex = Free
  /\ turnstile1 = 0
  /\ turnstile2 = 1

Goto(t, from, to) ==
  /\ pc[t] = from
  /\ pc' = [pc EXCEPT ![t] = to]

-----------------------------------------------------------------------------
(* The main thread: create_threads(), join_threads(), the result.          *)

CreateThread ==
  /\ main = "create"
  /\ created < ThreadCount
  /\ Goto(created, "new", "load")
  /\ created' = created + 1
  /\ main' = IF created' = ThreadCount THEN "join" ELSE "create"
  /\ UNCHANGED <<locals, plateVars, barrier>>

(* pthread_create() fails: the threads that exist are joined.              *)
CreateFails ==
  /\ CreateMayFail
  /\ main = "create"
  /\ created < ThreadCount
  /\ main' = "joinPartial"
  /\ UNCHANGED <<created, pc, locals, plateVars, barrier>>

(* Mutant of Joinable: the threads are not waited for.                     *)
NotWaitedFor == TRUE

Joinable == \A t \in Threads : t < created => pc[t] = "done"

(* create_threads() has joined them and returned NULL: simulate() calls    *)
(* join_threads(threadCount, NULL), which dereferences it.                 *)
JoinPartialTeam ==
  /\ main = "joinPartial"
  /\ Joinable
  /\ main' = "crashed"
  /\ UNCHANGED <<created, pc, locals, plateVars, barrier>>

JoinTeam ==
  /\ main = "join"
  /\ Joinable
  /\ main' = "returned"
  /\ UNCHANGED <<created, pc, locals, plateVars, barrier>>

(* Mutant of Result: iterations counted from 0.                            *)
ResultFromZero == [plate |-> "plate", iterations |-> totalIterations]

(* simulate()'s result: its own variable writePlate is still the plate it  *)
(* was given, whichever way sharedData's pointers have been swapped.       *)
Result == [plate |-> "plate", iterations |-> totalIterations + 1]

-----------------------------------------------------------------------------
(* An iteration of calcNewTemperature().                                   *)

LoadPlates(t) ==
  /\ Goto(t, "load", "test")
  /\ currentPlate' = [currentPlate EXCEPT ![t] = readPlate]
  /\ newPlate' = [newPlate EXCEPT ![t] = writePlate]
  /\ localIsBalanced' = [localIsBalanced EXCEPT ![t] = TRUE]
  /\ UNCHANGED <<mainVars, rounds, plateVars, barrier>>

(* Mutant of TestBalanced: the mark 1 of a plate used before is taken for  *)
(* balance.                                                                *)
TestAnyMark(t) ==
  /\ Goto(t, "test", IF isBalanced[writePlate] # 0 THEN "done" ELSE "compute")
  /\ UNCHANGED <<mainVars, locals, plateVars, barrier>>

(* The unlocked read of isBalanced that ends the loop.                     *)
TestBalanced(t) ==
  /\ Goto(t, "test", IF isBalanced[writePlate] = 2 THEN "done" ELSE "compute")
  /\ UNCHANGED <<mainVars, locals, plateVars, barrier>>

(* What a thread may find about work it has done.                          *)
Outcomes == IF totalIterations + 1 >= MaxIterations THEN {TRUE} ELSE BOOLEAN

(* Mutant of AndBalanced: the last thread's opinion replaces the others'.  *)
OverwriteBalanced(t) ==
  /\ Goto(t, "and", "arrive")
  /\ isBalanced' = [isBalanced EXCEPT ![writePlate] =
                      IF localIsBalanced[t] THEN 1 ELSE 0]
  /\ UNCHANGED <<mainVars, locals, readPlate, writePlate, age,
                 totalIterations, barrier>>

(* isBalanced = isBalanced && localIsBalanced, under its mutex.            *)
AndBalanced(t) ==
  /\ Goto(t, "and", "arrive")
  /\ isBalanced' = [isBalanced EXCEPT ![writePlate] =
                      IF @ # 0 /\ localIsBalanced[t] THEN 1 ELSE 0]
  /\ UNCHANGED <<mainVars, locals, readPlate, writePlate, age,
                 totalIterations, barrier>>

-----------------------------------------------------------------------------
(* The barrier: everybody arrives ...                                      *)

Arrive(t) ==
  /\ barrierMutex = Free
  /\ barrierCount + 1 # ThreadCount
  /\ Goto(t, "arrive", "gateOne")
  /\ barrierCount' = barrierCount + 1
  /\ UNCHANGED <<mainVars, locals, plateVars, barrierMutex, turnstile1,
                 turnstile2>>

(* The last one keeps the mutex.                                           *)
ArriveLast(t) ==
  /\ barrierMutex = Free
  /\ barrierCount + 1 = ThreadCount
  /\ Goto(t, "arrive", "takeTwo")
  /\ barrierCount' = barrierCount + 1
  /\ barrierMutex' = t
  /\ UNCHANGED <<mainVars, locals, plateVars, turnstile1, turnstile2>>

(* Mutant of CloseTurnstile2: the second turnstile is left open, so that a *)
(* fast thread overtakes the others by a whole iteration.                  *)
LeaveTurnstile2Open(t) ==
  /\ turnstile2 > 0
  /\ Goto(t, "takeTwo", "openOne")
  /\ UNCHANGED <<mainVars, locals, plateVars, barrier>>

CloseTurnstile2(t) ==
  /\ turnstile2 > 0
  /\ Goto(t, "takeTwo", "openOne")
  /\ turnstile2' = turnstile2 - 1
  /\ UNCHANGED <<mainVars, locals, plateVars, barrierCount, barrierMutex,
                 turnstile1>>

OpenTurnstile1(t) ==
  /\ Goto(t, "openOne", "decide")
  /\ turnstile1' = turnstile1 + 1
  /\ UNCHANGED <<mainVars, locals, plateVars, barrierCount, barrierMutex,
                 turnstile2>>

(* The plate is balanced (2), or it is marked 1 and becomes the plate to   *)
(* read.                                                                   *)
Decide(t) ==
  /\ Goto(t, "decide", "unlockIn")
  /\ \/ /\ isBalanced[writePlate] # 0
        /\ isBalanced' = [isBalanced EXCEPT ![writePlate] = 2]
        /\ UNCHANGED <<readPlate, writePlate, totalIterations>>
     \/ /\ isBalanced[writePlate] = 0
        /\ isBalanced' = [isBalanced EXCEPT ![writePlate] = 1]
        /\ readPlate' = writePlate
        /\ writePlate' = readPlate
        /\ totalIterations' = totalIterations + 1
  /\ UNCHANGED <<mainVars, locals, age, barrier>>

UnlockArrival(t) ==
  /\ Goto(t, "unlockIn", "gateOne")
  /\ barrierMutex' = Free
  /\ UNCHANGED <<mainVars, locals, plateVars, barrierCount, turnstile1,
                 turnstile2>>

(* Mutant of WaitTurnstile1: a wait that does not block.                   *)
TryTurnstile1(t) ==
  /\ Goto(t, "gateOne", "passOne")
  /\ turnstile1' = turnstile1 - 1
  /\ UNCHANGED <<mainVars, locals, plateVars, barrierCount, barrierMutex,
                 turnstile2>>

WaitTurnstile1(t) ==
  /\ turnstile1 > 0
  /\ Goto(t, "gateOne", "passOne")
  /\ turnstile1' = turnstile1 - 1
  /\ UNCHANGED <<mainVars, locals, plateVars, barrierCount, barrierMutex,
                 turnstile2>>

(* Mutant of PostTurnstile1: the next thread is not let through.           *)
KeepTurnstile1(t) ==
  /\ Goto(t, "passOne", "leave")
  /\ UNCHANGED <<mainVars, locals, plateVars, barrier>>

PostTurnstile1(t) ==
  /\ Goto(t, "passOne", "leave")
  /\ turnstile1' = turnstile1 + 1
  /\ UNCHANGED <<mainVars, locals, plateVars, barrierCount, barrierMutex,
                 turnstile2>>

(* ... and everybody leaves.                                               *)

Leave(t) ==
  /\ barrierMutex = Free
  /\ barrierCount - 1 # 0
  /\ Goto(t, "leave", "gateTwo")
  /\ barrierCount' = barrierCount - 1
  /\ UNCHANGED <<mainVars, locals, plateVars, barrierMutex, turnstile1,
                 turnstile2>>

LeaveLast(t) ==
  /\ barrierMutex = Free
  /\ barrierCount - 1 = 0
  /\ Goto(t, "leave", "takeOne")
  /\ barrierCount' = barrierCount - 1
  /\ barrierMutex' = t
  /\ UNCHANGED <<mainVars, locals, plateVars, turnstile1, turnstile2>>

(* Mutant of CloseTurnstile1: the first turnstile is left open.            *)
LeaveTurnstile1Open(t) ==
  /\ turnstile1 > 0
  /\ Goto(t, "takeOne", "openTwo")
  /\ UNCHANGED <<mainVars, locals, plateVars, barrier>>

CloseTurnstile1(t) ==
  /\ turnstile1 > 0
  /\ Goto(t, "takeOne", "openTwo")
  /\ turnstile1' = turnstile1 - 1
  /\ UNCHANGED <<mainVars, locals, plateVars, barrierCount, barrierMutex,
                 turnstile2>>

OpenTurnstile2(t) ==
  /\ Goto(t, "openTwo", "unlockOut")
  /\ turnstile2' = turnstile2 + 1
  /\ UNCHANGED <<mainVars, locals, plateVars, barrierCount, barrierMutex,
                 turnstile1>>

UnlockDeparture(t) ==
  /\ Goto(t, "unlockOut", "gateTwo")
  /\ barrierMutex' = Free
  /\ UNCHANGED <<mainVars, locals, plateVars, barrierCount, turnstile1,
                 turnstile2>>

WaitTurnstile2(t) ==
  /\ turnstile2 > 0
  /\ Goto(t, "gateTwo", "passTwo")
  /\ turnstile2' = turnstile2 - 1
  /\ UNCHANGED <<mainVars, locals, plateVars, barrierCount, barrierMutex,
                 turnstile1>>

PostTurnstile2(t) ==
  /\ Goto(t, "passTwo", "load")
  /\ turnstile2' = turnstile2 + 1
  /\ UNCHANGED <<mainVars, locals, plateVars, barrierCount, barrierMutex,
                 turnstile1>>

-----------------------------------------------------------------------------

(* The steps of the barrier that decide nothing.                           *)
BarrierStep(t) ==
  \/ Arrive(t)          \/ ArriveLast(t)      \/ CloseTurnstile2(t)
  \/ OpenTurnstile1(t)  \/ UnlockArrival(t)   \/ WaitTurnstile1(t)
  \/ PostTurnstile1(t)  \/ Leave(t)           \/ LeaveLast(t)
  \/ CloseTurnstile1(t) \/ OpenTurnstile2(t)  \/ UnlockDeparture(t)
  \/ WaitTurnstile2(t)  \/ PostTurnstile2(t)

(* Everything in calcNewTemperature() but the work and the decision.       *)
CommonStep(t) ==
  LoadPlates(t) \/ TestBalanced(t) \/ AndBalanced(t) \/ BarrierStep(t)

MainStep == CreateThread \/ CreateFails \/ JoinPartialTeam \/ JoinTeam

-----------------------------------------------------------------------------
(* Types.                                                                  *)
TypeOK ==
  /\ main \in {"create", "join", "joinPartial", "returned", "crashed"}
  /\ created \in 0 .. ThreadCount
  /\ pc \in [Threads -> Labels]
  /\ currentPlate \in [Threads -> Plates]
  /\ newPlate \in [Threads -> Plates]
  /\ localIsBalanced \in [Threads -> BOOLEAN]
  /\ rounds \in [Threads -> Nat]
  /\ readPlate \in Plates
  /\ writePlate \in Plates
  /\ isBalanced \in [Plates -> 0 .. 2]
  /\ age \in [Plates -> [Units -> Nat]]
  /\ totalIterations \in Nat
  /\ barrierCount \in Int
  /\ barrierMutex \in Threads \union {Free}
  /\ turnstile1 \in Nat
  /\ turnstile2 \in Nat

(* While a thread computes, the plate it reads is sharedData's readPlate,  *)
(* complete at the current iteration, and the plate it writes is the other *)
(* one: no swap and no slow or fast neighbour is visible inside an         *)
(* iteration (the loop body between the pointer loads and the barrier).    *)
StableWhileComputing ==
  \A t \in Threads : pc[t] \in {"compute", "and"} =>
    /\ currentPlate[t] = readPlate
    /\ newPlate[t] = writePlate
    /\ readPlate # writePlate
    /\ \A x \in Units : age[readPlate][x] = totalIterations

(* When the last thread decides, all of writePlate holds the current *)
(* iteration and isBalanced says what the threads found, except in the two *)
(* first iterations, when the plates' initial 0 hides it.                  *)
DecisionIsInformed ==
  \A t \in Threads : pc[t] = "decide" =>
    /\ \A x \in Units : age[writePlate][x] = totalIterations + 1
    /\ isBalanced[writePlate] # 0 <=>
         /\ totalIterations >= 2
         /\ \A u \in Threads : localIsBalanced[u]

(* The threads leave the loop together: none exits while another one has   *)
(* an iteration to finish or to start.                                     *)
ExitTogether ==
  \A t \in Threads : pc[t] = "done" =>
    \A u \in Threads :
      /\ rounds[u] = totalIterations + 1
      /\ pc[u] \in {"done", "test", "load", "passTwo", "gateTwo", "unlockOut"}

(* The turnstiles are never both open, and neither is opened twice.        *)
OneTurnstileOpen == turnstile1 + turnstile2 <= 1

(* What simulate() hands to the report: the plate it returns is at the     *)
(* reported iteration when that number is odd and one iteration behind     *)
(* when it is even, never further.                                         *)
ResultWithinOne ==
  main = "returned" =>
    \A x \in Units :
      age[Result.plate][x] = Result.iterations - ((Result.iterations + 1) % 2)

(* After a failed pthread_create() with a thread already running, the      *)
(* program never gets past the join: the barrier waits for threads that    *)
(* do not exist.                                                           *)
FailedTeamHangs == main = "crashed" => created = 0

(* If every pthread_create() succeeds the simulation returns.              *)
EventuallyReturns == main = "join" ~> main = "returned"

(* The types.h comments on SimulationResult: the plate resulting from the  *)
(* simulation and the number of iterations performed in it.                *)
ResultIsFinalPlate ==
  main = "returned" =>
    \A x \in Units : age[Result.plate][x] = Result.iterations

(* The problem statement in homeworks/pthreads/readme.adoc: the simulation *)
(* stops when no interior cell changes by more than epsilon.               *)
StopsWhenBalanced ==
  \A t \in Threads :
    pc[t] = "unlockIn" /\ (\A u \in Threads : localIsBalanced[u]) =>
      isBalanced[writePlate] = 2

(* The abstract simulation: a thread has finished its part of the          *)
(* iteration when it has computed once more than the plates were swapped.  *)
Computed == {t \in Threads : rounds[t] = totalIterations + 1}

Lockstep == INSTANCE HeatLockstep WITH
  Workers   <- Threads,
  WarmUp    <- 2,
  iteration <- totalIterations + 1,
  computed  <- Computed,
  calm      <- \A t \in Computed : localIsBalanced[t],
  status    <- IF isBalanced[writePlate] = 2 THEN "balanced" ELSE "running"

(* The threads, locks and semaphores implement the iteration-by-iteration  *)
(* simulation.                                                             *)
ImplementsLockstep == Lockstep!Spec
-----------------------------------------------------------------------------
(***************************************************************************)
(* The part of the inductive invariant that both programs share.           *)
(***************************************************************************)

(* Counted in barrierCount; holding barrierMutex.                          *)
CountedLabels == {"takeTwo", "openOne", "decide", "unlockIn", "gateOne",
                  "passOne", "leave"}
HoldingLabels == {"takeTwo", "openOne", "decide", "unlockIn", "takeOne",
                  "openTwo", "unlockOut"}

Counted == {t \in Threads : pc[t] \in CountedLabels}

CountInv == barrierCount = Cardinality(Counted)

MutexInv == \A t \in Threads : barrierMutex = t <=> pc[t] \in HoldingLabels

(* One permit circulates between the turnstiles: it is in one of them or   *)
(* with the one thread that has taken it and not posted it yet.            *)
BearingLabels == {"passOne", "passTwo", "openOne", "openTwo"}

PermitInv ==
  /\ turnstile1 + turnstile2 <= 1
  /\ turnstile1 + turnstile2 = 1 => \A t \in Threads : pc[t] \notin BearingLabels
  /\ turnstile1 + turnstile2 = 0 => \E t \in Threads : pc[t] \in BearingLabels
  /\ \A t, u \in Threads :
       pc[t] \in BearingLabels /\ pc[u] \in BearingLabels => t = u

(* The permit decides which half of the barrier the threads are in.        *)
Leaving == turnstile1 = 1 \/ \E t \in Threads : pc[t] \in {"passOne", "openTwo"}

ArrivingLabels == {"new", "load", "test", "compute", "and", "arrive",
                   "takeTwo", "openOne", "gateOne", "gateTwo", "passTwo",
                   "unlockOut", "done"}
LeavingLabels == {"decide", "unlockIn", "gateOne", "passOne", "leave",
                  "takeOne", "openTwo", "gateTwo"}

HalfInv ==
  /\ Leaving => \A t \in Threads : pc[t] \in LeavingLabels
  /\ ~Leaving => \A t \in Threads : pc[t] \in ArrivingLabels

(* The last to arrive and the last to leave find the others at the gates.  *)
LastInv ==
  \A t, u \in Threads : t # u =>
    /\ pc[t] \in {"takeTwo", "openOne"} => pc[u] = "gateOne"
    /\ pc[t] = "decide" => pc[u] \in {"gateOne", "passOne", "leave"}
    /\ pc[t] \in {"takeOne", "openTwo"} => pc[u] = "gateTwo"

Declared == isBalanced[writePlate] = 2

(* The threads have computed the iteration, nothing is decided yet.        *)
Undecided == ~Leaving \/ \E t \in Threads : pc[t] = "decide"

FreshLabels == {"new", "load", "test", "compute", "gateTwo", "passTwo",
                "unlockOut"}
ExitLabels == {"load", "test", "gateTwo", "passTwo", "unlockOut", "done"}

(* How many iterations each thread has computed.                           *)
RoundsInv ==
  \A t \in Threads :
    /\ pc[t] = "done" => Declared
    /\ Declared => /\ rounds[t] = totalIterations + 1
                   /\ localIsBalanced[t]
                   /\ pc[t] # "decide"
                   /\ ~Leaving => pc[t] \in ExitLabels
    /\ ~Declared =>
         rounds[t] = IF Undecided /\ pc[t] \notin FreshLabels
                     THEN totalIterations + 1 ELSE totalIterations

(* What the plates hold.                                                   *)
PlatesInv ==
  /\ writePlate = IF totalIterations % 2 = 0 THEN "plate" ELSE "copy"
  /\ readPlate = IF totalIterations % 2 = 0 THEN "copy" ELSE "plate"
  /\ \A x \in Units : age[readPlate][x] = totalIterations
  /\ \A t \in Threads : pc[t] \in {"test", "compute", "and"} =>
       currentPlate[t] = readPlate /\ newPlate[t] = writePlate

(* When everybody has computed the iteration, the plate is complete.  The  *)
(* two ways of sharing the work have their own reasons for it.             *)
WorkInv ==
  (\A t \in Threads : rounds[t] = totalIterations + 1) =>
    \A x \in Units : age[writePlate][x] = totalIterations + 1

(* What the flags say.  AndedLabels: localIsBalanced is in the flag.       *)
AndedLabels == CountedLabels \union {"arrive"}

FlagsInv ==
  /\ isBalanced[readPlate] = IF totalIterations = 0 THEN 0 ELSE 1
  /\ ~Declared =>
       (isBalanced[writePlate] # 0 <=>
          /\ totalIterations >= 2
          /\ Undecided => \A t \in Threads :
                            pc[t] \in AndedLabels => localIsBalanced[t])

(* What the main thread has done.                                          *)
MainInv ==
  /\ \A t \in Threads : t >= created => pc[t] = "new"
  /\ main \in {"joinPartial", "crashed"} => created < ThreadCount
  /\ main \in {"join", "returned"} => created = ThreadCount
  /\ main = "returned" => \A t \in Threads : pc[t] = "done"
  /\ main = "crashed" => Joinable

(* Why the barrier is right: the permit and the mutex keep the threads in  *)
(* one half of it, and that keeps plates, flags and iteration counts in    *)
(* step (calcNewTemperature() as a whole).                                 *)
TeamInv ==
  /\ TypeOK   /\ CountInv  /\ MutexInv  /\ PermitInv /\ HalfInv
  /\ LastInv  /\ RoundsInv /\ PlatesInv /\ WorkInv   /\ FlagsInv
  /\ MainInv
=============================================================================
