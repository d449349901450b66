------------------------------ MODULE TeamMain ------------------------------
(***************************************************************************)
(* The state and the steps that the thread examples and exercises share:   *)
(* examples/pthreads and exercises/pthreads.  Their main threads follow    *)
(* one plan: reserve the shared data and its locks, reserve the arrays of  *)
(* the team, create the threads one by one, join them one by one, release  *)
(* everything, exit.  They differ in which requests they check and in what *)
(* they do when one is refused, which is what is kept here: any request to *)
(* the system may be refused.  Greetings, Locked and Plain teams add each  *)
(* program; ThreadExamples puts them together.                             *)
(***************************************************************************)
EXTENDS Naturals, Sequences, FiniteSets

CONSTANTS MaxThreads,     (* bound of thread_count                         *)
          MaxHardness,    (* bound of pinata_hardness                      *)
          MaxShot         (* bound of the distances and lottery numbers    *)

ASSUME BoundsAssumption ==
  MaxThreads \in Nat /\ MaxHardness \in Nat /\ MaxShot \in Nat

VARIABLES
  run,       (* the program and its command line                           *)
  main,      (* where the main thread is                                   *)
  index,     (* its loop counter                                           *)
  limit,     (* how many threads it will join                              *)
  status,    (* its error variable, the exit status                        *)
  refused,   (* history: where a request, or an argument, was refused      *)
  live,      (* what is reserved and not yet released                      *)
  routine,   (* where each thread is                                       *)
  sem,       (* can_greet: the value of each semaphore not yet destroyed   *)
  counter,   (* next_thread, position, pinata_hits_remaining or counter    *)
  holder,    (* the threads that hold the mutex or the rwlock              *)
  mine,      (* the result of each thread: a local, or a cell of its own   *)
  broke,     (* did_I_broke_pinata of each thread                          *)
  said       (* what was printed, in order                                 *)

mainVars   == <<run, main, index, limit, status, refused, live>>
sharedVars == <<sem, counter, holder, mine, broke, said>>
vars == <<mainVars, routine, sharedVars>>

Threads == 0 .. run.count - 1

Playing(program) == run.program = program
Over == main \in {"exit", "crash"}

(* hello has one thread, the lottery two, the recursive greeting starts    *)
(* from number 2, and the shot put has two teams of as many athletes.      *)
Counts(program) ==
  CASE program = "hello"     -> {1}
    [] program = "lottery"   -> {2}
    [] program = "recursive" -> {3}
    [] program = "shotput"   -> {2 * athletes : athletes \in 1 .. MaxThreads}
    [] OTHER                 -> 0 .. MaxThreads

CommandLines(programs) ==
  UNION {[program  : {p},
          count    : Counts(p),
          hardness : IF p = "pinata" THEN 0 .. MaxHardness ELSE {0},
          writers  : IF p = "readers" THEN SUBSET (0 .. MaxThreads - 1) ELSE {{}}]
         : p \in programs}

(* Memory starts as calloc() leaves it.                                    *)
InitWith(programs) ==
  /\ run \in CommandLines(programs)
  /\ run.writers \subseteq Threads
  /\ main = "begin" /\ index = 0 /\ limit = run.count
  /\ status = 0 /\ refused = {} /\ live = {}
  /\ routine = [i \in Threads |-> "unborn"]
  /\ sem = [i \in {} |-> 0]
  /\ counter = run.hardness
  /\ holder = {}
  /\ mine = [i \in Threads |-> 0]
  /\ broke = [i \in Threads |-> FALSE]
  /\ said = <<>>

-----------------------------------------------------------------------------
(* Steps of the main thread.                                               *)

Go(from, to) == main = from /\ main' = to

GoOn(from, to, next) ==
  /\ Go(from, to)
  /\ index' = next
  /\ UNCHANGED <<run, limit, status, refused, live, routine, sharedVars>>

(* A request that was refused leaves an error code and goes elsewhere.  A  *)
(* caller says what becomes of index, limit and mine.                      *)
RefuseAnd(from, code, to) ==
  /\ Go(from, to)
  /\ status' = code
  /\ refused' = refused \union {from}
  /\ UNCHANGED <<run, live, routine, sem, counter, holder, broke, said>>

Refuse(from, code, to) == RefuseAnd(from, code, to) /\ UNCHANGED <<index, limit, mine>>

(* malloc, calloc, pthread_mutex_init, pthread_rwlock_init: what they      *)
(* reserve stays until it is released.                                     *)
Obtain(from, what, to, code, otherwise) ==
  \/ /\ Go(from, to)
     /\ live' = live \union {what}
     /\ UNCHANGED <<run, index, limit, status, refused, routine, sharedVars>>
  \/ Refuse(from, code, otherwise)

(* The command line is read: it may be wrong.                              *)
ReadArguments(code, to) == GoOn("begin", to, 0) \/ Refuse("begin", code, "exit")

(* pthread_create of thread number index.                                  *)
Create(to, next) ==
  /\ index < run.count
  /\ Go("create", to)
  /\ routine' = [routine EXCEPT ![index] = "start"]
  /\ index' = next
  /\ UNCHANGED <<run, limit, status, refused, live, sharedVars>>

(* Mutant of CreateFails: the error is not kept.                           *)
CreateFailsQuietly(code, joins) ==
  /\ index < run.count
  /\ RefuseAnd("create", status, "join")
  /\ index' = 0
  /\ limit' = joins
  /\ UNCHANGED mine

(* It refuses: the loop is left, and as many threads are joined as the     *)
(* caller says.                                                            *)
CreateFails(code, joins) ==
  /\ index < run.count
  /\ RefuseAnd("create", code, "join")
  /\ index' = 0
  /\ limit' = joins
  /\ UNCHANGED mine

(* It refuses and nobody notices: the result is not looked at, or it is    *)
(* compared with EXIT_FAILURE, which pthread_create never returns.         *)
CreateFailsUnseen(to, next) ==
  /\ index < run.count
  /\ RefuseAnd("create", status, to)
  /\ index' = next
  /\ UNCHANGED <<limit, mine>>

CreatedAll(to) == index = run.count /\ GoOn("create", to, 0)

(* The pthread_t of a thread that was never created is whatever the array  *)
(* holds: joining it returns an error nobody looks at, or it is followed   *)
(* as a pointer and the program crashes.                                   *)
Crash(from) ==
  /\ Go(from, "crash")
  /\ UNCHANGED <<run, index, limit, status, refused, live, routine, sharedVars>>

(* Mutant of Join: the join does not wait.                                 *)
JoinAtOnce(from, to, next) == index < limit /\ GoOn(from, to, next)

(* pthread_join of thread number index.                                    *)
Join(from, to, next) ==
  /\ index < limit
  /\ \/ routine[index] \in {"ended", "unborn"} /\ GoOn(from, to, next)
     \/ routine[index] = "unborn" /\ Crash(from)

JoinedAll(to) == index = limit /\ GoOn("join", to, 0)

JoinTeam(to) == Join("join", "join", index + 1) \/ JoinedAll(to)

(* Everything reserved is freed, and main returns its error.               *)
Release ==
  /\ Go("release", "exit")
  /\ live' = {}
  /\ UNCHANGED <<run, index, limit, status, refused, routine, sharedVars>>

(* create_threads() of most programs: all or nothing for the arrays, a     *)
(* creation that fails leaves the loop, and all of thread_count threads    *)
(* are joined, created or not.                                             *)
CreateAndJoin(noArrays, ended) ==
  \/ Obtain("arrays", "arrays", "create", noArrays, "release")
  \/ Create("create", index + 1)
  \/ CreateFails(21, run.count)
  \/ CreatedAll("join")
  \/ JoinTeam(ended)

-----------------------------------------------------------------------------
(* Steps of thread number i, which the end of main interrupts.             *)

Step(i, from, to) ==
  /\ ~ Over
  /\ routine[i] = from
  /\ routine' = [routine EXCEPT ![i] = to]
  /\ UNCHANGED mainVars

PrintLine(i, from, to, what) ==
  /\ Step(i, from, to)
  /\ said' = Append(said, what)
  /\ UNCHANGED <<sem, counter, holder, mine, broke>>

Keep(i, from, to, value) ==
  /\ Step(i, from, to)
  /\ mine' = [mine EXCEPT ![i] = value]
  /\ UNCHANGED <<sem, counter, holder, broke, said>>

Count(i, from, to, value) ==
  /\ Step(i, from, to)
  /\ counter' = value
  /\ UNCHANGED <<sem, holder, mine, broke, said>>
=============================================================================
