--------------------------- MODULE ThreadExamples ---------------------------
(***************************************************************************)
(* All the thread examples and exercises: a behaviour runs one of them,    *)
(* with the interleavings of its threads, the requests the system refuses  *)
(* and what the program does then.                                         *)
(***************************************************************************)
EXTENDS OrderedTeams, LockedTeams, PlainTeams

Init == InitWith(OrderedPrograms \union LockedPrograms \union PlainPrograms)

MainStep == ~ Over /\ (OrderedMain \/ LockedMain \/ PlainMain)

ThreadStep(i) ==
  i \in Threads /\ (OrderedStep(i) \/ LockedStep(i) \/ PlainStep(i))

(* A semaphore that could not open the first turn: nobody ever greets.     *)
NoFirstTurn == "first_turn" \in refused

Done == (Over \/ NoFirstTurn) /\ UNCHANGED vars

Next == MainStep \/ (\E i \in Threads : ThreadStep(i)) \/ Done

MostThreads == 2 * MaxThreads + 2

(* The scheduler runs whoever can run; a lock that is free often enough is *)
(* not assumed to be given to everyone who waits for it.                   *)
Spec ==
  /\ Init /\ [][Next]_vars
  /\ WF_vars(MainStep)
  /\ \A i \in 0 .. MostThreads : WF_vars(ThreadStep(i))

-----------------------------------------------------------------------------
Running(i) == routine[i] \notin {"unborn", "ended"}

(* What is announced in order: the number of the thread, the position of   *)
(* the race, and, from the greatest down, the recursive greetings.         *)
Announced ==
  CASE run.program \in {"semaphores", "collect", "busy", "serial", "race"} -> said
    [] run.program = "recursive" -> [k \in 1 .. Len(said) |-> run.count - 1 - said[k]]
    [] OTHER -> <<>>

Order == INSTANCE OrderedGreetings WITH Numbers <- 0 .. MostThreads, said <- Announced

(* Whatever the scheduler does and whatever thread is not created, the     *)
(* programs that promise an order greet in order and nobody greets twice:  *)
(* those with a chain of semaphores, with an unlocked counter, with an     *)
(* array printed at the end, with one thread at a time, with threads that  *)
(* create each other, and the race, whose positions are printed under the  *)
(* lock.                                                                   *)
ImplementsOrdered == Order!Spec

(* No thread uses what main has already released, and main does not exit   *)
(* while one runs: private data, shared data, the text or the number it    *)
(* was given, main's loop counter, and the semaphores, with one exception: *)
(* the last thread's post to semaphore 0, which main may have destroyed    *)
(* after joining thread 0 (hello_order_semaphor/src/main.c:108 and 137).   *)
UsesAreLive ==
  /\ main = "exit" => \A i \in Threads : ~ Running(i)
  /\ main # "crash" => \A i \in Threads : Running(i) =>
       /\ run.program \in {"private", "shared", "team", "collect", "busy", "semaphores",
                           "race", "pinata"} => "arrays" \in live
       /\ run.program \in {"shared", "collect", "busy", "semaphores", "race", "pinata",
                           "readers"} => "shared" \in live
       /\ Playing("shotput") => {"matrix", Team(i)} \subseteq live
       /\ Playing("collect") => mine[i] # NoText
       /\ Playing("recursive") /\ routine[i] = "start" => mine[i] = 1
       /\ Playing("serial") => index = i /\ main = "wait"
       /\ Playing("semaphores") =>
            /\ routine[i] = "start" => i \in DOMAIN sem
            /\ routine[i] = "post" /\ NextThread(i) \notin DOMAIN sem =>
                 i = run.count - 1 /\ i # 0

(* Threads that have taken their number from the shared counter.           *)
HasValue(i) ==
  /\ run.program = "race" \/ i \in run.writers
  /\ routine[i] \in {"print", "unlock", "ended"}

(* No two runners get the same position and no two writers the same value  *)
(* of the counter, and no value is ahead of the counter.                   *)
PositionsDistinct ==
  run.program \in {"race", "readers"} =>
    \A i, j \in Threads :
      HasValue(i) /\ HasValue(j) =>
        mine[i] \in 1 .. counter /\ (mine[i] = mine[j] => i = j)

(* The pinata is broken by at most one guest, never before its last hit,   *)
(* and when a guest leaves the party somebody knows that it broke it       *)
(* (birthday_pinata/src/solution.c:139-152), whatever guests could not be  *)
(* created.                                                                *)
OneBreaker ==
  Playing("pinata") =>
    /\ \A i, j \in Threads : broke[i] /\ broke[j] => i = j
    /\ (\E i \in Threads : broke[i]) => counter = 0
    /\ (\E i \in Threads : routine[i] = "ended") /\ run.hardness > 0 =>
         \E i \in Threads : broke[i]

(* The refusals that each program does not look at, looks at with another  *)
(* question (pthread_create never returns EXIT_FAILURE), or overwrites:    *)
(* sem_init's in hello_order_semaphor/src/main.c:49 and 56.                *)
Unnoticed ==
  CASE run.program \in {"serial", "lottery"} -> {"create"}
    [] Playing("shotput")   -> {"begin", "matrix", "create"}
    [] Playing("recursive") -> {"number", "next"}
    [] Playing("semaphores") -> {"sem_init", "first_turn"}
    [] OTHER -> {}

(* The refusals after which each program may crash: it writes where no     *)
(* memory was reserved, joins a thread it did not create, or prints a text *)
(* it did not reserve.                                                     *)
Fatal ==
  CASE run.program \in {"hello", "team"} -> {}
    [] Playing("semaphores") -> {"semaphores", "create"}
    [] Playing("collect")    -> {"text", "create"}
    [] Playing("recursive")  -> {"begin", "next"}
    [] OTHER -> {"create"}

(* What the end of a program says.  One that exits returns 0 exactly when  *)
(* nothing was refused that the program notices; and when nothing was      *)
(* refused at all, every thread has run to its end.  One that crashes had  *)
(* one of its fatal refusals, except readers_writers, which may crash      *)
(* after freeing its own rwlock (readers_writers/src/main.c:30-31).        *)
ReportsFailure ==
  /\ main = "exit" => (status = 0 <=> refused \subseteq Unnoticed)
  /\ main = "exit" /\ refused = {} => \A i \in Threads : routine[i] = "ended"
  /\ main = "crash" => refused \intersect Fatal # {} \/ Playing("readers")

(* Every program ends, whichever thread could not be created: the chain of *)
(* turns is broken only for threads that were not created either.  The one *)
(* exception is the first semaphore that could not be initialised, whose   *)
(* loss nobody notices: then thread 0 waits, and main waits for it.        *)
Terminates == []~ NoFirstTurn => <>Over
=============================================================================
