---------------------------- MODULE OrderedTeams ----------------------------
(***************************************************************************)
(* The programs that greet in order, each in its own way: a chain of       *)
(* semaphores, an array that main prints at the end, a busy wait, one      *)
(* thread at a time, and threads that create one another.                  *)
(***************************************************************************)
EXTENDS TeamMain, Functions

OrderedPrograms == {"semaphores", "collect", "busy", "serial", "recursive"}

-----------------------------------------------------------------------------
(* hello_order_semaphor: semaphore i says that it is thread i's turn.      *)

(* Mutant of TurnOf: every semaphore starts open.                          *)
TurnOfAll(i) == 1

TurnOf(i) == IF i = 0 THEN 1 ELSE 0

(* What sem_init() refused leaves to tell: the first turn is of its own.   *)
Refusals(denied) ==
  (IF denied = {} THEN {} ELSE {"sem_init"})
    \union (IF 0 \in denied THEN {"first_turn"} ELSE {})

(* The semaphores are initialised before their array is checked: without   *)
(* it, and with some thread to greet, the program crashes.  What sem_init  *)
(* returns is overwritten, so a semaphore denied goes unnoticed and stays  *)
(* as calloc() leaves it, closed (with the C library of the builds).       *)
InitSemaphores ==
  \/ /\ Go("semaphores", "arrays")
     /\ live' = live \union {"semaphores"}
     /\ \E denied \in SUBSET Threads :
          /\ sem' = [i \in Threads |-> IF i \in denied THEN 0 ELSE TurnOf(i)]
          /\ refused' = refused \union Refusals(denied)
     /\ UNCHANGED <<run, index, limit, status, routine, counter, holder, mine, broke, said>>
  \/ Refuse("semaphores", 13, IF Threads = {} THEN "release" ELSE "crash")

DestroySemaphore ==
  /\ Go("destroy", "join")
  /\ sem' = Restrict(sem, DOMAIN sem \ {index})
  /\ index' = index + 1
  /\ UNCHANGED <<run, limit, status, refused, live, routine, counter, holder, mine, broke,
                 said>>

SemaphoresMain ==
  /\ Playing("semaphores")
  /\ \/ ReadArguments(11, "shared")
     \/ Obtain("shared", "shared", "semaphores", 12, "exit")
     \/ InitSemaphores
     \/ Obtain("arrays", "arrays", "create", 23, "release")
     \/ Create("create", index + 1)
     \/ CreateFails(21, run.count)
     \/ CreatedAll("join")
     \/ Join("join", "destroy", index)
     \/ DestroySemaphore
     \/ JoinedAll("release")
     \/ Release

NextThread(i) == (i + 1) % run.count

(* Mutant of GreetInTurn: the turn is kept.                                *)
GreetAndKeepTurn(i) ==
  \/ /\ Step(i, "start", "greet")
     /\ sem[i] > 0
     /\ sem' = [sem EXCEPT ![i] = @ - 1]
     /\ UNCHANGED <<counter, holder, mine, broke, said>>
  \/ PrintLine(i, "greet", "post", i)
  \/ Step(i, "post", "ended") /\ UNCHANGED sharedVars

(* greet().  A post on a destroyed semaphore changes nothing any more.     *)
GreetInTurn(i) ==
  \/ /\ Step(i, "start", "greet")
     /\ sem[i] > 0
     /\ sem' = [sem EXCEPT ![i] = @ - 1]
     /\ UNCHANGED <<counter, holder, mine, broke, said>>
  \/ PrintLine(i, "greet", "post", i)
  \/ /\ Step(i, "post", "ended")
     /\ sem' = [j \in DOMAIN sem |-> IF j = NextThread(i) THEN sem[j] + 1 ELSE sem[j]]
     /\ UNCHANGED <<counter, holder, mine, broke, said>>

-----------------------------------------------------------------------------
(* hello_order_cond_safe: each thread writes greets[i], main prints them.  *)

NoText == 0
Blank  == 1
Text   == 2

(* The text of thread number index is reserved just before the thread.     *)
ReserveText ==
  \/ /\ index < run.count
     /\ Go("text", "create")
     /\ mine' = [mine EXCEPT ![index] = Blank]
     /\ UNCHANGED <<run, index, limit, status, refused, live, routine, sem, counter,
                    holder, broke, said>>
  \/ /\ index < run.count
     /\ RefuseAnd("text", 22, "join")
     /\ index' = 0
     /\ UNCHANGED <<limit, mine>>
  \/ index = run.count /\ GoOn("text", "join", 0)

(* A text that was never reserved is printed as a null pointer: "(null)"   *)
(* or a crash.                                                             *)
PrintTexts ==
  \/ /\ index < run.count /\ mine[index] = Text
     /\ Go("print", "print")
     /\ said' = Append(said, index)
     /\ index' = index + 1
     /\ UNCHANGED <<run, limit, status, refused, live, routine, sem, counter, holder, mine,
                    broke>>
  \/ index < run.count /\ mine[index] # Text /\ GoOn("print", "print", index + 1)
  \/ index < run.count /\ mine[index] = NoText /\ Crash("print")
  \/ index = run.count /\ GoOn("print", "release", 0)

CollectMain ==
  /\ Playing("collect")
  /\ \/ ReadArguments(11, "shared")
     \/ Obtain("shared", "shared", "greets", 12, "exit")
     \/ Obtain("greets", "greets", "arrays", 13, "release")
     \/ Obtain("arrays", "arrays", "text", 22, "release")
     \/ ReserveText
     \/ Create("text", index + 1)
     \/ CreateFails(21, run.count)
     \/ JoinTeam("print")
     \/ PrintTexts
     \/ Release

WriteGreeting(i) == Keep(i, "start", "ended", Text)

-----------------------------------------------------------------------------
(* delayed_busy_wait: next_thread is read and written without a lock.      *)

BusyMain ==
  /\ Playing("busy")
  /\ \/ ReadArguments(11, "shared")
     \/ Obtain("shared", "shared", "arrays", 12, "exit")
     \/ CreateAndJoin(22, "release")
     \/ Release

MyTurn(i) == counter >= i

BusyGreet(i) ==
  \/ MyTurn(i) /\ Step(i, "start", "greet") /\ UNCHANGED sharedVars
  \/ PrintLine(i, "greet", "load", i)
  \/ Keep(i, "load", "store", counter)
  \/ Count(i, "store", "ended", mine[i] + 1)

-----------------------------------------------------------------------------
(* hello_w: each thread is joined before the next is created, so that it   *)
(* can read its number through a pointer to main's loop counter.           *)

SerialMain ==
  /\ Playing("serial")
  /\ \/ ReadArguments(1, "create")
     \/ Create("wait", index)
     \/ CreateFailsUnseen("wait", index)
     \/ Join("wait", "create", index + 1)
     \/ CreatedAll("exit")

SerialGreet(i) ==
  \/ Keep(i, "start", "greet", index)
  \/ PrintLine(i, "greet", "ended", mine[i])

-----------------------------------------------------------------------------
(* recursiveHello: thread i has number count - 1 - i, which its creator    *)
(* reserves and it frees; mine[i] = 1 while it is reserved.  Only main     *)
(* sees a creation fail, and only a thread sees a failed malloc.           *)

RecursiveMain ==
  /\ Playing("recursive")
  /\ \/ Refuse("begin", 0, "crash")
     \/ /\ Go("begin", "create")
        /\ mine' = [mine EXCEPT ![0] = 1]
        /\ UNCHANGED <<run, index, limit, status, refused, live, routine, sem, counter,
                       holder, broke, said>>
     \/ Create("join", 0)
     \/ Refuse("create", 1, "exit")
     \/ Join("join", "exit", 0)

Number(i) == run.count - 1 - i

(* A step of thread i that also changes the next thread or its number, and *)
(* what was refused to it.                                                 *)
ChainStep(i, from, routines, numbers, refusals) ==
  /\ ~ Over
  /\ routine[i] = from
  /\ routine' = routines
  /\ mine' = numbers
  /\ refused' = refused \union refusals
  /\ UNCHANGED <<run, main, index, limit, status, live, sem, counter, holder, broke, said>>

RecursiveGreet(i) ==
  \/ Keep(i, "start", "greet", 0)
  \/ PrintLine(i, "greet", IF Number(i) = 0 THEN "ended" ELSE "reserve", Number(i))
  \/ ChainStep(i, "reserve", [routine EXCEPT ![i] = "create"], [mine EXCEPT ![i + 1] = 1], {})
  \/ ChainStep(i, "reserve", [routine EXCEPT ![i] = "ended"], mine, {"number"})
  \/ ChainStep(i, "create", [routine EXCEPT ![i] = "wait", ![i + 1] = "start"], mine, {})
  \/ ChainStep(i, "create", [routine EXCEPT ![i] = "wait"], mine, {"next"})
  \/ /\ routine[i] = "wait" /\ routine[i + 1] \in {"ended", "unborn"}
     /\ Step(i, "wait", "ended")
     /\ UNCHANGED sharedVars
  \/ routine[i] = "wait" /\ routine[i + 1] = "unborn" /\ ~ Over /\ Crash(main)
-----------------------------------------------------------------------------
OrderedMain == SemaphoresMain \/ CollectMain \/ BusyMain \/ SerialMain \/ RecursiveMain

OrderedStep(i) ==
  \/ Playing("semaphores") /\ GreetInTurn(i)
  \/ Playing("collect") /\ WriteGreeting(i)
  \/ Playing("busy") /\ BusyGreet(i)
  \/ Playing("serial") /\ SerialGreet(i)
  \/ Playing("recursive") /\ RecursiveGreet(i)
=============================================================================
