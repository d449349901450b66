---------------------------- MODULE LockedTeams -----------------------------
(***************************************************************************)
(* The programs whose threads share a counter under a lock: the race with  *)
(* its positions, the birthday pinata, and the readers and writers.        *)
(***************************************************************************)
EXTENDS TeamMain

CONSTANT GrowthFactor    (* 10: what an array that is full is multiplied by *)

ASSUME GrowthAssumption == GrowthFactor \in Nat /\ GrowthFactor >= 2

LockedPrograms == {"race", "pinata", "readers"}

(* Mutant of Acquire: the lock excludes nobody.                            *)
AcquireAtOnce(i, from, to) ==
  /\ Step(i, from, to)
  /\ holder' = holder \union {i}
  /\ UNCHANGED <<sem, counter, mine, broke, said>>

(* pthread_mutex_lock and pthread_rwlock_wrlock.                           *)
Acquire(i, from, to) ==
  /\ holder = {}
  /\ Step(i, from, to)
  /\ holder' = {i}
  /\ UNCHANGED <<sem, counter, mine, broke, said>>

LetGo(i, from, to) ==
  /\ Step(i, from, to)
  /\ holder' = holder \ {i}
  /\ UNCHANGED <<sem, counter, mine, broke, said>>

-----------------------------------------------------------------------------
(* position_race                                                           *)

RaceMain ==
  /\ Playing("race")
  /\ \/ ReadArguments(11, "shared")
     \/ Obtain("shared", "shared", "lock", 12, "exit")
     \/ Obtain("lock", "lock", "arrays", 13, "exit")
     \/ CreateAndJoin(22, "release")
     \/ Release

Race(i) ==
  \/ Acquire(i, "start", "advance")
  \/ Count(i, "advance", "look", counter + 1)
  \/ Keep(i, "look", "print", counter)
  \/ PrintLine(i, "print", "unlock", mine[i])
  \/ LetGo(i, "unlock", "ended")

-----------------------------------------------------------------------------
(* birthday_pinata                                                         *)

PinataMain ==
  /\ Playing("pinata")
  /\ \/ ReadArguments(1, "shared")
     \/ Obtain("shared", "shared", "lock", 12, "exit")
     \/ Obtain("lock", "lock", "arrays", 13, "exit")
     \/ CreateAndJoin(22, "release")
     \/ Release

See(i) ==
  /\ Step(i, "see", "unlock")
  /\ broke' = [broke EXCEPT ![i] = @ \/ counter = 0]
  /\ UNCHANGED <<sem, counter, holder, mine, said>>

(* Mutant of Hit: the lock is let go before the hit is looked at.          *)
HitAndLetGo(i) ==
  /\ Step(i, "hit", "see")
  /\ counter' = counter - 1
  /\ mine' = [mine EXCEPT ![i] = @ + 1]
  /\ holder' = holder \ {i}
  /\ UNCHANGED <<sem, broke, said>>

Hit(i) ==
  /\ Step(i, "hit", "see")
  /\ counter' = counter - 1
  /\ mine' = [mine EXCEPT ![i] = @ + 1]
  /\ UNCHANGED <<sem, holder, broke, said>>

(* partyGuest(): hit until nothing is left to break.                       *)
PartyGuest(i) ==
  \/ Acquire(i, "start", "test")
  \/ counter > 0 /\ Step(i, "test", "hit") /\ UNCHANGED sharedVars
  \/ Hit(i)
  \/ See(i)
  \/ LetGo(i, "unlock", "start")
  \/ counter = 0 /\ LetGo(i, "test", "print")
  \/ PrintLine(i, "print", "ended", mine[i])

-----------------------------------------------------------------------------
(* readers_writers: one thread per R or W of the input.  The array of      *)
(* threads grows tenfold when it is full, and only then may realloc()      *)
(* refuse, also when the character read is neither R nor W.  A creation    *)
(* that fails is counted.  The rwlock is destroyed in memory already       *)
(* freed, which a build that watches memory (make asan) does not survive.  *)

GrowsAt(count) == count = 0 \/ \E k \in 1 .. count : count = GrowthFactor ^ k

ReadersMain ==
  /\ Playing("readers")
  /\ \/ Obtain("begin", "shared", "lock", 12, "exit")
     \/ Obtain("lock", "lock", "create", 11, "release")
     \/ /\ GrowsAt(index)
        /\ RefuseAnd("create", 22, "join")
        /\ index' = 0 /\ limit' = index
        /\ UNCHANGED mine
     \/ Create("create", index + 1)
     \/ CreateFails(21, index + 1)
     \/ CreatedAll("join")
     \/ JoinTeam("release")
     \/ Release
     \/ Crash("release")

(* pthread_rwlock_rdlock: readers only exclude writers.                    *)
ReadLock(i) ==
  /\ holder \intersect run.writers = {}
  /\ Step(i, "start", "look")
  /\ holder' = holder \union {i}
  /\ UNCHANGED <<sem, counter, mine, broke, said>>

Reader(i) ==
  \/ ReadLock(i)
  \/ Keep(i, "look", "unlock", counter)
  \/ LetGo(i, "unlock", "print")
  \/ PrintLine(i, "print", "ended", mine[i])

Writer(i) ==
  \/ Acquire(i, "start", "advance")
  \/ Count(i, "advance", "look", counter + 1)
  \/ Keep(i, "look", "unlock", counter)
  \/ LetGo(i, "unlock", "print")
  \/ PrintLine(i, "print", "ended", mine[i])

-----------------------------------------------------------------------------
LockedMain == RaceMain \/ PinataMain \/ ReadersMain

LockedStep(i) ==
  \/ Playing("race") /\ Race(i)
  \/ Playing("pinata") /\ PartyGuest(i)
  \/ Playing("readers") /\ i \in run.writers /\ Writer(i)
  \/ Playing("readers") /\ i \notin run.writers /\ Reader(i)
=============================================================================
