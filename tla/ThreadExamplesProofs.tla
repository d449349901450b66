------------------------ MODULE ThreadExamplesProofs ------------------------
(***************************************************************************)
(* All the thread examples, for any number of threads, any hardness of the *)
(* pinata, any mix of readers and writers and whatever request is refused: *)
(* what the locks exclude and what follows from it; the course of main,    *)
(* who may run where main is and what is then reserved; why each program   *)
(* that promises an order keeps it; and why nobody waits in vain.          *)
(***************************************************************************)
EXTENDS ThreadExamples, FiniteSetTheorems, SequenceTheorems, WellFoundedInduction, TLAPS

Locked == run.program \in LockedPrograms

(* The routine is between taking the lock and letting it go.               *)
Holding(i) ==
  \/ Playing("race") /\ routine[i] \in {"advance", "look", "print", "unlock"}
  \/ Playing("pinata") /\ routine[i] \in {"test", "hit", "see", "unlock"}
  \/ Playing("readers") /\ routine[i] \in {"advance", "look", "unlock"}

(* Who must hold the lock alone.                                           *)
Exclusive(i) == Playing("race") \/ Playing("pinata") \/ i \in run.writers

Types ==
  /\ run.count \in Nat /\ run.hardness \in Nat /\ run.writers \subseteq Threads
  /\ counter \in Nat
  /\ DOMAIN routine = Threads
  /\ mine \in [Threads -> Nat]
  /\ broke \in [Threads -> BOOLEAN]

(* A thread is created where none was.                                     *)
Created ==
  /\ main \in {"begin", "shared", "lock", "arrays"} =>
       index = 0 /\ \A i \in Threads : routine[i] = "unborn"
  /\ main = "create" => index \in Nat /\ \A i \in Threads : i >= index => routine[i] = "unborn"

(* The holders are those that took the lock, and one that must be alone is.*)
Exclusion ==
  /\ holder = {i \in Threads : Holding(i)}
  /\ \A i, j \in Threads : Holding(i) /\ Holding(j) /\ Exclusive(i) => i = j

(* Who looks at the counter after advancing it finds a value nobody has.   *)
Values ==
  run.program \in {"race", "readers"} =>
    /\ PositionsDistinct
    /\ \A i, j \in Threads :
         Exclusive(i) /\ routine[i] = "look" =>
           counter >= 1 /\ (HasValue(j) => mine[j] < counter)

(* The hit that leaves nothing is seen before the lock is let go.          *)
Pinata ==
  Playing("pinata") =>
    /\ OneBreaker
    /\ \A i \in Threads : routine[i] = "hit" => counter > 0
    /\ \A i, j \in Threads : routine[i] = "see" => ~ broke[j]
    /\ counter = 0 /\ run.hardness > 0 => \E i \in Threads : broke[i] \/ routine[i] = "see"
    /\ \A i \in Threads : routine[i] \in {"print", "ended"} =>
         counter = 0 /\ (run.hardness > 0 => \E j \in Threads : broke[j])

LInv == Locked => Types /\ Created /\ Exclusion /\ Values /\ Pinata

-----------------------------------------------------------------------------
LEMMA MainRun == MainStep => run' = run
<1>1. SemaphoresMain => run' = run
  BY DEF SemaphoresMain, ReadArguments, Obtain, GoOn, Refuse, RefuseAnd, InitSemaphores,
         Create, CreateFails, CreatedAll, Join, Crash, DestroySemaphore, JoinedAll, Release
<1>2. CollectMain => run' = run
  BY DEF CollectMain, ReadArguments, Obtain, GoOn, Refuse, RefuseAnd, ReserveText, Create,
         CreateFails, JoinTeam, Join, Crash, JoinedAll, PrintTexts, Release
<1>3. BusyMain \/ PrivateMain \/ SharedMain => run' = run
  BY DEF BusyMain, PrivateMain, SharedMain, ReadArguments, Obtain, GoOn, Refuse, RefuseAnd,
         CreateAndJoin, Create, CreateFails, CreatedAll, JoinTeam, Join, Crash, JoinedAll,
         Release
<1>4. SerialMain \/ RecursiveMain => run' = run
  BY DEF SerialMain, RecursiveMain, ReadArguments, GoOn, Refuse, RefuseAnd, Create,
         CreateFailsUnseen, Join, Crash, CreatedAll
<1>5. RaceMain \/ PinataMain \/ ReadersMain => run' = run
  BY DEF RaceMain, PinataMain, ReadersMain, ReadArguments, Obtain, GoOn, Refuse, RefuseAnd,
         CreateAndJoin, Create, CreateFails, CreatedAll, JoinTeam, Join, Crash, JoinedAll,
         Release
<1>6. TeamsMain \/ HelloMain \/ LotteryMain => run' = run
  BY DEF TeamsMain, HelloMain, LotteryMain, ReadArguments, Obtain, GoOn, Refuse, RefuseAnd,
         Create, CreateFails, CreateFailsUnseen, CreatedAll, JoinTeam, Join, Crash,
         JoinedAll, Release
<1>7. ShotPutMain => run' = run
  BY DEF ShotPutMain, ReadArguments, Obtain, GoOn, Refuse, RefuseAnd, Create,
         CreateFailsUnseen, CreatedAll, Join, Crash, Disband, PrintResult, Release
<1> QED
  BY <1>1, <1>2, <1>3, <1>4, <1>5, <1>6, <1>7 DEF MainStep, OrderedMain, LockedMain, PlainMain

LEMMA ThreadRun == ASSUME NEW i, ThreadStep(i) PROVE run' = run
<1>1. OrderedStep(i) => run' = run
  BY DEF OrderedStep, GreetInTurn, WriteGreeting, BusyGreet, SerialGreet, RecursiveGreet,
         PrintLine, Keep, Count, Step, mainVars, ChainStep, Crash
<1>2. LockedStep(i) => run' = run
  BY DEF LockedStep, Race, PartyGuest, Writer, Reader, Acquire, ReadLock, LetGo, Hit, See,
         PrintLine, Keep, Count, Step, mainVars
<1>3. PlainStep(i) => run' = run
  BY DEF PlainStep, Greet, BuyLottery, Athlete, PrintLine, Keep, Step, mainVars
<1> QED
  BY <1>1, <1>2, <1>3 DEF ThreadStep

-----------------------------------------------------------------------------
(* The main thread: nothing happens to the threads, or one is created.     *)

NoCreation == UNCHANGED <<run, routine, sharedVars>> /\ Created'

Creation ==
  /\ main = "create" /\ main' = "create"
  /\ index \in Threads /\ index' = index + 1
  /\ routine' = [routine EXCEPT ![index] = "start"]
  /\ UNCHANGED <<run, sharedVars>>

LEMMA MainEffect ==
  ASSUME Locked, Types, Created, LockedMain
  PROVE  NoCreation \/ Creation
<1>1. CASE RaceMain
  BY <1>1 DEF RaceMain, ReadArguments, Obtain, GoOn, Refuse, RefuseAnd, CreateAndJoin, Create,
       CreateFails, CreatedAll, JoinTeam, Join, Crash, JoinedAll, Release, Go, NoCreation,
       Creation, Created, Types, Threads, sharedVars
<1>2. CASE PinataMain
  BY <1>2 DEF PinataMain, ReadArguments, Obtain, GoOn, Refuse, RefuseAnd, CreateAndJoin, Create,
       CreateFails, CreatedAll, JoinTeam, Join, Crash, JoinedAll, Release, Go, NoCreation,
       Creation, Created, Types, Threads, sharedVars
<1>3. CASE ReadersMain
  BY <1>3 DEF ReadersMain, Obtain, GoOn, Refuse, RefuseAnd, Create,
       CreateFails, CreatedAll, JoinTeam, Join, Crash, JoinedAll, Release, Go, NoCreation,
       Creation, Created, Types, Threads, sharedVars
<1> QED
  BY <1>1, <1>2, <1>3 DEF LockedMain

LEMMA MainLocked ==
  ASSUME LInv, Locked, MainStep
  PROVE  LInv'
<1>1. Types /\ Created /\ Exclusion /\ Values /\ Pinata
  BY DEF LInv
<1>2. LockedMain
  BY DEF MainStep, Locked, LockedPrograms, Playing, OrderedMain, PlainMain, SemaphoresMain,
     CollectMain, BusyMain, SerialMain, RecursiveMain, PrivateMain, SharedMain, TeamsMain,
     HelloMain, LotteryMain, ShotPutMain
<1>3. CASE NoCreation
  BY <1>1, <1>3 DEF NoCreation, sharedVars, LInv, Types, Exclusion, Values, Pinata, Holding,
     Exclusive, PositionsDistinct, HasValue, OneBreaker, Playing, Threads
<1>4. CASE Creation
  <2>1. Types'
    <3>1. Threads' = Threads
      BY <1>4 DEF Creation, Threads
    <3>2. DOMAIN routine' = Threads
      BY <1>1, <1>4 DEF Creation, Types
    <3> QED
      BY <1>1, <1>4, <3>1, <3>2 DEF Creation, sharedVars, Types
  <2>2. Created'
    BY <1>1, <1>4 DEF Creation, Types, Created, Threads
  <2>3. routine[index] = "unborn" /\ \A i \in Threads \ {index} : routine'[i] = routine[i]
    BY <1>1, <1>4 DEF Creation, Types, Created, Threads
  <2>4. routine'[index] = "start"
    BY <1>1, <1>4 DEF Creation, Types
  <2>5. \A i \in Threads : (Holding(i)' <=> Holding(i)) /\ (Exclusive(i)' <=> Exclusive(i))
                           /\ (HasValue(i)' <=> HasValue(i))
    BY <1>4, <2>3, <2>4 DEF Creation, Holding, Exclusive, HasValue, Playing
  <2>6. Exclusion'
    BY <1>1, <1>4, <2>5 DEF Creation, Exclusion, Threads, sharedVars
  <2>7. Values'
    BY <1>1, <1>4, <2>3, <2>4, <2>5 DEF Creation, Values, PositionsDistinct, Threads, sharedVars
  <2>8. Pinata'
    BY <1>1, <1>4, <2>3, <2>4 DEF Creation, Pinata, OneBreaker, Threads, sharedVars, Playing
  <2> QED
    BY <2>1, <2>2, <2>6, <2>7, <2>8 DEF LInv
<1> QED
  BY <1>1, <1>2, <1>3, <1>4, MainEffect

-----------------------------------------------------------------------------
(* The threads.                                                            *)

LEMMA RaceLocked ==
  ASSUME LInv, Playing("race"), NEW i \in Threads, Race(i)
  PROVE  LInv'
<1>1. Types /\ Created /\ Exclusion /\ Values
  BY DEF LInv, Locked, LockedPrograms, Playing
<1>2. Playing("race")' /\ Created' /\ Threads' = Threads /\ run' = run
  <2>1. CASE Acquire(i, "start", "advance")
    BY <1>1, <2>1 DEF Acquire, Step, mainVars, Types, Created, Threads, Playing
  <2>2. CASE Count(i, "advance", "look", counter + 1)
    BY <1>1, <2>2 DEF Count, Step, mainVars, Types, Created, Threads, Playing
  <2>3. CASE Keep(i, "look", "print", counter)
    BY <1>1, <2>3 DEF Keep, Step, mainVars, Types, Created, Threads, Playing
  <2>4. CASE PrintLine(i, "print", "unlock", mine[i])
    BY <1>1, <2>4 DEF PrintLine, Step, mainVars, Types, Created, Threads, Playing
  <2>5. CASE LetGo(i, "unlock", "ended")
    BY <1>1, <2>5 DEF LetGo, Step, mainVars, Types, Created, Threads, Playing
  <2> QED
    BY <2>1, <2>2, <2>3, <2>4, <2>5 DEF Race
<1>3. Pinata'
  BY <1>2 DEF Pinata, Playing
<1>4. Types' /\ Exclusion' /\ Values'
  <2>1. CASE Acquire(i, "start", "advance")
    <3>1. routine[i] = "start" /\ routine'[i] = "advance" /\ DOMAIN routine' = Threads
          /\ \A j \in Threads \ {i} : routine'[j] = routine[j]
      BY <1>1, <2>1 DEF Acquire, Step, Types
    <3>2. holder = {} /\ holder' = {i} /\ UNCHANGED <<sem, counter, mine, broke, said>>
      BY <2>1 DEF Acquire
    <3>3. Types'
      BY <1>1, <1>2, <3>1, <3>2 DEF Types
    <3>4. Exclusion'
      BY <1>1, <1>2, <3>1, <3>2 DEF Exclusion, Holding, Exclusive, Playing
    <3>5. Values'
      BY <1>1, <1>2, <3>1, <3>2 DEF Values, PositionsDistinct, HasValue, Exclusive, Playing
    <3> QED
      BY <3>3, <3>4, <3>5
  <2>2. CASE Count(i, "advance", "look", counter + 1)
    <3>1. routine[i] = "advance" /\ routine'[i] = "look" /\ DOMAIN routine' = Threads
          /\ \A j \in Threads \ {i} : routine'[j] = routine[j]
      BY <1>1, <2>2 DEF Count, Step, Types
    <3>2. counter' = counter + 1 /\ UNCHANGED <<sem, holder, mine, broke, said>>
      BY <2>2 DEF Count
    <3>3. Types'
      BY <1>1, <1>2, <3>1, <3>2 DEF Types
    <3>4. Exclusion'
      BY <1>1, <1>2, <3>1, <3>2 DEF Exclusion, Holding, Exclusive, Playing
    <3>5. Values'
      BY <1>1, <1>2, <3>1, <3>2 DEF Types, Values, PositionsDistinct, HasValue, Exclusive,
         Exclusion, Holding, Playing
    <3> QED
      BY <3>3, <3>4, <3>5
  <2>3. CASE Keep(i, "look", "print", counter)
    <3>1. routine[i] = "look" /\ routine'[i] = "print" /\ DOMAIN routine' = Threads
          /\ \A j \in Threads \ {i} : routine'[j] = routine[j]
      BY <1>1, <2>3 DEF Keep, Step, Types
    <3>2. mine' = [mine EXCEPT ![i] = counter] /\ UNCHANGED <<sem, counter, holder, broke, said>>
      BY <2>3 DEF Keep
    <3>3. Types'
      BY <1>1, <1>2, <3>1, <3>2 DEF Types
    <3>4. Exclusion'
      BY <1>1, <1>2, <3>1, <3>2 DEF Exclusion, Holding, Exclusive, Playing
    <3>5. Values'
      BY <1>1, <1>2, <3>1, <3>2 DEF Types, Values, PositionsDistinct, HasValue, Exclusive,
         Exclusion, Holding, Playing
    <3> QED
      BY <3>3, <3>4, <3>5
  <2>4. CASE PrintLine(i, "print", "unlock", mine[i])
    <3>1. routine[i] = "print" /\ routine'[i] = "unlock" /\ DOMAIN routine' = Threads
          /\ \A j \in Threads \ {i} : routine'[j] = routine[j]
      BY <1>1, <2>4 DEF PrintLine, Step, Types
    <3>2. UNCHANGED <<sem, counter, holder, mine, broke>>
      BY <2>4 DEF PrintLine
    <3>3. Types'
      BY <1>1, <1>2, <3>1, <3>2 DEF Types
    <3>4. Exclusion'
      BY <1>1, <1>2, <3>1, <3>2 DEF Exclusion, Holding, Exclusive, Playing
    <3>5. Values'
      BY <1>1, <1>2, <3>1, <3>2 DEF Values, PositionsDistinct, HasValue, Exclusive, Playing
    <3> QED
      BY <3>3, <3>4, <3>5
  <2>5. CASE LetGo(i, "unlock", "ended")
    <3>1. routine[i] = "unlock" /\ routine'[i] = "ended" /\ DOMAIN routine' = Threads
          /\ \A j \in Threads \ {i} : routine'[j] = routine[j]
      BY <1>1, <2>5 DEF LetGo, Step, Types
    <3>2. holder' = holder \ {i} /\ UNCHANGED <<sem, counter, mine, broke, said>>
      BY <2>5 DEF LetGo
    <3>3. Types'
      BY <1>1, <1>2, <3>1, <3>2 DEF Types
    <3>4. Exclusion'
      BY <1>1, <1>2, <3>1, <3>2 DEF Exclusion, Holding, Exclusive, Playing
    <3>5. Values'
      BY <1>1, <1>2, <3>1, <3>2 DEF Values, PositionsDistinct, HasValue, Exclusive, Playing
    <3> QED
      BY <3>3, <3>4, <3>5
  <2> QED
    BY <2>1, <2>2, <2>3, <2>4, <2>5 DEF Race
<1> QED
  BY <1>2, <1>3, <1>4 DEF LInv

LEMMA PinataLocked ==
  ASSUME LInv, Playing("pinata"), NEW i \in Threads, PartyGuest(i)
  PROVE  LInv'
<1>1. Types /\ Created /\ Exclusion /\ Pinata
  BY DEF LInv, Locked, LockedPrograms, Playing
<1>2. Playing("pinata")' /\ Created' /\ Threads' = Threads /\ run' = run
  <2>1. CASE Acquire(i, "start", "test")
    BY <1>1, <2>1 DEF Acquire, Step, mainVars, Types, Created, Threads, Playing
  <2>2. CASE counter > 0 /\ Step(i, "test", "hit") /\ UNCHANGED sharedVars
    BY <1>1, <2>2 DEF Step, mainVars, Types, Created, Threads, Playing
  <2>3. CASE Hit(i)
    BY <1>1, <2>3 DEF Hit, Step, mainVars, Types, Created, Threads, Playing
  <2>4. CASE See(i)
    BY <1>1, <2>4 DEF See, Step, mainVars, Types, Created, Threads, Playing
  <2>5. CASE LetGo(i, "unlock", "start")
    BY <1>1, <2>5 DEF LetGo, Step, mainVars, Types, Created, Threads, Playing
  <2>6. CASE counter = 0 /\ LetGo(i, "test", "print")
    BY <1>1, <2>6 DEF LetGo, Step, mainVars, Types, Created, Threads, Playing
  <2>7. CASE PrintLine(i, "print", "ended", mine[i])
    BY <1>1, <2>7 DEF PrintLine, Step, mainVars, Types, Created, Threads, Playing
  <2> QED
    BY <2>1, <2>2, <2>3, <2>4, <2>5, <2>6, <2>7 DEF PartyGuest
<1>3. Values'
  BY <1>2 DEF Values, Playing
<1>4. Types' /\ Exclusion' /\ Pinata'
  <2>1. CASE Acquire(i, "start", "test")
    <3>1. routine[i] = "start" /\ routine'[i] = "test" /\ DOMAIN routine' = Threads
          /\ \A j \in Threads \ {i} : routine'[j] = routine[j]
      BY <1>1, <2>1 DEF Acquire, Step, Types
    <3>2. holder = {} /\ holder' = {i} /\ UNCHANGED <<sem, counter, mine, broke, said>>
      BY <2>1 DEF Acquire
    <3>3. Types'
      BY <1>1, <1>2, <3>1, <3>2 DEF Types, Pinata
    <3>4. Exclusion'
      BY <1>1, <1>2, <3>1, <3>2 DEF Exclusion, Holding, Exclusive, Playing
    <3>5. Pinata'
      BY <1>1, <1>2, <3>1, <3>2 DEF Types, Pinata, OneBreaker, Exclusion, Holding, Exclusive, Playing
    <3> QED
      BY <3>3, <3>4, <3>5
  <2>2. CASE counter > 0 /\ Step(i, "test", "hit") /\ UNCHANGED sharedVars
    <3>1. routine[i] = "test" /\ routine'[i] = "hit" /\ DOMAIN routine' = Threads
          /\ \A j \in Threads \ {i} : routine'[j] = routine[j]
      BY <1>1, <2>2 DEF Step, Types
    <3>2. counter > 0 /\ UNCHANGED <<sem, counter, holder, mine, broke, said>>
      BY <2>2 DEF sharedVars
    <3>3. Types'
      BY <1>1, <1>2, <3>1, <3>2 DEF Types, Pinata
    <3>4. Exclusion'
      BY <1>1, <1>2, <3>1, <3>2 DEF Exclusion, Holding, Exclusive, Playing
    <3>5. Pinata'
      BY <1>1, <1>2, <3>1, <3>2 DEF Types, Pinata, OneBreaker, Exclusion, Holding, Exclusive, Playing
    <3> QED
      BY <3>3, <3>4, <3>5
  <2>3. CASE Hit(i)
    <3>1. routine[i] = "hit" /\ routine'[i] = "see" /\ DOMAIN routine' = Threads
          /\ \A j \in Threads \ {i} : routine'[j] = routine[j]
      BY <1>1, <2>3 DEF Hit, Step, Types
    <3>2. counter' = counter - 1 /\ mine' = [mine EXCEPT ![i] = @ + 1]
          /\ UNCHANGED <<sem, holder, broke, said>>
      BY <2>3 DEF Hit
    <3>3. Types'
      BY <1>1, <1>2, <3>1, <3>2 DEF Types, Pinata
    <3>4. Exclusion'
      BY <1>1, <1>2, <3>1, <3>2 DEF Exclusion, Holding, Exclusive, Playing
    <3>5. Pinata'
      BY <1>1, <1>2, <3>1, <3>2 DEF Types, Pinata, OneBreaker, Exclusion, Holding, Exclusive, Playing
    <3> QED
      BY <3>3, <3>4, <3>5
  <2>4. CASE See(i)
    <3>1. routine[i] = "see" /\ routine'[i] = "unlock" /\ DOMAIN routine' = Threads
          /\ \A j \in Threads \ {i} : routine'[j] = routine[j]
      BY <1>1, <2>4 DEF See, Step, Types
    <3>2. broke' = [broke EXCEPT ![i] = @ \/ counter = 0] /\ UNCHANGED <<sem, counter, holder, mine, said>>
      BY <2>4 DEF See
    <3>3. Types'
      BY <1>1, <1>2, <3>1, <3>2 DEF Types, Pinata
    <3>4. Exclusion'
      BY <1>1, <1>2, <3>1, <3>2 DEF Exclusion, Holding, Exclusive, Playing
    <3>5. Pinata'
      BY <1>1, <1>2, <3>1, <3>2 DEF Types, Pinata, OneBreaker, Exclusion, Holding, Exclusive, Playing
    <3> QED
      BY <3>3, <3>4, <3>5
  <2>5. CASE LetGo(i, "unlock", "start")
    <3>1. routine[i] = "unlock" /\ routine'[i] = "start" /\ DOMAIN routine' = Threads
          /\ \A j \in Threads \ {i} : routine'[j] = routine[j]
      BY <1>1, <2>5 DEF LetGo, Step, Types
    <3>2. holder' = holder \ {i} /\ UNCHANGED <<sem, counter, mine, broke, said>>
      BY <2>5 DEF LetGo
    <3>3. Types'
      BY <1>1, <1>2, <3>1, <3>2 DEF Types, Pinata
    <3>4. Exclusion'
      BY <1>1, <1>2, <3>1, <3>2 DEF Exclusion, Holding, Exclusive, Playing
    <3>5. Pinata'
      BY <1>1, <1>2, <3>1, <3>2 DEF Types, Pinata, OneBreaker, Exclusion, Holding, Exclusive, Playing
    <3> QED
      BY <3>3, <3>4, <3>5
  <2>6. CASE counter = 0 /\ LetGo(i, "test", "print")
    <3>1. routine[i] = "test" /\ routine'[i] = "print" /\ DOMAIN routine' = Threads
          /\ \A j \in Threads \ {i} : routine'[j] = routine[j]
      BY <1>1, <2>6 DEF LetGo, Step, Types
    <3>2. counter = 0 /\ holder' = holder \ {i} /\ UNCHANGED <<sem, counter, mine, broke, said>>
      BY <2>6 DEF LetGo
    <3>3. Types'
      BY <1>1, <1>2, <3>1, <3>2 DEF Types, Pinata
    <3>4. Exclusion'
      BY <1>1, <1>2, <3>1, <3>2 DEF Exclusion, Holding, Exclusive, Playing
    <3>5. Pinata'
      BY <1>1, <1>2, <3>1, <3>2 DEF Types, Pinata, OneBreaker, Exclusion, Holding, Exclusive, Playing
    <3> QED
      BY <3>3, <3>4, <3>5
  <2>7. CASE PrintLine(i, "print", "ended", mine[i])
    <3>1. routine[i] = "print" /\ routine'[i] = "ended" /\ DOMAIN routine' = Threads
          /\ \A j \in Threads \ {i} : routine'[j] = routine[j]
      BY <1>1, <2>7 DEF PrintLine, Step, Types
    <3>2. UNCHANGED <<sem, counter, holder, mine, broke>>
      BY <2>7 DEF PrintLine
    <3>3. Types'
      BY <1>1, <1>2, <3>1, <3>2 DEF Types, Pinata
    <3>4. Exclusion'
      BY <1>1, <1>2, <3>1, <3>2 DEF Exclusion, Holding, Exclusive, Playing
    <3>5. Pinata'
      BY <1>1, <1>2, <3>1, <3>2 DEF Types, Pinata, OneBreaker, Exclusion, Holding, Exclusive, Playing
    <3> QED
      BY <3>3, <3>4, <3>5
  <2> QED
    BY <2>1, <2>2, <2>3, <2>4, <2>5, <2>6, <2>7 DEF PartyGuest
<1> QED
  BY <1>2, <1>3, <1>4 DEF LInv

LEMMA WriterLocked ==
  ASSUME LInv, Playing("readers"), NEW i \in Threads, i \in run.writers, Writer(i)
  PROVE  LInv'
<1>1. Types /\ Created /\ Exclusion /\ Values
  BY DEF LInv, Locked, LockedPrograms, Playing
<1>2. Playing("readers")' /\ Created' /\ Threads' = Threads /\ run' = run
  <2>1. CASE Acquire(i, "start", "advance")
    BY <1>1, <2>1 DEF Acquire, Step, mainVars, Types, Created, Threads, Playing
  <2>2. CASE Count(i, "advance", "look", counter + 1)
    BY <1>1, <2>2 DEF Count, Step, mainVars, Types, Created, Threads, Playing
  <2>3. CASE Keep(i, "look", "unlock", counter)
    BY <1>1, <2>3 DEF Keep, Step, mainVars, Types, Created, Threads, Playing
  <2>4. CASE LetGo(i, "unlock", "print")
    BY <1>1, <2>4 DEF LetGo, Step, mainVars, Types, Created, Threads, Playing
  <2>5. CASE PrintLine(i, "print", "ended", mine[i])
    BY <1>1, <2>5 DEF PrintLine, Step, mainVars, Types, Created, Threads, Playing
  <2> QED
    BY <2>1, <2>2, <2>3, <2>4, <2>5 DEF Writer
<1>3. Pinata'
  BY <1>2 DEF Pinata, Playing
<1>4. Types' /\ Exclusion' /\ Values'
  <2>1. CASE Acquire(i, "start", "advance")
    <3>1. routine[i] = "start" /\ routine'[i] = "advance" /\ DOMAIN routine' = Threads
          /\ \A j \in Threads \ {i} : routine'[j] = routine[j]
      BY <1>1, <2>1 DEF Acquire, Step, Types
    <3>2. holder = {} /\ holder' = {i} /\ UNCHANGED <<sem, counter, mine, broke, said>>
      BY <2>1 DEF Acquire
    <3>3. Types'
      BY <1>1, <1>2, <3>1, <3>2 DEF Types
    <3>4. Exclusion'
      BY <1>1, <1>2, <3>1, <3>2 DEF Exclusion, Holding, Exclusive, Playing
    <3>5. Values'
      BY <1>1, <1>2, <3>1, <3>2 DEF Types, Values, PositionsDistinct, HasValue, Exclusive,
         Exclusion, Holding, Playing
    <3> QED
      BY <3>3, <3>4, <3>5
  <2>2. CASE Count(i, "advance", "look", counter + 1)
    <3>1. routine[i] = "advance" /\ routine'[i] = "look" /\ DOMAIN routine' = Threads
          /\ \A j \in Threads \ {i} : routine'[j] = routine[j]
      BY <1>1, <2>2 DEF Count, Step, Types
    <3>2. counter' = counter + 1 /\ UNCHANGED <<sem, holder, mine, broke, said>>
      BY <2>2 DEF Count
    <3>3. Types'
      BY <1>1, <1>2, <3>1, <3>2 DEF Types
    <3>4. Exclusion'
      BY <1>1, <1>2, <3>1, <3>2 DEF Exclusion, Holding, Exclusive, Playing
    <3>5. Values'
      BY <1>1, <1>2, <3>1, <3>2 DEF Types, Values, PositionsDistinct, HasValue, Exclusive,
         Exclusion, Holding, Playing
    <3> QED
      BY <3>3, <3>4, <3>5
  <2>3. CASE Keep(i, "look", "unlock", counter)
    <3>1. routine[i] = "look" /\ routine'[i] = "unlock" /\ DOMAIN routine' = Threads
          /\ \A j \in Threads \ {i} : routine'[j] = routine[j]
      BY <1>1, <2>3 DEF Keep, Step, Types
    <3>2. mine' = [mine EXCEPT ![i] = counter] /\ UNCHANGED <<sem, counter, holder, broke, said>>
      BY <2>3 DEF Keep
    <3>3. Types'
      BY <1>1, <1>2, <3>1, <3>2 DEF Types
    <3>4. Exclusion'
      BY <1>1, <1>2, <3>1, <3>2 DEF Exclusion, Holding, Exclusive, Playing
    <3>5. Values'
      BY <1>1, <1>2, <3>1, <3>2 DEF Types, Values, PositionsDistinct, HasValue, Exclusive,
         Exclusion, Holding, Playing
    <3> QED
      BY <3>3, <3>4, <3>5
  <2>4. CASE LetGo(i, "unlock", "print")
    <3>1. routine[i] = "unlock" /\ routine'[i] = "print" /\ DOMAIN routine' = Threads
          /\ \A j \in Threads \ {i} : routine'[j] = routine[j]
      BY <1>1, <2>4 DEF LetGo, Step, Types
    <3>2. holder' = holder \ {i} /\ UNCHANGED <<sem, counter, mine, broke, said>>
      BY <2>4 DEF LetGo
    <3>3. Types'
      BY <1>1, <1>2, <3>1, <3>2 DEF Types
    <3>4. Exclusion'
      BY <1>1, <1>2, <3>1, <3>2 DEF Exclusion, Holding, Exclusive, Playing
    <3>5. Values'
      BY <1>1, <1>2, <3>1, <3>2 DEF Types, Values, PositionsDistinct, HasValue, Exclusive,
         Exclusion, Holding, Playing
    <3> QED
      BY <3>3, <3>4, <3>5
  <2>5. CASE PrintLine(i, "print", "ended", mine[i])
    <3>1. routine[i] = "print" /\ routine'[i] = "ended" /\ DOMAIN routine' = Threads
          /\ \A j \in Threads \ {i} : routine'[j] = routine[j]
      BY <1>1, <2>5 DEF PrintLine, Step, Types
    <3>2. UNCHANGED <<sem, counter, holder, mine, broke>>
      BY <2>5 DEF PrintLine
    <3>3. Types'
      BY <1>1, <1>2, <3>1, <3>2 DEF Types
    <3>4. Exclusion'
      BY <1>1, <1>2, <3>1, <3>2 DEF Exclusion, Holding, Exclusive, Playing
    <3>5. Values'
      BY <1>1, <1>2, <3>1, <3>2 DEF Types, Values, PositionsDistinct, HasValue, Exclusive,
         Exclusion, Holding, Playing
    <3> QED
      BY <3>3, <3>4, <3>5
  <2> QED
    BY <2>1, <2>2, <2>3, <2>4, <2>5 DEF Writer
<1> QED
  BY <1>2, <1>3, <1>4 DEF LInv

LEMMA ReaderLocked ==
  ASSUME LInv, Playing("readers"), NEW i \in Threads, i \notin run.writers, Reader(i)
  PROVE  LInv'
<1>1. Types /\ Created /\ Exclusion /\ Values
  BY DEF LInv, Locked, LockedPrograms, Playing
<1>2. Playing("readers")' /\ Created' /\ Threads' = Threads /\ run' = run
  <2>1. CASE ReadLock(i)
    BY <1>1, <2>1 DEF ReadLock, Step, mainVars, Types, Created, Threads, Playing
  <2>2. CASE Keep(i, "look", "unlock", counter)
    BY <1>1, <2>2 DEF Keep, Step, mainVars, Types, Created, Threads, Playing
  <2>3. CASE LetGo(i, "unlock", "print")
    BY <1>1, <2>3 DEF LetGo, Step, mainVars, Types, Created, Threads, Playing
  <2>4. CASE PrintLine(i, "print", "ended", mine[i])
    BY <1>1, <2>4 DEF PrintLine, Step, mainVars, Types, Created, Threads, Playing
  <2> QED
    BY <2>1, <2>2, <2>3, <2>4 DEF Reader
<1>3. Pinata'
  BY <1>2 DEF Pinata, Playing
<1>4. Types' /\ Exclusion' /\ Values'
  <2>1. CASE ReadLock(i)
    <3>1. routine[i] = "start" /\ routine'[i] = "look" /\ DOMAIN routine' = Threads
          /\ \A j \in Threads \ {i} : routine'[j] = routine[j]
      BY <1>1, <2>1 DEF ReadLock, Step, Types
    <3>2. holder \intersect run.writers = {} /\ holder' = holder \union {i}
          /\ UNCHANGED <<sem, counter, mine, broke, said>>
      BY <2>1 DEF ReadLock
    <3>3. Types'
      BY <1>1, <1>2, <3>1, <3>2 DEF Types
    <3>4. Exclusion'
      BY <1>1, <1>2, <3>1, <3>2 DEF Exclusion, Holding, Exclusive, Playing
    <3>5. Values'
      BY <1>1, <1>2, <3>1, <3>2 DEF Types, Values, PositionsDistinct, HasValue, Exclusive,
         Exclusion, Holding, Playing
    <3> QED
      BY <3>3, <3>4, <3>5
  <2>2. CASE Keep(i, "look", "unlock", counter)
    <3>1. routine[i] = "look" /\ routine'[i] = "unlock" /\ DOMAIN routine' = Threads
          /\ \A j \in Threads \ {i} : routine'[j] = routine[j]
      BY <1>1, <2>2 DEF Keep, Step, Types
    <3>2. mine' = [mine EXCEPT ![i] = counter] /\ UNCHANGED <<sem, counter, holder, broke, said>>
      BY <2>2 DEF Keep
    <3>3. Types'
      BY <1>1, <1>2, <3>1, <3>2 DEF Types
    <3>4. Exclusion'
      BY <1>1, <1>2, <3>1, <3>2 DEF Exclusion, Holding, Exclusive, Playing
    <3>5. Values'
      BY <1>1, <1>2, <3>1, <3>2 DEF Types, Values, PositionsDistinct, HasValue, Exclusive,
         Exclusion, Holding, Playing
    <3> QED
      BY <3>3, <3>4, <3>5
  <2>3. CASE LetGo(i, "unlock", "print")
    <3>1. routine[i] = "unlock" /\ routine'[i] = "print" /\ DOMAIN routine' = Threads
          /\ \A j \in Threads \ {i} : routine'[j] = routine[j]
      BY <1>1, <2>3 DEF LetGo, Step, Types
    <3>2. holder' = holder \ {i} /\ UNCHANGED <<sem, counter, mine, broke, said>>
      BY <2>3 DEF LetGo
    <3>3. Types'
      BY <1>1, <1>2, <3>1, <3>2 DEF Types
    <3>4. Exclusion'
      BY <1>1, <1>2, <3>1, <3>2 DEF Exclusion, Holding, Exclusive, Playing
    <3>5. Values'
      BY <1>1, <1>2, <3>1, <3>2 DEF Types, Values, PositionsDistinct, HasValue, Exclusive,
         Exclusion, Holding, Playing
    <3> QED
      BY <3>3, <3>4, <3>5
  <2>4. CASE PrintLine(i, "print", "ended", mine[i])
    <3>1. routine[i] = "print" /\ routine'[i] = "ended" /\ DOMAIN routine' = Threads
          /\ \A j \in Threads \ {i} : routine'[j] = routine[j]
      BY <1>1, <2>4 DEF PrintLine, Step, Types
    <3>2. UNCHANGED <<sem, counter, holder, mine, broke>>
      BY <2>4 DEF PrintLine
    <3>3. Types'
      BY <1>1, <1>2, <3>1, <3>2 DEF Types
    <3>4. Exclusion'
      BY <1>1, <1>2, <3>1, <3>2 DEF Exclusion, Holding, Exclusive, Playing
    <3>5. Values'
      BY <1>1, <1>2, <3>1, <3>2 DEF Types, Values, PositionsDistinct, HasValue, Exclusive,
         Exclusion, Holding, Playing
    <3> QED
      BY <3>3, <3>4, <3>5
  <2> QED
    BY <2>1, <2>2, <2>3, <2>4 DEF Reader
<1> QED
  BY <1>2, <1>3, <1>4 DEF LInv

-----------------------------------------------------------------------------
LEMMA InitLInv == Init => LInv
<1> SUFFICES ASSUME Init, Locked PROVE Types /\ Created /\ Exclusion /\ Values /\ Pinata
  BY DEF LInv
<1>1. run \in CommandLines(OrderedPrograms \union LockedPrograms \union PlainPrograms)
      /\ run.writers \subseteq Threads
  BY DEF Init, InitWith
<1>2. run.count \in Nat /\ run.hardness \in Nat
  BY <1>1, BoundsAssumption DEF CommandLines, Counts, Locked, LockedPrograms
<1>3. Types /\ Created
  BY <1>1, <1>2 DEF Init, InitWith, Types, Created
<1>4. \A i \in Threads : routine[i] = "unborn" /\ ~ broke[i]
  BY DEF Init, InitWith
<1>5. Exclusion /\ Values /\ Pinata
  BY <1>4 DEF Init, InitWith, Exclusion, Values, Pinata, Holding, PositionsDistinct, HasValue,
     OneBreaker, Playing
<1> QED
  BY <1>3, <1>5

LEMMA NextLInv == LInv /\ [Next]_vars => LInv'
<1> SUFFICES ASSUME LInv, [Next]_vars PROVE LInv'
  OBVIOUS
<1>1. CASE MainStep
  <2>1. CASE Locked
    BY <1>1, <2>1, MainLocked
  <2>2. CASE ~ Locked
    BY <1>1, <2>2, MainRun DEF LInv, Locked
  <2> QED
    BY <2>1, <2>2
<1>2. ASSUME NEW i \in Threads, ThreadStep(i) PROVE LInv'
  <2>1. CASE ~ Locked
    BY <1>2, <2>1, ThreadRun DEF LInv, Locked
  <2>2. CASE Playing("race")
    BY <1>2, <2>2, RaceLocked DEF ThreadStep, OrderedStep, LockedStep, PlainStep, Playing
  <2>3. CASE Playing("pinata")
    BY <1>2, <2>3, PinataLocked DEF ThreadStep, OrderedStep, LockedStep, PlainStep, Playing
  <2>4. CASE Playing("readers")
    BY <1>2, <2>4, WriterLocked, ReaderLocked
      DEF ThreadStep, OrderedStep, LockedStep, PlainStep, Playing
  <2> QED
    BY <2>1, <2>2, <2>3, <2>4 DEF Locked, LockedPrograms, Playing
<1>3. CASE UNCHANGED vars
  BY <1>3 DEF vars, mainVars, sharedVars, LInv, Locked, Types, Created, Exclusion, Values, Pinata,
     Holding, Exclusive, PositionsDistinct, HasValue, OneBreaker, Playing, Threads
<1> QED
  BY <1>1, <1>2, <1>3 DEF Next, Done

LEMMA LockedInvariant == Spec => []LInv
BY InitLInv, NextLInv, PTL DEF Spec

(* Two runners never get the same position, nor two writers the same value *)
(* of the counter: read under the lock that advanced it.                   *)
THEOREM DistinctPositions == Spec => []PositionsDistinct
<1>1. LInv => PositionsDistinct
  BY DEF LInv, Locked, LockedPrograms, Values, PositionsDistinct
<1> QED
  BY <1>1, LockedInvariant, PTL

(* At most one guest breaks the pinata, with its last hit, and whoever     *)
(* leaves the party leaves it broken.                                      *)
THEOREM BrokenOnce == Spec => []OneBreaker
<1>1. LInv => OneBreaker
  BY DEF LInv, Locked, LockedPrograms, Pinata, OneBreaker, Playing
<1> QED
  BY <1>1, LockedInvariant, PTL

(* Writers are alone; readers only share the lock with readers.            *)
THEOREM WritersAlone == Spec => [](Locked => Exclusion)
<1>1. LInv => (Locked => Exclusion)
  BY DEF LInv
<1> QED
  BY <1>1, LockedInvariant, PTL
-----------------------------------------------------------------------------
(* The course of main, for all the programs: who may be running where main *)
(* is, and what is then reserved.                                          *)

Shape ==
  /\ run.count \in Nat /\ index \in Nat /\ limit \in Nat
  /\ DOMAIN routine = Threads /\ DOMAIN mine = Threads
  /\ Playing("hello") => run.count = 1

StartLabels  == {"begin", "shared", "lock", "semaphores", "greets", "matrix", "arrays"}
CreateLabels == {"text", "create"}
EndLabels    == {"print", "result", "release", "exit"}

(* Nothing fatal was refused: every thread joined has been created.        *)
Safe == refused \intersect Fatal = {}

(* A refusal leaves this part of main, unless nobody notices it.           *)
Starting ==
  /\ index = 0 /\ limit = run.count
  /\ \A i \in Threads : routine[i] = "unborn"

Creating ==
  /\ index <= run.count /\ limit = run.count /\ (Playing("hello") => index = 0)
  /\ \A i \in Threads :
       /\ i >= index => routine[i] = "unborn"
       /\ i < index /\ Safe => routine[i] # "unborn"
       /\ i < index /\ Playing("serial") => ~ Running(i)

(* hello_w waits for each thread before it creates the next.               *)
Waiting ==
  /\ Playing("serial") /\ index < run.count /\ limit = run.count
  /\ \A i \in Threads :
       /\ i > index => routine[i] = "unborn"
       /\ i <= index /\ Safe => routine[i] # "unborn"
       /\ i < index => ~ Running(i)

(* Whoever is not joined was not created.                                  *)
Joining ==
  /\ index <= limit /\ limit <= run.count /\ (refused = {} => limit = run.count)
  /\ Playing("collect") => limit = run.count
  /\ \A i \in Threads :
       /\ i >= limit => routine[i] = "unborn"
       /\ i < limit /\ Safe => routine[i] # "unborn"
       /\ i < index => ~ Running(i)

Ending ==
  \A i \in Threads : ~ Running(i) /\ (refused = {} => routine[i] = "ended")

Path ==
  ~ Playing("recursive") =>
    /\ main \in StartLabels \union CreateLabels \union EndLabels
               \union {"wait", "join", "destroy", "crash"}
    /\ main \in StartLabels => Starting
    /\ main \in CreateLabels => Creating
    /\ main = "wait" => Waiting
    /\ main \in {"join", "destroy"} => Joining
    /\ main = "destroy" => index < limit /\ ~ Running(index)
    /\ main \in EndLabels => Ending
    /\ main = "print" /\ Playing("collect") /\ Safe =>
         \A i \in Threads : routine[i] # "unborn"

(* recursiveHello: a thread that ended has waited for the whole chain it   *)
(* started, and one that has not created the next has nobody after it.     *)
Chain ==
  Playing("recursive") =>
    /\ run.count > 0 /\ limit = run.count /\ index = 0
    /\ main \in {"begin", "create"} => \A i \in Threads : routine[i] = "unborn"
    /\ main \in {"begin", "create"} => refused = {}
    /\ main # "wait"
    /\ main = "join" => routine[0] # "unborn"
    /\ main = "exit" => Ending
    /\ \A i \in Threads :
         /\ routine[i] \in {"reserve", "create", "wait"} => i + 1 \in Threads
         /\ routine[i] = "wait" /\ Safe => routine[i + 1] # "unborn"
    /\ \A i, j \in Threads : i < j =>
         /\ routine[i] \in {"unborn", "start", "greet", "reserve", "create"} =>
              routine[j] = "unborn"
         /\ routine[i] = "ended" =>
              ~ Running(j) /\ (refused = {} => routine[j] = "ended")

(* What is reserved, from when to when.                                    *)
SharedUsers == {"shared", "collect", "busy", "semaphores", "race", "pinata", "readers"}
ArrayUsers  == {"private", "shared", "team", "collect", "busy", "semaphores", "race", "pinata"}

Reserved ==
  /\ run.program \in SharedUsers
     /\ main \in {"lock", "semaphores", "greets", "arrays", "text", "create", "join", "destroy"}
     => "shared" \in live
  /\ run.program \in ArrayUsers /\ main \in {"text", "create", "join", "destroy"}
     => "arrays" \in live

TeamsReserved ==
  Playing("shotput") =>
    /\ Athletes \in Nat /\ Athletes > 0 /\ run.count = Athletes + Athletes
    /\ main \in {"create", "join"} => "matrix" \in live
    /\ main = "create" =>
         (index > 0 => "team1" \in live) /\ (index > Athletes => "team2" \in live)
    /\ main = "join" =>
         (index < Athletes => "team1" \in live) /\ (index < run.count => "team2" \in live)

TextsReserved ==
  Playing("collect") =>
    /\ \A i \in Threads : routine[i] # "unborn" => mine[i] # NoText
    /\ main = "create" => index \in Threads /\ mine[index] # NoText

NumbersReserved ==
  Playing("recursive") =>
    /\ main = "create" => mine[0] = 1
    /\ \A i \in Threads :
         /\ routine[i] = "start" => mine[i] = 1
         /\ routine[i] = "create" => mine[i + 1] = 1

SemaphoresLive ==
  Playing("semaphores") =>
    /\ main \in {"arrays", "create"} => DOMAIN sem = Threads
    /\ main \in {"join", "destroy"} => DOMAIN sem = index .. run.count - 1

(* What the error variable tells, and what a crash tells.                  *)
StatusInv ==
  /\ main # "crash" => (status = 0 <=> refused \subseteq Unnoticed)
  /\ Playing("shotput") => status = 0
  /\ main = "crash" /\ Safe => Playing("readers")

Course == Shape /\ Path

LEMMA NothingRefusedIsSafe == refused = {} => Safe
BY DEF Safe

LEMMA SafeKept == ASSUME run' = run, refused' = refused PROVE Safe' = Safe
BY DEF Safe, Fatal, Playing

LEMMA SafeBefore ==
  ASSUME run' = run, NEW from, refused' = refused \union from
  PROVE  /\ Safe' => Safe
         /\ from \intersect Fatal # {} => ~ Safe'
BY DEF Safe, Fatal, Playing

LEMMA CreateIsFatal ==
  ASSUME ~ Playing("hello"), ~ Playing("team"), ~ Playing("recursive")
  PROVE  "create" \in Fatal
BY DEF Fatal, Playing

-----------------------------------------------------------------------------
(* The steps of main keep its course, wherever they lead in their part.    *)

LEMMA ObtainCourse ==
  ASSUME Course, ~ Playing("recursive"),
         NEW from \in StartLabels, NEW what, NEW to \in StartLabels \union CreateLabels,
         NEW code, NEW otherwise \in {"release", "exit", "crash"},
         Obtain(from, what, to, code, otherwise)
  PROVE  Course'
<1>1. run' = run /\ index' = index /\ limit' = limit /\ routine' = routine /\ mine' = mine
      /\ main = from /\ Threads' = Threads
  BY DEF Obtain, Refuse, RefuseAnd, Go, sharedVars, Threads
<1>2. \/ main' = to /\ refused' = refused
      \/ main' = otherwise /\ refused' # {}
  BY DEF Obtain, Refuse, RefuseAnd, Go
<1>3. Shape'
  BY <1>1, <1>2 DEF Course, Shape, Playing
<1>4. Starting
  BY <1>1 DEF Course, Path
<1>5. Path'
  BY <1>1, <1>2, <1>4 DEF Course, Shape, Path, StartLabels, CreateLabels, EndLabels, Starting, Creating,
     Ending, Running, Playing, Threads
<1> QED BY <1>3, <1>5 DEF Course

LEMMA GoOnCourse ==
  ASSUME Course, ~ Playing("recursive"),
         NEW from \in StartLabels, NEW to \in StartLabels \union CreateLabels, GoOn(from, to, 0)
  PROVE  Course'
<1>1. run' = run /\ index' = 0 /\ limit' = limit /\ routine' = routine /\ mine' = mine
      /\ refused' = refused /\ main = from /\ main' = to /\ Threads' = Threads
  BY DEF GoOn, Go, sharedVars, Threads
<1>2. Shape'
  BY <1>1 DEF Course, Shape, Playing
<1>3. Starting
  BY <1>1 DEF Course, Path
<1>4. Path'
  BY <1>1, <1>3 DEF Course, Shape, Path, StartLabels, CreateLabels, EndLabels, Starting, Creating,
     Running, Playing, Threads
<1> QED BY <1>2, <1>4 DEF Course

LEMMA RefuseCourse ==
  ASSUME Course, ~ Playing("recursive"),
         NEW from \in StartLabels, NEW code, NEW to \in {"release", "exit", "crash"},
         Refuse(from, code, to)
  PROVE  Course'
<1>1. run' = run /\ index' = index /\ limit' = limit /\ routine' = routine /\ mine' = mine
      /\ refused' # {} /\ main = from /\ main' = to /\ Threads' = Threads
  BY DEF Refuse, RefuseAnd, Go, Threads
<1>2. Shape'
  BY <1>1 DEF Course, Shape, Playing
<1>3. Starting
  BY <1>1 DEF Course, Path
<1>4. Path'
  BY <1>1, <1>3 DEF Path, StartLabels, CreateLabels, EndLabels, Starting, Ending, Running, Playing
<1> QED BY <1>2, <1>4 DEF Course

LEMMA ReadCourse ==
  ASSUME Course, ~ Playing("recursive"),
         NEW code, NEW to \in StartLabels \union CreateLabels, ReadArguments(code, to)
  PROVE  Course'
BY GoOnCourse, RefuseCourse DEF ReadArguments, StartLabels

LEMMA CreateCourse ==
  ASSUME Course, ~ Playing("recursive"), ~ Playing("serial"), ~ Playing("hello"),
         NEW to \in CreateLabels, Create(to, index + 1)
  PROVE  Course'
<1>1. run' = run /\ limit' = limit /\ mine' = mine /\ refused' = refused
      /\ main = "create" /\ main' = to /\ Threads' = Threads
  BY DEF Create, Go, sharedVars, Threads
<1>2. index < run.count /\ index' = index + 1
      /\ routine' = [routine EXCEPT ![index] = "start"]
  BY DEF Create
<1>3. Shape'
  BY <1>1, <1>2 DEF Course, Shape, Playing
<1>4. Creating
  BY <1>1 DEF Course, Path, CreateLabels
<1>5. Creating'
  BY <1>1, <1>2, <1>4, SafeKept DEF Course, Shape, Creating, Running, Playing, Threads
<1>6. Path'
  BY <1>1, <1>5 DEF Path, StartLabels, CreateLabels, EndLabels
<1> QED BY <1>3, <1>6 DEF Course

LEMMA CreateFailsCourse ==
  ASSUME Course, ~ Playing("recursive"), ~ Playing("hello"), NEW code,
         NEW joins \in {index, index + 1, run.count},
         Playing("team") => joins = index, Playing("collect") => joins = run.count,
         CreateFails(code, joins)
  PROVE  Course'
<1>1. run' = run /\ limit' = joins /\ mine' = mine /\ refused' # {} /\ routine' = routine
      /\ main = "create" /\ main' = "join" /\ Threads' = Threads /\ index' = 0
      /\ index < run.count /\ refused' = refused \union {"create"}
      /\ Playing("team")' = Playing("team") /\ Playing("collect")' = Playing("collect")
  BY DEF CreateFails, RefuseAnd, Go, Threads, Playing
<1>6. (Safe' => Safe) /\ (Safe' => joins = index)
  BY <1>1, SafeBefore, CreateIsFatal
<1>2. Shape'
  BY <1>1 DEF Course, Shape, Playing
<1>3. Creating
  BY <1>1 DEF Course, Path, CreateLabels
<1>4. Joining'
  BY <1>1, <1>3, <1>6 DEF Course, Shape, Creating, Joining, Running, Threads
<1>5. Path'
  BY <1>1, <1>4 DEF Path, StartLabels, CreateLabels, EndLabels
<1> QED BY <1>2, <1>5 DEF Course

LEMMA CreateUnseenCourse ==
  ASSUME Course, ~ Playing("recursive"), ~ Playing("serial"), ~ Playing("hello"), ~ Playing("team"),
         CreateFailsUnseen("create", index + 1)
  PROVE  Course'
<1>1. run' = run /\ limit' = limit /\ mine' = mine /\ refused' # {} /\ routine' = routine
      /\ main = "create" /\ main' = "create" /\ Threads' = Threads /\ index' = index + 1
      /\ index < run.count /\ refused' = refused \union {"create"}
  BY DEF CreateFailsUnseen, RefuseAnd, Go, Threads
<1>6. ~ Safe'
  BY <1>1, SafeBefore, CreateIsFatal
<1>2. Shape'
  BY <1>1 DEF Course, Shape, Playing
<1>3. Creating
  BY <1>1 DEF Course, Path, CreateLabels
<1>4. Creating'
  BY <1>1, <1>3, <1>6 DEF Course, Shape, Creating, Playing, Running, Threads
<1>5. Path'
  BY <1>1, <1>4 DEF Path, StartLabels, CreateLabels, EndLabels
<1> QED BY <1>2, <1>5 DEF Course

LEMMA CreatedCourse ==
  ASSUME Course, ~ Playing("recursive"), NEW from \in CreateLabels,
         index = run.count, GoOn(from, "join", 0)
  PROVE  Course'
<1>1. run' = run /\ limit' = limit /\ mine' = mine /\ refused' = refused /\ routine' = routine
      /\ main = from /\ main' = "join" /\ Threads' = Threads /\ index' = 0 /\ Safe' = Safe
  BY SafeKept DEF GoOn, Go, sharedVars, Threads
<1>2. Shape'
  BY <1>1 DEF Course, Shape, Playing
<1>3. Creating
  BY <1>1 DEF Course, Path
<1>4. Joining'
  BY <1>1, <1>3 DEF Course, Shape, Creating, Joining, Running, Threads
<1>5. Path'
  BY <1>1, <1>4 DEF Path, StartLabels, CreateLabels, EndLabels
<1> QED BY <1>2, <1>5 DEF Course

LEMMA JoinTeamCourse ==
  ASSUME Course, ~ Playing("recursive"), NEW to \in EndLabels, JoinTeam(to)
  PROVE  Course'
<1>1. run' = run /\ limit' = limit /\ mine' = mine /\ refused' = refused /\ routine' = routine
      /\ main = "join" /\ Threads' = Threads /\ Safe' = Safe
  BY SafeKept DEF JoinTeam, Join, JoinedAll, Crash, GoOn, Go, sharedVars, Threads
<1>2. \/ index < limit /\ index' = index + 1 /\ main' = "join"
         /\ routine[index] \in {"ended", "unborn"}
      \/ index' = index /\ main' = "crash"
      \/ index = limit /\ index' = 0 /\ main' = to
  BY DEF JoinTeam, Join, JoinedAll, Crash, GoOn, Go
<1>3. Shape'
  BY <1>1, <1>2 DEF Course, Shape, Playing
<1>4. Joining
  BY <1>1 DEF Course, Path
<1>5. Path'
  BY <1>1, <1>2, <1>4, NothingRefusedIsSafe, SMTT(20) DEF Course, Shape, Path, StartLabels, CreateLabels, EndLabels, Joining, Ending,
     Running, Threads, Playing
<1> QED BY <1>3, <1>5 DEF Course

(* From one label of the end to another, or to a crash.                    *)
LEMMA EndCourse ==
  ASSUME Course, ~ Playing("recursive"), main \in EndLabels, main' \in EndLabels \union {"crash"},
         run' = run, limit' = limit, index' \in Nat, mine' = mine, refused' = refused,
         routine' = routine, main' = "print" => main = "print"
  PROVE  Course'
<1>1. Threads' = Threads /\ Safe' = Safe
  BY SafeKept DEF Threads
<1>2. Shape'
  BY <1>1 DEF Course, Shape, Playing
<1>3. /\ Ending
      /\ main = "print" /\ Playing("collect") /\ Safe => \A i \in Threads : routine[i] # "unborn"
  BY DEF Course, Path
<1>4. Path'
  BY <1>1, <1>3 DEF Playing, Path, StartLabels, CreateLabels, EndLabels, Ending, Running
<1> QED BY <1>2, <1>4 DEF Course

LEMMA ReleaseCourse ==
  ASSUME Course, ~ Playing("recursive"), Release
  PROVE  Course'
BY EndCourse DEF Release, Go, EndLabels, sharedVars, Course, Shape

LEMMA CreateAndJoinCourse ==
  ASSUME Course, ~ Playing("recursive"), ~ Playing("serial"), ~ Playing("hello"),
         ~ Playing("team"), ~ Playing("collect"), NEW code,
         CreateAndJoin(code, "release")
  PROVE  Course'
<1>1. CASE Obtain("arrays", "arrays", "create", code, "release")
  BY <1>1, ObtainCourse DEF StartLabels, CreateLabels
<1>2. CASE Create("create", index + 1)
  BY <1>2, CreateCourse DEF CreateLabels
<1>3. CASE CreateFails(21, run.count)
  BY <1>3, CreateFailsCourse
<1>4. CASE CreatedAll("join")
  BY <1>4, CreatedCourse DEF CreatedAll, CreateLabels
<1>5. CASE JoinTeam("release")
  BY <1>5, JoinTeamCourse DEF EndLabels
<1> QED BY <1>1, <1>2, <1>3, <1>4, <1>5 DEF CreateAndJoin

-----------------------------------------------------------------------------
(* The programs, one by one.                                               *)

LEMMA SemaphoresCourse == ASSUME Course, SemaphoresMain PROVE Course'
<1>1. ~ Playing("recursive") /\ ~ Playing("serial") /\ ~ Playing("hello")
      /\ ~ Playing("team") /\ ~ Playing("collect")
  BY DEF SemaphoresMain, Playing
<1>2. CASE InitSemaphores
  <2>1. CASE Refuse("semaphores", 13, IF Threads = {} THEN "release" ELSE "crash")
    BY <1>1, <2>1, RefuseCourse DEF StartLabels
  <2>2. CASE Go("semaphores", "arrays") /\ UNCHANGED <<run, index, limit, routine, mine>>
    <3>1. Threads' = Threads
      BY <2>2 DEF Threads
    <3> QED BY <1>1, <2>2, <3>1 DEF Course, Shape, Path, StartLabels, CreateLabels, EndLabels, Starting,
              Go, Playing
  <2> QED BY <1>2, <2>1, <2>2 DEF InitSemaphores
<1>3. CASE Join("join", "destroy", index)
  <2>1. run' = run /\ limit' = limit /\ mine' = mine /\ refused' = refused /\ routine' = routine
        /\ main = "join" /\ Threads' = Threads /\ index' = index /\ index < limit /\ Safe' = Safe
        /\ ((main' = "destroy" /\ routine[index] \in {"ended", "unborn"}) \/ main' = "crash")
    BY <1>3, SafeKept DEF Join, Crash, GoOn, Go, sharedVars, Threads
  <2> QED BY <1>1, <2>1
     DEF Course, Shape, Path, StartLabels, CreateLabels, EndLabels, Joining, Running, Playing
<1>4. CASE DestroySemaphore
  <2>1. run' = run /\ limit' = limit /\ mine' = mine /\ refused' = refused /\ routine' = routine
        /\ main = "destroy" /\ main' = "join" /\ Threads' = Threads /\ index' = index + 1
        /\ Safe' = Safe /\ Playing("semaphores") /\ Playing("semaphores")'
    BY <1>4, SafeKept DEF SemaphoresMain, Playing, DestroySemaphore, Go, Threads
  <2>2. Joining'
    BY <1>1, <2>1 DEF Course, Shape, Path, Joining, Running, Threads, Playing
  <2>3. Shape'
    BY <2>1 DEF Course, Shape, Playing
  <2> QED BY <2>1, <2>2, <2>3 DEF Course, Path, StartLabels, CreateLabels, EndLabels
<1>5. CASE JoinedAll("release")
  BY <1>1, <1>5, JoinTeamCourse DEF JoinTeam, EndLabels
<1>6. CASE ReadArguments(11, "shared")
  BY <1>1, <1>6, ReadCourse DEF StartLabels
<1>7. CASE Obtain("shared", "shared", "semaphores", 12, "exit")
  BY <1>1, <1>7, ObtainCourse DEF StartLabels
<1>8. CASE Obtain("arrays", "arrays", "create", 23, "release")
  BY <1>1, <1>8, ObtainCourse DEF StartLabels, CreateLabels
<1>9. CASE Create("create", index + 1) \/ CreateFails(21, run.count) \/ CreatedAll("join")
  BY <1>1, <1>9, CreateCourse, CreateFailsCourse, CreatedCourse DEF CreatedAll, CreateLabels
<1> QED BY <1>1, <1>2, <1>3, <1>4, <1>5, <1>6, <1>7, <1>8, <1>9, ReleaseCourse DEF SemaphoresMain

LEMMA CollectCourse == ASSUME Course, CollectMain PROVE Course'
<1>1. ~ Playing("recursive") /\ ~ Playing("serial") /\ ~ Playing("hello")
      /\ ~ Playing("team")
  BY DEF CollectMain, Playing
<1>2. CASE ReserveText
  <2>1. CASE index < run.count /\ Go("text", "create")
             /\ mine' = [mine EXCEPT ![index] = Blank]
             /\ UNCHANGED <<run, index, limit, refused, routine>>
    <3>1. Threads' = Threads /\ Safe' = Safe
      BY <2>1, SafeKept DEF Threads
    <3>2. Shape'
      BY <2>1, <3>1 DEF Course, Shape, Playing
    <3>3. Creating'
      BY <1>1, <2>1, <3>1 DEF Course, Path, CreateLabels, Creating, Go, Running, Playing
    <3> QED BY <2>1, <3>2, <3>3 DEF Course, Path, StartLabels, CreateLabels, EndLabels, Go
  <2>2. CASE RefuseAnd("text", 22, "join") /\ index' = 0 /\ UNCHANGED <<limit, mine>>
    <3>1. run' = run /\ limit' = limit /\ mine' = mine /\ refused' # {} /\ routine' = routine
          /\ main = "text" /\ main' = "join" /\ Threads' = Threads /\ index' = 0
          /\ refused' = refused \union {"text"} /\ "text" \in Fatal
      BY <2>2 DEF RefuseAnd, Go, Threads, CollectMain, Playing, Fatal
    <3>4. ~ Safe'
      BY <3>1, SafeBefore
    <3>2. Shape'
      BY <3>1 DEF Course, Shape, Playing
    <3>3. Joining'
      BY <1>1, <3>1, <3>4 DEF Course, Shape, Path, CreateLabels, Creating, Joining, Running, Threads
    <3> QED BY <3>1, <3>2, <3>3 DEF Course, Path, StartLabels, CreateLabels, EndLabels
  <2>3. CASE index = run.count /\ GoOn("text", "join", 0)
    BY <1>1, <2>3, CreatedCourse DEF CreateLabels
  <2> QED BY <1>2, <2>1, <2>2, <2>3 DEF ReserveText
<1>3. CASE PrintTexts
  <2>1. main = "print" /\ main' \in {"print", "release", "crash"} /\ run' = run /\ limit' = limit
        /\ index' \in {index, index + 1, 0} /\ mine' = mine /\ refused' = refused
        /\ routine' = routine
    BY <1>3 DEF PrintTexts, GoOn, Go, Crash, sharedVars
  <2>2. index' \in Nat
    BY <2>1 DEF Course, Shape, Playing
  <2> QED BY <1>1, <2>1, <2>2, EndCourse DEF EndLabels
<1>4. CASE ReadArguments(11, "shared")
  BY <1>1, <1>4, ReadCourse DEF StartLabels
<1>5. CASE Obtain("shared", "shared", "greets", 12, "exit")
  BY <1>1, <1>5, ObtainCourse DEF StartLabels
<1>6. CASE Obtain("greets", "greets", "arrays", 13, "release")
  BY <1>1, <1>6, ObtainCourse DEF StartLabels
<1>7. CASE Obtain("arrays", "arrays", "text", 22, "release")
  BY <1>1, <1>7, ObtainCourse DEF StartLabels, CreateLabels
<1>8. CASE Create("text", index + 1) \/ CreateFails(21, run.count)
  BY <1>1, <1>8, CreateCourse, CreateFailsCourse DEF CreateLabels
<1>9. CASE JoinTeam("print")
  BY <1>1, <1>9, JoinTeamCourse DEF EndLabels
<1> QED BY <1>1, <1>2, <1>3, <1>4, <1>5, <1>6, <1>7, <1>8, <1>9, ReleaseCourse DEF CollectMain

LEMMA ArraysCourse ==
  ASSUME Course, BusyMain \/ PrivateMain \/ SharedMain \/ RaceMain \/ PinataMain
  PROVE  Course'
<1>1. ~ Playing("recursive") /\ ~ Playing("serial") /\ ~ Playing("hello")
      /\ ~ Playing("team") /\ ~ Playing("collect")
  BY DEF BusyMain, PrivateMain, SharedMain, RaceMain, PinataMain, Playing
<1>2. CASE BusyMain
  BY <1>1, <1>2, ReadCourse, ObtainCourse, CreateAndJoinCourse, ReleaseCourse
     DEF BusyMain, StartLabels
<1>3. CASE PrivateMain
  BY <1>1, <1>3, ReadCourse, CreateAndJoinCourse, ReleaseCourse
     DEF PrivateMain, StartLabels
<1>4. CASE SharedMain
  BY <1>1, <1>4, ReadCourse, ObtainCourse, CreateAndJoinCourse, ReleaseCourse
     DEF SharedMain, StartLabels
<1>5. CASE RaceMain
  BY <1>1, <1>5, ReadCourse, ObtainCourse, CreateAndJoinCourse, ReleaseCourse
     DEF RaceMain, StartLabels
<1>6. CASE PinataMain
  BY <1>1, <1>6, ReadCourse, ObtainCourse, CreateAndJoinCourse, ReleaseCourse
     DEF PinataMain, StartLabels
<1> QED BY <1>2, <1>3, <1>4, <1>5, <1>6

LEMMA SerialCourse == ASSUME Course, SerialMain PROVE Course'
<1>1. Playing("serial") /\ ~ Playing("recursive")
  BY DEF SerialMain, Playing
<1>2. CASE ReadArguments(1, "create")
  BY <1>1, <1>2, ReadCourse DEF StartLabels, CreateLabels
<1>3. CASE Create("wait", index) \/ CreateFailsUnseen("wait", index)
  <2>1. run' = run /\ limit' = limit /\ mine' = mine /\ index' = index /\ index < run.count
        /\ main = "create" /\ main' = "wait" /\ Threads' = Threads
        /\ \/ refused' = refused /\ routine' = [routine EXCEPT ![index] = "start"]
           \/ refused' = refused \union {"create"} /\ routine' = routine
    BY <1>3 DEF Create, CreateFailsUnseen, RefuseAnd, Go, sharedVars, Threads
  <2>4. \/ Safe' = Safe /\ routine' = [routine EXCEPT ![index] = "start"]
        \/ ~ Safe' /\ routine' = routine
    BY <1>1, <2>1, SafeKept, SafeBefore, CreateIsFatal DEF Playing
  <2>2. Shape'
    BY <2>1 DEF Course, Shape, Playing
  <2>3. Waiting'
    BY <1>1, <2>1, <2>4 DEF Course, Shape, Path, CreateLabels, Creating, Waiting, Running, Playing, Threads
  <2> QED BY <2>1, <2>2, <2>3 DEF Course, Path, StartLabels, CreateLabels, EndLabels
<1>4. CASE Join("wait", "create", index + 1)
  <2>1. run' = run /\ limit' = limit /\ mine' = mine /\ refused' = refused /\ routine' = routine
        /\ main = "wait" /\ Threads' = Threads /\ Safe' = Safe
        /\ \/ main' = "create" /\ index' = index + 1 /\ routine[index] \in {"ended", "unborn"}
           \/ main' = "crash" /\ index' = index
    BY <1>4, SafeKept DEF Join, Crash, GoOn, Go, sharedVars, Threads
  <2>2. Shape'
    BY <2>1 DEF Course, Shape, Playing
  <2>3. main' = "create" => Creating'
    BY <1>1, <2>1 DEF Course, Shape, Path, Creating, Waiting, Running, Playing, Threads
  <2> QED BY <2>1, <2>2, <2>3 DEF Course, Path, StartLabels, CreateLabels, EndLabels
<1>5. CASE CreatedAll("exit")
  <2>1. run' = run /\ limit' = limit /\ mine' = mine /\ refused' = refused /\ routine' = routine
        /\ main = "create" /\ main' = "exit" /\ Threads' = Threads /\ index' = 0
        /\ index = run.count
    BY <1>5 DEF CreatedAll, GoOn, Go, sharedVars, Threads
  <2>2. Shape'
    BY <2>1 DEF Course, Shape, Playing
  <2>3. Ending'
    BY <1>1, <2>1, NothingRefusedIsSafe
       DEF Course, Shape, Path, CreateLabels, Creating, Ending, Running, Threads
  <2> QED BY <2>1, <2>2, <2>3 DEF Course, Path, StartLabels, CreateLabels, EndLabels
<1> QED BY <1>2, <1>3, <1>4, <1>5 DEF SerialMain

LEMMA ReadersCourse == ASSUME Course, ReadersMain PROVE Course'
<1>1. ~ Playing("recursive") /\ ~ Playing("serial") /\ ~ Playing("hello")
      /\ ~ Playing("team") /\ ~ Playing("collect")
  BY DEF ReadersMain, Playing
<1>2. CASE RefuseAnd("create", 22, "join") /\ index' = 0 /\ limit' = index /\ UNCHANGED mine
  <2>1. run' = run /\ limit' = index /\ mine' = mine /\ refused' # {} /\ routine' = routine
        /\ main = "create" /\ main' = "join" /\ Threads' = Threads /\ index' = 0
        /\ refused' = refused \union {"create"} /\ Playing("readers") /\ Playing("readers")'
    BY <1>2 DEF RefuseAnd, Go, Threads, ReadersMain, Playing
  <2>4. ~ Safe'
    BY <1>1, <2>1, SafeBefore, CreateIsFatal DEF Playing
  <2>2. Shape'
    BY <2>1 DEF Course, Shape, Playing
  <2>3. Joining'
    BY <1>1, <2>1, <2>4 DEF Course, Shape, Path, CreateLabels, Creating, Joining, Running, Threads,
       Playing
  <2> QED BY <2>1, <2>2, <2>3 DEF Course, Path, StartLabels, CreateLabels, EndLabels
<1>3. CASE Obtain("begin", "shared", "lock", 12, "exit")
  BY <1>1, <1>3, ObtainCourse DEF StartLabels
<1>4. CASE Obtain("lock", "lock", "create", 11, "release")
  BY <1>1, <1>4, ObtainCourse DEF StartLabels, CreateLabels
<1>5. CASE Create("create", index + 1) \/ CreateFails(21, index + 1) \/ CreatedAll("join")
  BY <1>1, <1>5, CreateCourse, CreateFailsCourse, CreatedCourse DEF CreatedAll, CreateLabels
<1>6. CASE JoinTeam("release")
  BY <1>1, <1>6, JoinTeamCourse DEF EndLabels
<1>7. CASE Crash("release")
  BY <1>1, <1>7, EndCourse DEF Crash, Go, EndLabels, sharedVars, Course, Shape
<1> QED BY <1>1, <1>2, <1>3, <1>4, <1>5, <1>6, <1>7, ReleaseCourse DEF ReadersMain

LEMMA TeamsCourse == ASSUME Course, TeamsMain PROVE Course'
<1>1. ~ Playing("recursive") /\ ~ Playing("serial") /\ ~ Playing("hello")
      /\ ~ Playing("collect")
  BY DEF TeamsMain, Playing
<1>2. CASE ReadArguments(1, "arrays")
  BY <1>1, <1>2, ReadCourse DEF StartLabels
<1>3. CASE Obtain("arrays", "arrays", "create", 1, "exit")
  BY <1>1, <1>3, ObtainCourse DEF StartLabels, CreateLabels
<1>4. CASE Create("create", index + 1) \/ CreateFails(1, index) \/ CreatedAll("join")
  BY <1>1, <1>4, CreateCourse, CreateFailsCourse, CreatedCourse DEF CreatedAll, CreateLabels
<1>5. CASE JoinTeam("release")
  BY <1>1, <1>5, JoinTeamCourse DEF EndLabels
<1> QED BY <1>1, <1>2, <1>3, <1>4, <1>5, ReleaseCourse DEF TeamsMain

LEMMA HelloCourse == ASSUME Course, HelloMain PROVE Course'
<1>1. Playing("hello") /\ ~ Playing("recursive") /\ ~ Playing("serial")
  BY DEF HelloMain, Playing
<1>2. CASE GoOn("begin", "create", 0)
  BY <1>1, <1>2, GoOnCourse DEF StartLabels, CreateLabels
<1>3. CASE Create("join", 0)
  <2>1. run' = run /\ limit' = limit /\ mine' = mine /\ index' = 0 /\ index < run.count
        /\ main = "create" /\ main' = "join" /\ Threads' = Threads
        /\ refused' = refused /\ routine' = [routine EXCEPT ![index] = "start"]
    BY <1>3 DEF Create, Go, sharedVars, Threads
  <2>2. Shape'
    BY <2>1 DEF Course, Shape, Playing
  <2>3. Joining'
    BY <1>1, <2>1 DEF Course, Shape, Path, CreateLabels, Creating, Joining, Running, Threads, Playing
  <2> QED BY <2>1, <2>2, <2>3 DEF Course, Path, StartLabels, CreateLabels, EndLabels
<1>4. CASE Refuse("create", 1, "exit")
  <2>1. run' = run /\ limit' = limit /\ mine' = mine /\ index' = index
        /\ main = "create" /\ main' = "exit" /\ Threads' = Threads
        /\ refused' # {} /\ routine' = routine
    BY <1>4 DEF Refuse, RefuseAnd, Go, Threads
  <2>2. Shape'
    BY <2>1 DEF Course, Shape, Playing
  <2>3. Ending'
    BY <1>1, <2>1 DEF Course, Shape, Path, CreateLabels, Creating, Ending, Running, Threads
  <2> QED BY <2>1, <2>2, <2>3 DEF Course, Path, StartLabels, CreateLabels, EndLabels
<1>5. CASE JoinTeam("exit")
  BY <1>1, <1>5, JoinTeamCourse DEF EndLabels
<1> QED BY <1>2, <1>3, <1>4, <1>5 DEF HelloMain

LEMMA LotteryCourse == ASSUME Course, LotteryMain PROVE Course'
<1>1. ~ Playing("recursive") /\ ~ Playing("serial") /\ ~ Playing("hello")
      /\ ~ Playing("team")
  BY DEF LotteryMain, Playing
<1>2. CASE GoOn("begin", "create", 0)
  BY <1>1, <1>2, GoOnCourse DEF StartLabels, CreateLabels
<1>3. CASE Create("create", index + 1) \/ CreateFailsUnseen("create", index + 1)
           \/ CreatedAll("join")
  BY <1>1, <1>3, CreateCourse, CreateUnseenCourse, CreatedCourse DEF CreatedAll, CreateLabels
<1>4. CASE JoinTeam("print")
  BY <1>1, <1>4, JoinTeamCourse DEF EndLabels
<1>5. CASE Go("print", "exit") /\ UNCHANGED <<run, index, limit, refused, routine, mine>>
  BY <1>1, <1>5, EndCourse DEF Go, EndLabels, Course, Shape
<1> QED BY <1>2, <1>3, <1>4, <1>5 DEF LotteryMain

LEMMA ShotPutCourse == ASSUME Course, ShotPutMain PROVE Course'
<1>1. ~ Playing("recursive") /\ ~ Playing("serial") /\ ~ Playing("hello")
      /\ ~ Playing("team")
  BY DEF ShotPutMain, Playing
<1>2. CASE ReadArguments(0, "matrix") \/ Refuse("begin", 0, "exit")
  BY <1>1, <1>2, ReadCourse, RefuseCourse DEF StartLabels
<1>3. CASE Obtain("matrix", "matrix", "create", 0, "exit")
  BY <1>1, <1>3, ObtainCourse DEF StartLabels, CreateLabels
<1>4. CASE Obtain("create", Team(index), "create", 0, "crash")
  <2>1. run' = run /\ limit' = limit /\ mine' = mine /\ index' = index /\ Threads' = Threads
        /\ main = "create" /\ routine' = routine
        /\ ((main' = "create" /\ refused' = refused) \/ (main' = "crash" /\ refused' # {}))
        /\ (refused' = refused => Safe' = Safe)
    BY <1>4, SafeKept DEF Obtain, Refuse, RefuseAnd, Go, sharedVars, Threads
  <2>2. Shape'
    BY <2>1 DEF Course, Shape, Playing
  <2>3. main' = "create" => Creating'
    BY <1>1, <2>1 DEF Course, Path, CreateLabels, Creating, Running, Playing
  <2> QED BY <2>1, <2>2, <2>3 DEF Course, Path, StartLabels, CreateLabels, EndLabels
<1>5. CASE Create("create", index + 1) \/ CreateFailsUnseen("create", index + 1)
           \/ CreatedAll("join")
  BY <1>1, <1>5, CreateCourse, CreateUnseenCourse, CreatedCourse DEF CreatedAll, CreateLabels
<1>6. CASE Join("join", "join", index + 1)
  BY <1>1, <1>6, JoinTeamCourse DEF JoinTeam, EndLabels
<1>7. CASE Disband(IF index = run.count THEN "result" ELSE "join")
  <2>1. run' = run /\ limit' = limit /\ mine' = mine /\ index' = index /\ Threads' = Threads
        /\ main = "join" /\ routine' = routine /\ refused' = refused
        /\ (main' = "join" \/ (main' = "result" /\ index = run.count)) /\ Safe' = Safe
    BY <1>7, SafeKept DEF Disband, Go, sharedVars, Threads
  <2>2. Shape'
    BY <2>1 DEF Course, Shape, Playing
  <2>3. Joining
    BY <1>1, <2>1 DEF Course, Path
  <2>4. Joining' /\ (main' = "result" => Ending')
    BY <2>1, <2>3, NothingRefusedIsSafe DEF Course, Shape, Joining, Ending, Running, Threads, Playing
  <2> QED BY <2>1, <2>2, <2>4 DEF Course, Path, StartLabels, CreateLabels, EndLabels
<1>8. CASE PrintResult
  BY <1>1, <1>8, EndCourse DEF PrintResult, Go, EndLabels, Course, Shape
<1> QED BY <1>1, <1>2, <1>3, <1>4, <1>5, <1>6, <1>7, <1>8, ReleaseCourse DEF ShotPutMain

-----------------------------------------------------------------------------
(* A thread, but for the recursive greetings, changes nothing of main's.   *)

Advances(i) ==
  /\ Running(i) /\ routine'[i] # "unborn" /\ UNCHANGED mainVars
  /\ DOMAIN routine' = DOMAIN routine /\ DOMAIN mine' = DOMAIN mine /\ DOMAIN sem' = DOMAIN sem
  /\ \A j \in Threads \ {i} : routine'[j] = routine[j]

LEMMA ThreadAdvances ==
  ASSUME Shape, NEW i \in Threads, ThreadStep(i), ~ Playing("recursive")
  PROVE  Advances(i)
<1>1. ASSUME NEW from \in {"start", "greet", "post", "load", "store", "advance", "look", "print",
                           "unlock", "test", "hit", "see"},
             NEW to, to # "unborn", Step(i, from, to), DOMAIN mine' = DOMAIN mine,
             DOMAIN sem' = DOMAIN sem
      PROVE  Advances(i)
  BY <1>1 DEF Step, Shape, Advances, Running
<1>2. OrderedStep(i) => Advances(i)
  BY <1>1 DEF OrderedStep, GreetInTurn, WriteGreeting, BusyGreet, SerialGreet,
         PrintLine, Keep, Count, sharedVars
<1>3. LockedStep(i) => Advances(i)
  BY <1>1 DEF LockedStep, Race, PartyGuest, Writer, Reader, Acquire, ReadLock, LetGo, Hit, See,
         PrintLine, Keep, Count, sharedVars
<1>4. PlainStep(i) => Advances(i)
  BY <1>1 DEF PlainStep, Greet, BuyLottery, Athlete, PrintLine, Keep
<1> QED
  BY <1>2, <1>3, <1>4 DEF ThreadStep

LEMMA ThreadCourse ==
  ASSUME Course, ~ Playing("recursive"), NEW i \in Threads, Advances(i)
  PROVE  Course'
<1>1. run' = run /\ main' = main /\ index' = index /\ limit' = limit /\ refused' = refused
      /\ Threads' = Threads /\ Playing("serial")' = Playing("serial") /\ Safe' = Safe
  BY SafeKept DEF Advances, mainVars, Threads, Playing
<1>2. Shape'
  BY <1>1 DEF Course, Shape, Advances, Playing
<1>3. i \in Nat /\ routine[i] # "unborn" /\ routine[i] # "ended" /\ routine'[i] # "unborn"
      /\ \A j \in Threads \ {i} : routine'[j] = routine[j]
  BY DEF Advances, Running, Threads
<1>4. Starting => Starting'
  BY <1>1, <1>3 DEF Starting
<1>5. Creating => Creating'
  BY <1>1, <1>3 DEF Course, Shape, Creating, Running, Playing, Threads
<1>6. Waiting => Waiting'
  BY <1>1, <1>3 DEF Course, Shape, Waiting, Running, Playing, Threads
<1>7. Joining => Joining'
  BY <1>1, <1>3 DEF Course, Shape, Joining, Running, Threads, Playing
<1>8. Ending => Ending'
  BY <1>1, <1>3 DEF Ending, Running
<1>9. main = "destroy" => Joining /\ index < limit /\ ~ Running(index)
  BY DEF Course, Path
<1>10. main = "destroy" => index \in Threads /\ (~ Running(index))'
  BY <1>1, <1>3, <1>9 DEF Course, Shape, Joining, Running, Threads
<1>11. main = "print" /\ Playing("collect") /\ Safe /\ (\A j \in Threads : routine[j] # "unborn")
         => \A j \in Threads : routine'[j] # "unborn"
  BY <1>3
<1> QED BY <1>1, <1>2, <1>4, <1>5, <1>6, <1>7, <1>8, <1>9, <1>10, <1>11 DEF Course, Path, Playing

-----------------------------------------------------------------------------
(* The recursive greetings.                                                *)

LEMMA RecursiveMainChain ==
  ASSUME Shape, Chain, RecursiveMain
  PROVE  Shape' /\ Chain'
<1>1. Playing("recursive") /\ run' = run /\ Threads' = Threads /\ Playing("recursive")'
      /\ limit' = limit /\ ~ Playing("hello")
  BY DEF RecursiveMain, Refuse, RefuseAnd, Create, Join, Crash, GoOn, Go, Playing, Threads
<1>2. 0 \in Threads /\ run.count \in Nat /\ index = 0
  BY <1>1 DEF Shape, Chain, Threads
<1>3. CASE Refuse("begin", 0, "crash")
  BY <1>1, <1>3 DEF Refuse, RefuseAnd, Go, Shape, Chain, Ending, Running, Playing
<1>4. CASE Go("begin", "create") /\ mine' = [mine EXCEPT ![0] = 1]
           /\ UNCHANGED <<index, refused, routine>>
  BY <1>1, <1>4 DEF Go, Shape, Chain, Ending, Running, Playing
<1>5. CASE Create("join", 0)
  <2>1. main = "create" /\ main' = "join" /\ index' = 0 /\ UNCHANGED <<refused, mine>>
        /\ routine' = [routine EXCEPT ![0] = "start"] /\ refused = {}
    BY <1>1, <1>2, <1>5 DEF Create, Go, sharedVars, Chain
  <2>2. \A i \in Threads : routine[i] = "unborn"
    BY <1>1, <2>1 DEF Chain
  <2>3. Shape'
    BY <1>1, <2>1 DEF Shape, Playing
  <2>4. Chain'
    BY <1>1, <1>2, <2>1, <2>2 DEF Shape, Chain, Running, Threads
  <2> QED BY <2>3, <2>4
<1>6. CASE Refuse("create", 1, "exit")
  BY <1>1, <1>2, <1>6 DEF Refuse, RefuseAnd, Go, Shape, Chain, Ending, Running, Playing
<1>7. CASE Join("join", "exit", 0)
  <2>1. main = "join" /\ index' = 0 /\ UNCHANGED <<refused, mine, routine>> /\ Safe' = Safe
        /\ ((main' = "exit" /\ routine[0] \in {"ended", "unborn"}) \/ main' = "crash")
    BY <1>1, <1>2, <1>7, SafeKept DEF Join, Crash, GoOn, Go, sharedVars
  <2>2. main' = "exit" => Ending'
    <3> SUFFICES ASSUME main' = "exit" PROVE Ending
      BY <1>1, <2>1 DEF Ending, Running
    <3>1. CASE routine[0] = "ended"
      BY <1>1, <1>2, <3>1 DEF Chain, Ending, Running, Threads
    <3>2. CASE routine[0] = "unborn"
      BY <1>1, <1>2, <2>1, <3>2 DEF Chain, Ending, Running, Threads
    <3> QED BY <2>1, <3>1, <3>2
  <2>3. Shape'
    BY <1>1, <2>1 DEF Shape, Playing
  <2>4. Chain'
    BY <1>1, <2>1, <2>2 DEF Chain, Running
  <2> QED BY <2>3, <2>4
<1> QED BY <1>3, <1>4, <1>5, <1>6, <1>7 DEF RecursiveMain

LEMMA RecursiveGreetChain ==
  ASSUME Shape, Chain, Playing("recursive"), NEW i \in Threads, RecursiveGreet(i)
  PROVE  Shape' /\ Chain'
<1>1. /\ run' = run /\ Threads' = Threads /\ Playing("recursive")' /\ ~ Playing("hello")'
      /\ UNCHANGED <<index, limit>>
      /\ DOMAIN routine' = DOMAIN routine /\ DOMAIN mine' = DOMAIN mine
      /\ (refused' = refused => Safe' = Safe)
  BY SafeKept DEF RecursiveGreet, Keep, PrintLine, ChainStep, Step, mainVars, sharedVars, Crash, Playing,
         Threads, Shape
<1>2. Shape'
  BY <1>1 DEF Shape, Playing
<1>3. routine[i] # "unborn" /\ ~ Over
  BY DEF RecursiveGreet, Keep, PrintLine, ChainStep, Step
<1>4. main \notin {"begin", "create", "exit"} /\ i \in Nat /\ 0 \in Threads
  BY <1>3 DEF Shape, Chain, Over, Threads
<1>5. CASE main' = "crash" /\ UNCHANGED <<refused, routine>>
  BY <1>1, <1>2, <1>5 DEF Chain, Running
<1>6. CASE main' = main /\ routine[i] = "start" /\ routine' = [routine EXCEPT ![i] = "greet"]
           /\ refused' = refused
  <2>1. routine'[i] = "greet" /\ \A j \in Threads \ {i} : routine'[j] = routine[j]
    BY <1>6 DEF Shape
  <2> QED BY <1>1, <1>2, <1>4, <1>6, <2>1 DEF Chain, Running, Threads
<1>7. CASE main' = main /\ routine[i] = "greet" /\ refused' = refused
           /\ routine' = [routine EXCEPT ![i] = IF Number(i) = 0 THEN "ended" ELSE "reserve"]
  <2>1. \A j \in Threads \ {i} : routine'[j] = routine[j]
    BY <1>7 DEF Shape
  <2>2. \/ routine'[i] = "ended" /\ i = run.count - 1
        \/ routine'[i] = "reserve" /\ i + 1 \in Threads
    BY <1>7 DEF Shape, Number, Threads
  <2>3. \A j \in Threads : i < j => routine[j] = "unborn"
    BY <1>7 DEF Chain
  <2> QED BY <1>1, <1>2, <1>4, <1>7, <2>1, <2>2, <2>3 DEF Shape, Chain, Running, Threads
<1>8. CASE main' = main /\ routine[i] = "reserve" /\ refused' = refused
           /\ routine' = [routine EXCEPT ![i] = "create"]
  <2>1. routine'[i] = "create" /\ \A j \in Threads \ {i} : routine'[j] = routine[j]
    BY <1>8 DEF Shape
  <2> QED BY <1>1, <1>2, <1>4, <1>8, <2>1 DEF Chain, Running, Threads
<1>9. CASE main' = main /\ routine[i] = "reserve" /\ refused' = refused \union {"number"}
           /\ routine' = [routine EXCEPT ![i] = "ended"]
  <2>1. routine'[i] = "ended" /\ \A j \in Threads \ {i} : routine'[j] = routine[j]
    BY <1>9 DEF Shape
  <2>2. Safe' => Safe
    BY <1>1, <1>9, SafeBefore
  <2> QED BY <1>1, <1>2, <1>4, <1>9, <2>1, <2>2 DEF Chain, Running, Threads
<1>10. CASE main' = main /\ routine[i] = "create" /\ refused' = refused
            /\ routine' = [routine EXCEPT ![i] = "wait", ![i + 1] = "start"]
  <2>1. i + 1 \in Threads /\ i + 1 # i
    BY <1>4, <1>10 DEF Chain
  <2>2. routine'[i] = "wait" /\ routine'[i + 1] = "start"
        /\ \A j \in Threads \ {i, i + 1} : routine'[j] = routine[j]
    BY <1>10, <2>1 DEF Shape
  <2>3. \A j \in Threads : i < j => routine[j] = "unborn"
    BY <1>10 DEF Chain
  <2>4. \A j \in Threads : j < i =>
          routine[j] \notin {"unborn", "start", "greet", "reserve", "create", "ended"}
    BY <1>10 DEF Chain, Running
  <2>5. \A j \in Threads :
          /\ routine'[j] \in {"reserve", "create", "wait"} => j + 1 \in Threads
          /\ routine'[j] = "wait" /\ Safe => routine'[j + 1] # "unborn"
    BY <1>10, <2>1, <2>2 DEF Chain
  <2>6. \A j, k \in Threads : j < k =>
          /\ routine'[j] \in {"unborn", "start", "greet", "reserve", "create"} =>
               routine'[k] = "unborn"
          /\ routine'[j] # "ended"
    BY <2>1, <2>2, <2>3, <2>4 DEF Threads
  <2>7. routine'[0] # "unborn"
    BY <1>4, <2>1, <2>2, <2>4 DEF Threads
  <2>8. Chain /\ Safe' = Safe
    BY <1>1, <1>10
  <2> QED BY <1>1, <1>2, <1>4, <1>10, <2>5, <2>6, <2>7, <2>8 DEF Chain
<1>11. CASE main' = main /\ routine[i] = "create" /\ refused' = refused \union {"next"}
            /\ routine' = [routine EXCEPT ![i] = "wait"]
  <2>1. routine'[i] = "wait" /\ \A j \in Threads \ {i} : routine'[j] = routine[j]
    BY <1>11 DEF Shape
  <2>2. ~ Safe' /\ refused' # {}
    BY <1>1, <1>11, SafeBefore DEF Fatal, Playing
  <2> QED BY <1>1, <1>2, <1>4, <1>11, <2>1, <2>2 DEF Chain, Running, Threads
<1>12. CASE main' = main /\ routine[i] = "wait" /\ refused' = refused
            /\ routine[i + 1] \in {"ended", "unborn"}
            /\ routine' = [routine EXCEPT ![i] = "ended"]
  <2>1. routine'[i] = "ended" /\ \A j \in Threads \ {i} : routine'[j] = routine[j]
    BY <1>12 DEF Shape
  <2> QED BY <1>1, <1>2, <1>4, <1>12, <2>1, NothingRefusedIsSafe DEF Chain, Running, Threads
<1> QED
  <2>1. \/ main' = "crash" /\ UNCHANGED <<refused, routine>>
        \/ main' = main /\ routine[i] = "start" /\ routine' = [routine EXCEPT ![i] = "greet"]
           /\ refused' = refused
        \/ main' = main /\ routine[i] = "greet" /\ refused' = refused
           /\ routine' = [routine EXCEPT ![i] = IF Number(i) = 0 THEN "ended" ELSE "reserve"]
        \/ main' = main /\ routine[i] = "reserve" /\ refused' = refused
           /\ routine' = [routine EXCEPT ![i] = "create"]
        \/ main' = main /\ routine[i] = "reserve" /\ refused' = refused \union {"number"}
           /\ routine' = [routine EXCEPT ![i] = "ended"]
        \/ main' = main /\ routine[i] = "create" /\ refused' = refused
           /\ routine' = [routine EXCEPT ![i] = "wait", ![i + 1] = "start"]
        \/ main' = main /\ routine[i] = "create" /\ refused' = refused \union {"next"}
           /\ routine' = [routine EXCEPT ![i] = "wait"]
        \/ main' = main /\ routine[i] = "wait" /\ refused' = refused
           /\ routine[i + 1] \in {"ended", "unborn"}
           /\ routine' = [routine EXCEPT ![i] = "ended"]
    <3> USE DEF Step, mainVars
    <3>1. CASE Keep(i, "start", "greet", 0)
      BY <3>1 DEF Keep
    <3>2. CASE PrintLine(i, "greet", IF Number(i) = 0 THEN "ended" ELSE "reserve", Number(i))
      BY <3>2 DEF PrintLine
    <3>3. CASE \/ ChainStep(i, "reserve", [routine EXCEPT ![i] = "create"],
                           [mine EXCEPT ![i + 1] = 1], {})
               \/ ChainStep(i, "reserve", [routine EXCEPT ![i] = "ended"], mine, {"number"})
      BY <3>3 DEF ChainStep, Shape
    <3>4. CASE \/ ChainStep(i, "create", [routine EXCEPT ![i] = "wait", ![i + 1] = "start"],
                           mine, {})
               \/ ChainStep(i, "create", [routine EXCEPT ![i] = "wait"], mine, {"next"})
      BY <3>4 DEF ChainStep, Shape
    <3>5. CASE routine[i] = "wait" /\ routine[i + 1] \in {"ended", "unborn"}
               /\ Step(i, "wait", "ended")
      BY <3>5
    <3>6. CASE Crash(main)
      BY <3>6 DEF Crash, Go
    <3> QED BY <3>1, <3>2, <3>3, <3>4, <3>5, <3>6 DEF RecursiveGreet
  <2> QED BY <1>2, <1>5, <1>6, <1>7, <1>8, <1>9, <1>10, <1>11, <1>12, <2>1

-----------------------------------------------------------------------------
(* Wherever main is, whatever the program.                                 *)
TeamCourse == Course /\ Chain

LEMMA MainCourse == ASSUME TeamCourse, MainStep PROVE TeamCourse'
<1>1. run' = run
  BY MainRun
<1>2. CASE Playing("recursive")
  <2>1. RecursiveMain
    BY <1>2 DEF MainStep, OrderedMain, LockedMain, PlainMain, SemaphoresMain, CollectMain, BusyMain,
       SerialMain, RaceMain, PinataMain, ReadersMain, PrivateMain, SharedMain, TeamsMain,
       HelloMain, LotteryMain, ShotPutMain, Playing
  <2> QED BY <1>1, <1>2, <2>1, RecursiveMainChain DEF TeamCourse, Course, Path, Playing
<1>3. CASE ~ Playing("recursive")
  <2>1. Chain'
    BY <1>1, <1>3 DEF Chain, Playing
  <2>2. Course'
    BY <1>3, SemaphoresCourse, CollectCourse, ArraysCourse, SerialCourse, ReadersCourse,
       TeamsCourse, HelloCourse, LotteryCourse, ShotPutCourse
       DEF TeamCourse, MainStep, OrderedMain, LockedMain, PlainMain, RecursiveMain
  <2> QED BY <2>1, <2>2 DEF TeamCourse
<1> QED BY <1>2, <1>3

LEMMA ThreadTeamCourse ==
  ASSUME TeamCourse, NEW i \in Threads, ThreadStep(i)
  PROVE  TeamCourse'
<1>1. run' = run
  BY ThreadRun
<1>2. CASE Playing("recursive")
  <2>1. RecursiveGreet(i)
    BY <1>2 DEF ThreadStep, OrderedStep, LockedStep, PlainStep, Playing
  <2> QED BY <1>1, <1>2, <2>1, RecursiveGreetChain DEF TeamCourse, Course, Path, Playing
<1>3. CASE ~ Playing("recursive")
  BY <1>1, <1>3, ThreadAdvances, ThreadCourse DEF TeamCourse, Course, Chain, Playing
<1> QED BY <1>2, <1>3

(* Only a thread that could not be created is joined as if it had been.    *)
LEMMA JoinUnborn ==
  ASSUME TeamCourse, main \in {"join", "wait"}, index < limit, routine[index] = "unborn"
  PROVE  ~ Safe
<1>1. index \in Threads
  <2>1. limit <= run.count
    BY DEF TeamCourse, Course, Path, Chain, Joining, Waiting, Shape
  <2> QED BY <2>1 DEF TeamCourse, Course, Shape, Threads
<1>2. CASE Playing("recursive")
  BY <1>2 DEF TeamCourse, Course, Shape, Chain
<1>3. CASE ~ Playing("recursive") /\ main = "join"
  BY <1>1, <1>3 DEF TeamCourse, Course, Shape, Path, Joining
<1>4. CASE ~ Playing("recursive") /\ main = "wait"
  BY <1>1, <1>4 DEF TeamCourse, Course, Shape, Path, Waiting
<1> QED BY <1>2, <1>3, <1>4

-----------------------------------------------------------------------------
(* The exit status.                                                        *)

(* A step of main says nothing and refuses nothing; or it leaves a code    *)
(* for a refusal that is noticed; or none for one that is not.             *)
Quiet == UNCHANGED <<status, refused>> /\ (main' = "crash" => ~ Safe)

Noticed(from) ==
  /\ refused' = refused \union {from} /\ from \notin Unnoticed /\ status' \in Nat \ {0}
  /\ main' = "crash" => from \in Fatal

Missed(from) ==
  /\ refused' = refused \union {from} /\ from \in Unnoticed /\ status' = status
  /\ main' = "crash" => from \in Fatal

Noted == Quiet \/ (\E from : Noticed(from) /\ ~ Playing("shotput")) \/ (\E from : Missed(from))

LEMMA NotedStatus ==
  ASSUME StatusInv, main # "crash", run' = run, Noted
  PROVE  StatusInv'
<1>1. Unnoticed' = Unnoticed /\ Playing("shotput")' = Playing("shotput")
      /\ Playing("readers")' = Playing("readers")
  BY DEF Unnoticed, Playing
<1>2. CASE Quiet
  BY <1>1, <1>2, SafeKept DEF Quiet, StatusInv
<1>3. ASSUME NEW from, Noticed(from), ~ Playing("shotput") PROVE StatusInv'
  <2>1. main' = "crash" => ~ Safe'
    BY <1>3, SafeBefore DEF Noticed
  <2> QED BY <1>1, <1>3, <2>1 DEF Noticed, StatusInv
<1>4. ASSUME NEW from, Missed(from) PROVE StatusInv'
  <2>1. main' = "crash" => ~ Safe'
    BY <1>4, SafeBefore DEF Missed
  <2> QED BY <1>1, <1>4, <2>1 DEF Missed, StatusInv
<1> QED BY <1>2, <1>3, <1>4 DEF Noted

LEMMA ObtainNoted ==
  ASSUME NEW from, from \notin Unnoticed, NEW what, NEW to, to # "crash", NEW code \in Nat \ {0},
         NEW otherwise, otherwise # "crash", ~ Playing("shotput"),
         Obtain(from, what, to, code, otherwise)
  PROVE  Noted
BY DEF Obtain, Refuse, RefuseAnd, Go, Noted, Quiet, Noticed

LEMMA ReadNoted ==
  ASSUME "begin" \notin Unnoticed, ~ Playing("shotput"),
         NEW to, to # "crash", NEW code \in Nat \ {0}, ReadArguments(code, to)
  PROVE  Noted
BY DEF ReadArguments, GoOn, Refuse, RefuseAnd, Go, Noted, Quiet, Noticed

LEMMA CreateNoted ==
  ASSUME NEW to, to # "crash", NEW next, Create(to, next) \/ CreatedAll(to)
  PROVE  Quiet
BY DEF Create, CreatedAll, GoOn, Go, Quiet

LEMMA CreateFailsNoted ==
  ASSUME "create" \notin Unnoticed, ~ Playing("shotput"),
         NEW code \in Nat \ {0}, NEW joins, CreateFails(code, joins)
  PROVE  Noted
BY DEF CreateFails, RefuseAnd, Go, Noted, Noticed

LEMMA CreateUnseenNoted ==
  ASSUME "create" \in Unnoticed, NEW to, to # "crash", NEW next, CreateFailsUnseen(to, next)
  PROVE  Noted
BY DEF CreateFailsUnseen, RefuseAnd, Go, Noted, Missed

LEMMA JoinNoted ==
  ASSUME TeamCourse, NEW from \in {"join", "wait"}, NEW to, to # "crash", NEW next,
         Join(from, to, next)
  PROVE  Quiet
BY JoinUnborn DEF Join, Crash, GoOn, Go, Quiet

LEMMA JoinTeamNoted ==
  ASSUME TeamCourse, NEW to, to # "crash", JoinTeam(to)
  PROVE  Quiet
BY JoinNoted DEF JoinTeam, JoinedAll, GoOn, Go, Quiet

LEMMA ReleaseNoted == ASSUME Release PROVE Quiet
BY DEF Release, Go, Quiet

LEMMA CreateAndJoinNoted ==
  ASSUME TeamCourse, Unnoticed = {}, ~ Playing("shotput"), NEW code \in Nat \ {0},
         CreateAndJoin(code, "release")
  PROVE  Noted
<1>1. CASE Obtain("arrays", "arrays", "create", code, "release")
  BY <1>1, ObtainNoted
<1>2. CASE Create("create", index + 1) \/ CreatedAll("join")
  BY <1>2, CreateNoted DEF Noted
<1>3. CASE CreateFails(21, run.count)
  BY <1>3, CreateFailsNoted
<1>4. CASE JoinTeam("release")
  BY <1>4, JoinTeamNoted DEF Noted
<1> QED BY <1>1, <1>2, <1>3, <1>4 DEF CreateAndJoin

(* What sem_init() refused is forgotten, whatever semaphores it was.       *)
LEMMA InitSemaphoresStatus ==
  ASSUME StatusInv, Playing("semaphores"), InitSemaphores, run' = run, main # "crash"
  PROVE  StatusInv'
<1>1. Unnoticed = {"sem_init", "first_turn"} /\ Unnoticed' = Unnoticed /\ Playing("shotput")' = FALSE
      /\ "semaphores" \in Fatal
  BY DEF Unnoticed, Fatal, Playing
<1>2. CASE Refuse("semaphores", 13, IF Threads = {} THEN "release" ELSE "crash")
  <2>1. Noticed("semaphores") /\ ~ Playing("shotput")
    BY <1>1, <1>2 DEF Refuse, RefuseAnd, Go, Noticed, Playing
  <2> QED BY <2>1, NotedStatus DEF Noted
<1>3. ASSUME NEW denied, refused' = refused \union Refusals(denied), status' = status,
             main' = "arrays"
      PROVE  StatusInv'
  <2>1. Refusals(denied) \subseteq Unnoticed
    BY <1>1 DEF Refusals
  <2> QED BY <1>1, <1>3, <2>1 DEF StatusInv
<1> QED BY <1>2, <1>3 DEF InitSemaphores, Go

LEMMA SemaphoresStatus ==
  ASSUME TeamCourse, StatusInv, SemaphoresMain, run' = run, main # "crash"
  PROVE  StatusInv'
<1>1. Unnoticed = {"sem_init", "first_turn"} /\ ~ Playing("shotput") /\ Playing("semaphores")
  BY DEF SemaphoresMain, Unnoticed, Playing
<1>2. DestroySemaphore => Quiet
  BY DEF DestroySemaphore, Go, Quiet
<1>3. Join("join", "destroy", index) \/ JoinedAll("release") => Quiet
  BY JoinNoted, JoinTeamNoted DEF JoinTeam
<1>4. Create("create", index + 1) \/ CreatedAll("join") => Quiet
  BY CreateNoted
<1>5. CreateFails(21, run.count) => Noted
  BY <1>1, CreateFailsNoted
<1>6. ReadArguments(11, "shared") => Noted
  BY <1>1, ReadNoted
<1>7. Obtain("shared", "shared", "semaphores", 12, "exit") => Noted
  BY <1>1, ObtainNoted
<1>8. Obtain("arrays", "arrays", "create", 23, "release") => Noted
  BY <1>1, ObtainNoted
<1>9. InitSemaphores \/ Noted
  BY <1>2, <1>3, <1>4, <1>5, <1>6, <1>7, <1>8, ReleaseNoted DEF SemaphoresMain, Noted
<1> QED BY <1>1, <1>9, NotedStatus, InitSemaphoresStatus

LEMMA CollectNoted ==
  ASSUME TeamCourse, TextsReserved, CollectMain
  PROVE  Noted
<1>1. Unnoticed = {} /\ ~ Playing("shotput") /\ Playing("collect")
  BY DEF CollectMain, Unnoticed, Playing
<1>2. ASSUME PrintTexts PROVE Quiet
  <2>1. main = "print" /\ index < run.count /\ mine[index] = NoText => ~ Safe
    <3>1. main = "print" /\ Safe => \A i \in Threads : routine[i] # "unborn"
      BY <1>1 DEF TeamCourse, Course, Path, Playing
    <3>2. index < run.count => index \in Threads
      BY DEF TeamCourse, Course, Shape, Threads
    <3> QED BY <1>1, <3>1, <3>2 DEF TextsReserved
  <2> QED BY <1>2, <2>1 DEF PrintTexts, GoOn, Go, Crash, Quiet
<1>3. ASSUME ReserveText PROVE Noted
  <2>1. Quiet \/ Noticed("text")
    BY <1>1, <1>3 DEF ReserveText, RefuseAnd, GoOn, Go, Noticed, Quiet
  <2> QED BY <1>1, <2>1 DEF Noted
<1>4. Create("text", index + 1) => Quiet
  BY CreateNoted
<1>5. CreateFails(21, run.count) => Noted
  BY <1>1, CreateFailsNoted
<1>6. JoinTeam("print") => Quiet
  BY JoinTeamNoted
<1>7. ReadArguments(11, "shared") => Noted
  BY <1>1, ReadNoted
<1>8. Obtain("shared", "shared", "greets", 12, "exit") => Noted
  BY <1>1, ObtainNoted
<1>9. Obtain("greets", "greets", "arrays", 13, "release") => Noted
  BY <1>1, ObtainNoted
<1>10. Obtain("arrays", "arrays", "text", 22, "release") => Noted
  BY <1>1, ObtainNoted
<1> QED BY <1>2, <1>3, <1>4, <1>5, <1>6, <1>7, <1>8, <1>9, <1>10, ReleaseNoted
     DEF CollectMain, Noted

(* The programs that look at everything that is refused to them.           *)
LEMMA ArraysNoted ==
  ASSUME TeamCourse,
         BusyMain \/ PrivateMain \/ SharedMain \/ RaceMain \/ PinataMain \/ TeamsMain \/ HelloMain
  PROVE  Noted
<1>1. Unnoticed = {} /\ ~ Playing("shotput")
  BY DEF BusyMain, PrivateMain, SharedMain, RaceMain, PinataMain, TeamsMain, HelloMain,
     Unnoticed, Playing
<1>2. CreateAndJoin(22, "release") \/ ReadArguments(11, "shared") => Noted
  BY <1>1, CreateAndJoinNoted, ReadNoted
<1>3. CASE BusyMain \/ PrivateMain \/ SharedMain
  <2>1. ReadArguments(11, "arrays") => Noted
    BY <1>1, ReadNoted
  <2>2. Obtain("shared", "shared", "arrays", 12, "exit") => Noted
    BY <1>1, ObtainNoted
  <2> QED BY <1>2, <1>3, <2>1, <2>2, ReleaseNoted DEF BusyMain, PrivateMain, SharedMain, Noted
<1>4. CASE RaceMain \/ PinataMain
  <2>1. ReadArguments(1, "shared") => Noted
    BY <1>1, ReadNoted
  <2>2. Obtain("shared", "shared", "lock", 12, "exit") => Noted
    BY <1>1, ObtainNoted
  <2>3. Obtain("lock", "lock", "arrays", 13, "exit") => Noted
    BY <1>1, ObtainNoted
  <2> QED BY <1>2, <1>4, <2>1, <2>2, <2>3, ReleaseNoted DEF RaceMain, PinataMain, Noted
<1>5. CASE TeamsMain
  <2>1. Create("create", index + 1) \/ CreatedAll("join") => Quiet
    BY CreateNoted
  <2>2. CreateFails(1, index) => Noted
    BY <1>1, CreateFailsNoted
  <2>3. JoinTeam("release") => Quiet
    BY JoinTeamNoted
  <2>4. ReadArguments(1, "arrays") => Noted
    BY <1>1, ReadNoted
  <2>5. Obtain("arrays", "arrays", "create", 1, "exit") => Noted
    BY <1>1, ObtainNoted
  <2> QED BY <1>5, <2>1, <2>2, <2>3, <2>4, <2>5, ReleaseNoted DEF TeamsMain, Noted
<1>6. CASE HelloMain
  <2>1. GoOn("begin", "create", 0) => Quiet
    BY DEF GoOn, Go, Quiet
  <2>2. Refuse("create", 1, "exit") => Noticed("create")
    BY <1>1 DEF Go, Refuse, RefuseAnd, Noticed
  <2>3. Create("join", 0) => Quiet
    BY CreateNoted
  <2>4. JoinTeam("exit") => Quiet
    BY JoinTeamNoted
  <2> QED BY <1>1, <1>6, <2>1, <2>2, <2>3, <2>4 DEF HelloMain, Noted
<1> QED BY <1>3, <1>4, <1>5, <1>6

(* Those that look at none of the creations.                               *)
LEMMA UnseenNoted ==
  ASSUME TeamCourse, SerialMain \/ LotteryMain
  PROVE  Noted
<1>1. Unnoticed = {"create"} /\ ~ Playing("shotput")
  BY DEF SerialMain, LotteryMain, Unnoticed, Playing
<1>2. Create("wait", index) \/ Create("create", index + 1) \/ CreatedAll("join")
      \/ CreatedAll("exit") => Quiet
  BY CreateNoted
<1>3. CreateFailsUnseen("wait", index) \/ CreateFailsUnseen("create", index + 1) => Noted
  BY <1>1, CreateUnseenNoted
<1>4. ReadArguments(1, "create") => Noted
  BY <1>1, ReadNoted
<1>5. Join("wait", "create", index + 1) \/ JoinTeam("print") => Quiet
  BY JoinNoted, JoinTeamNoted
<1>6. GoOn("begin", "create", 0) => Quiet
  BY DEF GoOn, Go, Quiet
<1>7. Go("print", "exit") /\ UNCHANGED <<status, refused>> => Quiet
  BY DEF Go, Quiet
<1> QED BY <1>2, <1>3, <1>4, <1>5, <1>6, <1>7 DEF SerialMain, LotteryMain, Noted

(* The shot put leaves 0 in its status whatever is refused to it.          *)
LEMMA ShotPutNoted ==
  ASSUME TeamCourse, StatusInv, ShotPutMain
  PROVE  Noted
<1>1. Unnoticed = {"begin", "matrix", "create"} /\ status = 0 /\ "create" \in Fatal
  BY DEF ShotPutMain, Unnoticed, Fatal, Playing, StatusInv
<1>2. Refuse("begin", 0, "exit") => Missed("begin")
  BY <1>1 DEF Refuse, RefuseAnd, Go, Missed
<1>3. Obtain("matrix", "matrix", "create", 0, "exit") => Quiet \/ Missed("matrix")
  BY <1>1 DEF Obtain, Refuse, RefuseAnd, Go, Quiet, Missed
<1>4. Obtain("create", Team(index), "create", 0, "crash") => Quiet \/ Missed("create")
  BY <1>1 DEF Obtain, Refuse, RefuseAnd, Go, Quiet, Missed
<1>5. Disband(IF index = run.count THEN "result" ELSE "join") \/ PrintResult => Quiet
  BY DEF Disband, PrintResult, Go, Quiet
<1>6. Create("create", index + 1) \/ CreatedAll("join") => Quiet
  BY CreateNoted
<1>7. CreateFailsUnseen("create", index + 1) => Noted
  BY <1>1, CreateUnseenNoted
<1>8. ReadArguments(0, "matrix") => Quiet \/ Missed("begin")
  BY <1>1 DEF ReadArguments, GoOn, Go, Refuse, RefuseAnd, Quiet, Missed
<1> QED BY <1>2, <1>3, <1>4, <1>5, <1>6, <1>7, <1>8, JoinNoted, ReleaseNoted
     DEF ShotPutMain, Noted

LEMMA ReadersStatus ==
  ASSUME TeamCourse, StatusInv, ReadersMain, run' = run, main # "crash"
  PROVE  StatusInv'
<1>1. Unnoticed = {} /\ ~ Playing("shotput") /\ Playing("readers")
  BY DEF ReadersMain, Unnoticed, Playing
<1>2. Obtain("begin", "shared", "lock", 12, "exit") => Noted
  BY <1>1, ObtainNoted
<1>3. Obtain("lock", "lock", "create", 11, "release") => Noted
  BY <1>1, ObtainNoted
<1>4. RefuseAnd("create", 22, "join") => Noticed("create")
  BY <1>1 DEF RefuseAnd, Go, Noticed
<1>5. Create("create", index + 1) \/ CreatedAll("join") => Quiet
  BY CreateNoted
<1>6. CreateFails(21, index + 1) => Noted
  BY <1>1, CreateFailsNoted
<1>7. Noted \/ Crash("release")
  BY <1>1, <1>2, <1>3, <1>4, <1>5, <1>6, JoinTeamNoted, ReleaseNoted DEF ReadersMain, Noted
<1>8. CASE Crash("release")
  BY <1>1, <1>8 DEF Crash, Go, StatusInv, Playing
<1> QED BY <1>7, <1>8, NotedStatus

LEMMA MainStatus ==
  ASSUME TeamCourse, TextsReserved, StatusInv, MainStep
  PROVE  StatusInv'
<1>1. run' = run /\ main # "crash"
  BY MainRun DEF MainStep, Over
<1>2. CASE RecursiveMain
  <2>1. Unnoticed = {"number", "next"} /\ Fatal = {"begin", "next"} /\ ~ Playing("shotput")
        /\ Playing("shotput")' = FALSE
    BY <1>1, <1>2 DEF RecursiveMain, Unnoticed, Fatal, Playing
  <2>2. CASE Refuse("begin", 0, "crash")
    <3>1. refused' = refused \union {"begin"} /\ main' = "crash"
      BY <2>2 DEF Refuse, RefuseAnd, Go
    <3>2. ~ Safe'
      BY <1>1, <2>1, <3>1, SafeBefore
    <3> QED BY <2>1, <3>1, <3>2 DEF StatusInv
  <2>3. Refuse("create", 1, "exit") => Noticed("create")
    BY <2>1 DEF Refuse, RefuseAnd, Go, Noticed
  <2>4. Create("join", 0) => Quiet
    BY CreateNoted
  <2>5. Go("begin", "create") /\ UNCHANGED <<status, refused>> => Quiet
    BY DEF Go, Quiet
  <2>6. Join("join", "exit", 0) => Quiet
    BY JoinNoted
  <2> QED BY <1>1, <1>2, <2>1, <2>2, <2>3, <2>4, <2>5, <2>6, NotedStatus DEF RecursiveMain, Noted
<1> QED BY <1>1, <1>2, NotedStatus, SemaphoresStatus, CollectNoted, ArraysNoted, UnseenNoted,
        ShotPutNoted, ReadersStatus
     DEF MainStep, OrderedMain, LockedMain, PlainMain

LEMMA ThreadStatus ==
  ASSUME TeamCourse, StatusInv, NEW i \in Threads, ThreadStep(i)
  PROVE  StatusInv'
<1>1. run' = run
  BY ThreadRun
<1>2. CASE ~ Playing("recursive")
  <2>1. UNCHANGED mainVars
    BY <1>2, ThreadAdvances DEF TeamCourse, Course, Advances
  <2>2. Safe' = Safe /\ Unnoticed' = Unnoticed
    BY <2>1, SafeKept DEF mainVars, Unnoticed, Playing
  <2> QED BY <2>1, <2>2 DEF mainVars, StatusInv, Playing
<1>3. CASE Playing("recursive")
  <2>1. RecursiveGreet(i)
    BY <1>3 DEF ThreadStep, OrderedStep, LockedStep, PlainStep, Playing
  <2>2. Unnoticed = {"number", "next"} /\ Fatal = {"begin", "next"}
    BY <1>3 DEF Unnoticed, Fatal, Playing
  <2>3. main # "crash" /\ status' = status
    BY <2>1 DEF RecursiveGreet, Keep, PrintLine, ChainStep, Step, mainVars, Crash, Over
  <2>4. /\ refused' \in {refused, refused \union {"number"}, refused \union {"next"}}
        /\ \/ main' = main
           \/ /\ main' = "crash" /\ routine[i] = "wait" /\ routine[i + 1] = "unborn"
              /\ refused' = refused
    BY <2>1 DEF RecursiveGreet, Keep, PrintLine, ChainStep, Step, mainVars, Crash, Go
  <2>5. routine[i] = "wait" /\ routine[i + 1] = "unborn" => ~ Safe
    BY <1>3 DEF TeamCourse, Chain
  <2>6. Quiet \/ Missed("number") \/ Missed("next")
    BY <2>2, <2>3, <2>4, <2>5 DEF Quiet, Missed
  <2> QED BY <1>1, <2>3, <2>6, NotedStatus DEF Noted
<1> QED BY <1>2, <1>3

-----------------------------------------------------------------------------
(* What is reserved stays so while a thread may use it.                    *)

LEMMA CreateAndJoinReserved ==
  ASSUME Reserved, CreateAndJoin(22, "release"), run' = run,
         run.program \notin {"semaphores", "collect", "readers", "team"}
  PROVE  Reserved'
<1>1. CASE Obtain("arrays", "arrays", "create", 22, "release")
  BY <1>1 DEF Reserved, SharedUsers, ArrayUsers, Obtain, Refuse, RefuseAnd, Go
<1>2. CASE Create("create", index + 1) \/ CreateFails(21, run.count)
  BY <1>2 DEF Reserved, SharedUsers, ArrayUsers, Create, CreateFails, RefuseAnd, Go
<1>3. CASE CreatedAll("join") \/ JoinTeam("release")
  BY <1>3 DEF Reserved, SharedUsers, ArrayUsers, CreatedAll, JoinTeam, Join, JoinedAll, Crash, GoOn, Go
<1> QED BY <1>1, <1>2, <1>3 DEF CreateAndJoin

LEMMA MainReserved == ASSUME Reserved, MainStep PROVE Reserved'
<1>1. run' = run
  BY MainRun
<1>2. CASE SemaphoresMain
  BY <1>1, <1>2 DEF Reserved, SharedUsers, ArrayUsers, Playing, SemaphoresMain, ReadArguments, Obtain, GoOn, Go,
     Refuse, RefuseAnd, InitSemaphores, Create, CreateFails, CreatedAll, Join, Crash,
     DestroySemaphore, JoinedAll, Release
<1>3. CASE CollectMain
  BY <1>1, <1>3 DEF Reserved, SharedUsers, ArrayUsers, Playing, CollectMain, ReadArguments, Obtain, GoOn, Go,
     Refuse, RefuseAnd, ReserveText, Create, CreateFails, JoinTeam, Join, Crash, JoinedAll,
     PrintTexts, Release
<1>4. CASE BusyMain \/ PrivateMain \/ SharedMain
  <2>1. CASE CreateAndJoin(22, "release")
    BY <1>1, <1>4, <2>1, CreateAndJoinReserved DEF BusyMain, PrivateMain, SharedMain, Playing
  <2> QED BY <1>1, <1>4, <2>1 DEF Reserved, SharedUsers, ArrayUsers, Playing, BusyMain, PrivateMain,
          SharedMain, ReadArguments, Obtain, GoOn, Go, Refuse, RefuseAnd, Release
<1>5. CASE RaceMain \/ PinataMain
  <2>1. CASE CreateAndJoin(22, "release")
    BY <1>1, <1>5, <2>1, CreateAndJoinReserved DEF RaceMain, PinataMain, Playing
  <2> QED BY <1>1, <1>5, <2>1 DEF Reserved, SharedUsers, ArrayUsers, Playing, RaceMain, PinataMain,
          ReadArguments, Obtain, GoOn, Go, Refuse, RefuseAnd, Release
<1>6. CASE ReadersMain
  BY <1>1, <1>6 DEF Reserved, SharedUsers, ArrayUsers, Playing, ReadersMain, Obtain, GoOn, Go, Refuse,
     RefuseAnd, Create, CreateFails, CreatedAll, JoinTeam, Join, Crash, JoinedAll, Release
<1>7. CASE TeamsMain
  BY <1>1, <1>7 DEF Reserved, SharedUsers, ArrayUsers, Playing, TeamsMain, ReadArguments, Obtain, GoOn, Go,
     Refuse, RefuseAnd, Create, CreateFails, CreatedAll, JoinTeam, Join, Crash, JoinedAll,
     Release
<1>8. CASE Playing("serial") \/ Playing("recursive") \/ Playing("hello") \/ Playing("lottery")
           \/ Playing("shotput")
  BY <1>1, <1>8 DEF Reserved, SharedUsers, ArrayUsers, Playing
<1> QED BY <1>2, <1>3, <1>4, <1>5, <1>6, <1>7, <1>8
     DEF MainStep, OrderedMain, LockedMain, PlainMain, SerialMain, RecursiveMain, HelloMain,
         LotteryMain, ShotPutMain

(* team_shot_put: a team's arrays last until its last athlete is joined.   *)
LEMMA MainTeamsReserved ==
  ASSUME Course, TeamsReserved, MainStep
  PROVE  TeamsReserved'
<1>1. run' = run
  BY MainRun
<1>2. CASE ~ Playing("shotput")
  BY <1>1, <1>2 DEF TeamsReserved, Playing
<1>3. CASE Playing("shotput")
  <2>1. ShotPutMain /\ main # "crash"
    BY <1>3 DEF MainStep, OrderedMain, LockedMain, PlainMain, SemaphoresMain, CollectMain, BusyMain,
       SerialMain, RecursiveMain, RaceMain, PinataMain, ReadersMain, PrivateMain, SharedMain,
       TeamsMain, HelloMain, LotteryMain, Playing, Over
  <2>2. index \in Nat /\ Athletes' = Athletes /\ Athletes \in Nat /\ Athletes > 0
        /\ run.count = Athletes + Athletes /\ ~ Playing("recursive")
    BY <1>1, <1>3 DEF Course, Shape, TeamsReserved, Athletes, Playing
  <2>3. /\ main \in {"create", "join"} => "matrix" \in live
        /\ main = "create" =>
             (index > 0 => "team1" \in live) /\ (index > Athletes => "team2" \in live)
        /\ main = "join" =>
             (index < Athletes => "team1" \in live) /\ (index < run.count => "team2" \in live)
    BY <1>3 DEF TeamsReserved
  <2>4. main = "matrix" => index = 0
    BY <2>2 DEF Course, Path, Starting, StartLabels
  <2> SUFFICES
        /\ main' \in {"create", "join"} => "matrix" \in live'
        /\ main' = "create" =>
             (index' > 0 => "team1" \in live') /\ (index' > Athletes => "team2" \in live')
        /\ main' = "join" =>
             (index' < Athletes => "team1" \in live') /\ (index' < run.count => "team2" \in live')
    BY <1>1, <2>2 DEF TeamsReserved
  <2>5. CASE ReadArguments(0, "matrix") \/ Refuse("begin", 0, "exit")
             \/ Obtain("matrix", "matrix", "create", 0, "exit")
    BY <2>2, <2>4, <2>5 DEF ReadArguments, Obtain, GoOn, Go, Refuse, RefuseAnd
  <2>6. CASE Obtain("create", Team(index), "create", 0, "crash")
    BY <2>2, <2>3, <2>6 DEF Obtain, Go, Refuse, RefuseAnd
  <2>7. CASE Team(index) \in live
             /\ (Create("create", index + 1) \/ CreateFailsUnseen("create", index + 1))
    BY <2>2, <2>3, <2>7 DEF Team, Create, CreateFailsUnseen, Go, RefuseAnd
  <2>8. CASE CreatedAll("join")
    BY <2>2, <2>3, <2>8 DEF CreatedAll, GoOn, Go
  <2>9. CASE ToDisband = {} /\ Join("join", "join", index + 1)
    <3>1. index # Athletes \/ "team1" \notin live
      BY <2>9 DEF ToDisband
    <3> QED BY <2>2, <2>3, <2>9, <3>1 DEF Join, Crash, GoOn, Go
  <2>10. CASE Disband(IF index = run.count THEN "result" ELSE "join")
    <3>1. index # Athletes => "team1" \notin ToDisband
      BY DEF ToDisband
    <3>2. index # run.count => "team2" \notin ToDisband
      BY DEF ToDisband
    <3>3. "matrix" \notin ToDisband
      BY DEF ToDisband
    <3>4. live' = live \ ToDisband /\ index' = index /\ main = "join"
          /\ main' = IF index = run.count THEN "result" ELSE "join"
      BY <2>10 DEF Disband, Go
    <3> QED BY <2>2, <2>3, <3>1, <3>2, <3>3, <3>4
  <2>11. CASE PrintResult \/ Release
    BY <2>11 DEF PrintResult, Release, Go
  <2> QED BY <2>1, <2>5, <2>6, <2>7, <2>8, <2>9, <2>10, <2>11 DEF ShotPutMain
<1> QED BY <1>2, <1>3

(* hello_order_cond_safe: no thread is created before its text.            *)
LEMMA MainTexts ==
  ASSUME Course, TextsReserved, MainStep
  PROVE  TextsReserved'
<1>1. run' = run
  BY MainRun
<1>2. CASE ~ Playing("collect")
  BY <1>1, <1>2 DEF TextsReserved, Playing
<1>3. CASE Playing("collect")
  <2>1. CollectMain
    BY <1>3 DEF MainStep, OrderedMain, LockedMain, PlainMain, SemaphoresMain, BusyMain,
       SerialMain, RecursiveMain, RaceMain, PinataMain, ReadersMain, PrivateMain, SharedMain,
       TeamsMain, HelloMain, LotteryMain, ShotPutMain, Playing
  <2>2. Threads' = Threads /\ Playing("collect")'
    BY <1>1, <1>3 DEF Threads, Playing
  <2>3. CASE UNCHANGED <<routine, mine>> /\ main' # "create"
    BY <1>3, <2>2, <2>3 DEF TextsReserved
  <2>4. CASE /\ main = "text" /\ index < run.count /\ index' = index
             /\ mine' = [mine EXCEPT ![index] = Blank] /\ routine' = routine
    <3>1. index \in Threads
      BY <2>4 DEF Course, Shape, Threads
    <3>2. mine'[index] = Blank /\ \A i \in Threads \ {index} : mine'[i] = mine[i]
      BY <2>4, <3>1 DEF Course, Shape
    <3> QED BY <1>3, <2>2, <2>4, <3>1, <3>2 DEF TextsReserved, Blank, NoText
  <2>5. CASE Create("text", index + 1)
    <3>1. main = "create" /\ main' = "text" /\ mine' = mine
          /\ routine' = [routine EXCEPT ![index] = "start"]
      BY <2>5 DEF Create, Go, sharedVars
    <3>2. \A i \in Threads \ {index} : routine'[i] = routine[i]
      BY <3>1 DEF Course, Shape
    <3> QED BY <1>3, <2>2, <3>1, <3>2 DEF TextsReserved
  <2> QED BY <2>1, <2>3, <2>4, <2>5 DEF CollectMain, ReadArguments, Obtain, GoOn, Go, Refuse, RefuseAnd,
          ReserveText, CreateFails, JoinTeam, Join, Crash, JoinedAll, PrintTexts, Release,
          sharedVars
<1> QED BY <1>2, <1>3

(* recursiveHello: a thread's number is reserved before the thread.        *)
LEMMA MainNumbers ==
  ASSUME Shape, Chain, NumbersReserved, MainStep
  PROVE  NumbersReserved'
<1>1. run' = run
  BY MainRun
<1>2. CASE ~ Playing("recursive")
  BY <1>1, <1>2 DEF NumbersReserved, Playing
<1>3. CASE Playing("recursive")
  <2>1. RecursiveMain
    BY <1>3 DEF MainStep, OrderedMain, LockedMain, PlainMain, SemaphoresMain, CollectMain, BusyMain,
       SerialMain, RaceMain, PinataMain, ReadersMain, PrivateMain, SharedMain, TeamsMain,
       HelloMain, LotteryMain, ShotPutMain, Playing
  <2>2. Threads' = Threads /\ Playing("recursive")' /\ index = 0 /\ 0 \in Threads
    BY <1>1, <1>3 DEF Threads, Playing, Shape, Chain
  <2>3. CASE UNCHANGED <<routine, mine>> /\ main' # "create"
    BY <1>3, <2>2, <2>3 DEF NumbersReserved
  <2>4. CASE main = "begin" /\ mine' = [mine EXCEPT ![0] = 1] /\ routine' = routine
    BY <1>3, <2>2, <2>4 DEF NumbersReserved, Chain, Shape
  <2>5. CASE Create("join", 0)
    <3>1. main = "create" /\ main' = "join" /\ mine' = mine
          /\ routine' = [routine EXCEPT ![0] = "start"]
      BY <2>2, <2>5 DEF Create, Go, sharedVars
    <3>2. routine'[0] = "start" /\ \A i \in Threads \ {0} : routine'[i] = "unborn"
      BY <1>3, <2>2, <3>1 DEF Chain, Shape
    <3> QED BY <1>3, <2>2, <3>1, <3>2 DEF NumbersReserved
  <2> QED BY <2>1, <2>3, <2>4, <2>5 DEF RecursiveMain, GoOn, Go, Refuse, RefuseAnd, Join, Crash, sharedVars
<1> QED BY <1>2, <1>3

(* hello_order_semaphor: semaphore i is destroyed when thread i is joined. *)
LEMMA MainSemaphores ==
  ASSUME Course, SemaphoresLive, MainStep
  PROVE  SemaphoresLive'
<1>1. run' = run
  BY MainRun
<1>2. CASE ~ Playing("semaphores")
  BY <1>1, <1>2 DEF SemaphoresLive, Playing
<1>3. CASE Playing("semaphores")
  <2>1. SemaphoresMain
    BY <1>3 DEF MainStep, OrderedMain, LockedMain, PlainMain, CollectMain, BusyMain,
       SerialMain, RecursiveMain, RaceMain, PinataMain, ReadersMain, PrivateMain, SharedMain,
       TeamsMain, HelloMain, LotteryMain, ShotPutMain, Playing
  <2>2. Threads' = Threads /\ Playing("semaphores")' /\ Threads = 0 .. run.count - 1
        /\ index \in Nat /\ run.count \in Nat
    BY <1>1, <1>3 DEF Threads, Playing, Course, Shape
  <2>3. CASE main' \notin {"arrays", "create", "join", "destroy"}
    BY <2>3 DEF SemaphoresLive
  <2>4. CASE InitSemaphores
    BY <1>1, <1>3, <2>2, <2>4 DEF InitSemaphores, Refuse, RefuseAnd, Go, SemaphoresLive
  <2>5. CASE DestroySemaphore
    <3>1. DOMAIN sem = index .. run.count - 1 /\ DOMAIN sem' = DOMAIN sem \ {index}
          /\ index' = index + 1 /\ main' = "join"
      BY <1>3, <2>2, <2>5 DEF DestroySemaphore, Go, SemaphoresLive, Restrict
    <3>2. DOMAIN sem' = index + 1 .. run.count - 1
      BY <2>2, <3>1
    <3> QED BY <1>1, <3>1, <3>2 DEF SemaphoresLive
  <2>6. CASE Create("create", index + 1) \/ CreateFails(21, run.count) \/ CreatedAll("join")
    BY <1>1, <1>3, <2>2, <2>6 DEF Create, CreateFails, CreatedAll, GoOn, Go, RefuseAnd, sharedVars,
       SemaphoresLive
  <2>7. CASE \/ Obtain("arrays", "arrays", "create", 23, "release")
             \/ Join("join", "destroy", index)
    BY <1>1, <1>3, <2>2, <2>7 DEF Obtain, Refuse, RefuseAnd, Join, Crash, GoOn, Go, sharedVars,
       SemaphoresLive
  <2> QED BY <2>1, <2>3, <2>4, <2>5, <2>6, <2>7 DEF SemaphoresMain, ReadArguments, Obtain, GoOn, Go,
          Refuse, RefuseAnd, JoinedAll, Release
<1> QED BY <1>2, <1>3

(* Parts of main that one program only has, or one only has not.           *)
Places ==
  /\ main = "text" => Playing("collect")
  /\ main = "destroy" => Playing("semaphores")
  /\ main = "join" => ~ Playing("serial")

LEMMA MainPlaces == ASSUME Places, MainStep PROVE Places'
<1>1. run' = run
  BY MainRun
<1>2. CASE Playing("collect") \/ Playing("semaphores")
  BY <1>1, <1>2 DEF Places, Playing, MainStep, OrderedMain, LockedMain, PlainMain, SemaphoresMain,
     CollectMain, BusyMain, SerialMain, RecursiveMain, RaceMain, PinataMain, ReadersMain,
     PrivateMain, SharedMain, TeamsMain, HelloMain, LotteryMain, ShotPutMain,
     ReadArguments, Obtain, GoOn, Go, Refuse, RefuseAnd, InitSemaphores, Create, CreateFails,
     CreatedAll, Join, Crash, DestroySemaphore, JoinedAll, Release, ReserveText, JoinTeam,
     PrintTexts
<1>3. CASE BusyMain \/ RaceMain \/ PinataMain \/ PrivateMain \/ SharedMain
  BY <1>1, <1>3 DEF Places, Playing, BusyMain, RaceMain, PinataMain, PrivateMain, SharedMain,
     CreateAndJoin, ReadArguments, Obtain, GoOn, Go, Refuse, RefuseAnd, Create, CreateFails,
     CreatedAll, JoinTeam, Join, Crash, JoinedAll, Release
<1>4. CASE SerialMain \/ RecursiveMain
  BY <1>1, <1>4 DEF Places, Playing, SerialMain, RecursiveMain, ReadArguments, GoOn, Go, Refuse,
     RefuseAnd, Create, CreateFailsUnseen, Join, Crash, CreatedAll
<1>5. CASE ReadersMain \/ TeamsMain \/ HelloMain \/ LotteryMain
  BY <1>1, <1>5 DEF Places, Playing, ReadersMain, TeamsMain, HelloMain, LotteryMain, ReadArguments,
     Obtain, GoOn, Go, Refuse, RefuseAnd, Create, CreateFails, CreateFailsUnseen, CreatedAll,
     JoinTeam, Join, Crash, JoinedAll, Release
<1>6. CASE ShotPutMain
  BY <1>1, <1>6 DEF Places, Playing, ShotPutMain, ReadArguments, Obtain, GoOn, Go, Refuse, RefuseAnd,
     Create, CreateFailsUnseen, CreatedAll, Join, Crash, Disband, PrintResult, Release
<1> QED BY <1>2, <1>3, <1>4, <1>5, <1>6
     DEF MainStep, OrderedMain, LockedMain, PlainMain, SemaphoresMain, CollectMain

Reserves ==
  Places /\ Reserved /\ TeamsReserved /\ TextsReserved /\ NumbersReserved /\ SemaphoresLive

LEMMA ThreadReserves ==
  ASSUME TeamCourse, Reserves, NEW i \in Threads, ThreadStep(i)
  PROVE  Reserves'
<1>1. run' = run /\ Threads' = Threads /\ Shape
  BY ThreadRun DEF Threads, TeamCourse, Course
<1>2. CASE ~ Playing("recursive")
  <2>1. Advances(i)
    BY <1>1, <1>2, ThreadAdvances
  <2>2. Places' /\ Reserved' /\ TeamsReserved' /\ SemaphoresLive' /\ NumbersReserved'
    BY <1>1, <1>2, <2>1 DEF Advances, mainVars, Reserves, Places, Reserved, TeamsReserved, SemaphoresLive,
       NumbersReserved, Playing, Athletes
  <2>3. CASE ~ Playing("collect")
    BY <1>1, <2>2, <2>3 DEF Reserves, TextsReserved, Playing
  <2>4. CASE Playing("collect")
    <3>1. mine' = [mine EXCEPT ![i] = Text] /\ UNCHANGED <<main, index>> /\ routine[i] # "unborn"
      BY <2>4 DEF ThreadStep, OrderedStep, LockedStep, PlainStep, WriteGreeting, Keep, Step, mainVars,
         Playing
    <3>2. mine'[i] = Text /\ \A j \in Threads \ {i} : mine'[j] = mine[j]
      BY <1>1, <3>1 DEF Shape
    <3>3. TextsReserved'
      BY <1>1, <2>1, <2>4, <3>1, <3>2 DEF Advances, Reserves, TextsReserved, Playing, Text, NoText
    <3> QED BY <2>2, <3>3 DEF Reserves
  <2> QED BY <2>3, <2>4
<1>3. CASE Playing("recursive")
  <2>1. RecursiveGreet(i) /\ i \in Nat
    BY <1>3 DEF ThreadStep, OrderedStep, LockedStep, PlainStep, Playing, Threads
  <2>2. Reserved' /\ TeamsReserved' /\ TextsReserved' /\ SemaphoresLive'
    BY <1>1, <1>3 DEF Reserved, SharedUsers, ArrayUsers, TeamsReserved, TextsReserved,
       SemaphoresLive, Playing
  <2>3. main' # "create" /\ Playing("recursive")'
    BY <1>1, <1>3, <2>1 DEF TeamCourse, Chain, RecursiveGreet, Keep, PrintLine, ChainStep, Step, mainVars,
       Crash, Go, Playing
  <2>4. \A j \in Threads : routine[j] = "create" => j + 1 # i
    BY <1>3, <2>1 DEF TeamCourse, Chain, RecursiveGreet, Keep, PrintLine, ChainStep, Step, Threads
  <2>5. \A j \in Threads : /\ routine'[j] = "start" => mine'[j] = 1
                           /\ routine'[j] = "create" => mine'[j + 1] = 1
    <3>1. CASE Keep(i, "start", "greet", 0)
      BY <1>1, <1>3, <2>4, <3>1 DEF Keep, Step, Shape, Reserves, NumbersReserved
    <3>2. CASE mine' = mine /\ routine' = routine
      BY <1>1, <1>3, <3>2 DEF Reserves, NumbersReserved
    <3>3. CASE mine' = mine
               /\ \E to \in {"reserve", "ended", "wait"} : routine' = [routine EXCEPT ![i] = to]
      BY <1>1, <1>3, <3>3 DEF Shape, Reserves, NumbersReserved
    <3>4. CASE mine' = mine /\ routine[i] = "create"
               /\ routine' = [routine EXCEPT ![i] = "wait", ![i + 1] = "start"]
      BY <1>1, <1>3, <2>1, <3>4 DEF TeamCourse, Shape, Chain, Reserves, NumbersReserved
    <3>5. CASE routine[i] = "reserve" /\ routine' = [routine EXCEPT ![i] = "create"]
               /\ mine' = [mine EXCEPT ![i + 1] = 1]
      BY <1>1, <1>3, <2>1, <3>5 DEF TeamCourse, Shape, Chain, Reserves, NumbersReserved
    <3> QED BY <2>1, <3>1, <3>2, <3>3, <3>4, <3>5
         DEF RecursiveGreet, PrintLine, ChainStep, Step, sharedVars, Crash
  <2>6. NumbersReserved'
    BY <1>1, <2>3, <2>5 DEF NumbersReserved
  <2>7. main' = main \/ main' = "crash"
    BY <2>1 DEF RecursiveGreet, Keep, PrintLine, ChainStep, Step, mainVars, Crash, Go
  <2>8. Places'
    BY <1>1, <2>7 DEF Reserves, Places, Playing
  <2> QED BY <2>2, <2>6, <2>8 DEF Reserves
<1> QED BY <1>2, <1>3

-----------------------------------------------------------------------------
CourseInv == TeamCourse /\ Reserves /\ StatusInv

LEMMA InitCourseInv == Init => CourseInv
<1> SUFFICES ASSUME Init PROVE CourseInv
  OBVIOUS
<1>1. run \in CommandLines(OrderedPrograms \union LockedPrograms \union PlainPrograms)
  BY DEF Init, InitWith
<1>2. run.count \in Counts(run.program)
  BY <1>1 DEF CommandLines
<1>3. run.count \in Nat
  BY <1>2, BoundsAssumption DEF Counts
<1>4. /\ main = "begin" /\ index = 0 /\ limit = run.count /\ status = 0 /\ refused = {}
      /\ routine = [i \in Threads |-> "unborn"] /\ mine = [i \in Threads |-> 0]
  BY DEF Init, InitWith
<1>5. Shape /\ Path
  BY <1>2, <1>3, <1>4 DEF Shape, Path, Starting, StartLabels, CreateLabels, EndLabels, Counts, Playing
<1>6. Chain
  BY <1>2, <1>4 DEF Chain, Counts, Playing
<1>7. TeamsReserved
  <2> SUFFICES ASSUME Playing("shotput")
               PROVE  Athletes \in Nat /\ Athletes > 0 /\ run.count = Athletes + Athletes
    BY <1>4 DEF TeamsReserved
  <2>1. PICK athletes \in 1 .. MaxThreads : run.count = 2 * athletes
    BY <1>2 DEF Counts, Playing
  <2> QED BY <2>1, BoundsAssumption DEF Athletes
<1>8. Reserves
  BY <1>4, <1>7 DEF Reserves, Places, Reserved, TextsReserved, NumbersReserved, SemaphoresLive
<1>9. StatusInv
  BY <1>4 DEF StatusInv
<1> QED BY <1>5, <1>6, <1>8, <1>9 DEF CourseInv, TeamCourse, Course

LEMMA NextCourseInv == CourseInv /\ [Next]_vars => CourseInv'
<1> SUFFICES ASSUME CourseInv, [Next]_vars PROVE CourseInv'
  OBVIOUS
<1>1. TeamCourse /\ Course /\ Chain /\ Shape /\ Reserves /\ StatusInv
  BY DEF CourseInv, TeamCourse, Course
<1>2. CASE MainStep
  <2>1. Reserves'
    BY <1>1, <1>2, MainReserved, MainTeamsReserved, MainTexts, MainNumbers, MainSemaphores,
       MainPlaces DEF Reserves
  <2> QED BY <1>1, <1>2, <2>1, MainCourse, MainStatus DEF CourseInv, Reserves
<1>3. ASSUME NEW i \in Threads, ThreadStep(i) PROVE CourseInv'
  BY <1>1, <1>3, ThreadTeamCourse, ThreadReserves, ThreadStatus DEF CourseInv
<1>4. CASE UNCHANGED vars
  <2>1. Safe' = Safe /\ Unnoticed' = Unnoticed
    BY <1>4, SafeKept DEF vars, mainVars, Unnoticed, Playing
  <2>2. Shape' /\ Path'
    BY <1>1, <1>4, <2>1 DEF vars, mainVars, sharedVars, Course, Shape, Path, Starting, Creating, Waiting, Joining,
       Ending, Running, Playing, Threads
  <2>3. Chain'
    BY <1>1, <1>4, <2>1 DEF vars, mainVars, sharedVars, Chain, Ending, Running, Playing, Threads
  <2>4. Reserves'
    BY <1>1, <1>4 DEF vars, mainVars, sharedVars, Reserves, Places, Reserved, TeamsReserved, TextsReserved,
       NumbersReserved, SemaphoresLive, Playing, Threads, Athletes
  <2>5. StatusInv'
    BY <1>1, <1>4, <2>1 DEF vars, mainVars, StatusInv, Playing
  <2> QED BY <2>2, <2>3, <2>4, <2>5 DEF CourseInv, TeamCourse, Course
<1> QED BY <1>2, <1>3, <1>4 DEF Next, Done, ThreadStep

LEMMA CourseInvariant == Spec => []CourseInv
BY InitCourseInv, NextCourseInv, PTL DEF Spec

(* When main exits nobody runs, and everybody has ended if nothing was     *)
(* refused.                                                                *)
LEMMA ExitsLast == ASSUME CourseInv, main = "exit" PROVE Ending
BY DEF CourseInv, TeamCourse, Course, Path, Chain, EndLabels

(* Where main may be while a thread runs.                                  *)
LEMMA RunningPlaces ==
  ASSUME CourseInv, ~ Playing("recursive"), main # "crash", NEW i \in Threads, Running(i)
  PROVE  /\ main \in {"text", "create", "join", "destroy"} \/ (main = "wait" /\ Playing("serial"))
         /\ main \in {"text", "create"} => i < index
         /\ main \in {"join", "destroy"} => i >= index
         /\ main = "destroy" => i > index
         /\ Playing("serial") /\ main = "wait" => i = index
         /\ Playing("serial") => main = "wait"
<1>1. /\ main \in {"text", "create", "join", "destroy"} \/ (main = "wait" /\ Playing("serial"))
      /\ main \in {"text", "create"} => i < index
      /\ main \in {"join", "destroy"} => i >= index
      /\ main = "destroy" => i > index
      /\ Playing("serial") /\ main = "wait" => i = index
      /\ Playing("serial") => main \notin {"text", "create"}
  BY DEF CourseInv, TeamCourse, Course, Shape, Path, StartLabels, CreateLabels, EndLabels, Starting,
     Creating, Waiting, Joining, Ending, Running, Threads
<1>2. Playing("serial") => main \notin {"join", "destroy"}
  BY DEF CourseInv, Reserves, Places, Playing
<1> QED BY <1>1, <1>2

(* The semaphore of a thread that runs is there, and that of the next one  *)
(* but for the last.                                                       *)
LEMMA OwnSemaphore ==
  ASSUME CourseInv, main # "crash", NEW i \in Threads, Running(i), Playing("semaphores")
  PROVE  /\ i \in DOMAIN sem
         /\ NextThread(i) \notin DOMAIN sem => i = run.count - 1 /\ i # 0
<1>1. main \in {"create", "join", "destroy"} /\ ~ Playing("recursive")
  BY RunningPlaces DEF CourseInv, Reserves, Places, Playing
<1>2. i \in Nat /\ index \in Nat /\ run.count \in Nat /\ i < run.count
  BY DEF CourseInv, TeamCourse, Course, Shape, Threads
<1>3. main \in {"join", "destroy"} => i >= index
  BY <1>1, RunningPlaces
<1>4. DOMAIN sem = 0 .. run.count - 1 \/ DOMAIN sem = index .. run.count - 1
  BY <1>1 DEF CourseInv, Reserves, SemaphoresLive, Threads
<1>5. i + 1 < run.count => NextThread(i) = i + 1
  BY <1>2 DEF NextThread
<1>6. i + 1 = run.count => NextThread(i) = 0
  BY <1>2 DEF NextThread
<1>7. CASE main = "create"
  BY <1>2, <1>5, <1>6, <1>7 DEF CourseInv, Reserves, SemaphoresLive, Threads
<1>8. CASE main # "create"
  BY <1>1, <1>2, <1>3, <1>5, <1>6, <1>8 DEF CourseInv, Reserves, SemaphoresLive
<1> QED BY <1>7, <1>8

(* No thread uses what main has already released, in any of the programs,  *)
(* for any number of threads and whatever request is refused, but for the  *)
(* last thread's post to semaphore 0, which main may have destroyed        *)
(* (hello_order_semaphor/src/main.c:108 and 137).                          *)
THEOREM NothingUsedAfterRelease == Spec => []UsesAreLive
<1>1. ASSUME CourseInv PROVE UsesAreLive
  <2>1. main = "exit" => \A i \in Threads : ~ Running(i)
    BY <1>1, ExitsLast DEF Ending
  <2>2. ASSUME main # "crash", NEW i \in Threads, Running(i)
        PROVE  /\ run.program \in ArrayUsers => "arrays" \in live
               /\ run.program \in SharedUsers => "shared" \in live
    <3>1. CASE Playing("recursive")
      BY <3>1 DEF Playing, ArrayUsers, SharedUsers
    <3>2. CASE ~ Playing("recursive")
      BY <1>1, <2>2, <3>2, RunningPlaces DEF CourseInv, Reserves, Reserved, Playing, SharedUsers, ArrayUsers
    <3> QED BY <3>1, <3>2
  <2>3. ASSUME main # "crash", NEW i \in Threads, Running(i), Playing("shotput")
        PROVE  {"matrix", Team(i)} \subseteq live
    <3>1. main \in {"create", "join"} /\ ~ Playing("recursive")
      BY <1>1, <2>3, RunningPlaces DEF CourseInv, Reserves, Places, Playing
    <3>2. i \in Nat /\ index \in Nat /\ i < run.count
      BY <1>1, <2>3 DEF CourseInv, TeamCourse, Course, Shape, Threads
    <3>3. (main = "create" => i < index) /\ (main = "join" => i >= index)
      BY <1>1, <2>3, <3>1, RunningPlaces
    <3> QED BY <1>1, <2>3, <3>1, <3>2, <3>3 DEF CourseInv, Reserves, TeamsReserved, Team
  <2>4. ASSUME NEW i \in Threads, Running(i)
        PROVE  /\ Playing("collect") => mine[i] # NoText
               /\ Playing("recursive") /\ routine[i] = "start" => mine[i] = 1
    BY <1>1, <2>4 DEF CourseInv, Reserves, TextsReserved, NumbersReserved, Running
  <2>5. ASSUME main # "crash", NEW i \in Threads, Running(i), Playing("serial")
        PROVE  index = i /\ main = "wait"
    BY <1>1, <2>5, RunningPlaces DEF Playing
  <2>6. ASSUME main # "crash", NEW i \in Threads, Running(i), Playing("semaphores")
        PROVE  /\ i \in DOMAIN sem
               /\ NextThread(i) \notin DOMAIN sem => i = run.count - 1 /\ i # 0
    BY <1>1, <2>6, OwnSemaphore
  <2> QED BY <2>1, <2>2, <2>3, <2>4, <2>5, <2>6 DEF UsesAreLive, ArrayUsers, SharedUsers
<1> QED BY <1>1, CourseInvariant, PTL

(* The exit status of every program, for any number of threads: it is 0    *)
(* exactly when the program noticed no refusal, which of them notices      *)
(* which, that with no refusal at all every thread has run to its end, and *)
(* that only a fatal refusal ends in a crash, but for readers_writers.     *)
THEOREM StatusTells == Spec => []ReportsFailure
<1>1. ASSUME CourseInv PROVE ReportsFailure
  BY <1>1, ExitsLast DEF CourseInv, StatusInv, ReportsFailure, Ending, Safe
<1> QED BY <1>1, CourseInvariant, PTL
-----------------------------------------------------------------------------
(* The order of the greetings: why each program is right, in its own way.  *)

InOrder == {"semaphores", "collect", "busy", "serial", "race", "recursive"}

Ahead(n) == \A k \in 1 .. Len(said) : said[k] < n

Speech ==
  run.program \in InOrder =>
    said \in Seq(Nat) /\ run.count \in Nat /\ run.count <= MostThreads + 1

(* One thread has the turn: it may take its semaphore, or it has taken it  *)
(* and not yet passed it on.                                               *)
HasTurn(i) == (i \in DOMAIN sem /\ sem[i] > 0) \/ routine[i] \in {"greet", "post"}

TurnIsOne ==
  Playing("semaphores") =>
    /\ sem \in [DOMAIN sem -> {0, 1}]
    /\ DOMAIN sem \subseteq Threads
    /\ main \in StartLabels \ {"arrays"} => DOMAIN sem = {} /\ said = <<>>
    /\ \A i \in Threads :
         routine[i] \in {"greet", "post"} /\ i \in DOMAIN sem => sem[i] = 0
    /\ \A i, j \in Threads : HasTurn(i) /\ HasTurn(j) => i = j
    /\ \A i \in Threads : HasTurn(i) =>
         \/ i = 0 /\ \A j \in Threads : routine[j] = "ended"
         \/ /\ routine[i] \in {"unborn", "start", "greet", "post"}
            /\ \A j \in Threads : /\ j < i => routine[j] = "ended"
                                  /\ j > i => routine[j] \in {"unborn", "start"}
    /\ \A k \in 1 .. Len(said) :
         said[k] \in Threads /\ routine[said[k]] \in {"post", "ended"}

(* main prints what it has collected, from the first.                      *)
TextsInOrder ==
  Playing("collect") =>
    /\ main \notin {"print", "release", "exit", "crash"} => said = <<>>
    /\ main = "print" => Ahead(index)

(* Whoever is past the busy wait is the one the counter points at.         *)
CounterIsTurn ==
  Playing("busy") =>
    /\ counter \in Nat
    /\ \A i \in Threads :
         /\ routine[i] \in {"unborn", "start"} => counter <= i
         /\ routine[i] \in {"greet", "load", "store"} => counter = i
         /\ routine[i] = "greet" => Ahead(i)
         /\ routine[i] = "store" => mine[i] = i
         /\ routine[i] = "ended" => i < counter
    /\ Ahead(counter) \/ (counter \in Threads /\ routine[counter] \in {"load", "store"}
                          /\ Ahead(counter + 1))

(* One thread at a time, with main's loop counter as its number.           *)
OneAtATime ==
  Playing("serial") =>
    /\ main = "begin" => said = <<>>
    /\ main = "create" => Ahead(index)
    /\ main = "wait" =>
         /\ routine[index] \in {"unborn", "start", "greet"} => Ahead(index)
         /\ routine[index] = "greet" => mine[index] = index
         /\ Ahead(index + 1)

(* The positions of the race are printed under the lock that counts them.  *)
Placed == {i \in Threads : routine[i] \in {"look", "print", "unlock", "ended"}}

RaceInOrder ==
  Playing("race") =>
    /\ run.count <= MostThreads
    /\ counter \in Nat /\ counter = Cardinality(Placed)
    /\ Ahead(counter + 1)
    /\ \A i \in Threads :
         /\ routine[i] \in {"look", "print"} => Ahead(counter)
         /\ routine[i] = "print" => mine[i] = counter

(* A number is greeted by a thread that is past its greeting, and before   *)
(* that thread has created the next one nobody is.                         *)
ChainInOrder ==
  Playing("recursive") =>
    \A k \in 1 .. Len(said) :
      Number(said[k]) \in Threads
      /\ routine[Number(said[k])] \notin {"unborn", "start", "greet"}

OrderInv ==
  /\ Speech /\ TurnIsOne /\ TextsInOrder /\ CounterIsTurn /\ OneAtATime /\ RaceInOrder
  /\ ChainInOrder

LEMMA AheadMonotone ==
  ASSUME said \in Seq(Nat), NEW m \in Nat, NEW n \in Nat, m <= n, Ahead(m)
  PROVE  Ahead(n)
<1> SUFFICES ASSUME NEW k \in 1 .. Len(said) PROVE said[k] < n
  BY DEF Ahead
<1>1. said[k] \in Nat /\ said[k] < m
  BY DEF Ahead
<1> QED BY <1>1

LEMMA AheadAppended ==
  ASSUME said \in Seq(Nat), NEW n \in Nat, said' = Append(said, n), Ahead(n)
  PROVE  /\ said' \in Seq(Nat)
         /\ \A m \in Nat : n < m => Ahead(m)'
<1>1. said' \in Seq(Nat) /\ Len(said') = Len(said) + 1 /\ said'[Len(said) + 1] = n
      /\ \A k \in 1 .. Len(said) : said'[k] = said[k]
  OBVIOUS
<1>2. ASSUME NEW m \in Nat, n < m PROVE Ahead(m)'
  <2> SUFFICES ASSUME NEW k \in 1 .. Len(said') PROVE said'[k] < m
    BY DEF Ahead
  <2>1. CASE k = Len(said) + 1
    BY <1>1, <1>2, <2>1
  <2>2. CASE k \in 1 .. Len(said)
    <3>1. said'[k] = said[k] /\ said[k] \in Nat /\ said[k] < n
      BY <1>1, <2>2 DEF Ahead
    <3> QED BY <1>2, <3>1
  <2> QED BY <1>1, <2>1, <2>2
<1> QED BY <1>1, <1>2

-----------------------------------------------------------------------------
(* hello_order_semaphor                                                    *)

LEMMA SemaphoresMainOrder ==
  ASSUME Course, TurnIsOne, MainStep, SemaphoresMain
  PROVE  TurnIsOne'
<1>1. Playing("semaphores") /\ Playing("semaphores")' /\ Threads' = Threads /\ ~ Playing("recursive")
      /\ Shape
  BY MainRun DEF SemaphoresMain, Playing, Threads, Course
<1>2. CASE UNCHANGED <<routine, sem, said>> /\ (main \in StartLabels \ {"arrays"}
                                                \/ main' \notin StartLabels \ {"arrays"})
  BY <1>1, <1>2 DEF TurnIsOne, HasTurn
<1>3. CASE InitSemaphores
  <2>1. main = "semaphores" /\ routine' = routine /\ said' = said
    BY <1>3 DEF InitSemaphores, Refuse, RefuseAnd, Go
  <2>2. said = <<>> /\ DOMAIN sem = {} /\ \A i \in Threads : routine[i] = "unborn"
    BY <1>1, <2>1 DEF TurnIsOne, Course, Path, StartLabels, Starting
  <2>3. CASE sem' = sem /\ main' \in {"release", "crash"}
    BY <1>1, <2>1, <2>3 DEF TurnIsOne, HasTurn, StartLabels
  <2>4. ASSUME NEW denied \in SUBSET Threads, main' = "arrays",
               sem' = [i \in Threads |-> IF i \in denied THEN 0 ELSE TurnOf(i)]
        PROVE  TurnIsOne'
    <3>1. \A i \in Threads : i \in Nat
      BY DEF Threads
    <3>2. DOMAIN sem' = Threads /\ sem' \in [Threads -> {0, 1}]
          /\ \A i \in Threads : sem'[i] > 0 => i = 0
      BY <2>4 DEF TurnOf
    <3> QED BY <1>1, <2>1, <2>2, <2>4, <3>1, <3>2 DEF TurnIsOne, HasTurn, StartLabels
  <2> QED BY <1>3, <2>3, <2>4 DEF InitSemaphores, Refuse, RefuseAnd, Go
<1>4. CASE Create("create", index + 1)
  <2>1. index \in Threads /\ routine[index] = "unborn" /\ routine' = [routine EXCEPT ![index] = "start"]
        /\ main = "create" /\ main' = "create" /\ UNCHANGED <<sem, said>>
    BY <1>1, <1>4 DEF Create, Go, Course, Shape, Path, CreateLabels, Creating, Threads, sharedVars
  <2>2. routine'[index] = "start" /\ \A i \in Threads \ {index} : routine'[i] = routine[i]
    BY <1>1, <2>1 DEF Shape
  <2>3. \A i \in Threads : HasTurn(i)' <=> HasTurn(i)
    BY <2>1, <2>2 DEF HasTurn
  <2> QED BY <1>1, <2>1, <2>2, <2>3 DEF TurnIsOne, StartLabels
<1>5. CASE DestroySemaphore
  <2>1. DOMAIN sem' = DOMAIN sem \ {index} /\ (\A i \in DOMAIN sem' : sem'[i] = sem[i])
        /\ sem' = [i \in DOMAIN sem' |-> sem'[i]]
        /\ UNCHANGED <<routine, said>> /\ main' = "join"
    BY <1>5 DEF DestroySemaphore, Go, Restrict
  <2>2. \A i \in Threads : HasTurn(i)' => HasTurn(i)
    BY <2>1 DEF HasTurn
  <2> QED BY <1>1, <2>1, <2>2 DEF TurnIsOne, StartLabels
<1>6. CASE \/ ReadArguments(11, "shared") \/ Obtain("shared", "shared", "semaphores", 12, "exit")
           \/ Obtain("arrays", "arrays", "create", 23, "release")
  BY <1>2, <1>6 DEF ReadArguments, Obtain, GoOn, Go, Refuse, RefuseAnd, sharedVars, StartLabels
<1>7. CASE \/ CreateFails(21, run.count) \/ CreatedAll("join") \/ Join("join", "destroy", index)
           \/ JoinedAll("release") \/ Release
  BY <1>2, <1>7 DEF CreateFails, CreatedAll, Join, Crash, JoinedAll, Release, GoOn, Go, RefuseAnd,
     sharedVars, StartLabels
<1> QED BY <1>3, <1>4, <1>5, <1>6, <1>7 DEF SemaphoresMain

LEMMA GreetInTurnOrder ==
  ASSUME CourseInv, Speech, TurnIsOne, Playing("semaphores"), NEW i \in Threads, GreetInTurn(i)
  PROVE  Speech' /\ TurnIsOne'
<1>1. UNCHANGED mainVars /\ Playing("semaphores")' /\ Threads' = Threads /\ Shape
      /\ MostThreads' = MostThreads
  BY DEF GreetInTurn, PrintLine, Step, mainVars, Playing, Threads, MostThreads, CourseInv,
     TeamCourse, Course
<1>2. routine[i] # "unborn" /\ run.count \in Nat /\ i \in Nat /\ i < run.count
  BY <1>1 DEF GreetInTurn, PrintLine, Step, Shape, Threads
<1>3. main \notin StartLabels
  BY <1>2 DEF CourseInv, TeamCourse, Course, Path, Starting, Playing
<1>4. said \in Seq(Nat) /\ run.count <= MostThreads + 1
  BY DEF Speech, InOrder, Playing
<1>5. CASE /\ routine[i] = "start" /\ routine' = [routine EXCEPT ![i] = "greet"]
           /\ sem[i] > 0 /\ i \in DOMAIN sem /\ sem' = [sem EXCEPT ![i] = @ - 1] /\ said' = said
  <2>1. sem[i] = 1 /\ sem'[i] = 0 /\ DOMAIN sem' = DOMAIN sem
        /\ sem' \in [DOMAIN sem' -> {0, 1}]
        /\ \A j \in DOMAIN sem \ {i} : sem'[j] = sem[j]
    BY <1>5 DEF TurnIsOne
  <2>2. routine'[i] = "greet" /\ \A j \in Threads \ {i} : routine'[j] = routine[j]
    BY <1>1, <1>5 DEF Shape
  <2>3. \A j \in Threads : HasTurn(j)' <=> HasTurn(j)
    BY <1>5, <2>1, <2>2 DEF HasTurn
  <2>4. TurnIsOne'
    <3>1. main' = main
      BY <1>1 DEF mainVars
    <3>2. \A j \in Threads : HasTurn(j) => j = i
      BY <1>5 DEF TurnIsOne, HasTurn
    <3>3. /\ \A j \in Threads : j < i => routine'[j] = "ended"
          /\ \A j \in Threads : j > i => routine'[j] \in {"unborn", "start"}
      BY <1>2, <1>5, <2>2 DEF TurnIsOne, HasTurn, Threads
    <3>4. \A k \in 1 .. Len(said) : said[k] \in Threads /\ routine'[said[k]] \in {"post", "ended"}
      BY <1>5, <2>2 DEF TurnIsOne
    <3>5. \A j \in Threads : routine'[j] \in {"greet", "post"} => j = i
      BY <2>2, <3>2 DEF HasTurn
    <3> QED BY <1>1, <1>3, <1>5, <2>1, <2>2, <2>3, <3>1, <3>2, <3>3, <3>4, <3>5 DEF TurnIsOne
  <2> QED BY <1>1, <1>5, <2>4 DEF Speech, mainVars
<1>6. CASE PrintLine(i, "greet", "post", i)
  <2>1. routine[i] = "greet" /\ routine' = [routine EXCEPT ![i] = "post"] /\ sem' = sem
        /\ said' = Append(said, i)
    BY <1>6 DEF PrintLine, Step
  <2>2. routine'[i] = "post" /\ \A j \in Threads \ {i} : routine'[j] = routine[j]
    BY <1>1, <2>1 DEF Shape
  <2>3. \A j \in Threads : HasTurn(j)' <=> HasTurn(j)
    BY <2>1, <2>2 DEF HasTurn
  <2>4. said' \in Seq(Nat) /\ \A k \in 1 .. Len(said') : said'[k] = i \/ (k \in 1 .. Len(said) /\ said'[k] = said[k])
    BY <1>2, <1>4, <2>1
  <2>5. \A k \in 1 .. Len(said') : said'[k] \in Threads /\ routine'[said'[k]] \in {"post", "ended"}
    BY <2>1, <2>2, <2>4 DEF TurnIsOne
  <2>6. TurnIsOne'
    BY <1>1, <1>3, <2>1, <2>2, <2>3, <2>5 DEF TurnIsOne, mainVars
  <2> QED BY <1>1, <1>4, <2>4, <2>6 DEF Speech, mainVars
<1>7. CASE /\ routine[i] = "post" /\ routine' = [routine EXCEPT ![i] = "ended"] /\ said' = said
           /\ sem' = [j \in DOMAIN sem |-> IF j = NextThread(i) THEN sem[j] + 1 ELSE sem[j]]
  <2> DEFINE next == NextThread(i)
  <2>1. (i + 1 < run.count => next = i + 1) /\ (i + 1 = run.count => next = 0) /\ next \in Threads
    BY <1>2 DEF NextThread, Threads
  <2>2. HasTurn(i) /\ \A j \in Threads : HasTurn(j) => j = i
    BY <1>7 DEF HasTurn, TurnIsOne
  <2>3. next \in DOMAIN sem => sem[next] = 0
    BY <1>7, <2>1, <2>2 DEF HasTurn, TurnIsOne
  <2>4. routine'[i] = "ended" /\ \A j \in Threads \ {i} : routine'[j] = routine[j]
    BY <1>1, <1>7 DEF Shape
  <2>5. /\ \A j \in Threads : j < i => routine[j] = "ended"
        /\ \A j \in Threads : j > i => routine[j] \in {"unborn", "start"}
    BY <1>7, <2>2 DEF TurnIsOne
  <2>6. DOMAIN sem' = DOMAIN sem /\ sem' \in [DOMAIN sem' -> {0, 1}]
        /\ \A j \in DOMAIN sem : sem'[j] = IF j = next THEN 1 ELSE sem[j]
    BY <1>7, <2>3 DEF TurnIsOne
  <2>7. \A j \in Threads : HasTurn(j)' => j = next
    <3> SUFFICES ASSUME NEW j \in Threads, HasTurn(j)', j # next PROVE FALSE
      OBVIOUS
    <3>1. CASE j \in DOMAIN sem' /\ sem'[j] > 0
      <4>1. j \in DOMAIN sem /\ sem[j] > 0
        BY <2>6, <3>1
      <4>2. j = i
        BY <2>2, <4>1 DEF HasTurn
      <4> QED BY <1>7, <4>1, <4>2 DEF TurnIsOne
    <3>2. CASE routine'[j] \in {"greet", "post"}
      BY <2>2, <2>4, <3>2 DEF HasTurn
    <3> QED BY <3>1, <3>2 DEF HasTurn
  <2>8. \/ next = 0 /\ \A j \in Threads : routine'[j] = "ended"
        \/ /\ routine'[next] \in {"unborn", "start"}
           /\ \A j \in Threads : /\ j < next => routine'[j] = "ended"
                                 /\ j > next => routine'[j] \in {"unborn", "start"}
    BY <1>2, <2>1, <2>4, <2>5 DEF Threads
  <2>9. \A k \in 1 .. Len(said) : said[k] \in Threads /\ routine'[said[k]] \in {"post", "ended"}
    BY <2>4 DEF TurnIsOne
  <2>10. \A j \in Threads : routine'[j] \in {"greet", "post"} => FALSE
    BY <2>2, <2>4 DEF HasTurn
  <2>11. TurnIsOne'
    <3>1. main' = main
      BY <1>1 DEF mainVars
    <3> QED BY <1>1, <1>3, <1>7, <2>6, <2>7, <2>8, <2>9, <2>10, <3>1 DEF TurnIsOne
  <2> QED BY <1>1, <1>4, <1>7, <2>11 DEF Speech, mainVars
<1> QED
  <2>1. Step(i, "start", "greet") => i \in DOMAIN sem
    BY OwnSemaphore DEF Step, Over, Running
  <2> QED BY <1>5, <1>6, <1>7, <2>1 DEF GreetInTurn, Step

-----------------------------------------------------------------------------
(* Only three programs have a main thread that prints.                     *)
LEMMA MainSilent ==
  ASSUME MainStep, run.program \in {"semaphores", "busy", "serial", "race", "recursive"}
  PROVE  /\ said' = said
         /\ run.program # "recursive" => mine' = mine
         /\ UNCHANGED <<counter, broke, holder>>
<1>1. SemaphoresMain \/ BusyMain \/ SerialMain \/ RaceMain \/ RecursiveMain
  BY DEF MainStep, OrderedMain, LockedMain, PlainMain, CollectMain, PinataMain, ReadersMain,
     PrivateMain, SharedMain, TeamsMain, HelloMain, LotteryMain, ShotPutMain, Playing
<1>2. CASE SemaphoresMain
  BY <1>2 DEF SemaphoresMain, ReadArguments, Obtain, InitSemaphores, Create, CreateFails, CreatedAll,
     Join, Crash, DestroySemaphore, JoinedAll, Release, GoOn, Refuse, RefuseAnd, sharedVars
<1>3. CASE BusyMain \/ RaceMain
  BY <1>3 DEF BusyMain, RaceMain, ReadArguments, Obtain, CreateAndJoin, Create, CreateFails, CreatedAll,
     JoinTeam, Join, Crash, JoinedAll, Release, GoOn, Refuse, RefuseAnd, sharedVars
<1>4. CASE SerialMain
  BY <1>4 DEF SerialMain, ReadArguments, Create, CreateFailsUnseen, Join, Crash, CreatedAll, GoOn,
     Refuse, RefuseAnd, sharedVars
<1>5. CASE RecursiveMain
  BY <1>5 DEF RecursiveMain, Create, Join, Crash, GoOn, Refuse, RefuseAnd, sharedVars, Playing
<1> QED BY <1>1, <1>2, <1>3, <1>4, <1>5

-----------------------------------------------------------------------------
(* hello_order_cond_safe                                                   *)

(* What main prints next is its loop counter.                              *)
LEMMA CollectMainOrder ==
  ASSUME Course, Speech, TextsInOrder, CollectMain
  PROVE  /\ Speech' /\ TextsInOrder'
         /\ said' # said => index \in Threads /\ Ahead(index) /\ said' = Append(said, index)
<1>1. Playing("collect") /\ Playing("collect")' /\ run' = run /\ Threads' = Threads /\ Shape
      /\ said \in Seq(Nat) /\ index \in Nat /\ MostThreads' = MostThreads
  <2>1. Playing("collect") /\ run' = run
    BY DEF CollectMain, ReadArguments, Obtain, GoOn, Refuse, RefuseAnd, ReserveText, Create,
         CreateFails, JoinTeam, Join, Crash, JoinedAll, PrintTexts, Release
  <2> QED BY <2>1 DEF Playing, Threads, Course, Shape, Speech, InOrder, MostThreads
<1>2. CASE said' = said /\ (main' = "print" /\ main # "print" => main = "join" /\ index' = 0)
           /\ (main \notin {"print", "release", "exit", "crash"}
                 \/ main' \in {"print", "release", "exit", "crash"})
           /\ (main = "print" /\ main' = "print" => index' = index + 1)
  <2>1. TextsInOrder'
    <3>1. CASE main' = "print" /\ main # "print"
      BY <1>1, <1>2, <3>1 DEF TextsInOrder, Ahead
    <3>2. CASE main' = "print" /\ main = "print"
      <4>1. Ahead(index + 1)
        BY <1>1, <3>2, AheadMonotone DEF TextsInOrder
      <4> QED BY <1>1, <1>2, <3>2, <4>1 DEF TextsInOrder, Ahead
    <3>3. CASE main' # "print"
      BY <1>1, <1>2, <3>3 DEF TextsInOrder
    <3> QED BY <3>1, <3>2, <3>3
  <2> QED BY <1>1, <1>2, <2>1 DEF Speech
<1>3. CASE main = "print" /\ main' = "print" /\ index < run.count /\ said' = Append(said, index)
           /\ index' = index + 1
  <2>1. Ahead(index) /\ index \in Threads
    BY <1>1, <1>3 DEF TextsInOrder, Shape, Threads
  <2>2. said' \in Seq(Nat) /\ \A m \in Nat : index < m => Ahead(m)'
    BY <1>1, <1>3, <2>1, AheadAppended
  <2>3. Ahead(index)'
    <3>1. \A m \in Nat : index < m => \A k \in 1 .. Len(said') : said'[k] < m
      BY <2>2 DEF Ahead
    <3> QED BY <1>1, <1>3, <3>1 DEF Ahead
  <2> QED BY <1>1, <1>3, <2>1, <2>2, <2>3 DEF Speech, TextsInOrder
<1>4. CASE \/ ReadArguments(11, "shared") \/ Obtain("shared", "shared", "greets", 12, "exit")
           \/ Obtain("greets", "greets", "arrays", 13, "release")
           \/ Obtain("arrays", "arrays", "text", 22, "release") \/ ReserveText
  BY <1>2, <1>4 DEF ReadArguments, Obtain, GoOn, Go, Refuse, RefuseAnd, ReserveText, sharedVars
<1>5. CASE \/ Create("text", index + 1) \/ CreateFails(21, run.count) \/ JoinTeam("print") \/ Release
  BY <1>2, <1>5 DEF Create, CreateFails, JoinTeam, Join, Crash, JoinedAll, Release, GoOn, Go, RefuseAnd,
     sharedVars
<1>6. CASE PrintTexts
  BY <1>2, <1>3, <1>6 DEF PrintTexts, GoOn, Go, Crash, sharedVars
<1> QED BY <1>4, <1>5, <1>6 DEF CollectMain

-----------------------------------------------------------------------------
(* delayed_busy_wait                                                       *)

(* Main only creates threads.                                              *)
LEMMA BusyMainOrder ==
  ASSUME Course, CounterIsTurn, Playing("busy"), MainStep
  PROVE  CounterIsTurn'
<1>1. run' = run /\ Threads' = Threads /\ Playing("busy")' /\ UNCHANGED <<said, counter, mine>>
  BY MainRun, MainSilent DEF Playing, Threads
<1>2. BusyMain
  BY DEF MainStep, OrderedMain, LockedMain, PlainMain, SemaphoresMain, CollectMain, SerialMain,
     RecursiveMain, RaceMain, PinataMain, ReadersMain, PrivateMain, SharedMain, TeamsMain,
     HelloMain, LotteryMain, ShotPutMain, Playing
<1>3. CASE routine' = routine
  BY <1>1, <1>3 DEF CounterIsTurn, Ahead
<1>4. CASE Create("create", index + 1)
  <2>1. index \in Threads /\ routine[index] = "unborn" /\ routine' = [routine EXCEPT ![index] = "start"]
        /\ DOMAIN routine = Threads
    BY <1>4 DEF Create, Go, Course, Shape, Path, CreateLabels, Creating, Threads, Playing
  <2>2. routine'[index] = "start" /\ \A i \in Threads \ {index} : routine'[i] = routine[i]
    BY <2>1
  <2>3. \A i \in Threads :
          /\ routine'[i] \in {"unborn", "start"} => routine[i] \in {"unborn", "start"}
          /\ routine'[i] \notin {"unborn", "start"} => routine'[i] = routine[i]
          /\ routine[i] \notin {"unborn", "start"} => routine'[i] = routine[i]
    BY <2>1, <2>2
  <2> QED BY <1>1, <2>3 DEF CounterIsTurn, Ahead
<1> QED BY <1>2, <1>3, <1>4 DEF BusyMain, ReadArguments, Obtain, CreateAndJoin, CreateFails, CreatedAll,
     JoinTeam, Join, Crash, JoinedAll, Release, GoOn, Refuse, RefuseAnd

(* Nobody else writes the counter while a thread has the turn.             *)
LEMMA BusyGreetOrder ==
  ASSUME Shape, Speech, CounterIsTurn, Playing("busy"), NEW i \in Threads, BusyGreet(i)
  PROVE  /\ Speech' /\ CounterIsTurn'
         /\ said' # said => Ahead(i) /\ said' = Append(said, i)
<1>1. UNCHANGED mainVars /\ Playing("busy")' /\ Threads' = Threads /\ MostThreads' = MostThreads
      /\ said \in Seq(Nat) /\ i \in Nat /\ counter \in Nat
      /\ DOMAIN routine = Threads /\ DOMAIN mine = Threads
  BY DEF BusyGreet, PrintLine, Keep, Count, Step, mainVars, Playing, Threads, MostThreads, Speech,
     InOrder, CounterIsTurn, Shape
<1>2. said' \in Seq(Nat) => Speech'
  BY <1>1 DEF Speech, mainVars
<1>3. \A j \in Threads : j \in Nat
  BY DEF Threads
<1>4. CASE counter >= i /\ routine[i] = "start" /\ routine' = [routine EXCEPT ![i] = "greet"]
           /\ UNCHANGED <<said, counter, mine>>
  <2>1. routine'[i] = "greet" /\ \A j \in Threads \ {i} : routine'[j] = routine[j]
    BY <1>1, <1>4
  <2>2. counter = i
    BY <1>1, <1>4 DEF CounterIsTurn
  <2>3. Ahead(i)
    BY <1>4, <2>2 DEF CounterIsTurn
  <2> QED BY <1>1, <1>2, <1>4, <2>1, <2>2, <2>3 DEF CounterIsTurn, Ahead
<1>5. CASE routine[i] = "greet" /\ routine' = [routine EXCEPT ![i] = "load"]
           /\ said' = Append(said, i) /\ UNCHANGED <<counter, mine>>
  <2>1. routine'[i] = "load" /\ \A j \in Threads \ {i} : routine'[j] = routine[j]
    BY <1>1, <1>5
  <2>2. counter = i /\ Ahead(i)
    BY <1>5 DEF CounterIsTurn
  <2>3. said' \in Seq(Nat) /\ \A m \in Nat : i < m => Ahead(m)'
    BY <1>1, <1>5, <2>2, AheadAppended
  <2>4. Ahead(counter + 1)'
    BY <1>1, <1>5, <2>2, <2>3 DEF Ahead
  <2> QED BY <1>1, <1>2, <1>3, <1>5, <2>1, <2>2, <2>3, <2>4 DEF CounterIsTurn
<1>6. CASE routine[i] = "load" /\ routine' = [routine EXCEPT ![i] = "store"]
           /\ mine' = [mine EXCEPT ![i] = counter] /\ UNCHANGED <<counter, said>>
  <2>1. routine'[i] = "store" /\ \A j \in Threads \ {i} : routine'[j] = routine[j] /\ mine'[j] = mine[j]
    BY <1>1, <1>6
  <2>2. counter = i /\ mine'[i] = i
    BY <1>1, <1>6 DEF CounterIsTurn
  <2>3. Ahead(counter) \/ Ahead(counter + 1)
    BY DEF CounterIsTurn
  <2> QED BY <1>1, <1>2, <1>6, <2>1, <2>2, <2>3 DEF CounterIsTurn, Ahead
<1>7. CASE routine[i] = "store" /\ routine' = [routine EXCEPT ![i] = "ended"]
           /\ counter' = mine[i] + 1 /\ UNCHANGED <<mine, said>>
  <2>1. routine'[i] = "ended" /\ \A j \in Threads \ {i} : routine'[j] = routine[j]
    BY <1>1, <1>7
  <2>2. counter = i /\ mine[i] = i /\ counter' = i + 1
    BY <1>7 DEF CounterIsTurn
  <2>3. Ahead(i + 1)
    <3>1. CASE Ahead(counter)
      BY <1>1, <2>2, <3>1, AheadMonotone
    <3> QED BY <2>2, <3>1 DEF CounterIsTurn
  <2>4. \A j \in Threads \ {i} :
          /\ routine[j] \in {"unborn", "start"} => counter' <= j
          /\ routine[j] \notin {"greet", "load", "store"}
          /\ routine[j] = "ended" => j < counter'
    BY <1>1, <1>3, <2>2 DEF CounterIsTurn
  <2>5. Ahead(counter)'
    BY <1>7, <2>2, <2>3 DEF Ahead
  <2> QED BY <1>1, <1>2, <1>3, <1>7, <2>1, <2>2, <2>4, <2>5 DEF CounterIsTurn
<1> QED BY <1>4, <1>5, <1>6, <1>7 DEF BusyGreet, MyTurn, PrintLine, Keep, Count, Step, sharedVars

-----------------------------------------------------------------------------
(* hello_w                                                                 *)

LEMMA SerialMainOrder ==
  ASSUME Course, Speech, OneAtATime, Playing("serial"), MainStep
  PROVE  OneAtATime'
<1>1. run' = run /\ Threads' = Threads /\ Playing("serial")' /\ UNCHANGED <<said, mine>>
      /\ said \in Seq(Nat) /\ index \in Nat /\ DOMAIN routine = Threads
  BY MainRun, MainSilent DEF Playing, Threads, Speech, InOrder, Course, Shape
<1>2. SerialMain
  BY DEF MainStep, OrderedMain, LockedMain, PlainMain, SemaphoresMain, CollectMain, BusyMain,
     RecursiveMain, RaceMain, PinataMain, ReadersMain, PrivateMain, SharedMain, TeamsMain,
     HelloMain, LotteryMain, ShotPutMain, Playing
<1>3. CASE ReadArguments(1, "create")
  BY <1>1, <1>3 DEF ReadArguments, GoOn, Go, Refuse, RefuseAnd, OneAtATime, Ahead
<1>4. CASE Create("wait", index) \/ CreateFailsUnseen("wait", index)
  <2>1. main = "create" /\ main' = "wait" /\ index' = index
        /\ (routine' = routine \/ routine' = [routine EXCEPT ![index] = "start"])
        /\ index \in Threads /\ routine[index] = "unborn"
    BY <1>1, <1>4 DEF Create, CreateFailsUnseen, RefuseAnd, Go, Course, Shape, Path, CreateLabels,
       Creating, Threads, Playing
  <2>2. routine'[index] \in {"unborn", "start"} /\ Ahead(index)
    BY <1>1, <2>1 DEF OneAtATime
  <2>3. Ahead(index + 1)
    BY <1>1, <2>2, AheadMonotone
  <2> QED BY <1>1, <2>1, <2>2, <2>3 DEF OneAtATime, Ahead
<1>5. CASE Join("wait", "create", index + 1)
  <2>1. main = "wait" /\ ((main' = "create" /\ index' = index + 1) \/ main' = "crash")
    BY <1>5 DEF Join, GoOn, Crash, Go
  <2> QED BY <1>1, <2>1 DEF OneAtATime, Ahead
<1>6. CASE CreatedAll("exit")
  BY <1>1, <1>6 DEF CreatedAll, GoOn, Go, OneAtATime
<1> QED BY <1>2, <1>3, <1>4, <1>5, <1>6 DEF SerialMain

LEMMA SerialGreetOrder ==
  ASSUME CourseInv, Speech, OneAtATime, Playing("serial"), NEW i \in Threads, SerialGreet(i)
  PROVE  /\ Speech' /\ OneAtATime'
         /\ said' # said => Ahead(i) /\ said' = Append(said, i)
<1>1. UNCHANGED mainVars /\ Playing("serial")' /\ Threads' = Threads /\ MostThreads' = MostThreads
      /\ said \in Seq(Nat) /\ i \in Nat
      /\ DOMAIN routine = Threads /\ DOMAIN mine = Threads
  BY DEF SerialGreet, PrintLine, Keep, Step, mainVars, Playing, Threads, MostThreads, Speech,
     InOrder, CourseInv, TeamCourse, Course, Shape
<1>2. main = "wait" /\ index = i
  <2>1. Running(i) /\ main # "crash" /\ ~ Playing("recursive")
    BY DEF SerialGreet, Keep, PrintLine, Step, Over, Running, Playing
  <2> QED BY <2>1, RunningPlaces
<1>3. CASE routine[i] = "start" /\ routine' = [routine EXCEPT ![i] = "greet"] /\ said' = said
           /\ mine' = [mine EXCEPT ![i] = index]
  BY <1>1, <1>2, <1>3 DEF Speech, OneAtATime, Ahead, mainVars
<1>4. CASE routine[i] = "greet" /\ routine' = [routine EXCEPT ![i] = "ended"] /\ mine' = mine
           /\ said' = Append(said, mine[i])
  <2>1. mine[i] = i /\ Ahead(i)
    BY <1>2, <1>4 DEF OneAtATime
  <2>2. said' \in Seq(Nat) /\ \A m \in Nat : i < m => Ahead(m)'
    BY <1>1, <1>4, <2>1, AheadAppended
  <2>3. Ahead(index + 1)' /\ index' = index /\ main' = main
    BY <1>1, <1>2, <2>2 DEF Ahead, mainVars
  <2>4. routine'[i] = "ended"
    BY <1>1, <1>4
  <2> QED BY <1>1, <1>2, <1>4, <2>1, <2>2, <2>3, <2>4 DEF Speech, OneAtATime, mainVars
<1> QED BY <1>3, <1>4 DEF SerialGreet, Keep, PrintLine, Step

-----------------------------------------------------------------------------
(* position_race                                                           *)

LEMMA RaceMainOrder ==
  ASSUME Course, RaceInOrder, Playing("race"), MainStep
  PROVE  RaceInOrder'
<1>1. run' = run /\ Threads' = Threads /\ Playing("race")' /\ UNCHANGED <<said, counter>>
      /\ MostThreads' = MostThreads
  BY MainRun, MainSilent DEF Playing, Threads, MostThreads
<1>2. mine' = mine
  BY MainSilent DEF Playing
<1>3. RaceMain
  BY DEF MainStep, OrderedMain, LockedMain, PlainMain, SemaphoresMain, CollectMain, BusyMain,
     RecursiveMain, SerialMain, PinataMain, ReadersMain, PrivateMain, SharedMain, TeamsMain,
     HelloMain, LotteryMain, ShotPutMain, Playing
<1>4. CASE routine' = routine
  BY <1>1, <1>2, <1>4 DEF RaceInOrder, Placed, Ahead
<1>5. CASE Create("create", index + 1)
  <2>1. index \in Threads /\ routine[index] = "unborn" /\ routine' = [routine EXCEPT ![index] = "start"]
        /\ DOMAIN routine = Threads
    BY <1>5 DEF Create, Go, Course, Shape, Path, CreateLabels, Creating, Threads, Playing
  <2>2. routine'[index] = "start" /\ \A i \in Threads \ {index} : routine'[i] = routine[i]
    BY <2>1
  <2>3. Placed' = Placed
    BY <1>1, <2>1, <2>2 DEF Placed
  <2> QED BY <1>1, <1>2, <2>1, <2>2, <2>3 DEF RaceInOrder, Ahead
<1> QED BY <1>3, <1>4, <1>5 DEF RaceMain, ReadArguments, Obtain, CreateAndJoin, CreateFails, CreatedAll,
     JoinTeam, Join, Crash, JoinedAll, Release, GoOn, Refuse, RefuseAnd

LEMMA RangeCardinality ==
  ASSUME NEW n \in Nat
  PROVE  IsFiniteSet(0 .. n - 1) /\ Cardinality(0 .. n - 1) = n
<1>1. n - 1 \in Int /\ 0 \in Int
  OBVIOUS
<1>2. IsFiniteSet(0 .. n - 1) /\ Cardinality(0 .. n - 1) = IF 0 > n - 1 THEN 0 ELSE n - 1 - 0 + 1
  BY <1>1, FS_Interval
<1> QED BY <1>2

(* There are at most as many places as runners.                            *)
LEMMA PlacedBounded ==
  ASSUME run.count \in Nat
  PROVE  IsFiniteSet(Placed) /\ Cardinality(Placed) \in Nat /\ Cardinality(Placed) <= run.count
<1>1. IsFiniteSet(Threads) /\ Cardinality(Threads) = run.count
  BY RangeCardinality DEF Threads
<1>2. Placed \in SUBSET Threads
  BY DEF Placed
<1>3. IsFiniteSet(Placed) /\ Cardinality(Placed) <= Cardinality(Threads)
  BY <1>1, <1>2, FS_Subset
<1>4. Cardinality(Placed) \in Nat
  BY <1>3, FS_CardinalityType
<1> QED BY <1>1, <1>3, <1>4

(* The counter moves on only when the last position taken was printed: one *)
(* thread is between the two.                                              *)
LEMMA RaceGreetOrder ==
  ASSUME Shape, Speech, LInv, RaceInOrder, Playing("race"), NEW i \in Threads, Race(i)
  PROVE  /\ Speech' /\ RaceInOrder'
         /\ said' # said => \E n \in 0 .. MostThreads : Ahead(n) /\ said' = Append(said, n)
<1>1. UNCHANGED mainVars /\ Playing("race")' /\ Threads' = Threads /\ MostThreads' = MostThreads
      /\ said \in Seq(Nat) /\ i \in Nat /\ counter \in Nat /\ run.count \in Nat
      /\ DOMAIN routine = Threads /\ DOMAIN mine = Threads
  BY DEF Race, Acquire, LetGo, PrintLine, Keep, Count, Step, mainVars, Playing, Threads, MostThreads,
     Speech, InOrder, RaceInOrder, Shape
<1>2. said' \in Seq(Nat) => Speech'
  BY <1>1 DEF Speech, mainVars
<1>3. \A j \in Threads \ {i} : ~ (Holding(i) /\ Holding(j))
  BY DEF LInv, Locked, LockedPrograms, Playing, Exclusion, Exclusive
<1>4. run'.count <= MostThreads /\ counter \in 0 .. MostThreads
  <2>1. run' = run /\ MostThreads \in Nat
    BY <1>1, BoundsAssumption DEF mainVars, MostThreads
  <2>2. counter = Cardinality(Placed) /\ run.count <= MostThreads
    BY DEF RaceInOrder
  <2>3. Cardinality(Placed) <= run.count
    BY <1>1, PlacedBounded
  <2> QED BY <1>1, <2>1, <2>2, <2>3
<1>5. CASE routine[i] = "start" /\ routine' = [routine EXCEPT ![i] = "advance"]
           /\ UNCHANGED <<said, counter, mine>>
  <2>1. routine'[i] = "advance" /\ \A j \in Threads \ {i} : routine'[j] = routine[j]
    BY <1>1, <1>5
  <2>2. Placed' = Placed
    BY <1>1, <1>5, <2>1 DEF Placed
  <2> QED BY <1>1, <1>2, <1>4, <1>5, <2>1, <2>2 DEF RaceInOrder, Ahead
<1>6. CASE routine[i] = "advance" /\ routine' = [routine EXCEPT ![i] = "look"]
           /\ counter' = counter + 1 /\ UNCHANGED <<said, mine>>
  <2>1. routine'[i] = "look" /\ \A j \in Threads \ {i} : routine'[j] = routine[j]
    BY <1>1, <1>6
  <2>2. Placed' = Placed \union {i} /\ i \notin Placed
    BY <1>1, <1>6, <2>1 DEF Placed
  <2>3. counter' = Cardinality(Placed)'
    BY <1>1, <1>6, <2>2, PlacedBounded, FS_AddElement DEF RaceInOrder
  <2>4. \A j \in Threads \ {i} : routine[j] \notin {"look", "print"}
    BY <1>3, <1>6 DEF Holding
  <2>5. Ahead(counter + 1) /\ Ahead(counter + 2)
    BY <1>1, AheadMonotone DEF RaceInOrder
  <2>6. Ahead(counter)' /\ Ahead(counter + 1)'
    BY <1>1, <1>6, <2>5 DEF Ahead
  <2> QED BY <1>1, <1>2, <1>4, <1>6, <2>1, <2>3, <2>4, <2>6 DEF RaceInOrder
<1>7. CASE routine[i] = "look" /\ routine' = [routine EXCEPT ![i] = "print"]
           /\ mine' = [mine EXCEPT ![i] = counter] /\ UNCHANGED <<said, counter>>
  <2>1. routine'[i] = "print" /\ mine'[i] = counter
        /\ \A j \in Threads \ {i} : routine'[j] = routine[j] /\ mine'[j] = mine[j]
    BY <1>1, <1>7
  <2>2. Placed' = Placed
    BY <1>1, <1>7, <2>1 DEF Placed
  <2>3. \A n : Ahead(n)' <=> Ahead(n)
    BY <1>7 DEF Ahead
  <2> QED BY <1>1, <1>2, <1>4, <1>7, <2>1, <2>2 DEF RaceInOrder, Ahead
<1>8. CASE routine[i] = "print" /\ routine' = [routine EXCEPT ![i] = "unlock"]
           /\ said' = Append(said, mine[i]) /\ UNCHANGED <<mine, counter>>
  <2>1. routine'[i] = "unlock" /\ \A j \in Threads \ {i} : routine'[j] = routine[j]
    BY <1>1, <1>8
  <2>2. Placed' = Placed
    BY <1>1, <1>8, <2>1 DEF Placed
  <2>3. mine[i] = counter /\ Ahead(counter)
    BY <1>8 DEF RaceInOrder
  <2>4. \A j \in Threads \ {i} : routine[j] \notin {"look", "print"}
    BY <1>3, <1>8 DEF Holding
  <2>5. said' \in Seq(Nat) /\ \A m \in Nat : counter < m => Ahead(m)'
    BY <1>1, <1>8, <2>3, AheadAppended
  <2>6. Ahead(counter + 1)'
    BY <1>1, <1>8, <2>5 DEF Ahead
  <2> QED BY <1>1, <1>2, <1>4, <1>8, <2>1, <2>2, <2>3, <2>4, <2>5, <2>6 DEF RaceInOrder
<1>9. CASE routine[i] = "unlock" /\ routine' = [routine EXCEPT ![i] = "ended"]
           /\ UNCHANGED <<mine, counter, said>>
  <2>1. routine'[i] = "ended" /\ \A j \in Threads \ {i} : routine'[j] = routine[j]
    BY <1>1, <1>9
  <2>2. Placed' = Placed
    BY <1>1, <1>9, <2>1 DEF Placed
  <2> QED BY <1>1, <1>2, <1>4, <1>9, <2>1, <2>2 DEF RaceInOrder, Ahead
<1> QED BY <1>5, <1>6, <1>7, <1>8, <1>9 DEF Race, Acquire, LetGo, PrintLine, Keep, Count, Step

-----------------------------------------------------------------------------
(* recursiveHello                                                          *)

LEMMA RecursiveMainOrder ==
  ASSUME Shape, Chain, ChainInOrder, Playing("recursive"), MainStep
  PROVE  ChainInOrder'
<1>1. run' = run /\ Threads' = Threads /\ Playing("recursive")' /\ said' = said
      /\ \A n : Number(n)' = Number(n)
  BY MainRun, MainSilent DEF Playing, Threads, Number
<1>2. RecursiveMain
  BY DEF MainStep, OrderedMain, LockedMain, PlainMain, SemaphoresMain, CollectMain, BusyMain,
     RaceMain, SerialMain, PinataMain, ReadersMain, PrivateMain, SharedMain, TeamsMain,
     HelloMain, LotteryMain, ShotPutMain, Playing
<1>3. CASE routine' = routine
  BY <1>1, <1>3 DEF ChainInOrder, Number
<1>4. CASE Create("join", 0)
  <2>1. \A i \in Threads : routine[i] = "unborn"
    BY <1>4 DEF Create, Go, Chain
  <2>2. \A k \in 1 .. Len(said) : FALSE
    BY <2>1 DEF ChainInOrder
  <2> QED BY <1>1, <2>2 DEF ChainInOrder
<1> QED BY <1>2, <1>3, <1>4 DEF RecursiveMain, Join, Crash, GoOn, Refuse, RefuseAnd

(* Whoever has greeted comes before the one that greets now.               *)
LEMMA RecursiveGreetOrder ==
  ASSUME Shape, Speech, Chain, ChainInOrder, Playing("recursive"), NEW i \in Threads,
         RecursiveGreet(i)
  PROVE  /\ Speech' /\ ChainInOrder'
         /\ said' # said => /\ said' = Append(said, Number(i))
                            /\ \A k \in 1 .. Len(said) : Number(said[k]) < i
<1>1. run' = run /\ Playing("recursive")' /\ Threads' = Threads /\ MostThreads' = MostThreads
      /\ said \in Seq(Nat) /\ i \in Nat /\ run.count \in Nat /\ i < run.count
      /\ DOMAIN routine = Threads /\ Number(i) \in Nat
  BY DEF RecursiveGreet, PrintLine, Keep, Step, ChainStep, Crash, mainVars, Playing, Threads,
     MostThreads, Speech, InOrder, Shape, Number
<1>2. said' \in Seq(Nat) => Speech'
  BY <1>1 DEF Speech
<1>3. CASE said' = said
  <2>1. \A j \in Threads :
          routine[j] \notin {"unborn", "start", "greet"} =>
            routine'[j] \notin {"unborn", "start", "greet"}
    <3>1. CASE routine' = routine
      BY <3>1
    <3>2. CASE \E to \in {"reserve", "create", "wait", "ended"} : routine' = [routine EXCEPT ![i] = to]
      BY <1>1, <3>2
    <3>3. CASE routine[i] = "start" /\ routine' = [routine EXCEPT ![i] = "greet"]
      BY <1>1, <3>3
    <3>4. CASE routine[i] = "create"
               /\ routine' = [routine EXCEPT ![i] = "wait", ![i + 1] = "start"]
      <4>1. i + 1 \in Threads /\ i + 1 # i
        BY <1>1, <3>4 DEF Chain
      <4>2. routine[i + 1] = "unborn"
        BY <1>1, <3>4, <4>1 DEF Chain, Threads
      <4> QED BY <1>1, <3>4, <4>1, <4>2
    <3> QED BY <3>1, <3>2, <3>3, <3>4 DEF RecursiveGreet, Keep, PrintLine, ChainStep, Step, Crash
  <2> QED BY <1>1, <1>2, <1>3, <2>1 DEF ChainInOrder, Number
<1>4. CASE routine[i] = "greet" /\ said' = Append(said, Number(i))
           /\ routine' = [routine EXCEPT ![i] = IF Number(i) = 0 THEN "ended" ELSE "reserve"]
  <2>1. routine'[i] \in {"ended", "reserve"} /\ \A j \in Threads \ {i} : routine'[j] = routine[j]
    BY <1>1, <1>4
  <2>2. said' \in Seq(Nat)
        /\ \A k \in 1 .. Len(said') :
             said'[k] = Number(i) \/ (k \in 1 .. Len(said) /\ said'[k] = said[k])
    <3> DEFINE n == Number(i)
    <3>1. n \in Nat /\ said' = Append(said, n) /\ said \in Seq(Nat)
      BY <1>1, <1>4
    <3> HIDE DEF n
    <3>2. said' \in Seq(Nat) /\ \A k \in 1 .. Len(said') : said'[k] = n \/ (k \in 1 .. Len(said) /\ said'[k] = said[k])
      BY <3>1
    <3> QED BY <3>2 DEF n
  <2>3. Number(Number(i)) = i
    BY <1>1 DEF Number
  <2>4. ASSUME NEW k \in 1 .. Len(said')
        PROVE  Number(said'[k]) \in Threads
               /\ routine'[Number(said'[k])] \notin {"unborn", "start", "greet"}
    <3>1. CASE said'[k] = Number(i)
      BY <2>1, <2>3, <3>1
    <3>2. CASE k \in 1 .. Len(said) /\ said'[k] = said[k]
      BY <2>1, <3>2 DEF ChainInOrder
    <3> QED BY <2>2, <3>1, <3>2
  <2>5. ASSUME NEW k \in 1 .. Len(said) PROVE Number(said[k]) < i
    <3>1. Number(said[k]) \in Threads /\ routine[Number(said[k])] \notin {"unborn", "start", "greet"}
      BY DEF ChainInOrder
    <3>2. \A j \in Threads : i < j => routine[j] = "unborn"
      BY <1>4 DEF Chain
    <3> QED BY <1>1, <1>4, <3>1, <3>2 DEF Threads
  <2>6. \A n : Number(n)' = Number(n)
    BY <1>1 DEF Number
  <2> QED BY <1>1, <1>2, <1>4, <2>2, <2>4, <2>5, <2>6 DEF ChainInOrder, Number
<1> QED BY <1>3, <1>4 DEF RecursiveGreet, Keep, PrintLine, ChainStep, Step, Crash, sharedVars

-----------------------------------------------------------------------------
(* The orders together, and the abstract specification they implement.     *)

LEMMA InitOrderInv == Init => OrderInv
<1> SUFFICES ASSUME Init PROVE OrderInv
  OBVIOUS
<1>1. run \in CommandLines(OrderedPrograms \union LockedPrograms \union PlainPrograms)
  BY DEF Init, InitWith
<1>2. run.count \in Counts(run.program)
  BY <1>1 DEF CommandLines
<1>3. run.count \in Nat
  BY <1>2, BoundsAssumption DEF Counts
<1>4. /\ run.program \in InOrder => run.count <= MostThreads + 1
      /\ Playing("race") => run.count <= MostThreads
  BY <1>2, BoundsAssumption DEF Counts, InOrder, MostThreads, Playing
<1>5. run.program \in {"busy", "race"} => run.hardness = 0
  BY <1>1 DEF CommandLines
<1>6. /\ main = "begin" /\ index = 0 /\ routine = [i \in Threads |-> "unborn"]
      /\ sem = [i \in {} |-> 0] /\ counter = run.hardness /\ said = <<>>
  BY DEF Init, InitWith
<1>7. said \in Seq(Nat) /\ \A n : Ahead(n)
  BY <1>6 DEF Ahead
<1>8. Speech
  BY <1>3, <1>4, <1>7 DEF Speech
<1>9. \A i \in Threads : routine[i] = "unborn" /\ i \in Nat
  BY <1>6 DEF Threads
<1>10. TurnIsOne
  BY <1>6, <1>9 DEF TurnIsOne, HasTurn
<1>11. TextsInOrder /\ OneAtATime /\ ChainInOrder
  BY <1>6 DEF TextsInOrder, OneAtATime, ChainInOrder
<1>12. CounterIsTurn
  BY <1>5, <1>6, <1>7, <1>9 DEF CounterIsTurn, Playing
<1>13. RaceInOrder
  <2>1. Placed = {}
    BY <1>9 DEF Placed
  <2> QED BY <1>4, <1>5, <1>6, <1>7, <1>9, <2>1, FS_EmptySet DEF RaceInOrder, Playing
<1> QED BY <1>8, <1>10, <1>11, <1>12, <1>13 DEF OrderInv

(* What a step announces, if it does, is ahead of what was announced.      *)
Announcing == Announced' = Announced \/ \E n \in 0 .. MostThreads : Order!Announce(n)

LEMMA SaidAnnounced ==
  ASSUME run' = run, run.program \in InOrder \ {"recursive"},
         said' # said => \E n \in 0 .. MostThreads : Ahead(n) /\ said' = Append(said, n)
  PROVE  Announcing
<1>1. Announced = said /\ Announced' = said'
  BY DEF Announced, InOrder
<1> QED BY <1>1 DEF Announcing, Order!Announce, Ahead

LEMMA NothingAnnounced ==
  ASSUME run' = run, run.program \notin InOrder
  PROVE  Announcing
BY DEF Announcing, Announced, InOrder

LEMMA NumberAnnounced ==
  ASSUME run' = run, Playing("recursive"), Speech, NEW i \in Threads,
         said' # said => /\ said' = Append(said, Number(i))
                         /\ \A k \in 1 .. Len(said) : Number(said[k]) < i
  PROVE  Announcing
<1>1. Announced = [k \in 1 .. Len(said) |-> run.count - 1 - said[k]]
      /\ Announced' = [k \in 1 .. Len(said') |-> run.count - 1 - said'[k]]
  BY DEF Announced, Playing
<1>2. said \in Seq(Nat) /\ run.count \in Nat /\ i \in Nat /\ i < run.count /\ i \in 0 .. MostThreads
  BY BoundsAssumption DEF Speech, Playing, InOrder, Threads, MostThreads
<1>3. CASE said' = said
  BY <1>1, <1>3 DEF Announcing
<1>4. CASE said' # said
  <2> DEFINE n == Number(i)
             old == [k \in 1 .. Len(said) |-> run.count - 1 - said[k]]
             new == [k \in 1 .. Len(said') |-> run.count - 1 - said'[k]]
  <2>1. n \in Nat /\ run.count - 1 - n = i /\ said' = Append(said, n)
    BY <1>2, <1>4 DEF Number
  <2> HIDE DEF n
  <2>2. Len(said') = Len(said) + 1 /\ said'[Len(said) + 1] = n /\ Len(said) \in Nat
        /\ \A k \in 1 .. Len(said) : said'[k] = said[k] /\ said[k] \in Nat
    BY <1>2, <2>1
  <2>3. old \in Seq(Int) /\ Len(old) = Len(said)
    BY <1>2, <2>2
  <2>4. new \in Seq(Int) /\ Len(new) = Len(said) + 1
    BY <1>2, <2>1, <2>2
  <2>5. /\ Append(old, i) \in Seq(Int) /\ Len(Append(old, i)) = Len(old) + 1
        /\ \A k \in 1 .. Len(old) : Append(old, i)[k] = old[k]
        /\ Append(old, i)[Len(old) + 1] = i
    BY <1>2, <2>3, AppendProperties
  <2>6. ASSUME NEW k \in 1 .. Len(new) PROVE new[k] = Append(old, i)[k]
    <3>1. k \in 1 .. Len(said') /\ new[k] = run.count - 1 - said'[k]
      BY <2>2, <2>4
    <3>2. CASE k \in 1 .. Len(said)
      <4>1. old[k] = run.count - 1 - said[k] /\ said'[k] = said[k]
        BY <2>2, <3>2
      <4> QED BY <2>3, <2>5, <3>1, <3>2, <4>1
    <3>3. CASE k = Len(said) + 1
      BY <2>1, <2>2, <2>3, <2>5, <3>1, <3>3
    <3> QED BY <2>2, <3>1, <3>2, <3>3
  <2>7. new = Append(old, i)
    BY <2>3, <2>4, <2>5, <2>6, SeqEqual
  <2>8. \A k \in 1 .. Len(old) : old[k] < i
    BY <1>4, <2>3 DEF Number
  <2> QED BY <1>1, <1>2, <2>7, <2>8 DEF Announcing, Order!Announce
<1> QED BY <1>3, <1>4

(* hello_order_semaphor: whoever greets has been passed the turn.          *)
LEMMA SemaphoresAnnounce ==
  ASSUME Speech, TurnIsOne, Playing("semaphores"), NEW i \in Threads, GreetInTurn(i)
  PROVE  said' # said => Ahead(i) /\ said' = Append(said, i)
<1>1. CASE routine[i] = "greet" /\ said' = Append(said, i)
  <2>1. HasTurn(i)
    BY <1>1 DEF HasTurn
  <2>2. ASSUME NEW k \in 1 .. Len(said) PROVE said[k] < i
    <3>1. said[k] \in Threads /\ routine[said[k]] \in {"post", "ended"}
      BY DEF TurnIsOne
    <3>2. \A j \in Threads : j > i => routine[j] \in {"unborn", "start"}
      BY <1>1, <2>1 DEF TurnIsOne
    <3> QED BY <1>1, <3>1, <3>2 DEF Threads
  <2> QED BY <1>1, <2>2 DEF Ahead
<1> QED BY <1>1 DEF GreetInTurn, PrintLine, Step

LEMMA MainInOrder ==
  ASSUME CourseInv, OrderInv, MainStep
  PROVE  OrderInv' /\ Announcing
<1>1. run' = run
  BY MainRun
<1>2. Course /\ Shape /\ Chain /\ Speech /\ TurnIsOne /\ TextsInOrder /\ CounterIsTurn
      /\ OneAtATime /\ RaceInOrder /\ ChainInOrder
  BY DEF CourseInv, TeamCourse, Course, OrderInv
<1>3. MostThreads' = MostThreads /\ (\A p : Playing(p)' <=> Playing(p))
      /\ (said' = said => Speech')
  BY <1>1, <1>2 DEF MostThreads, Playing, Speech
<1>4. CASE run.program \notin InOrder
  <2>1. Announcing
    BY <1>1, <1>4, NothingAnnounced
  <2>2. OrderInv'
    BY <1>1, <1>4 DEF OrderInv, InOrder, TurnIsOne, TextsInOrder, CounterIsTurn, OneAtATime,
       RaceInOrder, ChainInOrder, Speech, Playing
  <2> QED BY <2>1, <2>2
<1>5. CASE Playing("collect")
  <2>1. CollectMain
    BY <1>5 DEF MainStep, OrderedMain, LockedMain, PlainMain, SemaphoresMain, BusyMain,
       RaceMain, SerialMain, PinataMain, ReadersMain, PrivateMain, SharedMain, TeamsMain,
       HelloMain, LotteryMain, ShotPutMain, RecursiveMain, Playing
  <2>2. Speech' /\ TextsInOrder'
        /\ (said' # said => index \in Threads /\ Ahead(index) /\ said' = Append(said, index))
    BY <1>2, <2>1, CollectMainOrder
  <2>3. index \in Threads => index \in 0 .. MostThreads
    BY <1>2, <1>5, BoundsAssumption DEF Speech, InOrder, Threads, Playing, Shape, MostThreads
  <2>4. Announcing
    BY <1>1, <1>5, <2>2, <2>3, SaidAnnounced DEF InOrder, Playing
  <2>5. OrderInv'
    BY <1>1, <1>5, <2>2 DEF OrderInv, TurnIsOne, CounterIsTurn, OneAtATime, RaceInOrder,
       ChainInOrder, Playing
  <2> QED BY <2>4, <2>5
<1>6. CASE run.program \in InOrder \ {"collect"}
  <2>1. said' = said
    BY <1>6, MainSilent DEF InOrder
  <2>2. Announcing
    BY <1>1, <2>1 DEF Announcing, Announced
  <2>3. TurnIsOne'
    <3>1. CASE Playing("semaphores")
      <4>1. SemaphoresMain
        BY <3>1 DEF MainStep, OrderedMain, LockedMain, PlainMain, CollectMain, BusyMain,
           RaceMain, SerialMain, PinataMain, ReadersMain, PrivateMain, SharedMain, TeamsMain,
           HelloMain, LotteryMain, ShotPutMain, RecursiveMain, Playing
      <4> QED BY <1>2, <4>1, SemaphoresMainOrder
    <3> QED BY <1>1, <3>1 DEF TurnIsOne, Playing
  <2>4. CounterIsTurn'
    BY <1>1, <1>2, BusyMainOrder DEF CounterIsTurn, Playing
  <2>5. OneAtATime'
    BY <1>1, <1>2, SerialMainOrder DEF OneAtATime, Playing
  <2>6. RaceInOrder'
    BY <1>1, <1>2, RaceMainOrder DEF RaceInOrder, Playing
  <2>7. ChainInOrder'
    BY <1>1, <1>2, RecursiveMainOrder DEF ChainInOrder, Playing
  <2>8. TextsInOrder'
    BY <1>1, <1>6 DEF TextsInOrder, Playing
  <2> QED BY <1>3, <2>1, <2>2, <2>3, <2>4, <2>5, <2>6, <2>7, <2>8 DEF OrderInv
<1> QED BY <1>4, <1>5, <1>6 DEF Playing

(* A thread of another program leaves the order of each program alone.     *)
LEMMA ThreadInOrder ==
  ASSUME CourseInv, LInv, OrderInv, NEW i \in Threads, ThreadStep(i)
  PROVE  OrderInv' /\ Announcing
<1>1. run' = run
  BY ThreadRun
<1>2. Course /\ Shape /\ Chain /\ Speech /\ TurnIsOne /\ TextsInOrder /\ CounterIsTurn
      /\ OneAtATime /\ RaceInOrder /\ ChainInOrder
  BY DEF CourseInv, TeamCourse, Course, OrderInv
<1>3. /\ ~ Playing("semaphores") => TurnIsOne'
      /\ ~ Playing("collect") => TextsInOrder'
      /\ ~ Playing("busy") => CounterIsTurn'
      /\ ~ Playing("serial") => OneAtATime'
      /\ ~ Playing("race") => RaceInOrder'
      /\ ~ Playing("recursive") => ChainInOrder'
      /\ run.program \notin InOrder => Speech'
  BY <1>1 DEF TurnIsOne, TextsInOrder, CounterIsTurn, OneAtATime, RaceInOrder, ChainInOrder, Speech,
     Playing
<1>4. run.program \in InOrder => i \in 0 .. MostThreads
  BY <1>2, BoundsAssumption DEF Speech, InOrder, Threads, MostThreads
<1>5. CASE run.program \notin InOrder
  <2>1. Announcing
    BY <1>1, <1>5, NothingAnnounced
  <2> QED BY <1>3, <1>5, <2>1 DEF OrderInv, InOrder, Playing
<1>6. CASE Playing("semaphores")
  <2>1. GreetInTurn(i)
    BY <1>6 DEF ThreadStep, OrderedStep, LockedStep, PlainStep, Playing
  <2>2. Speech' /\ TurnIsOne'
    BY <1>2, <1>6, <2>1, GreetInTurnOrder
  <2>3. said' # said => Ahead(i) /\ said' = Append(said, i)
    BY <1>2, <1>6, <2>1, SemaphoresAnnounce
  <2>4. Announcing
    BY <1>1, <1>4, <1>6, <2>3, SaidAnnounced DEF InOrder, Playing
  <2> QED BY <1>3, <1>6, <2>2, <2>4 DEF OrderInv, Playing
<1>7. CASE Playing("collect")
  <2>1. WriteGreeting(i)
    BY <1>7 DEF ThreadStep, OrderedStep, LockedStep, PlainStep, Playing
  <2>2. said' = said /\ UNCHANGED mainVars
    BY <2>1 DEF WriteGreeting, Keep, Step
  <2>3. TextsInOrder' /\ Speech'
    BY <1>2, <2>2 DEF TextsInOrder, Speech, Ahead, mainVars, Playing, MostThreads
  <2>4. Announcing
    BY <1>1, <2>2 DEF Announcing, Announced
  <2> QED BY <1>3, <1>7, <2>3, <2>4 DEF OrderInv, Playing
<1>8. CASE Playing("busy")
  <2>1. BusyGreet(i)
    BY <1>8 DEF ThreadStep, OrderedStep, LockedStep, PlainStep, Playing
  <2>2. Speech' /\ CounterIsTurn' /\ (said' # said => Ahead(i) /\ said' = Append(said, i))
    BY <1>2, <1>8, <2>1, BusyGreetOrder
  <2>3. Announcing
    BY <1>1, <1>4, <1>8, <2>2, SaidAnnounced DEF InOrder, Playing
  <2> QED BY <1>3, <1>8, <2>2, <2>3 DEF OrderInv, Playing
<1>9. CASE Playing("serial")
  <2>1. SerialGreet(i)
    BY <1>9 DEF ThreadStep, OrderedStep, LockedStep, PlainStep, Playing
  <2>2. Speech' /\ OneAtATime' /\ (said' # said => Ahead(i) /\ said' = Append(said, i))
    BY <1>2, <1>9, <2>1, SerialGreetOrder
  <2>3. Announcing
    BY <1>1, <1>4, <1>9, <2>2, SaidAnnounced DEF InOrder, Playing
  <2> QED BY <1>3, <1>9, <2>2, <2>3 DEF OrderInv, Playing
<1>10. CASE Playing("race")
  <2>1. Race(i)
    BY <1>10 DEF ThreadStep, OrderedStep, LockedStep, PlainStep, Playing
  <2>2. /\ Speech' /\ RaceInOrder'
        /\ said' # said => \E n \in 0 .. MostThreads : Ahead(n) /\ said' = Append(said, n)
    BY <1>2, <1>10, <2>1, RaceGreetOrder
  <2>3. Announcing
    BY <1>1, <1>10, <2>2, SaidAnnounced DEF InOrder, Playing
  <2> QED BY <1>3, <1>10, <2>2, <2>3 DEF OrderInv, Playing
<1>11. CASE Playing("recursive")
  <2>1. RecursiveGreet(i)
    BY <1>11 DEF ThreadStep, OrderedStep, LockedStep, PlainStep, Playing
  <2>2. /\ Speech' /\ ChainInOrder'
        /\ said' # said => /\ said' = Append(said, Number(i))
                           /\ \A k \in 1 .. Len(said) : Number(said[k]) < i
    BY <1>2, <1>11, <2>1, RecursiveGreetOrder
  <2>3. Announcing
    BY <1>1, <1>2, <1>11, <2>2, NumberAnnounced
  <2> QED BY <1>3, <1>11, <2>2, <2>3 DEF OrderInv, Playing
<1> QED BY <1>5, <1>6, <1>7, <1>8, <1>9, <1>10, <1>11 DEF InOrder, Playing

LEMMA StepInOrder ==
  ASSUME CourseInv, LInv, OrderInv, [Next]_vars
  PROVE  OrderInv' /\ Announcing
<1>1. CASE UNCHANGED vars
  <2>1. Announcing
    BY <1>1 DEF Announcing, Announced, vars, mainVars, sharedVars
  <2>2. (Speech /\ TurnIsOne /\ TextsInOrder)'
    BY <1>1 DEF OrderInv, Speech, TurnIsOne, HasTurn, TextsInOrder, Ahead, Playing, Threads,
       MostThreads, vars, mainVars, sharedVars
  <2>3. (CounterIsTurn /\ OneAtATime)'
    BY <1>1 DEF OrderInv, CounterIsTurn, OneAtATime, Ahead, Playing, Threads, vars, mainVars,
       sharedVars
  <2>4. (RaceInOrder /\ ChainInOrder)'
    BY <1>1 DEF OrderInv, RaceInOrder, ChainInOrder, Placed, Number, Ahead, Playing, Threads,
       MostThreads, vars, mainVars, sharedVars
  <2> QED BY <2>1, <2>2, <2>3, <2>4 DEF OrderInv
<1>2. CASE MainStep
  BY <1>2, MainInOrder
<1>3. CASE \E i \in Threads : ThreadStep(i)
  BY <1>3, ThreadInOrder
<1> QED BY <1>1, <1>2, <1>3 DEF Next, Done

(* Whatever the scheduler does and whatever thread is not created, the     *)
(* programs that promise an order keep it, each for a reason of its own:   *)
(* the turn is one and goes to the next thread, main prints from the first,*)
(* only the thread at the counter gets past the busy wait, one thread runs *)
(* at a time, positions are printed under the lock that counts them, and   *)
(* nobody is created before its creator has greeted.                       *)
THEOREM GreetingsInOrder == Spec => ImplementsOrdered
<1>1. Init => Order!Init
  <2>1. Init => said = <<>>
    BY DEF Init, InitWith
  <2>2. said = <<>> => Announced = <<>>
    BY DEF Announced
  <2> QED BY <2>1, <2>2 DEF Order!Init
<1>2. CourseInv /\ LInv /\ OrderInv /\ [Next]_vars => OrderInv' /\ [Order!Next]_Announced
  BY StepInOrder DEF Announcing, Order!Next
<1>3. Spec => []OrderInv
  BY <1>2, InitOrderInv, CourseInvariant, LockedInvariant, PTL DEF Spec
<1> QED
  BY <1>1, <1>2, <1>3, CourseInvariant, LockedInvariant, PTL DEF Spec, ImplementsOrdered, Order!Spec

-----------------------------------------------------------------------------
(* Nobody waits in vain: as long as a thread runs, some thread can go on.  *)
(* What a thread needs is what its actions ask: its turn, the lock, or the *)
(* end of the thread it created.                                           *)
CanGoOn(i) ==
  /\ Running(i)
  /\ Playing("semaphores") /\ routine[i] = "start" => i \in DOMAIN sem /\ sem[i] > 0
  /\ Playing("busy") /\ routine[i] = "start" => MyTurn(i)
  /\ Playing("recursive") /\ routine[i] = "wait" => ~ Running(i + 1)
  /\ Locked /\ routine[i] = "start" /\ Exclusive(i) => holder = {}
  /\ Locked /\ routine[i] = "start" /\ ~ Exclusive(i) => holder \intersect run.writers = {}

TeamGoesOn ==
  ~ Over /\ ~ NoFirstTurn /\ (\E i \in Threads : Running(i)) => \E i \in Threads : CanGoOn(i)

(* Where a turn is waited for, the threads that exist are the first ones.  *)
CreatedInOrder ==
  run.program \in {"semaphores", "busy"} =>
    /\ main = "create" => \A i \in Threads : i < index => routine[i] # "unborn"
    /\ \A i, j \in Threads : j < i /\ routine[i] # "unborn" => routine[j] # "unborn"

(* While threads are created, or one runs, the turn is somebody's, if it   *)
(* was ever given.                                                         *)
TurnGiven ==
  Playing("semaphores") /\ ~ NoFirstTurn =>
    /\ main \in {"arrays", "create"} /\ Threads # {} => \E i \in Threads : HasTurn(i)
    /\ main # "crash" /\ (\E i \in Threads : Running(i)) => \E i \in Threads : HasTurn(i)

GoOnInv == CreatedInOrder /\ TurnGiven

LEMMA InitGoOn == Init => GoOnInv
<1> SUFFICES ASSUME Init PROVE GoOnInv
  OBVIOUS
<1>1. main = "begin" /\ \A i \in Threads : routine[i] = "unborn"
  BY DEF Init, InitWith
<1> QED BY <1>1 DEF GoOnInv, CreatedInOrder, TurnGiven, Running

(* The threads in the order of their creation.                             *)
LEMMA MainCreatesInOrder ==
  ASSUME Course, CreatedInOrder, MainStep
  PROVE  CreatedInOrder'
<1> SUFFICES ASSUME run.program \in {"semaphores", "busy"} PROVE CreatedInOrder'
  BY MainRun DEF CreatedInOrder
<1>1. run' = run /\ Threads' = Threads /\ Shape /\ ~ Playing("recursive") /\ Threads \subseteq Nat
  BY MainRun DEF Course, Playing, Threads
<1>2. CASE routine' = routine /\ (main' = "create" => index' = 0)
  <2>1. \A i \in Threads : ~ (i < 0)
    BY <1>1
  <2> QED BY <1>1, <1>2, <2>1 DEF CreatedInOrder
<1>3. CASE Create("create", index + 1)
  <2>1. /\ main = "create" /\ index \in Threads /\ index \in Nat /\ index' = index + 1
        /\ routine' = [routine EXCEPT ![index] = "start"]
    BY <1>1, <1>3 DEF Create, Go, Shape, Threads
  <2>2. routine'[index] = "start" /\ \A i \in Threads \ {index} : routine'[i] = routine[i]
    BY <1>1, <2>1 DEF Shape
  <2>3. /\ \A i \in Threads : i < index => routine'[i] # "unborn"
        /\ \A i \in Threads : i > index => routine'[i] = "unborn"
    BY <1>1, <2>1, <2>2 DEF CreatedInOrder, Course, Path, CreateLabels, Creating
  <2>4. \A i \in Threads : routine'[i] # "unborn" <=> i < index + 1
    BY <1>1, <2>1, <2>2, <2>3
  <2>5. \A i, j \in Threads : j < i /\ i < index + 1 => j < index + 1
    BY <1>1, <2>1
  <2> QED BY <1>1, <2>1, <2>4, <2>5 DEF CreatedInOrder
<1>4. CASE Obtain("arrays", "arrays", "create", 23, "release")
           \/ Obtain("arrays", "arrays", "create", 22, "release")
  <2>1. main = "arrays" /\ index' = index /\ routine' = routine
    BY <1>4 DEF Obtain, Refuse, RefuseAnd, Go
  <2>2. index = 0
    BY <1>1, <2>1 DEF Course, Path, StartLabels, Starting
  <2> QED BY <1>2, <2>1, <2>2
<1>5. CASE SemaphoresMain
  BY <1>2, <1>3, <1>4, <1>5
  DEF SemaphoresMain, ReadArguments, Obtain, InitSemaphores, CreateFails, CreatedAll, Join, Crash,
      DestroySemaphore, JoinedAll, Release, GoOn, Go, Refuse, RefuseAnd
<1>6. CASE BusyMain
  BY <1>2, <1>3, <1>4, <1>6
  DEF BusyMain, CreateAndJoin, ReadArguments, Obtain, CreateFails, CreatedAll, JoinTeam, Join, Crash,
      JoinedAll, Release, GoOn, Go, Refuse, RefuseAnd
<1> QED BY <1>5, <1>6 DEF MainStep, OrderedMain, LockedMain, PlainMain, CollectMain, SerialMain,
        RecursiveMain, RaceMain, PinataMain, ReadersMain, PrivateMain, SharedMain, TeamsMain,
        HelloMain, LotteryMain, ShotPutMain, Playing

LEMMA ThreadCreatesInOrder ==
  ASSUME Course, CreatedInOrder, NEW i \in Threads, ThreadStep(i)
  PROVE  CreatedInOrder'
<1> SUFFICES ASSUME run.program \in {"semaphores", "busy"} PROVE CreatedInOrder'
  BY ThreadRun DEF CreatedInOrder
<1>1. Advances(i)
  BY ThreadAdvances DEF Course, Playing
<1>2. UNCHANGED mainVars /\ Threads' = Threads
  BY <1>1 DEF Advances, mainVars, Threads
<1>3. \A j \in Threads : routine'[j] = "unborn" <=> routine[j] = "unborn"
  BY <1>1 DEF Advances, Running
<1> QED BY <1>2, <1>3 DEF CreatedInOrder, mainVars

-----------------------------------------------------------------------------
(* The turn is passed on, and never lost while it is needed.               *)

LEMMA RefusedGrows ==
  ASSUME MainStep, Playing("semaphores")
  PROVE  refused \subseteq refused'
<1>1. SemaphoresMain
  BY DEF MainStep, OrderedMain, LockedMain, PlainMain, CollectMain, BusyMain, SerialMain,
     RecursiveMain, RaceMain, PinataMain, ReadersMain, PrivateMain, SharedMain, TeamsMain,
     HelloMain, LotteryMain, ShotPutMain, Playing
<1> QED BY <1>1
  DEF SemaphoresMain, InitSemaphores, DestroySemaphore, ReadArguments, Obtain, Create, CreateFails,
      CreatedAll, Join, Crash, JoinedAll, Release, GoOn, Go, Refuse, RefuseAnd

(* A step that takes no turn away, and needs none that was not needed.     *)
LEMMA TurnStays ==
  ASSUME TurnGiven, Threads' = Threads, NoFirstTurn => NoFirstTurn',
         \A i \in Threads : HasTurn(i) => HasTurn(i)',
         main' \in {"arrays", "create"} => main \in {"arrays", "create"},
         main' # "crash" => main # "crash",
         Playing("semaphores"),
         \A i \in Threads : Running(i)' => Running(i) \/ main = "create"
  PROVE  TurnGiven'
BY DEF TurnGiven

LEMMA MainTurn ==
  ASSUME CourseInv, CreatedInOrder, TurnIsOne, TurnGiven, MainStep
  PROVE  TurnGiven'
<1> SUFFICES ASSUME Playing("semaphores"), ~ NoFirstTurn' PROVE TurnGiven'
  BY MainRun DEF TurnGiven, Playing
<1>8. ~ NoFirstTurn
  BY RefusedGrows DEF NoFirstTurn
<1>1. run' = run /\ Threads' = Threads /\ Course /\ Shape /\ ~ Playing("recursive")
      /\ Threads \subseteq Nat
  BY MainRun DEF CourseInv, TeamCourse, Course, Playing, Threads
<1>2. SemaphoresMain
  BY DEF MainStep, OrderedMain, LockedMain, PlainMain, CollectMain, BusyMain, SerialMain,
     RecursiveMain, RaceMain, PinataMain, ReadersMain, PrivateMain, SharedMain, TeamsMain,
     HelloMain, LotteryMain, ShotPutMain, Playing
<1>3. main # "crash"
  BY DEF MainStep, Over
<1>4. CASE /\ UNCHANGED <<routine, sem>>
           /\ main' \in {"arrays", "create"} => main \in {"arrays", "create"}
  <2>1. \A i \in Threads : (HasTurn(i)' <=> HasTurn(i)) /\ (Running(i)' <=> Running(i))
    BY <1>4 DEF HasTurn, Running
  <2> QED BY <1>1, <1>3, <1>4, <1>8, <2>1, TurnStays
<1>5. CASE InitSemaphores
  <2>1. main = "semaphores" /\ routine' = routine
    BY <1>5 DEF InitSemaphores, Refuse, RefuseAnd, Go
  <2>2. \A i \in Threads : ~ Running(i)'
    BY <1>1, <2>1 DEF Course, Path, StartLabels, Starting, Running
  <2>3. CASE main' \in {"release", "crash"}
    BY <1>1, <2>2, <2>3 DEF TurnGiven
  <2>4. ASSUME NEW denied \in SUBSET Threads, main' = "arrays", Threads # {},
               sem' = [i \in Threads |-> IF i \in denied THEN 0 ELSE TurnOf(i)],
               refused' = refused \union Refusals(denied)
        PROVE  \E i \in Threads : HasTurn(i)'
    <3>1. 0 \in Threads /\ 0 \notin denied
      BY <1>1, <2>4 DEF Shape, Threads, NoFirstTurn, Refusals
    <3>2. 0 \in DOMAIN sem' /\ sem'[0] > 0
      BY <2>4, <3>1 DEF TurnOf
    <3> QED BY <3>1, <3>2 DEF HasTurn
  <2>5. main' \in {"release", "crash"} \/ (main' = "arrays" /\ (Threads # {} => \E i \in Threads : HasTurn(i)'))
    BY <1>5, <2>4 DEF InitSemaphores, Refuse, RefuseAnd, Go
  <2>6. CASE main' = "arrays" /\ (Threads # {} => \E i \in Threads : HasTurn(i)')
    BY <1>1, <2>2, <2>6 DEF TurnGiven
  <2> QED BY <2>3, <2>5, <2>6
<1>6. CASE Create("create", index + 1)
  <2>1. index \in Threads /\ routine[index] = "unborn" /\ routine' = [routine EXCEPT ![index] = "start"]
        /\ main = "create" /\ main' = "create" /\ sem' = sem
    BY <1>1, <1>6 DEF Create, Go, Course, Shape, Path, CreateLabels, Creating, Threads, sharedVars
  <2>2. routine'[index] = "start" /\ \A i \in Threads \ {index} : routine'[i] = routine[i]
    BY <1>1, <2>1 DEF Shape
  <2>3. \A i \in Threads : HasTurn(i)' <=> HasTurn(i)
    BY <2>1, <2>2 DEF HasTurn
  <2> QED BY <1>1, <1>3, <1>8, <2>1, <2>3, TurnStays
<1>7. CASE DestroySemaphore
  <2>1. /\ DOMAIN sem' = DOMAIN sem \ {index} /\ (\A i \in DOMAIN sem' : sem'[i] = sem[i])
        /\ routine' = routine /\ main = "destroy" /\ main' = "join"
    BY <1>7 DEF DestroySemaphore, Go, Restrict
  <2>2. \A i \in Threads : Running(i)' <=> Running(i)
    BY <2>1 DEF Running
  <2> SUFFICES ASSUME NEW k \in Threads, Running(k) PROVE \E i \in Threads : HasTurn(i)'
    BY <1>1, <2>1, <2>2 DEF TurnGiven
  <2>3. PICK i \in Threads : HasTurn(i)
    BY <1>3, <1>8 DEF TurnGiven
  <2>4. ~ Running(index) /\ k > index
    BY <1>1, <1>3, <2>1, RunningPlaces DEF Course, Path
  <2>5. ASSUME i = index PROVE FALSE
    <3>1. routine[i] \in {"unborn", "ended"}
      BY <2>4, <2>5 DEF Running
    <3>2. routine[i] = "unborn"
      BY <2>3, <3>1 DEF TurnIsOne, Running
    <3> QED BY <1>1, <2>4, <2>5, <3>2 DEF CreatedInOrder, Playing, Running
  <2>6. HasTurn(i)'
    BY <2>1, <2>3, <2>5 DEF HasTurn
  <2> QED BY <2>6
<1> QED BY <1>2, <1>4, <1>5, <1>6, <1>7
  DEF SemaphoresMain, ReadArguments, Obtain, CreateFails, CreatedAll, Join, Crash,
      JoinedAll, Release, GoOn, Go, Refuse, RefuseAnd, sharedVars

LEMMA ThreadTurn ==
  ASSUME CourseInv, TurnIsOne, TurnGiven, NEW i \in Threads, ThreadStep(i)
  PROVE  TurnGiven'
<1> SUFFICES ASSUME Playing("semaphores") PROVE TurnGiven'
  BY ThreadRun DEF TurnGiven, Playing
<1>1. GreetInTurn(i) /\ Advances(i) /\ Shape
  BY ThreadAdvances DEF ThreadStep, OrderedStep, LockedStep, PlainStep, Playing, CourseInv,
     TeamCourse, Course
<1>2. UNCHANGED mainVars /\ Threads' = Threads /\ main' = main
  BY <1>1 DEF Advances, mainVars, Threads
<1>3. Running(i) /\ \A j \in Threads \ {i} : routine'[j] = routine[j]
  BY <1>1 DEF Advances
<1>4. \A j \in Threads : Running(j)' => Running(j)
  BY <1>3 DEF Running
<1>5. main # "crash"
  BY <1>1 DEF GreetInTurn, PrintLine, Step, Over
<1>6. CASE Step(i, "start", "greet") \/ PrintLine(i, "greet", "post", i)
  <2>1. routine'[i] \in {"greet", "post"}
    BY <1>1, <1>6 DEF PrintLine, Step, Shape
  <2>2. HasTurn(i)'
    BY <2>1 DEF HasTurn
  <2> QED BY <1>2, <2>2 DEF TurnGiven
<1>7. CASE /\ routine[i] = "post" /\ routine' = [routine EXCEPT ![i] = "ended"]
           /\ sem' = [j \in DOMAIN sem |-> IF j = NextThread(i) THEN sem[j] + 1 ELSE sem[j]]
  <2> DEFINE next == NextThread(i)
  <2>1. /\ run.count \in Nat /\ i \in Nat /\ i < run.count
        /\ (i + 1 < run.count => next = i + 1) /\ (i + 1 = run.count => next = 0)
        /\ next \in Threads
    BY <1>1 DEF NextThread, Shape, Threads
  <2>2. next \notin DOMAIN sem => i = run.count - 1 /\ i # 0
    BY <1>3, <1>5, OwnSemaphore
  <2>3. CASE next \in DOMAIN sem
    <3>1. sem[next] \in Nat
      BY <2>3 DEF TurnIsOne
    <3>2. next \in DOMAIN sem' /\ sem'[next] > 0
      BY <1>7, <2>3, <3>1
    <3> QED BY <1>2, <2>1, <3>2 DEF TurnGiven, HasTurn
  <2>4. CASE next \notin DOMAIN sem
    <3>1. main \notin {"arrays", "create"}
      BY <2>1, <2>4 DEF CourseInv, Reserves, SemaphoresLive
    <3>2. \A j \in Threads : routine'[j] = "ended"
      <4> TAKE j \in Threads
      <4>1. j = i \/ j < i
        BY <2>1, <2>2, <2>4 DEF Threads
      <4>2. routine'[i] = "ended"
        BY <1>1, <1>7 DEF Shape
      <4>3. j < i => routine[j] = "ended"
        BY <1>7 DEF TurnIsOne, HasTurn
      <4> QED BY <1>3, <4>1, <4>2, <4>3
    <3>3. \A j \in Threads : ~ Running(j)'
      BY <3>2 DEF Running
    <3> QED BY <1>2, <3>1, <3>3 DEF TurnGiven
  <2> QED BY <2>3, <2>4
<1> QED BY <1>1, <1>6, <1>7 DEF GreetInTurn, Step

LEMMA NextGoOn ==
  ASSUME CourseInv, OrderInv, GoOnInv, [Next]_vars
  PROVE  GoOnInv'
<1>1. Course /\ TurnIsOne /\ CreatedInOrder /\ TurnGiven
  BY DEF CourseInv, TeamCourse, OrderInv, GoOnInv
<1>2. CASE MainStep
  BY <1>1, <1>2, MainCreatesInOrder, MainTurn DEF GoOnInv
<1>3. ASSUME NEW i \in Threads, ThreadStep(i) PROVE GoOnInv'
  BY <1>1, <1>3, ThreadCreatesInOrder, ThreadTurn DEF GoOnInv
<1>4. CASE UNCHANGED vars
  BY <1>4 DEF GoOnInv, CreatedInOrder, TurnGiven, HasTurn, Running, Playing, Threads, vars,
     mainVars, sharedVars, NoFirstTurn
<1> QED BY <1>2, <1>3, <1>4 DEF Next, Done, ThreadStep

-----------------------------------------------------------------------------
(* Who can go on, program by program.                                      *)

LEMMA SemaphoresGoOn ==
  ASSUME CourseInv, OrderInv, GoOnInv, Playing("semaphores"), main # "crash", ~ NoFirstTurn,
         NEW k \in Threads, Running(k)
  PROVE  \E i \in Threads : CanGoOn(i)
<1>1. TurnIsOne /\ CreatedInOrder /\ TurnGiven /\ Threads \subseteq Nat
  BY DEF OrderInv, GoOnInv, Threads
<1>2. PICK i \in Threads : HasTurn(i)
  BY <1>1 DEF TurnGiven
<1>3. ~ (\A j \in Threads : routine[j] = "ended")
  BY DEF Running
<1>4. /\ routine[i] \in {"unborn", "start", "greet", "post"}
      /\ \A j \in Threads : j < i => routine[j] = "ended"
  BY <1>1, <1>2, <1>3 DEF TurnIsOne
<1>5. routine[i] # "unborn"
  <2> SUFFICES ASSUME routine[i] = "unborn" PROVE FALSE
    OBVIOUS
  <2>1. k \in Nat /\ i \in Nat /\ ~ (k < i) /\ k # i
    BY <1>1, <1>4 DEF Running
  <2>2. i < k
    BY <2>1
  <2> QED BY <1>1, <2>2 DEF CreatedInOrder, Playing, Running
<1>6. routine[i] = "start" => i \in DOMAIN sem /\ sem[i] > 0
  BY <1>2 DEF HasTurn
<1>7. CanGoOn(i)
  BY <1>4, <1>5, <1>6 DEF CanGoOn, Running, Playing, Locked, LockedPrograms
<1> QED BY <1>7

LEMMA BusyGoOn ==
  ASSUME CourseInv, OrderInv, GoOnInv, Playing("busy"), NEW k \in Threads, Running(k)
  PROVE  \E i \in Threads : CanGoOn(i)
<1> USE DEF OrderInv
<1>1. CASE routine[k] # "start"
  <2>1. CanGoOn(k)
    BY <1>1 DEF CanGoOn, Playing, Locked, LockedPrograms
  <2> QED BY <2>1
<1>2. CASE routine[k] = "start"
  <2>1. counter \in Nat /\ counter <= k /\ k \in Nat /\ run.count \in Nat /\ k < run.count
    BY <1>2 DEF CounterIsTurn, CourseInv, TeamCourse, Course, Shape, Threads
  <2>2. counter \in Threads
    BY <2>1 DEF Threads
  <2>3. routine[counter] # "ended"
    BY <2>1, <2>2 DEF CounterIsTurn
  <2>4. routine[counter] # "unborn"
    BY <1>2, <2>1, <2>2 DEF GoOnInv, CreatedInOrder, Playing
  <2>5. CanGoOn(counter)
    BY <2>1, <2>3, <2>4 DEF CanGoOn, Running, MyTurn, Playing, Locked, LockedPrograms
  <2> QED BY <2>2, <2>5
<1> QED BY <1>1, <1>2

LEMMA LeastOf ==
  ASSUME NEW S \in SUBSET Nat, S # {}
  PROVE  \E n \in S : \A m \in S : n <= m
<1> DEFINE less == OpToRel(<, Nat)
<1>1. \A n, m \in S : <<m, n>> \in less <=> m < n
  BY DEF OpToRel
<1>2. IsWellFoundedOn(less, Nat)
  BY NatLessThanWellFounded
<1> HIDE DEF less
<1>3. PICK n \in S : \A m \in S : ~ (<<m, n>> \in less)
  BY <1>2, WFMin
<1>4. \A m \in S : ~ (m < n)
  BY <1>1, <1>3, Zenon
<1> QED BY <1>4

(* The last of the chain waits for nobody.                                 *)
LEMMA RecursiveGoOn ==
  ASSUME CourseInv, Playing("recursive"), NEW k \in Threads, Running(k)
  PROVE  \E i \in Threads : CanGoOn(i)
<1> DEFINE left == {n \in Nat : \E i \in Threads : Running(i) /\ n = run.count - i}
<1>1. run.count \in Nat /\ Threads \subseteq Nat /\ \A i \in Threads : i < run.count
  BY DEF CourseInv, TeamCourse, Course, Shape, Threads
<1>2. left # {}
  <2>1. run.count - k \in Nat
    BY <1>1
  <2>2. run.count - k \in left
    BY <2>1
  <2> QED BY <2>2
<1>3. PICK n \in left : \A m \in left : n <= m
  <2> HIDE DEF left
  <2>1. left \in SUBSET Nat
    BY DEF left
  <2> QED BY <1>2, <2>1, LeastOf
<1>4. PICK i \in Threads : Running(i) /\ n = run.count - i
  OBVIOUS
<1>5. ASSUME routine[i] = "wait" PROVE ~ Running(i + 1)
  <2> SUFFICES ASSUME Running(i + 1) PROVE FALSE
    OBVIOUS
  <2>1. i + 1 \in Threads
    BY <1>5 DEF CourseInv, TeamCourse, Chain
  <2>2. run.count - (i + 1) \in left /\ run.count - (i + 1) < n
    BY <1>1, <1>4, <2>1
  <2> QED BY <1>3, <2>2
<1>6. CanGoOn(i)
  BY <1>4, <1>5 DEF CanGoOn, Playing, Locked, LockedPrograms
<1> QED BY <1>6

(* Whoever holds the lock goes on, and if nobody does anybody can take it. *)
LEMMA LockedGoOn ==
  ASSUME LInv, Locked, NEW k \in Threads, Running(k)
  PROVE  \E i \in Threads : CanGoOn(i)
<1>1. holder = {i \in Threads : Holding(i)}
  BY DEF LInv, Exclusion
<1>2. CASE \E i \in Threads : Holding(i)
  <2>1. PICK i \in Threads : Holding(i)
    BY <1>2
  <2>2. Running(i) /\ routine[i] # "start"
    BY <2>1 DEF Holding, Running
  <2>3. CanGoOn(i)
    BY <2>2 DEF CanGoOn, Playing, Locked, LockedPrograms
  <2> QED BY <2>3
<1>3. CASE \A i \in Threads : ~ Holding(i)
  <2>1. holder = {} /\ holder \intersect run.writers = {}
    BY <1>1, <1>3
  <2>2. CanGoOn(k)
    BY <2>1 DEF CanGoOn, Playing, Locked, LockedPrograms
  <2> QED BY <2>2
<1> QED BY <1>2, <1>3

LEMMA GoesOnFromInv ==
  CourseInv /\ LInv /\ OrderInv /\ GoOnInv => TeamGoesOn
<1> SUFFICES ASSUME CourseInv, LInv, OrderInv, GoOnInv, ~ Over, ~ NoFirstTurn, NEW k \in Threads, Running(k)
             PROVE  \E i \in Threads : CanGoOn(i)
  BY DEF TeamGoesOn
<1>1. main # "crash"
  BY DEF Over
<1>2. CASE ~ Locked /\ ~ Playing("semaphores") /\ ~ Playing("busy") /\ ~ Playing("recursive")
  <2>1. CanGoOn(k)
    BY <1>2 DEF CanGoOn
  <2> QED BY <2>1
<1> QED BY <1>1, <1>2, SemaphoresGoOn, BusyGoOn, RecursiveGoOn, LockedGoOn

(* In every program, as long as a thread runs some thread can take its     *)
(* next step, whatever was refused but the semaphore of the first turn:    *)
(* the turn of a chain of semaphores is given to a thread that exists      *)
(* while one does (hello_order_semaphor/src/main.c:127-137), and a later   *)
(* semaphore that was refused is opened by the post of the thread before   *)
(* as the others are; the counter of the busy wait points at a thread that *)
(* has not ended, who waits in the recursion waits for one further down    *)
(* the chain, and who holds a lock waits for nothing.  Main only waits, in *)
(* Join, for a thread that runs.                                           *)
THEOREM NobodyWaitsInVain == Spec => []TeamGoesOn
<1>1. CourseInv /\ LInv /\ OrderInv /\ [Next]_vars => OrderInv'
  BY StepInOrder
<1>2. Spec => []OrderInv
  BY <1>1, InitOrderInv, CourseInvariant, LockedInvariant, PTL DEF Spec
<1>3. CourseInv /\ OrderInv /\ GoOnInv /\ [Next]_vars => GoOnInv'
  BY NextGoOn
<1>4. Spec => []GoOnInv
  BY <1>2, <1>3, InitGoOn, CourseInvariant, PTL DEF Spec
<1> QED BY <1>2, <1>4, GoesOnFromInv, CourseInvariant, LockedInvariant, PTL
=============================================================================
