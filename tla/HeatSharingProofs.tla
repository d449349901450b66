------------------------- MODULE HeatSharingProofs --------------------------
(***************************************************************************)
(* Theorems about the two ways of sharing an iteration, over the lemmas of *)
(* HeatTeamProofs, for every number of threads and every plate.  First     *)
(* HeatPthreads, with any assignment of rows to threads, then the          *)
(* assignment the program makes, RowPartition, which is one of those; last *)
(* HeatDynamic, with any number of cells.  Each part uses the assumption   *)
(* of its own module only: ChunkAssumption or CellsAssumption.             *)
(***************************************************************************)
EXTENDS HeatPthreads, HeatDynamic, RowPartition, HeatTeamProofs

-----------------------------------------------------------------------------
(* The blocks of rows.                                                     *)

LEMMA ComputeRowsWorks ==
  ASSUME TeamInv, NEW t \in Threads, ComputeRows(t)
  PROVE  /\ pc[t] = "compute" /\ Works(t)
         /\ rounds[t] = totalIterations
         /\ \A r \in Chunk[t] : age'[writePlate][r] = totalIterations + 1
         /\ \A u \in Threads : u # t =>
              \A r \in Chunk[u] : age'[writePlate][r] = age[writePlate][r]
<1> USE DEF TeamInv
<1>1. pc[t] = "compute"
  BY DEF ComputeRows, Goto
<1>2. /\ ~Leaving /\ Undecided /\ ~Declared
      /\ currentPlate[t] = readPlate /\ newPlate[t] = writePlate
  BY <1>1, WorkingFacts
<1>3. rounds[t] = totalIterations
  BY <1>1, <1>2 DEF RoundsInv, FreshLabels
<1>4. age' = [age EXCEPT ![writePlate] =
                [r \in Rows |-> IF r \in Chunk[t] THEN totalIterations + 1
                                ELSE age[writePlate][r]]]
  <2>1. \A r \in Rows : age[readPlate][r] = totalIterations
    BY DEF PlatesInv, Rows
  <2>2. age' = [age EXCEPT ![writePlate] =
                  [r \in Rows |-> IF r \in Chunk[t] THEN age[readPlate][r] + 1
                                  ELSE age[writePlate][r]]]
    BY <1>2, Zenon DEF ComputeRows
  <2> QED BY <2>1, <2>2, Zenon
<1>5. /\ age' \in [Plates -> [Units -> Nat]]
      /\ age'[readPlate] = age[readPlate]
      /\ \A r \in Chunk[t] : age'[writePlate][r] = totalIterations + 1
      /\ \A u \in Threads : u # t =>
           \A r \in Chunk[u] : age'[writePlate][r] = age[writePlate][r]
  BY <1>4, PlatesDiffer, ChunkAssumption DEF TypeOK, Rows
<1>6. localIsBalanced' \in [Threads -> BOOLEAN]
      /\ \A u \in Threads : u # t => localIsBalanced'[u] = localIsBalanced[u]
  BY DEF ComputeRows, TypeOK, Outcomes
<1> QED BY <1>1, <1>3, <1>5, <1>6 DEF ComputeRows, Works

LEMMA ComputeRowsPreserves ==
  ASSUME IInv, NEW t \in Threads, ComputeRows(t)
  PROVE  IInv'
<1> USE DEF IInv
<1>1. /\ UNCHANGED <<writePlate, totalIterations>>
      /\ rounds' = [rounds EXCEPT ![t] = @ + 1]
  BY DEF ComputeRows
<1>2. ChunkInv'
  <2> SUFFICES ASSUME NEW u \in Threads, rounds'[u] = totalIterations + 1,
                      NEW r \in Chunk[u]
               PROVE  age'[writePlate][r] = totalIterations + 1
    BY <1>1 DEF ChunkInv
  <2>1. CASE u = t
    BY <2>1, ComputeRowsWorks
  <2>2. CASE u # t
    BY <1>1, <2>2, ComputeRowsWorks DEF ChunkInv, TeamInv, TypeOK
  <2> QED BY <2>1, <2>2
<1>3. WorkInv'
  BY <1>1, <1>2, ChunkAssumption DEF ChunkInv, WorkInv, Rows
<1> QED BY <1>1, <1>2, <1>3, ComputeRowsWorks, EndOfWork DEF ComputeRows

(* A step that leaves the plates and the iteration counts alone.           *)
LEMMA ChunkStays ==
  ASSUME ChunkInv, UNCHANGED <<rounds, age, writePlate, totalIterations>>
  PROVE  ChunkInv'
BY DEF ChunkInv

LEMMA DecideChunks ==
  ASSUME IInv, NEW t \in Threads, Decide(t)
  PROVE  ChunkInv'
<1>1. \A u \in Threads : rounds[u] = totalIterations + 1
  BY DecisionFacts DEF Decide, Goto, IInv
<1>2. UNCHANGED <<rounds, age>>
  BY DEF Decide, locals
<1>3. CASE isBalanced[writePlate] # 0
  BY <1>2, <1>3 DEF Decide, IInv, ChunkInv
<1>4. CASE isBalanced[writePlate] = 0
  BY <1>1, <1>2, <1>4 DEF Decide, ChunkInv, IInv, TeamInv, TypeOK
<1> QED BY <1>3, <1>4

LEMMA InitIInv == Init => IInv
<1> SUFFICES ASSUME Init PROVE IInv
  OBVIOUS
<1>1. ChunkInv
  BY DEF Init, ChunkInv
<1> QED BY <1>1, InitTeam DEF IInv

LEMMA NextPreserves == IInv /\ [Next]_vars => IInv'
<1> SUFFICES ASSUME IInv, [Next]_vars PROVE IInv'
  OBVIOUS
<1> USE DEF IInv
<1>1. CASE MainStep
  <2>1. UNCHANGED <<rounds, age, writePlate, totalIterations>>
    BY <1>1
    DEF MainStep, CreateThread, CreateFails, JoinPartialTeam, JoinTeam,
        locals, plateVars
  <2> QED BY <1>1, <2>1, MainPreserves, ChunkStays
<1>2. ASSUME NEW t \in Threads, CommonStep(t) PROVE IInv'
  <2>1. UNCHANGED <<rounds, age, writePlate, totalIterations>>
    BY <1>2
    DEF CommonStep, LoadPlates, TestBalanced, AndBalanced, BarrierStep,
        Arrive, ArriveLast, CloseTurnstile2, OpenTurnstile1, UnlockArrival,
        WaitTurnstile1, PostTurnstile1, Leave, LeaveLast, CloseTurnstile1,
        OpenTurnstile2, UnlockDeparture, WaitTurnstile2, PostTurnstile2,
        locals, plateVars
  <2> QED BY <1>2, <2>1, CommonPreserves, ChunkStays
<1>3. ASSUME NEW t \in Threads, Decide(t) PROVE IInv'
  BY <1>3, DecidePreserves, DecideChunks
<1>4. CASE UNCHANGED vars
  BY <1>4, StutterPreserves, ChunkStays DEF vars, locals, plateVars
<1> QED BY <1>1, <1>2, <1>3, <1>4, ComputeRowsPreserves DEF Next, ThreadStep

-----------------------------------------------------------------------------
(* The barrier, the plates and the flags are right in every reachable      *)
(* state, for any number of threads and any assignment of rows.            *)
THEOREM Invariance == Spec => []IInv
BY InitIInv, NextPreserves, PTL DEF Spec

(* The types are respected by every step of every thread.                  *)
THEOREM TypeCorrect == Spec => []TypeOK
<1>1. IInv => TypeOK
  BY DEF IInv, TeamInv
<1> QED BY <1>1, Invariance, PTL

(* No swap of the plates, and no thread in another iteration, is visible   *)
(* to a thread inside the loop body.                                       *)
THEOREM Stable == Spec => []StableWhileComputing
<1>1. IInv => StableWhileComputing
  BY StableFromInv DEF IInv
<1> QED BY <1>1, Invariance, PTL

(* The last thread to arrive decides on a complete plate and a complete    *)
(* conjunction of the threads' findings.                                   *)
THEOREM Informed == Spec => []DecisionIsInformed
<1>1. IInv => DecisionIsInformed
  BY InformedFromInv DEF IInv
<1> QED BY <1>1, Invariance, PTL

(* All the threads leave the loop after the same iteration.                *)
THEOREM Together == Spec => []ExitTogether
<1>1. IInv => ExitTogether
  BY TogetherFromInv DEF IInv
<1> QED BY <1>1, Invariance, PTL

(* The two turnstiles of the barrier are never open at once.               *)
THEOREM Turnstiles == Spec => []OneTurnstileOpen
<1>1. IInv => OneTurnstileOpen
  BY TurnstilesFromInv DEF IInv
<1> QED BY <1>1, Invariance, PTL

(* The plate simulate() returns is at the reported iteration when that     *)
(* number is odd, and exactly one behind when it is even.                  *)
THEOREM ResultLag == Spec => []ResultWithinOne
<1>1. IInv => ResultWithinOne
  BY LagFromInv DEF IInv
<1> QED BY <1>1, Invariance, PTL

(* If a pthread_create() fails once a thread exists, simulate() never gets *)
(* past the join.                                                          *)
THEOREM FailureHangs == Spec => []FailedTeamHangs
<1>1. IInv => FailedTeamHangs
  BY HangsFromInv DEF IInv
<1> QED BY <1>1, Invariance, PTL

LEMMA ComputeRowsAwake ==
  ASSUME TeamInv, AwakeInv, NEW t \in Threads, ComputeRows(t)
  PROVE  AwakeInv'
<1>1. Goto(t, "compute", "and") /\ created' = created
  BY DEF ComputeRows, mainVars
<1> QED BY <1>1, GotoMoves, MoveAwake DEF TeamInv

LEMMA NextAwake == IInv /\ AwakeInv /\ [Next]_vars => AwakeInv'
<1> SUFFICES ASSUME TeamInv, AwakeInv, [Next]_vars PROVE AwakeInv'
  BY DEF IInv
<1> QED BY MainAwake, ThreadAwake, ComputeRowsAwake, StutterAwake
        DEF Next, ThreadStep

(* A team whose threads were all created never stops before it is joined:  *)
(* in every state some thread can take its next step, although the last    *)
(* thread to arrive, and the last to leave, waits for a turnstile while it *)
(* holds the mutex the others need (sem_wait in calcNewTemperature()).     *)
THEOREM TeamNeverStops == Spec => []TeamGoesOn
<1>1. IInv /\ AwakeInv => TeamGoesOn
  BY GoesOnFromInv DEF IInv
<1> QED BY <1>1, InitAwake, NextAwake, Invariance, PTL DEF Spec
-----------------------------------------------------------------------------
LEMMA StepRefines ==
  ASSUME IInv, [Next]_vars
  PROVE  [Lockstep!Next]_(Lockstep!vars)
<1> USE DEF IInv
<1>1. CASE MainStep
  BY <1>1, MainInvisible
<1>2. ASSUME NEW t \in Threads, ThreadStep(t)
      PROVE  [Lockstep!Next]_(Lockstep!vars)
  <2>1. CASE CommonStep(t)   BY <2>1, CommonInvisible
  <2>2. CASE Decide(t)       BY <2>2, DecideRefines
  <2>3. CASE ComputeRows(t)
    <3>1. Lockstep!FinishPart(t)
      BY <2>3, ComputeRowsWorks, EndOfWorkRefines DEF ComputeRows
    <3> QED BY <3>1 DEF Lockstep!Next
  <2> QED BY <1>2, <2>1, <2>2, <2>3 DEF ThreadStep
<1>3. CASE UNCHANGED vars
  BY <1>3, UntouchedInvisible DEF vars
<1> QED BY <1>1, <1>2, <1>3 DEF Next

(* The threads, mutexes and semaphores of calcNewTemperature() implement   *)
(* the iteration-by-iteration simulation.                                  *)
THEOREM Refinement == Spec => ImplementsLockstep
<1>1. IInv /\ [Next]_vars => [Lockstep!Next]_(Lockstep!vars)
  BY StepRefines
<1> QED BY <1>1, InitRefines, Invariance, PTL
        DEF Spec, ImplementsLockstep, Lockstep!Spec

-----------------------------------------------------------------------------
(* The static mapping is a partition, for every number of threads and      *)
(* every number of rows.                                                   *)
LEMMA DivMod ==
  ASSUME NEW a \in Nat, NEW b \in Nat \ {0}
  PROVE  /\ a \div b \in Nat /\ a % b \in Nat
         /\ a = b * (a \div b) + (a % b)
         /\ a % b < b
OBVIOUS

LEMMA TimesMonotone ==
  ASSUME NEW a \in Nat, NEW b \in Nat, NEW q \in Nat, a <= b
  PROVE  a * q <= b * q
<1>1. b * q = a * q + (b - a) * q
  OBVIOUS
<1>2. (b - a) * q \in Nat
  OBVIOUS
<1>3. a * q \in Nat
  OBVIOUS
<1> QED BY <1>1, <1>2, <1>3

(* The division behind the mapping: rows = n * q + x with x < n.           *)
Quotient(n, rows)  == rows \div n
Remainder(n, rows) == rows % n

LEMMA Division ==
  ASSUME NEW n \in Nat \ {0}, NEW rows \in Nat
  PROVE  /\ Quotient(n, rows) \in Nat /\ Remainder(n, rows) \in Nat
         /\ rows = n * Quotient(n, rows) + Remainder(n, rows)
         /\ Remainder(n, rows) < n
BY DivMod DEF Quotient, Remainder

(* Each block starts where the previous ones, q rows each and one more for *)
(* the first x, end.                                                       *)
LEMMA BlockBounds ==
  ASSUME NEW n \in Nat \ {0}, NEW rows \in Nat, NEW t \in Nat
  PROVE  LET q == Quotient(n, rows)
             x == Remainder(n, rows)
         IN  /\ t < x  => /\ StartRow(t, n, rows) = t * q + t
                          /\ EndRow(t, n, rows) = t * q + q + t + 1
             /\ t >= x => /\ StartRow(t, n, rows) = t * q + x
                          /\ EndRow(t, n, rows) = t * q + q + x
<1> DEFINE q == Quotient(n, rows)
           x == Remainder(n, rows)
<1>1. q \in Nat /\ x \in Nat
  BY Division
<1>2. t * (q + 1) = t * q + t
  BY <1>1
<1>3. t * q \in Nat
  BY <1>1
<1> QED BY <1>1, <1>2, <1>3 DEF StartRow, EndRow, Quotient, Remainder

(* No row is given to two threads.                                         *)
THEOREM BlocksDisjoint ==
  ASSUME NEW n \in Nat \ {0}, NEW rows \in Nat,
         NEW t \in 0 .. n - 1, NEW u \in 0 .. n - 1, t # u
  PROVE  RowsOf(t, n, rows) \intersect RowsOf(u, n, rows) = {}
<1> DEFINE q == Quotient(n, rows)
           x == Remainder(n, rows)
<1>1. q \in Nat /\ x \in Nat
  BY Division
<1>2. ASSUME NEW i \in Nat, NEW j \in Nat, i < j
      PROVE  EndRow(i, n, rows) <= StartRow(j, n, rows)
  <2>1. (i + 1) * q <= j * q
    BY <1>1, <1>2, TimesMonotone
  <2>2. (i + 1) * q = i * q + q
    BY <1>1
  <2>3. i * q \in Nat /\ j * q \in Nat
    BY <1>1
  <2> HIDE DEF q, x
  <2>4. /\ i < x  => EndRow(i, n, rows) = i * q + q + i + 1
        /\ i >= x => EndRow(i, n, rows) = i * q + q + x
        /\ j < x  => StartRow(j, n, rows) = j * q + j
        /\ j >= x => StartRow(j, n, rows) = j * q + x
    BY BlockBounds DEF q, x
  <2> QED BY <1>1, <1>2, <2>1, <2>2, <2>3, <2>4
<1>3. ASSUME NEW i \in 0 .. n - 1, NEW j \in 0 .. n - 1, i < j
      PROVE  RowsOf(i, n, rows) \intersect RowsOf(j, n, rows) = {}
  <2>1. /\ EndRow(i, n, rows) \in Int /\ StartRow(j, n, rows) \in Int
        /\ EndRow(i, n, rows) <= StartRow(j, n, rows)
    <3>1. i * q \in Nat /\ j * q \in Nat
      BY <1>1
    <3> HIDE DEF q, x
    <3>2. /\ i < x  => EndRow(i, n, rows) = i * q + q + i + 1
          /\ i >= x => EndRow(i, n, rows) = i * q + q + x
          /\ j < x  => StartRow(j, n, rows) = j * q + j
          /\ j >= x => StartRow(j, n, rows) = j * q + x
      BY BlockBounds DEF q, x
    <3> QED BY <1>1, <1>2, <1>3, <3>1, <3>2
  <2> QED BY <2>1 DEF RowsOf
<1> QED BY <1>3

(* Every row is given to some thread.                                      *)
THEOREM BlocksCover ==
  ASSUME NEW n \in Nat \ {0}, NEW rows \in Nat, NEW r \in 0 .. rows - 1
  PROVE  \E t \in 0 .. n - 1 : r \in RowsOf(t, n, rows)
<1> DEFINE q == Quotient(n, rows)
           x == Remainder(n, rows)
<1>1. /\ q \in Nat /\ x \in Nat
      /\ rows = n * q + x /\ x < n
  BY Division
<1>2. x * (q + 1) = x * q + x /\ x * q \in Nat /\ n * q \in Nat
  BY <1>1
<1> HIDE DEF q, x
<1>3. CASE r < x * (q + 1)
  <2> DEFINE t == r \div (q + 1)
  <2>1. /\ t \in Nat /\ r % (q + 1) \in Nat
        /\ r = (q + 1) * t + (r % (q + 1)) /\ r % (q + 1) < q + 1
    BY <1>1, DivMod
  <2> HIDE DEF t
  <2>2. (q + 1) * t = t * q + t /\ t * q \in Nat
    BY <1>1, <2>1
  <2>3. t < x
    <3>1. SUFFICES ASSUME x <= t PROVE FALSE
      BY <1>1, <2>1
    <3>2. x * (q + 1) <= t * (q + 1)
      BY <1>1, <2>1, <3>1, TimesMonotone
    <3>3. t * (q + 1) = (q + 1) * t
      BY <1>1, <2>1
    <3> QED BY <1>1, <1>2, <1>3, <2>1, <2>2, <3>2, <3>3
  <2>4. /\ StartRow(t, n, rows) = t * q + t
        /\ EndRow(t, n, rows) = t * q + q + t + 1
    BY <2>1, <2>3, BlockBounds DEF q, x
  <2>5. t \in 0 .. n - 1 /\ r \in RowsOf(t, n, rows)
    BY <1>1, <2>1, <2>2, <2>3, <2>4 DEF RowsOf
  <2> QED BY <2>5
<1>4. CASE r >= x * (q + 1)
  <2>1. q # 0
    <3>1. SUFFICES ASSUME q = 0 PROVE FALSE
      OBVIOUS
    <3>2. n * q = 0 /\ x * q = 0
      BY <1>1, <3>1
    <3> QED BY <1>1, <1>2, <1>4, <3>2
  <2> DEFINE b == r - x * (q + 1)
             d == b \div q
             t == x + d
  <2>2. b \in Nat
    BY <1>1, <1>2, <1>4
  <2> HIDE DEF b
  <2>3. d \in Nat /\ b % q \in Nat /\ b = q * d + (b % q) /\ b % q < q
    BY <1>1, <2>1, <2>2, DivMod
  <2> HIDE DEF d
  <2>4. t \in Nat /\ t >= x /\ t * q = x * q + q * d /\ q * d \in Nat
    BY <1>1, <2>3
  <2>5. r = t * q + x + (b % q)
    BY <1>1, <1>2, <2>3, <2>4 DEF b
  <2>6. t < n
    <3>1. SUFFICES ASSUME n <= t PROVE FALSE
      BY <1>1, <2>4
    <3>2. n * q <= t * q
      BY <1>1, <2>4, <3>1, TimesMonotone
    <3> HIDE DEF t
    <3>3. t * q \in Nat
      BY <1>1, <2>4
    <3> QED BY <1>1, <1>2, <2>3, <2>5, <3>2, <3>3
  <2>7. StartRow(t, n, rows) = t * q + x /\ EndRow(t, n, rows) = t * q + q + x
    BY <2>4, BlockBounds DEF q, x
  <2> HIDE DEF t
  <2>8. t * q \in Nat
    BY <1>1, <2>4
  <2>9. t \in 0 .. n - 1 /\ r \in RowsOf(t, n, rows)
    BY <1>1, <2>3, <2>4, <2>5, <2>6, <2>7, <2>8 DEF RowsOf
  <2> QED BY <2>9
<1> QED BY <1>1, <1>2, <1>3, <1>4

(* The loads differ by at most one row.                                    *)
THEOREM LoadsEven ==
  ASSUME NEW n \in Nat \ {0}, NEW rows \in Nat,
         NEW t \in 0 .. n - 1, NEW u \in 0 .. n - 1
  PROVE  LET load(i) == EndRow(i, n, rows) - StartRow(i, n, rows)
         IN  load(t) <= load(u) + 1
<1>1. \A i \in 0 .. n - 1 :
        EndRow(i, n, rows) - StartRow(i, n, rows)
          \in {rows \div n, (rows \div n) + 1}
  <2> SUFFICES ASSUME NEW i \in 0 .. n - 1
               PROVE  EndRow(i, n, rows) - StartRow(i, n, rows)
                        \in {rows \div n, (rows \div n) + 1}
    OBVIOUS
  <2>1. rows \div n \in Nat /\ rows % n \in Nat
    BY DivMod
  <2>2. StartRow(i, n, rows) \in Int
    BY <2>1 DEF StartRow
  <2> QED BY <2>1, <2>2 DEF EndRow
<1> QED BY <1>1, DivMod

(* The program's blocks, cut down to the rows of the interior, are the     *)
(* Chunk that HeatPthreads assumes (calcNewTemperature(), lines 106-120).  *)
THEOREM BlocksAreChunks ==
  ASSUME NEW rows \in Nat, Rows \subseteq 0 .. rows - 1
  PROVE  LET block == [t \in Threads |-> Rows \intersect RowsOf(t, ThreadCount, rows)]
         IN  /\ block \in [Threads -> SUBSET Rows]
             /\ \A r \in Rows : \E t \in Threads : r \in block[t]
             /\ \A t, u \in Threads : t # u => block[t] \intersect block[u] = {}
<1> DEFINE block == [t \in Threads |-> Rows \intersect RowsOf(t, ThreadCount, rows)]
<1>1. \A r \in Rows : \E t \in Threads : r \in block[t]
  <2> SUFFICES ASSUME NEW r \in Rows PROVE \E t \in Threads : r \in block[t]
    OBVIOUS
  <2>1. PICK t \in 0 .. ThreadCount - 1 : r \in RowsOf(t, ThreadCount, rows)
    BY BlocksCover, ThreadCountAssumption
  <2> QED BY <2>1 DEF Threads
<1>2. ASSUME NEW t \in Threads, NEW u \in Threads, t # u
      PROVE  block[t] \intersect block[u] = {}
  <2>1. RowsOf(t, ThreadCount, rows) \intersect RowsOf(u, ThreadCount, rows) = {}
    BY <1>2, BlocksDisjoint, ThreadCountAssumption DEF Threads
  <2> QED BY <2>1
<1> QED BY <1>1, <1>2

-----------------------------------------------------------------------------
(* The ranges of the processes of mpi_hybrid_distr_arg.                    *)

(* A range that is not reversed is divided as the rows of a plate are.     *)
LEMMA RangeBounds ==
  ASSUME NEW n \in Nat \ {0}, NEW begin \in Int, NEW end \in Int, begin <= end,
         NEW rank \in 0 .. n - 1
  PROVE  LET rows == end - begin
         IN  /\ CalculateStart(rank, end, n, begin) = begin + StartRow(rank, n, rows)
             /\ CalculateFinish(rank, end, n, begin) = begin + EndRow(rank, n, rows)
             /\ StartRow(rank, n, rows) \in Nat /\ EndRow(rank, n, rows) \in Nat
             /\ EndRow(rank, n, rows) <= rows
<1> DEFINE rows == end - begin
           q == Quotient(n, rows)
           x == Remainder(n, rows)
<1>1. rows \in Nat
  OBVIOUS
<1>2. /\ q \in Nat /\ x \in Nat
      /\ rows = n * q + x /\ x < n
  BY <1>1, Division
<1>3. q = Quot(rows, n) /\ x = Rem(rows, n)
  BY <1>1 DEF Quotient, Remainder, Quot, Rem
<1>4. /\ rank < x  => /\ StartRow(rank, n, rows) = rank * q + rank
                      /\ EndRow(rank, n, rows) = rank * q + q + rank + 1
      /\ rank >= x => /\ StartRow(rank, n, rows) = rank * q + x
                      /\ EndRow(rank, n, rows) = rank * q + q + x
  BY <1>1, BlockBounds
<1>5. \A r \in Nat : CalculateStart(r, end, n, begin)
                      = begin + r * q + (IF x < r THEN x ELSE r)
  BY <1>3 DEF CalculateStart
<1>6. (rank + 1) * q <= n * q
  BY <1>2, TimesMonotone
<1> HIDE DEF q, x, rows
<1>7. (rank + 1) * q = rank * q + q /\ rank * q \in Nat /\ n * q \in Nat
  BY <1>2
<1>8. /\ CalculateStart(rank, end, n, begin) = begin + rank * q + (IF x < rank THEN x ELSE rank)
      /\ CalculateFinish(rank, end, n, begin)
           = begin + (rank + 1) * q + (IF x < rank + 1 THEN x ELSE rank + 1)
  BY <1>5 DEF CalculateFinish
<1>9. /\ CalculateStart(rank, end, n, begin) = begin + StartRow(rank, n, rows)
      /\ CalculateFinish(rank, end, n, begin) = begin + EndRow(rank, n, rows)
      /\ StartRow(rank, n, rows) \in Nat /\ EndRow(rank, n, rows) \in Nat
      /\ EndRow(rank, n, rows) <= rows
  BY <1>2, <1>4, <1>6, <1>7, <1>8
<1> QED BY <1>9 DEF rows

LEMMA RangesAreBlocks ==
  ASSUME NEW n \in Nat \ {0}, NEW begin \in Int, NEW end \in Int, begin <= end,
         NEW rank \in 0 .. n - 1, NEW index \in Int
  PROVE  index \in ProcessRange(rank, end, n, begin)
           <=> index - begin \in RowsOf(rank, n, end - begin)
<1> DEFINE first == StartRow(rank, n, end - begin)
           last  == EndRow(rank, n, end - begin)
<1>1. /\ CalculateStart(rank, end, n, begin) = begin + first
      /\ CalculateFinish(rank, end, n, begin) = begin + last
      /\ first \in Nat /\ last \in Nat /\ last <= end - begin
  BY RangeBounds
<1>2. index \in ProcessRange(rank, end, n, begin)
        <=> begin + first <= index /\ index < begin + last
  BY <1>1 DEF ProcessRange
<1>3. index - begin \in RowsOf(rank, n, end - begin)
        <=> /\ index - begin \in 0 .. (end - begin) - 1
            /\ first <= index - begin /\ index - begin < last
  BY DEF RowsOf
<1> HIDE DEF first, last
<1> QED BY <1>1, <1>2, <1>3

(* Every index of the range is computed by one process and only one, and   *)
(* nothing outside the range is computed, for every range of ints and      *)
(* every number of processes (mpi_hybrid_distr_arg/src/main.cpp:63-71).    *)
THEOREM RangesTile ==
  ASSUME NEW n \in Nat \ {0}, NEW begin \in Int, NEW end \in Int, begin <= end,
         NEW index \in Int
  PROVE  /\ index \in begin .. end - 1 =>
              \E r \in 0 .. n - 1 : index \in ProcessRange(r, end, n, begin)
         /\ \A r, s \in 0 .. n - 1 :
              /\ index \in ProcessRange(r, end, n, begin)
              /\ index \in ProcessRange(s, end, n, begin)
              => r = s /\ index \in begin .. end - 1
<1>1. end - begin \in Nat
  OBVIOUS
<1>2. ASSUME index \in begin .. end - 1
      PROVE  \E r \in 0 .. n - 1 : index \in ProcessRange(r, end, n, begin)
  <2>1. index - begin \in 0 .. (end - begin) - 1
    BY <1>2
  <2>2. PICK r \in 0 .. n - 1 : index - begin \in RowsOf(r, n, end - begin)
    BY <1>1, <2>1, BlocksCover
  <2> QED BY <2>2, RangesAreBlocks
<1>3. ASSUME NEW r \in 0 .. n - 1, NEW s \in 0 .. n - 1,
             index \in ProcessRange(r, end, n, begin),
             index \in ProcessRange(s, end, n, begin)
      PROVE  r = s /\ index \in begin .. end - 1
  <2>1. index - begin \in RowsOf(r, n, end - begin) /\ index - begin \in RowsOf(s, n, end - begin)
    BY <1>3, RangesAreBlocks
  <2>2. r = s
    BY <1>1, <2>1, BlocksDisjoint
  <2>3. index - begin \in 0 .. (end - begin) - 1
    BY <2>1 DEF RowsOf
  <2> QED BY <2>2, <2>3
<1> QED BY <1>2, <1>3

(* With the bounds the other way round % and / give values below zero: the *)
(* ranges printed do not begin where the whole one does, and no process    *)
(* computes anything.                                                      *)
THEOREM ReversedRangesEmpty ==
  ASSUME NEW n \in Nat \ {0}, NEW begin \in Int, NEW end \in Int, end < begin,
         NEW rank \in 0 .. n - 1
  PROVE  ProcessRange(rank, end, n, begin) = {}
<1> DEFINE rows == begin - end
           q == Quotient(n, rows)
           x == Remainder(n, rows)
<1>1. q \in Nat /\ x \in Nat
  BY Division
<1>2. Quot(end - begin, n) = -q /\ Rem(end - begin, n) = -x
  BY DEF Quotient, Remainder, Quot, Rem
<1>3. \A r \in Nat : CalculateStart(r, end, n, begin) = begin + r * (-q) + (IF -x < r THEN -x ELSE r)
  BY <1>2 DEF CalculateStart
<1> HIDE DEF q, x
<1>4. (rank + 1) * (-q) = rank * (-q) - q /\ rank * (-q) \in Int
  BY <1>1
<1>5. /\ CalculateStart(rank, end, n, begin) = begin + rank * (-q) - x
      /\ CalculateFinish(rank, end, n, begin) = begin + rank * (-q) - q - x
  BY <1>1, <1>3, <1>4 DEF CalculateFinish
<1> QED BY <1>1, <1>4, <1>5 DEF ProcessRange

-----------------------------------------------------------------------------
(* The shared counter of cells.                                            *)

(* A step that touches neither the cells nor what CellsInv says of them.   *)
LEMMA CellsStay ==
  ASSUME CellsInv,
         UNCHANGED <<cellVars, newPlate, rounds, age, writePlate,
                     totalIterations>>,
         \A t \in Threads : pc[t] = "compute" => pc'[t] = "compute"
  PROVE  CellsInv'
BY DEF CellsInv, CellsTypeOK, CellComputedOnce, HeldInv, CounterInv, EndedInv,
       cellVars

(* A thread that holds a cell has not ended its part, and works on         *)
(* sharedData's plates.                                                    *)
LEMMA HolderFacts ==
  ASSUME DynamicIInv, NEW t \in Threads, pc[t] = "compute"
  PROVE  /\ ~Leaving /\ ~Declared
         /\ currentPlate[t] = readPlate /\ newPlate[t] = writePlate
         /\ rounds[t] = totalIterations
<1> USE DEF DynamicIInv, TeamInv
<1>1. /\ ~Leaving /\ Undecided /\ ~Declared
      /\ currentPlate[t] = readPlate /\ newPlate[t] = writePlate
  BY WorkingFacts
<1> QED BY <1>1 DEF RoundsInv, FreshLabels

LEMMA CellNumbers ==
  /\ TotalCells \in Nat
  /\ \A x \in Units : x \in Nat /\ x < TotalCells /\ x # NoCell
BY CellsAssumption DEF NoCell

(* Past the last cell the thread ends its part.                            *)
LEMMA EndOfCells ==
  ASSUME DynamicIInv, NEW t \in Threads, TakeCell(t),
         currentCell >= TotalCells
  PROVE  DynamicIInv'
<1> USE DEF DynamicIInv, CellsInv
<1>1. rounds[t] = totalIterations
  BY HolderFacts DEF TakeCell
<1>2. Works(t)
  BY DEF TakeCell, Works, TeamInv, TypeOK, plateVars
<1>3. /\ Goto(t, "compute", "and") /\ UNCHANGED myCell
      /\ myCell[t] = NoCell /\ currentCell' = currentCell + 1
      /\ rounds' = [rounds EXCEPT ![t] = @ + 1]
      /\ UNCHANGED <<newPlate, age, writePlate, totalIterations>>
  BY DEF TakeCell, plateVars
<1>4. \A u \in Threads : u # t => pc'[u] = pc[u] /\ rounds'[u] = rounds[u]
  BY <1>3 DEF Goto, TeamInv, TypeOK
<1>5. /\ \A x \in Units : x < currentCell /\ x < currentCell'
      /\ currentCell' >= TotalCells
  BY <1>3, CellNumbers DEF CellsTypeOK
<1>6. CellsTypeOK' /\ CellComputedOnce'
  BY <1>3 DEF CellsTypeOK, CellComputedOnce
<1>7. HeldInv'
  <2> SUFFICES ASSUME NEW u \in Threads, myCell[u] # NoCell
               PROVE  pc'[u] = "compute" /\ myCell[u] < currentCell'
    BY <1>3 DEF HeldInv
  <2>1. u # t /\ myCell[u] \in Units
    BY <1>3 DEF CellsTypeOK
  <2> QED BY <1>4, <1>5, <2>1 DEF HeldInv
<1>8. CounterInv'
  BY <1>3, <1>5 DEF CounterInv
<1>9. EndedInv'
  BY <1>5 DEF EndedInv
<1>10. WorkInv'
  <2> SUFFICES ASSUME \A u \in Threads : rounds'[u] = totalIterations + 1,
                      NEW x \in Units
               PROVE  age[writePlate][x] = totalIterations + 1
    BY <1>3 DEF WorkInv
  <2>1. ASSUME NEW u \in Threads, myCell[u] = x PROVE FALSE
    <3>1. myCell[u] # NoCell /\ u # t
      BY <1>3, <2>1, CellNumbers
    <3>2. rounds[u] = totalIterations
      BY <3>1, HolderFacts DEF HeldInv
    <3>3. totalIterations # totalIterations + 1
      BY DEF TeamInv, TypeOK
    <3> QED BY <1>4, <3>1, <3>2, <3>3
  <2> QED BY <1>5, <2>1 DEF CounterInv
<1> QED BY <1>2, <1>3, <1>6, <1>7, <1>8, <1>9, <1>10, EndOfWork

(* Before that the thread takes the cell, or skips it.                     *)
LEMMA TakesNext ==
  ASSUME DynamicIInv, NEW t \in Threads, TakeCell(t),
         currentCell < TotalCells
  PROVE  DynamicIInv'
<1> USE DEF DynamicIInv, CellsInv
<1>1. /\ newPlate[t] = writePlate
      /\ pc[t] = "compute" /\ myCell[t] = NoCell
  BY HolderFacts DEF TakeCell
<1>2. Works(t) /\ UNCHANGED <<age, writePlate, totalIterations, newPlate>>
  BY DEF TakeCell, Works, TeamInv, TypeOK, plateVars
<1>3. /\ UNCHANGED <<pc, rounds>>
      /\ currentCell' = currentCell + 1
      /\ myCell' = [myCell EXCEPT ![t] = IF currentCell \in Units
                                         THEN currentCell ELSE NoCell]
  BY CellNumbers DEF TakeCell, CellsTypeOK
<1>4. TeamInv'
  BY <1>1, <1>2, <1>3, InsideWork
<1>5. /\ myCell'[t] = IF currentCell \in Units THEN currentCell ELSE NoCell
      /\ \A u \in Threads : u # t => myCell'[u] = myCell[u]
  BY <1>3 DEF CellsTypeOK
<1>6. \A u \in Threads : myCell[u] # NoCell =>
        myCell[u] \in Units /\ myCell[u] # currentCell
        /\ myCell[u] < currentCell'
  BY <1>3, CellNumbers DEF HeldInv, CellsTypeOK
<1>7. CellsTypeOK'
  BY <1>3 DEF CellsTypeOK
<1>8. CellComputedOnce'
  <2>1. currentCell \in Units => age[writePlate][currentCell] < totalIterations + 1
    BY DEF CounterInv, CellsTypeOK
  <2> QED BY <1>1, <1>2, <1>5, <1>6, <2>1 DEF CellComputedOnce
<1>9. HeldInv'
  <2> SUFFICES ASSUME NEW u \in Threads, myCell'[u] # NoCell
               PROVE  pc[u] = "compute" /\ myCell'[u] < currentCell'
    BY <1>3 DEF HeldInv
  <2>1. CASE u = t
    <3>1. myCell'[u] = currentCell /\ pc[u] = "compute"
      BY <1>1, <1>5, <2>1
    <3>2. currentCell < currentCell'
      BY <1>3 DEF CellsTypeOK
    <3> QED BY <3>1, <3>2
  <2>2. CASE u # t
    BY <1>5, <1>6, <2>2 DEF HeldInv
  <2> QED BY <2>1, <2>2
<1>10. CounterInv'
  <2> SUFFICES ASSUME NEW x \in Units
               PROVE  IF x < currentCell'
                      THEN age[writePlate][x] = totalIterations + 1
                           \/ \E u \in Threads : myCell'[u] = x
                      ELSE age[writePlate][x] < totalIterations + 1
    BY <1>2 DEF CounterInv
  <2>1. CASE x = currentCell
    <3>1. x < currentCell' /\ myCell'[t] = x
      BY <1>3, <1>5, <2>1 DEF CellsTypeOK
    <3> QED BY <3>1
  <2>2. CASE x < currentCell
    <3>1. x < currentCell'
      BY <1>3, <2>2, CellNumbers DEF CellsTypeOK
    <3>2. \A u \in Threads : myCell[u] = x => myCell'[u] = x
      BY <1>1, <1>5, CellNumbers
    <3> QED BY <2>2, <3>1, <3>2 DEF CounterInv
  <2>3. CASE x > currentCell
    <3>1. ~(x < currentCell') /\ ~(x < currentCell)
      BY <1>3, <2>3, CellNumbers DEF CellsTypeOK
    <3> QED BY <3>1 DEF CounterInv
  <2> QED BY <2>1, <2>2, <2>3, CellNumbers DEF CellsTypeOK
<1>11. EndedInv'
  <2>1. currentCell >= TotalCells => currentCell' >= TotalCells
    BY <1>3, CellNumbers DEF CellsTypeOK
  <2> QED BY <1>2, <1>3, <2>1 DEF EndedInv
<1> QED BY <1>4, <1>7, <1>8, <1>9, <1>10, <1>11

LEMMA TakeCellPreserves ==
  ASSUME DynamicIInv, NEW t \in Threads, TakeCell(t)
  PROVE  DynamicIInv'
BY EndOfCells, TakesNext, CellNumbers DEF DynamicIInv, CellsInv, CellsTypeOK

LEMMA ComputeCellWorks ==
  ASSUME DynamicIInv, NEW t \in Threads, ComputeCell(t)
  PROVE  /\ pc[t] = "compute" /\ Works(t) /\ myCell[t] \in Units
         /\ age' = [age EXCEPT ![writePlate][myCell[t]] = totalIterations + 1]
<1> USE DEF DynamicIInv, TeamInv
<1>1. /\ pc[t] = "compute" /\ myCell[t] \in Units
      /\ currentPlate[t] = readPlate /\ newPlate[t] = writePlate
  BY HolderFacts DEF ComputeCell, CellsInv, CellsTypeOK
<1>2. age' = [age EXCEPT ![writePlate][myCell[t]] = totalIterations + 1]
  BY <1>1 DEF ComputeCell, PlatesInv
<1>3. age' \in [Plates -> [Units -> Nat]] /\ age'[readPlate] = age[readPlate]
  BY <1>1, <1>2, PlatesDiffer DEF TypeOK
<1>4. localIsBalanced' \in [Threads -> BOOLEAN]
      /\ \A u \in Threads : u # t => localIsBalanced'[u] = localIsBalanced[u]
  <2>1. PICK b \in BOOLEAN :
          localIsBalanced' = [localIsBalanced EXCEPT ![t] = b]
    BY DEF ComputeCell, TypeOK, Outcomes
  <2> QED BY <2>1 DEF TypeOK
<1> QED BY <1>1, <1>2, <1>3, <1>4 DEF ComputeCell, Works

LEMMA ComputeCellPreserves ==
  ASSUME DynamicIInv, NEW t \in Threads, ComputeCell(t)
  PROVE  DynamicIInv'
<1> USE DEF DynamicIInv
<1> DEFINE c == myCell[t]
<1>1. /\ pc[t] = "compute" /\ Works(t) /\ c \in Units
      /\ age' = [age EXCEPT ![writePlate][c] = totalIterations + 1]
  BY ComputeCellWorks
<1>2. TeamInv'
  BY <1>1, InsideWork DEF ComputeCell
<1>3. /\ myCell' = [myCell EXCEPT ![t] = NoCell]
      /\ UNCHANGED <<pc, rounds, newPlate, writePlate, totalIterations,
                     currentCell>>
      /\ c # NoCell
  BY DEF ComputeCell
<1>4. /\ age'[writePlate][c] = totalIterations + 1
      /\ \A x \in Units : x # c => age'[writePlate][x] = age[writePlate][x]
  BY <1>1 DEF TeamInv, TypeOK
<1>5. /\ myCell'[t] = NoCell
      /\ \A u \in Threads : u # t => myCell'[u] = myCell[u] /\ myCell[u] # c
  BY <1>3 DEF CellsInv, CellsTypeOK, CellComputedOnce
<1>6. CellsTypeOK'
  BY <1>3 DEF CellsInv, CellsTypeOK
<1>7. CellComputedOnce'
  <2> SUFFICES ASSUME NEW u \in Threads, myCell'[u] # NoCell
               PROVE  /\ age'[newPlate[u]][myCell'[u]] < totalIterations + 1
                      /\ \A v \in Threads : v # u => myCell'[v] # myCell'[u]
    BY <1>3 DEF CellComputedOnce
  <2>1. u # t /\ myCell'[u] = myCell[u] /\ myCell[u] \in Units /\ myCell[u] # c
    BY <1>5 DEF CellsInv, CellsTypeOK
  <2>2. newPlate[u] = writePlate
    BY <2>1, HolderFacts, CellsAssumption DEF CellsInv, HeldInv, NoCell
  <2> QED BY <1>4, <1>5, <2>1, <2>2 DEF CellsInv, CellComputedOnce
<1>8. \A u \in Threads : myCell'[u] # NoCell =>
        pc'[u] = "compute" /\ myCell'[u] < currentCell'
  BY <1>3, <1>5 DEF CellsInv, HeldInv
<1>9. \A x \in Units :
        IF x < currentCell
        THEN age'[writePlate][x] = totalIterations + 1
             \/ \E u \in Threads : myCell'[u] = x
        ELSE age'[writePlate][x] < totalIterations + 1
  <2> TAKE x \in Units
  <2>1. CASE x = c
    BY <1>3, <1>4, <2>1 DEF CellsInv, HeldInv, CounterInv
  <2>2. CASE x # c
    BY <1>4, <1>5, <2>2 DEF CellsInv, CounterInv
  <2> QED BY <2>1, <2>2
<1>10. EndedInv'
  BY <1>3 DEF CellsInv, EndedInv
<1> QED BY <1>2, <1>3, <1>6, <1>7, <1>8, <1>9, <1>10
        DEF CellsInv, HeldInv, CounterInv

LEMMA DecideAndResetPreserves ==
  ASSUME DynamicIInv, NEW t \in Threads, DecideAndReset(t)
  PROVE  DynamicIInv'
<1> USE DEF DynamicIInv, TeamInv
<1>1. Decide(t) /\ pc[t] = "decide"
  BY DEF DecideAndReset, Decide, Goto
<1>2. TeamInv'
  BY <1>1, DecidePreserves
<1>3. /\ \A u \in Threads : /\ rounds[u] = totalIterations + 1
                            /\ pc[u] \in AndedLabels
      /\ \A x \in Units : age[writePlate][x] = totalIterations + 1
  BY <1>1, DecisionFacts
<1>4. \A u \in Threads : myCell[u] = NoCell
  BY <1>3 DEF CellsInv, HeldInv, AndedLabels, CountedLabels
<1>5. UNCHANGED <<myCell, rounds, age, newPlate>>
  BY DEF DecideAndReset, Decide, locals
<1>6. CASE isBalanced[writePlate] # 0
  <2>1. UNCHANGED <<currentCell, writePlate, totalIterations>>
    BY <1>6 DEF DecideAndReset, Decide
  <2> QED BY <1>2, <1>4, <1>5, <2>1
          DEF CellsInv, CellsTypeOK, CellComputedOnce, HeldInv, CounterInv, EndedInv
<1>7. CASE isBalanced[writePlate] = 0
  <2>1. /\ currentCell' = 0 /\ writePlate' = readPlate
        /\ totalIterations' = totalIterations + 1
    BY <1>7 DEF DecideAndReset, Decide
  <2>2. \A x \in Units : ~(x < currentCell')
                        /\ age'[writePlate'][x] < totalIterations' + 1
    BY <1>5, <2>1, CellsAssumption DEF PlatesInv, TypeOK
  <2>3. \A u \in Threads : rounds'[u] # totalIterations' + 1
    BY <1>3, <1>5, <2>1 DEF TypeOK
  <2> QED BY <1>2, <1>4, <1>5, <2>1, <2>2, <2>3
          DEF CellsInv, CellsTypeOK, CellComputedOnce, HeldInv, CounterInv, EndedInv
<1> QED BY <1>6, <1>7

LEMMA CommonCells ==
  ASSUME DynamicIInv, NEW t \in Threads, CommonStep(t), UNCHANGED cellVars
  PROVE  DynamicIInv'
<1> USE DEF DynamicIInv
<1>1. TeamInv'
  BY CommonPreserves
<1>2. /\ UNCHANGED <<rounds, age, writePlate, totalIterations>>
      /\ \A u \in Threads : u # t => newPlate'[u] = newPlate[u] /\ pc'[u] = pc[u]
      /\ pc[t] # "compute"
  BY DEF CommonStep, LoadPlates, TestBalanced, AndBalanced, BarrierStep,
         Arrive, ArriveLast, CloseTurnstile2, OpenTurnstile1, UnlockArrival,
         WaitTurnstile1, PostTurnstile1, Leave, LeaveLast, CloseTurnstile1,
         OpenTurnstile2, UnlockDeparture, WaitTurnstile2, PostTurnstile2,
         locals, plateVars, Goto, TeamInv, TypeOK
<1>3. myCell[t] = NoCell
  BY <1>2 DEF CellsInv, HeldInv
<1>4. CellsInv'
  BY <1>2, <1>3
  DEF CellsInv, CellsTypeOK, CellComputedOnce, HeldInv, CounterInv, EndedInv,
      cellVars
<1> QED BY <1>1, <1>4

LEMMA InitDynamic == DynamicInit => DynamicIInv
<1> SUFFICES ASSUME DynamicInit PROVE DynamicIInv
  OBVIOUS
<1>1. TeamInv
  BY InitTeam DEF DynamicInit
<1>2. CellsInv
  BY CellsAssumption
  DEF DynamicInit, Init, Plates, CellsInv, CellsTypeOK, CellComputedOnce,
      HeldInv, CounterInv, EndedInv
<1> QED BY <1>1, <1>2 DEF DynamicIInv

LEMMA DynamicPreserves == DynamicIInv /\ [DynamicNext]_dynamicVars => DynamicIInv'
<1> SUFFICES ASSUME DynamicIInv, [DynamicNext]_dynamicVars PROVE DynamicIInv'
  OBVIOUS
<1>1. CASE DynamicMainStep
  <2>1. /\ UNCHANGED <<cellVars, newPlate, rounds, age, writePlate,
                       totalIterations>>
        /\ \A t \in Threads : pc[t] = "compute" => pc'[t] = "compute"
    BY <1>1
    DEF DynamicMainStep, MainStep, CreateThread, CreateFails,
        JoinPartialTeam, JoinTeam, locals, plateVars, Goto, DynamicIInv,
        TeamInv, TypeOK
  <2> QED BY <1>1, <2>1, MainPreserves, CellsStay
          DEF DynamicMainStep, DynamicIInv
<1>2. CASE UNCHANGED dynamicVars
  BY <1>2, StutterPreserves, CellsStay
  DEF dynamicVars, vars, locals, plateVars, DynamicIInv
<1> QED BY <1>1, <1>2, CommonCells, TakeCellPreserves, ComputeCellPreserves,
           DecideAndResetPreserves
        DEF DynamicNext, DynamicThreadStep

-----------------------------------------------------------------------------
(* The team, the plates and the shared counter of cells are right in every *)
(* reachable state, for any number of threads and any plate.               *)
THEOREM DynamicInvariance == DynamicSpec => []DynamicIInv
BY InitDynamic, DynamicPreserves, PTL DEF DynamicSpec

(* The types of the counter and of the cells held by the threads.          *)
THEOREM DynamicTypes == DynamicSpec => [](TypeOK /\ CellsTypeOK)
<1>1. DynamicIInv => TypeOK /\ CellsTypeOK
  BY DEF DynamicIInv, TeamInv, CellsInv
<1> QED BY <1>1, DynamicInvariance, PTL

(* No cell is computed by two threads or twice in an iteration.            *)
THEOREM CellsComputedOnce == DynamicSpec => []CellComputedOnce
<1>1. DynamicIInv => CellComputedOnce
  BY DEF DynamicIInv, CellsInv
<1> QED BY <1>1, DynamicInvariance, PTL

(* The decision is taken on a plate of which every cell is computed.       *)
THEOREM DynamicInformed == DynamicSpec => []DecisionIsInformed
<1>1. DynamicIInv => DecisionIsInformed
  BY InformedFromInv DEF DynamicIInv
<1> QED BY <1>1, DynamicInvariance, PTL

(* The dynamic mapping also returns the plate ResultWithinOne says.        *)
THEOREM DynamicResultLag == DynamicSpec => []ResultWithinOne
<1>1. DynamicIInv => ResultWithinOne
  BY LagFromInv DEF DynamicIInv
<1> QED BY <1>1, DynamicInvariance, PTL

LEMMA DynamicStepRefines ==
  ASSUME DynamicIInv, [DynamicNext]_dynamicVars
  PROVE  [Lockstep!Next]_(Lockstep!vars)
<1> USE DEF DynamicIInv
<1>1. CASE DynamicMainStep
  BY <1>1, MainInvisible DEF DynamicMainStep
<1>2. ASSUME NEW t \in Threads, DynamicThreadStep(t)
      PROVE  [Lockstep!Next]_(Lockstep!vars)
  <2>1. CASE CommonStep(t)      BY <2>1, CommonInvisible
  <2>2. CASE DecideAndReset(t)  BY <2>2, DecideRefines DEF DecideAndReset
  <2>3. CASE ComputeCell(t)
    <3>1. UNCHANGED Lockstep!vars
      BY <2>3, ComputeCellWorks, InsideWorkInvisible DEF ComputeCell
    <3> QED BY <3>1
  <2>4. CASE TakeCell(t)
    <3>1. Works(t) /\ pc[t] = "compute"
      BY <2>4 DEF TakeCell, Works, TeamInv, TypeOK, plateVars
    <3>2. CASE rounds' = [rounds EXCEPT ![t] = @ + 1]
      <4>1. Lockstep!FinishPart(t)
        BY <3>1, <3>2, EndOfWorkRefines
      <4> QED BY <4>1 DEF Lockstep!Next
    <3>3. CASE UNCHANGED rounds
      <4>1. UNCHANGED Lockstep!vars
        BY <3>1, <3>3, InsideWorkInvisible
      <4> QED BY <4>1
    <3> QED BY <2>4, <3>2, <3>3 DEF TakeCell
  <2> QED BY <1>2, <2>1, <2>2, <2>3, <2>4 DEF DynamicThreadStep
<1>3. CASE UNCHANGED dynamicVars
  BY <1>3, UntouchedInvisible DEF dynamicVars, vars
<1> QED BY <1>1, <1>2, <1>3 DEF DynamicNext

(* With cells handed out one at a time the threads still implement the     *)
(* iteration-by-iteration simulation.                                      *)
THEOREM DynamicRefinement == DynamicSpec => ImplementsLockstep
<1>1. DynamicIInv /\ [DynamicNext]_dynamicVars
        => [Lockstep!Next]_(Lockstep!vars)
  BY DynamicStepRefines
<1> QED BY <1>1, InitRefines, DynamicInvariance, PTL
        DEF DynamicSpec, DynamicInit, ImplementsLockstep, Lockstep!Spec

-----------------------------------------------------------------------------
(* The counter.  Each thread that has ended its part has moved it past the *)
(* plate once.                                                             *)
PastInv == currentCell <= TotalCells + Cardinality(Computed)

LEMMA ComputedFinite ==
  IsFiniteSet(Computed) /\ Cardinality(Computed) \in 0 .. ThreadCount
<1>1. Computed \subseteq Threads
  BY DEF Computed
<1>2. IsFiniteSet(Computed) /\ Cardinality(Computed) <= Cardinality(Threads)
  BY <1>1, ThreadsFinite, FS_Subset
<1> QED BY <1>2, ThreadsFinite, FS_CardinalityType, ThreadCountAssumption

LEMMA PastStep ==
  ASSUME DynamicIInv, PastInv, [DynamicNext]_dynamicVars
  PROVE  PastInv'
<1> USE DEF DynamicIInv, TeamInv, CellsInv
<1>1. ASSUME UNCHANGED <<currentCell, rounds, totalIterations>>
      PROVE  PastInv'
  BY <1>1 DEF PastInv, Computed
<1>2. ASSUME NEW t \in Threads, TakeCell(t), currentCell >= TotalCells
      PROVE  PastInv'
  <2>1. /\ rounds[t] = totalIterations /\ totalIterations \in Nat
        /\ rounds' = [rounds EXCEPT ![t] = @ + 1]
        /\ totalIterations' = totalIterations /\ currentCell' = currentCell + 1
    BY <1>2, HolderFacts DEF TakeCell, plateVars, TypeOK
  <2>2. t \notin Computed /\ Computed' = Computed \union {t}
    BY <2>1 DEF Computed, TypeOK
  <2>3. Cardinality(Computed') = Cardinality(Computed) + 1
    BY <2>2, ComputedFinite, FS_AddElement
  <2> QED BY <2>1, <2>3, ComputedFinite, CellNumbers DEF PastInv, CellsTypeOK
<1>3. ASSUME NEW t \in Threads, TakeCell(t), currentCell < TotalCells
      PROVE  PastInv'
  <2>1. /\ UNCHANGED <<rounds, totalIterations>> /\ currentCell' = currentCell + 1
    BY <1>3, CellNumbers DEF TakeCell, plateVars, CellsTypeOK
  <2>2. Cardinality(Computed') = Cardinality(Computed)
    BY <2>1 DEF Computed
  <2> QED BY <1>3, <2>1, <2>2, ComputedFinite, CellNumbers DEF PastInv, CellsTypeOK
<1>4. ASSUME NEW t \in Threads, DecideAndReset(t)
      PROVE  PastInv'
  <2>1. CASE isBalanced[writePlate] = 0
    <3>1. currentCell' = 0
      BY <1>4, <2>1 DEF DecideAndReset
    <3>2. Cardinality(Computed)' \in Nat
      <4>1. Computed' \subseteq Threads
        BY DEF Computed
      <4> QED BY <4>1, ThreadsFinite, FS_Subset, FS_CardinalityType
    <3> QED BY <3>1, <3>2, CellNumbers DEF PastInv
  <2>2. CASE isBalanced[writePlate] # 0
    BY <1>1, <1>4, <2>2 DEF DecideAndReset, Decide, locals
  <2> QED BY <2>1, <2>2
<1>5. ASSUME NEW t \in Threads, CommonStep(t), UNCHANGED cellVars
      PROVE  PastInv'
  <2>1. UNCHANGED <<rounds, totalIterations>>
    BY <1>5
    DEF CommonStep, LoadPlates, TestBalanced, AndBalanced, BarrierStep,
        Arrive, ArriveLast, CloseTurnstile2, OpenTurnstile1, UnlockArrival,
        WaitTurnstile1, PostTurnstile1, Leave, LeaveLast, CloseTurnstile1,
        OpenTurnstile2, UnlockDeparture, WaitTurnstile2, PostTurnstile2,
        locals, plateVars
  <2> QED BY <1>1, <1>5, <2>1 DEF cellVars
<1>6. ASSUME NEW t \in Threads, ComputeCell(t)
      PROVE  PastInv'
  BY <1>1, <1>6 DEF ComputeCell
<1>7. CASE DynamicMainStep
  BY <1>1, <1>7
  DEF DynamicMainStep, MainStep, CreateThread, CreateFails, JoinPartialTeam, JoinTeam,
      locals, plateVars, cellVars
<1>8. CASE UNCHANGED dynamicVars
  BY <1>1, <1>8 DEF dynamicVars, vars, locals, plateVars, cellVars
<1>9. \A t \in Threads : TakeCell(t) => PastInv'
  BY <1>2, <1>3, CellNumbers DEF CellsTypeOK
<1> QED BY <1>4, <1>5, <1>6, <1>7, <1>8, <1>9 DEF DynamicNext, DynamicThreadStep

(* The counter exceeds the plate by one for each thread at most, for every *)
(* number of threads and cells (optimized/src/solution.c:167 and 213).     *)
THEOREM CounterStaysBounded == DynamicSpec => []CounterBounded
<1>1. DynamicInit => PastInv
  <2> SUFFICES ASSUME DynamicInit PROVE PastInv
    OBVIOUS
  <2>1. currentCell = 0
    BY DEF DynamicInit
  <2> QED BY <2>1, ComputedFinite, CellNumbers DEF PastInv
<1>2. DynamicIInv /\ PastInv => CounterBounded
  <2> SUFFICES ASSUME DynamicIInv, PastInv PROVE CounterBounded
    OBVIOUS
  <2>1. currentCell \in Nat
    BY DEF DynamicIInv, CellsInv, CellsTypeOK
  <2> QED BY <2>1, ComputedFinite, CellNumbers, ThreadCountAssumption DEF PastInv, CounterBounded
<1> QED BY <1>1, <1>2, PastStep, DynamicInvariance, PTL DEF DynamicSpec

LEMMA TakeCellAwake ==
  ASSUME DynamicIInv, AwakeInv, NEW t \in Threads, TakeCell(t)
  PROVE  AwakeInv'
<1>1. created' = created /\ UNCHANGED <<turnstile1, barrier>>
  BY DEF TakeCell, mainVars, barrier
<1>2. CASE Goto(t, "compute", "and")
  BY <1>1, <1>2, GotoMoves, MoveAwake DEF DynamicIInv, TeamInv
<1>3. CASE UNCHANGED pc
  BY <1>1, <1>3 DEF AwakeInv, Leaving
<1> QED BY <1>2, <1>3 DEF TakeCell

LEMMA ComputeCellAwake ==
  ASSUME AwakeInv, NEW t \in Threads, ComputeCell(t)
  PROVE  AwakeInv'
BY DEF ComputeCell, AwakeInv, Leaving, mainVars, barrier

LEMMA DynamicAwake ==
  DynamicIInv /\ AwakeInv /\ [DynamicNext]_dynamicVars => AwakeInv'
<1> SUFFICES ASSUME DynamicIInv, AwakeInv, [DynamicNext]_dynamicVars
             PROVE  AwakeInv'
  OBVIOUS
<1>1. TeamInv
  BY DEF DynamicIInv
<1>2. CASE DynamicMainStep
  BY <1>1, <1>2, MainAwake DEF DynamicMainStep
<1>3. ASSUME NEW t \in Threads, DynamicThreadStep(t) PROVE AwakeInv'
  BY <1>1, <1>3, ThreadAwake, TakeCellAwake, ComputeCellAwake
  DEF DynamicThreadStep, DecideAndReset
<1>4. CASE UNCHANGED dynamicVars
  BY <1>4, StutterAwake DEF dynamicVars
<1> QED BY <1>2, <1>3, <1>4 DEF DynamicNext

(* The team that takes its cells from the shared counter never stops       *)
(* either: the counter's mutex is held for one step only, and the barrier  *)
(* is the same.                                                            *)
THEOREM DynamicNeverStops == DynamicSpec => []TeamGoesOn
<1>1. DynamicInit => AwakeInv
  BY InitAwake DEF DynamicInit
<1>2. DynamicIInv /\ AwakeInv => TeamGoesOn
  BY GoesOnFromInv DEF DynamicIInv
<1> QED BY <1>1, <1>2, DynamicAwake, DynamicInvariance, PTL DEF DynamicSpec
=============================================================================
