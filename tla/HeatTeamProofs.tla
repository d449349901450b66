--------------------------- MODULE HeatTeamProofs ---------------------------
(***************************************************************************)
(* What the common steps of the team preserve, for every number of threads *)
(* and every plate, and what the invariant of the team implies.            *)
(***************************************************************************)
EXTENDS HeatTeam, FiniteSetTheorems, TLAPS

LEMMA GotoMoves ==
  ASSUME TypeOK, NEW t \in Threads, NEW from, NEW to, Goto(t, from, to)
  PROVE  /\ pc[t] = from
         /\ pc'[t] = to
         /\ \A u \in Threads : u # t => pc'[u] = pc[u]
         /\ DOMAIN pc' = Threads
BY DEF TypeOK, Goto

LEMMA ThreadsFinite == IsFiniteSet(Threads) /\ Cardinality(Threads) = ThreadCount
<1>1. IsFiniteSet(0 .. ThreadCount - 1)
      /\ Cardinality(0 .. ThreadCount - 1) = ThreadCount
  BY ThreadCountAssumption, FS_Interval
<1> QED BY <1>1 DEF Threads

LEMMA InitTeam == Init => TeamInv
<1> SUFFICES ASSUME Init PROVE TeamInv
  OBVIOUS
<1>1. TypeOK
  BY ThreadCountAssumption DEF Init, TypeOK, Labels, Plates, Free, Threads
<1>2. CountInv
  <2>1. Counted = {}
    BY DEF Init, Counted, CountedLabels
  <2> QED BY <2>1, FS_EmptySet DEF Init, CountInv
<1>3. MutexInv
  BY DEF Init, MutexInv, HoldingLabels, Threads, Free
<1>4. PermitInv /\ ~Leaving
  BY DEF Init, PermitInv, BearingLabels, Leaving
<1>5. HalfInv /\ LastInv
  BY <1>4 DEF Init, HalfInv, ArrivingLabels, LastInv
<1>6. ~Declared
  BY DEF Init, Declared, Plates
<1>7. RoundsInv
  BY <1>4, <1>6 DEF Init, RoundsInv, FreshLabels
<1>8. PlatesInv
  BY DEF Init, PlatesInv, Plates
<1>9. FlagsInv
  BY <1>6 DEF Init, FlagsInv, Plates
<1>10. WorkInv
  <2>1. 0 \in Threads /\ rounds[0] # totalIterations + 1
    BY ThreadCountAssumption DEF Init, Threads
  <2> QED BY <2>1 DEF WorkInv
<1>11. MainInv
  BY ThreadCountAssumption DEF Init, MainInv
<1> QED BY <1>1, <1>2, <1>3, <1>5, <1>4, <1>7, <1>8, <1>9, <1>10, <1>11
        DEF TeamInv

LEMMA TypeStep ==
  ASSUME TypeOK,
         MainStep \/ \E t \in Threads : CommonStep(t) \/ Decide(t)
  PROVE  TypeOK'
<1> USE DEF TypeOK, Goto, Labels
<1>1. ASSUME MainStep PROVE TypeOK'
  <2> USE DEF locals, plateVars, barrier
  <2>1. CASE CreateThread
    BY <2>1, ThreadCountAssumption DEF CreateThread, Threads
  <2>2. CASE CreateFails      BY <2>2 DEF CreateFails
  <2>3. CASE JoinPartialTeam  BY <2>3 DEF JoinPartialTeam
  <2>4. CASE JoinTeam         BY <2>4 DEF JoinTeam
  <2> QED BY <1>1, <2>1, <2>2, <2>3, <2>4 DEF MainStep
<1>2. ASSUME NEW t \in Threads, CommonStep(t) \/ Decide(t) PROVE TypeOK'
  <2> USE DEF mainVars, locals, plateVars, barrier
  <2>1. CASE LoadPlates(t)       BY <2>1 DEF LoadPlates
  <2>2. CASE TestBalanced(t)     BY <2>2 DEF TestBalanced
  <2>4. CASE AndBalanced(t)      BY <2>4 DEF AndBalanced
  <2>5. CASE Arrive(t)           BY <2>5 DEF Arrive
  <2>6. CASE ArriveLast(t)       BY <2>6 DEF ArriveLast
  <2>7. CASE CloseTurnstile2(t)  BY <2>7 DEF CloseTurnstile2
  <2>8. CASE OpenTurnstile1(t)   BY <2>8 DEF OpenTurnstile1
  <2>9. CASE Decide(t)
    <3>1. isBalanced' \in [Plates -> 0 .. 2]
      <4>1. PICK mark \in 0 .. 2 :
              isBalanced' = [isBalanced EXCEPT ![writePlate] = mark]
        BY <2>9 DEF Decide
      <4> QED BY <4>1
    <3>2. /\ readPlate' \in Plates /\ writePlate' \in Plates
          /\ totalIterations' \in Nat
      BY <2>9 DEF Decide
    <3> QED BY <2>9, <3>1, <3>2 DEF Decide
  <2>10. CASE UnlockArrival(t)   BY <2>10 DEF UnlockArrival
  <2>11. CASE WaitTurnstile1(t)  BY <2>11 DEF WaitTurnstile1
  <2>12. CASE PostTurnstile1(t)  BY <2>12 DEF PostTurnstile1
  <2>13. CASE Leave(t)           BY <2>13 DEF Leave
  <2>14. CASE LeaveLast(t)       BY <2>14 DEF LeaveLast
  <2>15. CASE CloseTurnstile1(t) BY <2>15 DEF CloseTurnstile1
  <2>16. CASE OpenTurnstile2(t)  BY <2>16 DEF OpenTurnstile2
  <2>17. CASE UnlockDeparture(t) BY <2>17 DEF UnlockDeparture
  <2>18. CASE WaitTurnstile2(t)  BY <2>18 DEF WaitTurnstile2
  <2>19. CASE PostTurnstile2(t)  BY <2>19 DEF PostTurnstile2
  <2> QED BY <1>2, <2>1, <2>2, <2>4, <2>5, <2>6, <2>7, <2>8, <2>9, <2>10,
             <2>11, <2>12, <2>13, <2>14, <2>15, <2>16, <2>17, <2>18, <2>19
          DEF CommonStep, BarrierStep
<1> QED BY <1>1, <1>2

-----------------------------------------------------------------------------
(* The barrier: the counter, the mutex, the permit and the two halves.     *)

BarrierInv == CountInv /\ MutexInv /\ PermitInv /\ HalfInv /\ LastInv

(* Thread t goes from one label to another and the others stay.            *)
Moves(t, from, to) ==
  /\ pc[t] = from
  /\ pc'[t] = to
  /\ \A u \in Threads : u # t => pc'[u] = pc[u]

LEMMA CountedFinite == IsFiniteSet(Counted) /\ Cardinality(Counted) \in Nat
  BY ThreadsFinite, FS_Subset, FS_CardinalityType DEF Counted

(* A thread that becomes counted adds one to the cardinality, one that     *)
(* stops being counted removes one, any other move leaves it alone.        *)
LEMMA CountArrives ==
  ASSUME CountInv, NEW t \in Threads, NEW from, NEW to, Moves(t, from, to),
         from \notin CountedLabels, to \in CountedLabels,
         barrierCount' = barrierCount + 1
  PROVE  CountInv'
<1>1. Counted' = Counted \union {t} /\ t \notin Counted
  BY DEF Counted, Moves, CountedLabels
<1> QED BY <1>1, CountedFinite, FS_AddElement DEF CountInv

LEMMA CountLeaves ==
  ASSUME CountInv, NEW t \in Threads, NEW from, NEW to, Moves(t, from, to),
         from \in CountedLabels, to \notin CountedLabels,
         barrierCount' = barrierCount - 1
  PROVE  CountInv'
<1>1. Counted' = Counted \ {t} /\ t \in Counted
  BY DEF Counted, Moves, CountedLabels
<1> QED BY <1>1, CountedFinite, FS_RemoveElement DEF CountInv

LEMMA CountStays ==
  ASSUME CountInv, NEW t \in Threads, NEW from, NEW to, Moves(t, from, to),
         from \in CountedLabels <=> to \in CountedLabels,
         barrierCount' = barrierCount
  PROVE  CountInv'
<1>1. Counted' = Counted
  BY DEF Counted, Moves, CountedLabels
<1> QED BY <1>1 DEF CountInv

(* The last thread to arrive finds all the others counted, the last one to *)
(* leave finds none.                                                       *)
LEMMA AllCounted ==
  ASSUME CountInv, NEW t \in Threads, t \notin Counted,
         barrierCount + 1 = ThreadCount
  PROVE  \A u \in Threads : u # t => u \in Counted
<1>1. /\ IsFiniteSet(Counted \union {t})
      /\ Cardinality(Counted \union {t}) = ThreadCount
  BY CountedFinite, FS_AddElement DEF CountInv
<1>2. Counted \union {t} \subseteq Threads
  BY DEF Counted
<1>3. Counted \union {t} = Threads
  BY <1>1, <1>2, ThreadsFinite, FS_Subset
<1> QED BY <1>3

LEMMA NoneCounted ==
  ASSUME CountInv, NEW t \in Threads, t \in Counted, barrierCount - 1 = 0
  PROVE  \A u \in Threads : u # t => u \notin Counted
<1>1. Cardinality(Counted \ {t}) = 0 /\ IsFiniteSet(Counted \ {t})
  BY CountedFinite, FS_RemoveElement DEF CountInv
<1>2. Counted \ {t} = {}
  BY <1>1, FS_EmptySet
<1> QED BY <1>2

(* Moves outside the barrier disturb none of it.                           *)
OutsideLabels == {"new", "load", "test", "compute", "and", "arrive", "done"}

LEMMA OutsideStep ==
  ASSUME TypeOK, BarrierInv, NEW t \in Threads,
         NEW from \in OutsideLabels, NEW to \in OutsideLabels,
         Moves(t, from, to), UNCHANGED barrier
  PROVE  BarrierInv' /\ (Leaving' <=> Leaving)
<1> USE DEF BarrierInv, OutsideLabels, Moves, barrier
<1>1. CountInv'
  BY CountStays DEF CountedLabels
<1>2. MutexInv'
  BY DEF MutexInv, HoldingLabels
<1>3. PermitInv'
  BY DEF PermitInv, BearingLabels
<1>4. Leaving' <=> Leaving
  BY DEF Leaving
<1>5. HalfInv'
  BY <1>4 DEF HalfInv, LeavingLabels, ArrivingLabels
<1>6. LastInv'
  BY DEF LastInv
<1> QED BY <1>1, <1>2, <1>3, <1>4, <1>5, <1>6
-----------------------------------------------------------------------------
(* One lemma per step of the barrier: it preserves BarrierInv, and only    *)
(* the two that open a turnstile change the half.                          *)

LEMMA ArriveStep ==
  ASSUME TypeOK, BarrierInv, NEW t \in Threads, Arrive(t)
  PROVE  BarrierInv' /\ (Leaving' <=> Leaving)
<1> USE DEF BarrierInv, Moves
<1>1. Moves(t, "arrive", "gateOne")
  BY GotoMoves DEF Arrive
<1>2. CountInv'
  BY <1>1, CountArrives DEF Arrive, CountedLabels
<1>3. MutexInv'
  BY <1>1 DEF Arrive, MutexInv, HoldingLabels, Free, Threads
<1>4. PermitInv'
  BY <1>1 DEF TypeOK, Arrive, PermitInv, BearingLabels
<1>5. (Leaving' <=> Leaving)
  BY <1>1 DEF TypeOK, Arrive, Leaving, PermitInv, BearingLabels
<1>6. HalfInv'
  BY <1>1, <1>5 DEF Arrive, HalfInv, LastInv, LeavingLabels, ArrivingLabels
<1>7. LastInv'
  BY <1>1 DEF Arrive, LastInv, MutexInv, HoldingLabels, Free, Threads
<1> QED BY <1>2, <1>3, <1>4, <1>5, <1>6, <1>7

LEMMA ArriveLastStep ==
  ASSUME TypeOK, BarrierInv, NEW t \in Threads, ArriveLast(t)
  PROVE  BarrierInv' /\ (Leaving' <=> Leaving)
<1> USE DEF BarrierInv, Moves
<1>1. Moves(t, "arrive", "takeTwo")
  BY GotoMoves DEF ArriveLast
<1>a. \A u \in Threads : u # t => pc[u] = "gateOne"
  BY <1>1, AllCounted DEF ArriveLast, Counted, CountedLabels, HalfInv, Leaving, LeavingLabels,
     ArrivingLabels, MutexInv, HoldingLabels, Free, Threads
<1>2. CountInv'
  BY <1>1, CountArrives DEF ArriveLast, CountedLabels
<1>3. MutexInv'
  BY <1>1 DEF ArriveLast, MutexInv, HoldingLabels, Free, Threads
<1>4. PermitInv'
  BY <1>1 DEF TypeOK, ArriveLast, PermitInv, BearingLabels
<1>5. (Leaving' <=> Leaving)
  BY <1>1 DEF TypeOK, ArriveLast, Leaving, PermitInv, BearingLabels
<1>6. HalfInv'
  BY <1>1, <1>5, <1>a DEF ArriveLast, HalfInv, LastInv, LeavingLabels, ArrivingLabels
<1>7. LastInv'
  BY <1>1, <1>a DEF LastInv
<1> QED BY <1>2, <1>3, <1>4, <1>5, <1>6, <1>7

LEMMA CloseTurnstile2Step ==
  ASSUME TypeOK, BarrierInv, NEW t \in Threads, CloseTurnstile2(t)
  PROVE  BarrierInv' /\ (Leaving' <=> Leaving)
<1> USE DEF BarrierInv, Moves
<1>1. Moves(t, "takeTwo", "openOne")
  BY GotoMoves DEF CloseTurnstile2
<1>2. CountInv'
  BY <1>1, CountStays DEF CloseTurnstile2, CountedLabels
<1>3. MutexInv'
  BY <1>1 DEF CloseTurnstile2, MutexInv, HoldingLabels, Free, Threads
<1>4. PermitInv'
  BY <1>1 DEF TypeOK, CloseTurnstile2, PermitInv, BearingLabels
<1>5. (Leaving' <=> Leaving)
  BY <1>1 DEF TypeOK, CloseTurnstile2, Leaving, PermitInv, BearingLabels
<1>6. HalfInv'
  BY <1>1, <1>5 DEF CloseTurnstile2, HalfInv, LastInv, LeavingLabels, ArrivingLabels
<1>7. LastInv'
  BY <1>1 DEF CloseTurnstile2, LastInv
<1> QED BY <1>2, <1>3, <1>4, <1>5, <1>6, <1>7

LEMMA OpenTurnstile1Step ==
  ASSUME TypeOK, BarrierInv, NEW t \in Threads, OpenTurnstile1(t)
  PROVE  BarrierInv' /\ ~Leaving /\ Leaving'
<1> USE DEF BarrierInv, Moves
<1>1. Moves(t, "openOne", "decide")
  BY GotoMoves DEF OpenTurnstile1
<1>b. /\ turnstile1 = 0 /\ turnstile2 = 0
      /\ \A u \in Threads : u # t => pc[u] \notin BearingLabels
  BY <1>1 DEF TypeOK, PermitInv, BearingLabels
<1>2. CountInv'
  BY <1>1, CountStays DEF OpenTurnstile1, CountedLabels
<1>3. MutexInv'
  BY <1>1 DEF OpenTurnstile1, MutexInv, HoldingLabels, Free, Threads
<1>4. PermitInv'
  BY <1>1, <1>b DEF OpenTurnstile1, PermitInv, BearingLabels
<1>5. ~Leaving /\ Leaving'
  BY <1>1, <1>b DEF OpenTurnstile1, Leaving, BearingLabels
<1>6. HalfInv'
  BY <1>1, <1>5 DEF OpenTurnstile1, HalfInv, LastInv, LeavingLabels, ArrivingLabels
<1>7. LastInv'
  BY <1>1 DEF OpenTurnstile1, LastInv
<1> QED BY <1>2, <1>3, <1>4, <1>5, <1>6, <1>7

LEMMA UnlockArrivalStep ==
  ASSUME TypeOK, BarrierInv, NEW t \in Threads, UnlockArrival(t)
  PROVE  BarrierInv' /\ (Leaving' <=> Leaving)
<1> USE DEF BarrierInv, Moves
<1>1. Moves(t, "unlockIn", "gateOne")
  BY GotoMoves DEF UnlockArrival
<1>2. CountInv'
  BY <1>1, CountStays DEF UnlockArrival, CountedLabels
<1>3. MutexInv'
  BY <1>1 DEF UnlockArrival, MutexInv, HoldingLabels, Free, Threads
<1>4. PermitInv'
  BY <1>1 DEF TypeOK, UnlockArrival, PermitInv, BearingLabels
<1>5. (Leaving' <=> Leaving)
  BY <1>1 DEF TypeOK, UnlockArrival, Leaving, PermitInv, BearingLabels
<1>6. HalfInv'
  BY <1>1, <1>5 DEF UnlockArrival, HalfInv, LastInv, LeavingLabels, ArrivingLabels
<1>7. LastInv'
  BY <1>1 DEF UnlockArrival, LastInv
<1> QED BY <1>2, <1>3, <1>4, <1>5, <1>6, <1>7

LEMMA WaitTurnstile1Step ==
  ASSUME TypeOK, BarrierInv, NEW t \in Threads, WaitTurnstile1(t)
  PROVE  BarrierInv' /\ (Leaving' <=> Leaving)
<1> USE DEF BarrierInv, Moves
<1>1. Moves(t, "gateOne", "passOne")
  BY GotoMoves DEF WaitTurnstile1
<1>c. Leaving /\ pc[t] = "gateOne"
  BY <1>1 DEF TypeOK, WaitTurnstile1, Leaving, PermitInv, BearingLabels
<1>2. CountInv'
  BY <1>1, CountStays DEF WaitTurnstile1, CountedLabels
<1>3. MutexInv'
  BY <1>1 DEF WaitTurnstile1, MutexInv, HoldingLabels, Free, Threads
<1>4. PermitInv'
  BY <1>1 DEF TypeOK, WaitTurnstile1, PermitInv, BearingLabels
<1>5. (Leaving' <=> Leaving)
  BY <1>1 DEF TypeOK, WaitTurnstile1, Leaving, PermitInv, BearingLabels
<1>6. HalfInv'
  BY <1>1, <1>5, <1>c DEF HalfInv, LeavingLabels, ArrivingLabels
<1>7. LastInv'
  BY <1>1, <1>c DEF LastInv, HalfInv, LeavingLabels, ArrivingLabels
<1> QED BY <1>2, <1>3, <1>4, <1>5, <1>6, <1>7

LEMMA PostTurnstile1Step ==
  ASSUME TypeOK, BarrierInv, NEW t \in Threads, PostTurnstile1(t)
  PROVE  BarrierInv' /\ (Leaving' <=> Leaving)
<1> USE DEF BarrierInv, Moves
<1>1. Moves(t, "passOne", "leave")
  BY GotoMoves DEF PostTurnstile1
<1>b. /\ turnstile1 = 0 /\ turnstile2 = 0
      /\ \A u \in Threads : u # t => pc[u] \notin BearingLabels
  BY <1>1 DEF TypeOK, PermitInv, BearingLabels
<1>2. CountInv'
  BY <1>1, CountStays DEF PostTurnstile1, CountedLabels
<1>3. MutexInv'
  BY <1>1 DEF PostTurnstile1, MutexInv, HoldingLabels, Free, Threads
<1>4. PermitInv'
  BY <1>1, <1>b DEF PostTurnstile1, PermitInv, BearingLabels
<1>5. (Leaving' <=> Leaving)
  BY <1>1, <1>b DEF PostTurnstile1, Leaving, BearingLabels
<1>6. HalfInv'
  BY <1>1, <1>5 DEF PostTurnstile1, HalfInv, LastInv, LeavingLabels, ArrivingLabels
<1>7. LastInv'
  BY <1>1 DEF PostTurnstile1, LastInv
<1> QED BY <1>2, <1>3, <1>4, <1>5, <1>6, <1>7

LEMMA LeaveStep ==
  ASSUME TypeOK, BarrierInv, NEW t \in Threads, Leave(t)
  PROVE  BarrierInv' /\ (Leaving' <=> Leaving)
<1> USE DEF BarrierInv, Moves
<1>1. Moves(t, "leave", "gateTwo")
  BY GotoMoves DEF Leave
<1>2. CountInv'
  BY <1>1, CountLeaves DEF Leave, CountedLabels
<1>3. MutexInv'
  BY <1>1 DEF Leave, MutexInv, HoldingLabels, Free, Threads
<1>4. PermitInv'
  BY <1>1 DEF TypeOK, Leave, PermitInv, BearingLabels
<1>5. (Leaving' <=> Leaving)
  BY <1>1 DEF TypeOK, Leave, Leaving, PermitInv, BearingLabels
<1>6. HalfInv'
  BY <1>1, <1>5 DEF Leave, HalfInv, LastInv, LeavingLabels, ArrivingLabels
<1>7. LastInv'
  BY <1>1 DEF Leave, LastInv, MutexInv, HoldingLabels, Free, Threads
<1> QED BY <1>2, <1>3, <1>4, <1>5, <1>6, <1>7

LEMMA LeaveLastStep ==
  ASSUME TypeOK, BarrierInv, NEW t \in Threads, LeaveLast(t)
  PROVE  BarrierInv' /\ (Leaving' <=> Leaving)
<1> USE DEF BarrierInv, Moves
<1>1. Moves(t, "leave", "takeOne")
  BY GotoMoves DEF LeaveLast
<1>a. \A u \in Threads : u # t => pc[u] = "gateTwo"
  BY <1>1, NoneCounted DEF LeaveLast, Counted, CountedLabels, HalfInv, Leaving, LeavingLabels,
     ArrivingLabels, MutexInv, HoldingLabels, Free, Threads
<1>2. CountInv'
  BY <1>1, CountLeaves DEF LeaveLast, CountedLabels
<1>3. MutexInv'
  BY <1>1 DEF LeaveLast, MutexInv, HoldingLabels, Free, Threads
<1>4. PermitInv'
  BY <1>1 DEF TypeOK, LeaveLast, PermitInv, BearingLabels
<1>5. (Leaving' <=> Leaving)
  BY <1>1 DEF TypeOK, LeaveLast, Leaving, PermitInv, BearingLabels
<1>6. HalfInv'
  BY <1>1, <1>5, <1>a DEF LeaveLast, HalfInv, LastInv, LeavingLabels, ArrivingLabels
<1>7. LastInv'
  BY <1>1, <1>a DEF LastInv
<1> QED BY <1>2, <1>3, <1>4, <1>5, <1>6, <1>7

LEMMA CloseTurnstile1Step ==
  ASSUME TypeOK, BarrierInv, NEW t \in Threads, CloseTurnstile1(t)
  PROVE  BarrierInv' /\ (Leaving' <=> Leaving)
<1> USE DEF BarrierInv, Moves
<1>1. Moves(t, "takeOne", "openTwo")
  BY GotoMoves DEF CloseTurnstile1
<1>2. CountInv'
  BY <1>1, CountStays DEF CloseTurnstile1, CountedLabels
<1>3. MutexInv'
  BY <1>1 DEF CloseTurnstile1, MutexInv, HoldingLabels, Free, Threads
<1>4. PermitInv'
  BY <1>1 DEF TypeOK, CloseTurnstile1, PermitInv, BearingLabels
<1>5. (Leaving' <=> Leaving)
  BY <1>1 DEF TypeOK, CloseTurnstile1, Leaving, PermitInv, BearingLabels
<1>6. HalfInv'
  BY <1>1, <1>5 DEF CloseTurnstile1, HalfInv, LastInv, LeavingLabels, ArrivingLabels
<1>7. LastInv'
  BY <1>1 DEF CloseTurnstile1, LastInv
<1> QED BY <1>2, <1>3, <1>4, <1>5, <1>6, <1>7

LEMMA OpenTurnstile2Step ==
  ASSUME TypeOK, BarrierInv, NEW t \in Threads, OpenTurnstile2(t)
  PROVE  BarrierInv' /\ Leaving /\ ~Leaving'
<1> USE DEF BarrierInv, Moves
<1>1. Moves(t, "openTwo", "unlockOut")
  BY GotoMoves DEF OpenTurnstile2
<1>b. /\ turnstile1 = 0 /\ turnstile2 = 0
      /\ \A u \in Threads : u # t => pc[u] \notin BearingLabels
  BY <1>1 DEF TypeOK, PermitInv, BearingLabels
<1>2. CountInv'
  BY <1>1, CountStays DEF OpenTurnstile2, CountedLabels
<1>3. MutexInv'
  BY <1>1 DEF OpenTurnstile2, MutexInv, HoldingLabels, Free, Threads
<1>4. PermitInv'
  BY <1>1, <1>b DEF OpenTurnstile2, PermitInv, BearingLabels
<1>5. Leaving /\ ~Leaving'
  BY <1>1, <1>b DEF OpenTurnstile2, Leaving, BearingLabels
<1>6. HalfInv'
  BY <1>1, <1>5 DEF OpenTurnstile2, HalfInv, LastInv, LeavingLabels, ArrivingLabels
<1>7. LastInv'
  BY <1>1 DEF OpenTurnstile2, LastInv
<1> QED BY <1>2, <1>3, <1>4, <1>5, <1>6, <1>7

LEMMA UnlockDepartureStep ==
  ASSUME TypeOK, BarrierInv, NEW t \in Threads, UnlockDeparture(t)
  PROVE  BarrierInv' /\ (Leaving' <=> Leaving)
<1> USE DEF BarrierInv, Moves
<1>1. Moves(t, "unlockOut", "gateTwo")
  BY GotoMoves DEF UnlockDeparture
<1>2. CountInv'
  BY <1>1, CountStays DEF UnlockDeparture, CountedLabels
<1>3. MutexInv'
  BY <1>1 DEF UnlockDeparture, MutexInv, HoldingLabels, Free, Threads
<1>4. PermitInv'
  BY <1>1 DEF TypeOK, UnlockDeparture, PermitInv, BearingLabels
<1>5. (Leaving' <=> Leaving)
  BY <1>1 DEF TypeOK, UnlockDeparture, Leaving, PermitInv, BearingLabels
<1>6. HalfInv'
  BY <1>1, <1>5 DEF UnlockDeparture, HalfInv, LastInv, LeavingLabels, ArrivingLabels
<1>7. LastInv'
  BY <1>1 DEF UnlockDeparture, LastInv
<1> QED BY <1>2, <1>3, <1>4, <1>5, <1>6, <1>7

LEMMA WaitTurnstile2Step ==
  ASSUME TypeOK, BarrierInv, NEW t \in Threads, WaitTurnstile2(t)
  PROVE  BarrierInv' /\ (Leaving' <=> Leaving)
<1> USE DEF BarrierInv, Moves
<1>1. Moves(t, "gateTwo", "passTwo")
  BY GotoMoves DEF WaitTurnstile2
<1>c. ~Leaving /\ pc[t] = "gateTwo"
  BY <1>1 DEF TypeOK, WaitTurnstile2, Leaving, PermitInv, BearingLabels
<1>2. CountInv'
  BY <1>1, CountStays DEF WaitTurnstile2, CountedLabels
<1>3. MutexInv'
  BY <1>1 DEF WaitTurnstile2, MutexInv, HoldingLabels, Free, Threads
<1>4. PermitInv'
  BY <1>1 DEF TypeOK, WaitTurnstile2, PermitInv, BearingLabels
<1>5. (Leaving' <=> Leaving)
  BY <1>1 DEF TypeOK, WaitTurnstile2, Leaving, PermitInv, BearingLabels
<1>6. HalfInv'
  BY <1>1, <1>5, <1>c DEF HalfInv, LeavingLabels, ArrivingLabels
<1>7. LastInv'
  BY <1>1, <1>c DEF LastInv, HalfInv, LeavingLabels, ArrivingLabels
<1> QED BY <1>2, <1>3, <1>4, <1>5, <1>6, <1>7

LEMMA PostTurnstile2Step ==
  ASSUME TypeOK, BarrierInv, NEW t \in Threads, PostTurnstile2(t)
  PROVE  BarrierInv' /\ (Leaving' <=> Leaving)
<1> USE DEF BarrierInv, Moves
<1>1. Moves(t, "passTwo", "load")
  BY GotoMoves DEF PostTurnstile2
<1>b. /\ turnstile1 = 0 /\ turnstile2 = 0
      /\ \A u \in Threads : u # t => pc[u] \notin BearingLabels
  BY <1>1 DEF TypeOK, PermitInv, BearingLabels
<1>2. CountInv'
  BY <1>1, CountStays DEF PostTurnstile2, CountedLabels
<1>3. MutexInv'
  BY <1>1 DEF PostTurnstile2, MutexInv, HoldingLabels, Free, Threads
<1>4. PermitInv'
  BY <1>1, <1>b DEF PostTurnstile2, PermitInv, BearingLabels
<1>5. (Leaving' <=> Leaving)
  BY <1>1, <1>b DEF PostTurnstile2, Leaving, BearingLabels
<1>6. HalfInv'
  BY <1>1, <1>5 DEF PostTurnstile2, HalfInv, LastInv, LeavingLabels, ArrivingLabels
<1>7. LastInv'
  BY <1>1 DEF PostTurnstile2, LastInv
<1> QED BY <1>2, <1>3, <1>4, <1>5, <1>6, <1>7
-----------------------------------------------------------------------------
(* Plates, flags and iteration counts.                                     *)

DataInv == RoundsInv /\ PlatesInv /\ WorkInv /\ FlagsInv

LEMMA UndecidedStays ==
  ASSUME NEW t \in Threads, NEW from, NEW to, Moves(t, from, to),
         from # "decide", to # "decide", Leaving' <=> Leaving
  PROVE  Undecided' <=> Undecided
BY DEF Undecided, Moves

(* A step that touches neither the plates nor the locals of a thread.      *)
LEMMA DataStays ==
  ASSUME TypeOK, DataInv, NEW t \in Threads, NEW from, NEW to,
         Moves(t, from, to), UNCHANGED <<locals, plateVars>>,
         Leaving' <=> Leaving, Undecided' <=> Undecided,
         to \notin {"done", "decide", "test", "compute", "and"},
         from \in ExitLabels => to \in ExitLabels,
         Undecided => (from \in FreshLabels <=> to \in FreshLabels),
         Undecided => (from \in AndedLabels <=> to \in AndedLabels)
  PROVE  DataInv'
<1> USE DEF DataInv, Moves, locals, plateVars
<1>1. Declared' <=> Declared
  BY DEF Declared
<1>2. RoundsInv'
  BY <1>1 DEF RoundsInv
<1>3. PlatesInv'
  BY DEF PlatesInv
<1>4. WorkInv'
  BY DEF WorkInv
<1>5. FlagsInv'
  BY <1>1 DEF FlagsInv
<1> QED BY <1>2, <1>3, <1>4, <1>5

LEMMA MainStays ==
  ASSUME TypeOK, MainInv, NEW t \in Threads, NEW from, NEW to,
         Moves(t, from, to), from \notin {"new", "done"},
         UNCHANGED mainVars
  PROVE  MainInv'
BY DEF TypeOK, MainInv, Moves, mainVars, Joinable

(* The barrier steps that open no turnstile and decide nothing.            *)
LEMMA QuietSteps ==
  ASSUME TeamInv, NEW t \in Threads,
         \/ Arrive(t)
         \/ ArriveLast(t)
         \/ CloseTurnstile2(t)
         \/ UnlockArrival(t)
         \/ WaitTurnstile1(t)
         \/ PostTurnstile1(t)
         \/ Leave(t)
         \/ LeaveLast(t)
         \/ CloseTurnstile1(t)
         \/ UnlockDeparture(t)
         \/ WaitTurnstile2(t)
         \/ PostTurnstile2(t)
  PROVE  TeamInv'
<1> USE DEF TeamInv, BarrierInv, DataInv
<1>1. TypeOK'
  BY TypeStep DEF CommonStep, BarrierStep
<1>2. ASSUME NEW from, NEW to, Moves(t, from, to),
             from \notin {"new", "done", "decide"},
             UNCHANGED <<mainVars, locals, plateVars>>,
             BarrierInv', Leaving' <=> Leaving,
             to \notin {"done", "decide", "test", "compute", "and"},
             from \in ExitLabels => to \in ExitLabels,
             Undecided => (from \in FreshLabels <=> to \in FreshLabels),
             Undecided => (from \in AndedLabels <=> to \in AndedLabels)
      PROVE  TeamInv'
  <2>1. Undecided' <=> Undecided
    BY <1>2, UndecidedStays
  <2>2. DataInv'
    BY <1>2, <2>1, DataStays
  <2>3. MainInv'
    BY <1>2, MainStays DEF mainVars
  <2> QED BY <1>1, <1>2, <2>2, <2>3
<1> USE DEF ExitLabels, FreshLabels, AndedLabels, CountedLabels
<1>3. CASE Arrive(t)
  <2>1. Moves(t, "arrive", "gateOne") /\ UNCHANGED <<mainVars, locals, plateVars>>
    BY <1>3, GotoMoves DEF Arrive, Moves
  <2>2. BarrierInv' /\ (Leaving' <=> Leaving)
    BY <1>3, ArriveStep
  <2> QED BY <1>2, <2>1, <2>2
<1>4. CASE ArriveLast(t)
  <2>1. Moves(t, "arrive", "takeTwo") /\ UNCHANGED <<mainVars, locals, plateVars>>
    BY <1>4, GotoMoves DEF ArriveLast, Moves
  <2>2. BarrierInv' /\ (Leaving' <=> Leaving)
    BY <1>4, ArriveLastStep
  <2> QED BY <1>2, <2>1, <2>2
<1>5. CASE CloseTurnstile2(t)
  <2>1. Moves(t, "takeTwo", "openOne") /\ UNCHANGED <<mainVars, locals, plateVars>>
    BY <1>5, GotoMoves DEF CloseTurnstile2, Moves
  <2>2. BarrierInv' /\ (Leaving' <=> Leaving)
    BY <1>5, CloseTurnstile2Step
  <2> QED BY <1>2, <2>1, <2>2
<1>6. CASE UnlockArrival(t)
  <2>1. Moves(t, "unlockIn", "gateOne") /\ UNCHANGED <<mainVars, locals, plateVars>>
    BY <1>6, GotoMoves DEF UnlockArrival, Moves
  <2>2. BarrierInv' /\ (Leaving' <=> Leaving)
    BY <1>6, UnlockArrivalStep
  <2> QED BY <1>2, <2>1, <2>2
<1>7. CASE WaitTurnstile1(t)
  <2>1. Moves(t, "gateOne", "passOne") /\ UNCHANGED <<mainVars, locals, plateVars>>
    BY <1>7, GotoMoves DEF WaitTurnstile1, Moves
  <2>2. BarrierInv' /\ (Leaving' <=> Leaving)
    BY <1>7, WaitTurnstile1Step
  <2> QED BY <1>2, <2>1, <2>2
<1>8. CASE PostTurnstile1(t)
  <2>1. Moves(t, "passOne", "leave") /\ UNCHANGED <<mainVars, locals, plateVars>>
    BY <1>8, GotoMoves DEF PostTurnstile1, Moves
  <2>2. BarrierInv' /\ (Leaving' <=> Leaving)
    BY <1>8, PostTurnstile1Step
  <2> QED BY <1>2, <2>1, <2>2
<1>9. CASE Leave(t)
  <2>1. Moves(t, "leave", "gateTwo") /\ UNCHANGED <<mainVars, locals, plateVars>>
    BY <1>9, GotoMoves DEF Leave, Moves
  <2>2. BarrierInv' /\ (Leaving' <=> Leaving)
    BY <1>9, LeaveStep
  <2>3. Leaving /\ ~Undecided
    BY <2>1, <1>9 DEF Leave, Moves, HalfInv, ArrivingLabels, Undecided,
       MutexInv, HoldingLabels, Free, Threads
  <2> QED BY <1>2, <2>1, <2>2, <2>3
<1>10. CASE LeaveLast(t)
  <2>1. Moves(t, "leave", "takeOne") /\ UNCHANGED <<mainVars, locals, plateVars>>
    BY <1>10, GotoMoves DEF LeaveLast, Moves
  <2>2. BarrierInv' /\ (Leaving' <=> Leaving)
    BY <1>10, LeaveLastStep
  <2>3. Leaving /\ ~Undecided
    BY <2>1, <1>10 DEF LeaveLast, Moves, HalfInv, ArrivingLabels, Undecided,
       MutexInv, HoldingLabels, Free, Threads
  <2> QED BY <1>2, <2>1, <2>2, <2>3
<1>11. CASE CloseTurnstile1(t)
  <2>1. Moves(t, "takeOne", "openTwo") /\ UNCHANGED <<mainVars, locals, plateVars>>
    BY <1>11, GotoMoves DEF CloseTurnstile1, Moves
  <2>2. BarrierInv' /\ (Leaving' <=> Leaving)
    BY <1>11, CloseTurnstile1Step
  <2> QED BY <1>2, <2>1, <2>2
<1>12. CASE UnlockDeparture(t)
  <2>1. Moves(t, "unlockOut", "gateTwo") /\ UNCHANGED <<mainVars, locals, plateVars>>
    BY <1>12, GotoMoves DEF UnlockDeparture, Moves
  <2>2. BarrierInv' /\ (Leaving' <=> Leaving)
    BY <1>12, UnlockDepartureStep
  <2> QED BY <1>2, <2>1, <2>2
<1>13. CASE WaitTurnstile2(t)
  <2>1. Moves(t, "gateTwo", "passTwo") /\ UNCHANGED <<mainVars, locals, plateVars>>
    BY <1>13, GotoMoves DEF WaitTurnstile2, Moves
  <2>2. BarrierInv' /\ (Leaving' <=> Leaving)
    BY <1>13, WaitTurnstile2Step
  <2> QED BY <1>2, <2>1, <2>2
<1>14. CASE PostTurnstile2(t)
  <2>1. Moves(t, "passTwo", "load") /\ UNCHANGED <<mainVars, locals, plateVars>>
    BY <1>14, GotoMoves DEF PostTurnstile2, Moves
  <2>2. BarrierInv' /\ (Leaving' <=> Leaving)
    BY <1>14, PostTurnstile2Step
  <2> QED BY <1>2, <2>1, <2>2
<1> QED BY <1>3, <1>4, <1>5, <1>6, <1>7, <1>8, <1>9, <1>10, <1>11,
           <1>12, <1>13, <1>14
-----------------------------------------------------------------------------
(* The steps of the main thread.                                           *)
LEMMA MainPreserves ==
  ASSUME TeamInv, MainStep
  PROVE  TeamInv'
<1> USE DEF TeamInv, BarrierInv, DataInv
<1>1. TypeOK'
  BY TypeStep
<1>2. CASE CreateThread
  <2>1. created \in Threads
    BY <1>2, ThreadCountAssumption DEF TypeOK, CreateThread, Threads
  <2>2. Moves(created, "new", "load") /\ UNCHANGED <<locals, plateVars, barrier>>
    BY <1>2, <2>1, GotoMoves DEF CreateThread, Moves
  <2>3. BarrierInv' /\ (Leaving' <=> Leaving)
    BY <2>1, <2>2, OutsideStep DEF OutsideLabels
  <2>4. Undecided' <=> Undecided
    BY <2>1, <2>2, <2>3, UndecidedStays
  <2>5. DataInv'
    BY <2>1, <2>2, <2>3, <2>4, DataStays
    DEF ExitLabels, FreshLabels, AndedLabels, CountedLabels
  <2>6. MainInv'
    BY <1>2, <2>2, ThreadCountAssumption
    DEF TypeOK, CreateThread, MainInv, Moves, Threads
  <2> QED BY <1>1, <2>3, <2>5, <2>6
<1>3. ASSUME UNCHANGED <<created, pc, locals, plateVars, barrier>>, MainInv'
      PROVE  TeamInv'
  <2> USE <1>3 DEF locals, plateVars, barrier
  <2>1. /\ Counted' = Counted
        /\ Leaving' = Leaving
        /\ Undecided' = Undecided
        /\ Declared' = Declared
    BY DEF Counted, Leaving, Undecided, Declared
  <2>2. BarrierInv'
    BY <2>1 DEF CountInv, MutexInv, PermitInv, HalfInv, LastInv
  <2>3. DataInv'
    BY <2>1 DEF RoundsInv, PlatesInv, WorkInv, FlagsInv
  <2> QED BY <1>1, <2>2, <2>3
<1>4. CASE CreateFails
  <2>1. MainInv'
    BY <1>4, ThreadCountAssumption DEF TypeOK, CreateFails, MainInv
  <2> QED BY <1>3, <1>4, <2>1 DEF CreateFails
<1>5. CASE JoinPartialTeam
  <2>1. MainInv'
    BY <1>5 DEF TypeOK, JoinPartialTeam, MainInv, Joinable
  <2> QED BY <1>3, <1>5, <2>1 DEF JoinPartialTeam
<1>6. CASE JoinTeam
  <2>1. MainInv'
    BY <1>6 DEF TypeOK, JoinTeam, MainInv, Joinable, Threads
  <2> QED BY <1>3, <1>6, <2>1 DEF JoinTeam
<1> QED BY <1>2, <1>4, <1>5, <1>6 DEF MainStep

-----------------------------------------------------------------------------
(* The steps of an iteration.                                              *)

LEMMA LoadPlatesPreserves ==
  ASSUME TeamInv, NEW t \in Threads, LoadPlates(t)
  PROVE  TeamInv'
<1> USE DEF TeamInv, BarrierInv, DataInv
<1>1. TypeOK'
  BY TypeStep DEF CommonStep, BarrierStep
<1>2. Moves(t, "load", "test")
  BY GotoMoves DEF LoadPlates, Moves
<1>3. BarrierInv' /\ (Leaving' <=> Leaving)
  BY <1>2, OutsideStep DEF OutsideLabels, LoadPlates
<1>4. (Undecided' <=> Undecided) /\ (Declared' <=> Declared)
  BY <1>2, <1>3, UndecidedStays DEF LoadPlates, plateVars, Declared
<1>5. RoundsInv'
  BY <1>2, <1>3, <1>4
  DEF LoadPlates, TypeOK, RoundsInv, Moves, plateVars, FreshLabels, ExitLabels
<1>6. PlatesInv'
  BY <1>2 DEF LoadPlates, TypeOK, PlatesInv, Moves, plateVars
<1>7. FlagsInv'
  BY <1>2, <1>4
  DEF LoadPlates, TypeOK, FlagsInv, Moves, plateVars, AndedLabels,
      CountedLabels
<1>8. MainInv'
  BY <1>2, MainStays DEF LoadPlates
<1>9. WorkInv'
  BY DEF LoadPlates, WorkInv, locals, plateVars
<1> QED BY <1>1, <1>3, <1>5, <1>6, <1>7, <1>8, <1>9

LEMMA TestBalancedPreserves ==
  ASSUME TeamInv, NEW t \in Threads, TestBalanced(t)
  PROVE  TeamInv'
<1> USE DEF TeamInv, BarrierInv, DataInv
<1>1. TypeOK'
  BY TypeStep DEF CommonStep, BarrierStep
<1>2. PICK to \in {"done", "compute"} :
        Moves(t, "test", to) /\ (to = "done" <=> Declared)
  BY GotoMoves DEF TestBalanced, Moves, Declared
<1>3. BarrierInv' /\ (Leaving' <=> Leaving)
  BY <1>2, OutsideStep DEF OutsideLabels, TestBalanced
<1>4. (Undecided' <=> Undecided) /\ (Declared' <=> Declared)
  BY <1>2, <1>3, UndecidedStays DEF TestBalanced, plateVars, Declared
<1>5. ~Leaving
  BY <1>2 DEF HalfInv, LeavingLabels, Moves
<1>6. RoundsInv'
  BY <1>2, <1>3, <1>4, <1>5
  DEF TestBalanced, RoundsInv, Moves, locals, plateVars, FreshLabels,
      ExitLabels
<1>7. PlatesInv'
  BY <1>2 DEF TestBalanced, PlatesInv, Moves, locals, plateVars
<1>8. FlagsInv'
  BY <1>2, <1>4
  DEF TestBalanced, FlagsInv, Moves, locals, plateVars, AndedLabels,
      CountedLabels
<1>9. MainInv'
  BY <1>2, MainStays DEF TestBalanced
<1>10. WorkInv'
  BY DEF TestBalanced, WorkInv, locals, plateVars
<1> QED BY <1>1, <1>3, <1>6, <1>7, <1>8, <1>9, <1>10

(* A thread between the pointer loads and the barrier is in an iteration   *)
(* that nobody has declared balanced.                                      *)
LEMMA WorkingFacts ==
  ASSUME TeamInv, NEW t \in Threads, pc[t] \in {"compute", "and"}
  PROVE  /\ ~Leaving /\ Undecided /\ ~Declared
         /\ currentPlate[t] = readPlate /\ newPlate[t] = writePlate
<1> USE DEF TeamInv
<1>1. ~Leaving
  BY DEF HalfInv, LeavingLabels
<1>2. ~Declared
  BY <1>1 DEF RoundsInv, ExitLabels
<1> QED BY <1>1, <1>2 DEF Undecided, PlatesInv

LEMMA PlatesDiffer ==
  ASSUME TypeOK, PlatesInv
  PROVE  readPlate # writePlate
BY DEF TypeOK, PlatesInv

LEMMA AndBalancedPreserves ==
  ASSUME TeamInv, NEW t \in Threads, AndBalanced(t)
  PROVE  TeamInv'
<1> USE DEF TeamInv, BarrierInv, DataInv
<1>1. TypeOK'
  BY TypeStep DEF CommonStep, BarrierStep
<1>2. Moves(t, "and", "arrive")
  BY GotoMoves DEF AndBalanced, Moves
<1>3. BarrierInv' /\ (Leaving' <=> Leaving)
  BY <1>2, OutsideStep DEF OutsideLabels, AndBalanced
<1>4. ~Leaving /\ Undecided /\ ~Declared
  BY <1>2, WorkingFacts DEF Moves
<1>5. Undecided'
  BY <1>3, <1>4 DEF Undecided
<1>6. /\ isBalanced'[writePlate] \in {0, 1}
      /\ isBalanced'[writePlate] # 0 <=>
           isBalanced[writePlate] # 0 /\ localIsBalanced[t]
      /\ isBalanced'[readPlate] = isBalanced[readPlate]
  BY PlatesDiffer DEF AndBalanced, TypeOK
<1>7. ~Declared'
  BY <1>6 DEF AndBalanced, Declared
<1>8. RoundsInv'
  BY <1>2, <1>4, <1>5, <1>7
  DEF AndBalanced, RoundsInv, Moves, FreshLabels, locals
<1>9. PlatesInv'
  BY <1>2 DEF AndBalanced, PlatesInv, Moves, locals
<1>10. FlagsInv'
  <2>1. (\A u \in Threads : pc'[u] \in AndedLabels => localIsBalanced[u])
        <=> /\ localIsBalanced[t]
            /\ \A u \in Threads : pc[u] \in AndedLabels => localIsBalanced[u]
    BY <1>2 DEF Moves, AndedLabels, CountedLabels
  <2> QED BY <1>4, <1>5, <1>6, <1>7, <2>1 DEF AndBalanced, FlagsInv, locals
<1>11. MainInv'
  BY <1>2, MainStays DEF AndBalanced
<1>12. WorkInv'
  BY DEF AndBalanced, WorkInv, locals, plateVars
<1> QED BY <1>1, <1>3, <1>8, <1>9, <1>10, <1>11, <1>12

-----------------------------------------------------------------------------
(* The steps that open a turnstile, and the decision.                      *)

LEMMA OpenTurnstile1Preserves ==
  ASSUME TeamInv, NEW t \in Threads, OpenTurnstile1(t)
  PROVE  TeamInv'
<1> USE DEF TeamInv, BarrierInv, DataInv
<1>1. TypeOK'
  BY TypeStep DEF CommonStep, BarrierStep
<1>2. Moves(t, "openOne", "decide")
  BY GotoMoves DEF OpenTurnstile1, Moves
<1>3. BarrierInv' /\ ~Leaving /\ Leaving'
  BY OpenTurnstile1Step
<1>4. Undecided /\ Undecided'
  BY <1>2, <1>3 DEF Undecided, Moves
<1>5. ~Declared /\ ~Declared'
  BY <1>2, <1>3
  DEF OpenTurnstile1, RoundsInv, ExitLabels, Moves, Declared, plateVars
<1>6. RoundsInv'
  BY <1>2, <1>4, <1>5
  DEF OpenTurnstile1, RoundsInv, Moves, FreshLabels, locals, plateVars
<1>7. PlatesInv'
  BY <1>2 DEF OpenTurnstile1, PlatesInv, Moves, locals, plateVars
<1>8. FlagsInv'
  BY <1>2, <1>4, <1>5
  DEF OpenTurnstile1, FlagsInv, Moves, locals, plateVars, AndedLabels,
      CountedLabels
<1>9. MainInv'
  BY <1>2, MainStays DEF OpenTurnstile1
<1>10. WorkInv'
  BY DEF OpenTurnstile1, WorkInv, locals, plateVars
<1> QED BY <1>1, <1>3, <1>6, <1>7, <1>8, <1>9, <1>10

LEMMA OpenTurnstile2Preserves ==
  ASSUME TeamInv, NEW t \in Threads, OpenTurnstile2(t)
  PROVE  TeamInv'
<1> USE DEF TeamInv, BarrierInv, DataInv
<1>1. TypeOK'
  BY TypeStep DEF CommonStep, BarrierStep
<1>2. Moves(t, "openTwo", "unlockOut")
  BY GotoMoves DEF OpenTurnstile2, Moves
<1>3. BarrierInv' /\ Leaving /\ ~Leaving'
  BY OpenTurnstile2Step
<1>4. \A u \in Threads : u # t => pc[u] = "gateTwo" /\ pc'[u] = "gateTwo"
  BY <1>2 DEF LastInv, Moves
<1>5. ~Undecided /\ Undecided'
  BY <1>2, <1>3, <1>4 DEF Undecided, Moves
<1>6. Declared' <=> Declared
  BY DEF OpenTurnstile2, Declared, plateVars
<1>7. RoundsInv'
  BY <1>2, <1>4, <1>5, <1>6
  DEF OpenTurnstile2, RoundsInv, Moves, FreshLabels, ExitLabels, locals,
      plateVars
<1>8. PlatesInv'
  BY <1>2 DEF OpenTurnstile2, PlatesInv, Moves, locals, plateVars
<1>9. FlagsInv'
  BY <1>2, <1>4, <1>5, <1>6
  DEF OpenTurnstile2, FlagsInv, Moves, locals, plateVars, AndedLabels,
      CountedLabels
<1>10. MainInv'
  BY <1>2, MainStays DEF OpenTurnstile2
<1>11. WorkInv'
  BY DEF OpenTurnstile2, WorkInv, locals, plateVars
<1> QED BY <1>1, <1>3, <1>7, <1>8, <1>9, <1>10, <1>11

(* When the decision is taken every thread has computed the iteration and  *)
(* the flag is the conjunction of what they found.                         *)
LEMMA DecisionFacts ==
  ASSUME TeamInv, NEW t \in Threads, pc[t] = "decide"
  PROVE  /\ Leaving /\ ~Declared
         /\ \A u \in Threads : /\ rounds[u] = totalIterations + 1
                               /\ pc[u] \in AndedLabels
         /\ \A u \in Threads : u # t => pc[u] # "decide"
         /\ \A r \in Units : age[writePlate][r] = totalIterations + 1
         /\ isBalanced[writePlate] # 0 <=>
              /\ totalIterations >= 2
              /\ \A u \in Threads : localIsBalanced[u]
<1> USE DEF TeamInv
<1>1. Leaving /\ Undecided
  BY DEF HalfInv, ArrivingLabels, Undecided
<1>2. ~Declared
  BY DEF RoundsInv
<1>3. \A u \in Threads : u # t => pc[u] \in {"gateOne", "passOne", "leave"}
  BY DEF LastInv
<1>4. \A u \in Threads : pc[u] \in AndedLabels /\ pc[u] \notin FreshLabels
  BY <1>3 DEF AndedLabels, CountedLabels, FreshLabels
<1>5. \A u \in Threads : rounds[u] = totalIterations + 1
  BY <1>1, <1>2, <1>4 DEF RoundsInv
<1>6. \A r \in Units : age[writePlate][r] = totalIterations + 1
  BY <1>5 DEF WorkInv
<1>7. isBalanced[writePlate] # 0 <=>
        totalIterations >= 2 /\ \A u \in Threads : localIsBalanced[u]
  BY <1>1, <1>2, <1>4 DEF FlagsInv
<1> QED BY <1>1, <1>2, <1>3, <1>4, <1>5, <1>6, <1>7

LEMMA DecidePreserves ==
  ASSUME TeamInv, NEW t \in Threads, Decide(t)
  PROVE  TeamInv'
<1> USE DEF TeamInv, BarrierInv, DataInv
<1>1. TypeOK'
  BY TypeStep DEF CommonStep, BarrierStep
<1>2. Moves(t, "decide", "unlockIn") /\ UNCHANGED <<mainVars, locals, age, barrier>>
  BY GotoMoves DEF Decide, Moves
<1>3. BarrierInv' /\ (Leaving' <=> Leaving)
  <2>1. CountInv'
    BY <1>2, CountStays DEF CountedLabels, barrier
  <2>2. MutexInv' /\ PermitInv'
    BY <1>2 DEF MutexInv, PermitInv, HoldingLabels, BearingLabels, Moves, barrier
  <2>3. Leaving' <=> Leaving
    BY <1>2 DEF Leaving, Moves, barrier
  <2>4. HalfInv' /\ LastInv'
    BY <1>2, <2>3
    DEF HalfInv, LastInv, LeavingLabels, ArrivingLabels, Moves
  <2> QED BY <2>1, <2>2, <2>3, <2>4
<1>4. /\ Leaving /\ ~Declared
      /\ \A u \in Threads : rounds[u] = totalIterations + 1
      /\ \A u \in Threads : u # t => pc[u] # "decide"
      /\ \A u \in Threads :
           pc[u] \notin {"done", "test", "compute", "and", "load"}
      /\ \A r \in Units : age[writePlate][r] = totalIterations + 1
      /\ isBalanced[writePlate] # 0 => \A u \in Threads : localIsBalanced[u]
  BY <1>2, DecisionFacts DEF Moves, AndedLabels, CountedLabels
<1>5. ~Undecided'
  BY <1>2, <1>3, <1>4 DEF Undecided, Moves
<1>6. MainInv'
  BY <1>2, MainStays
<1>7. CASE isBalanced[writePlate] # 0
  <2>1. /\ isBalanced' = [isBalanced EXCEPT ![writePlate] = 2]
        /\ UNCHANGED <<readPlate, writePlate, totalIterations>>
    BY <1>7 DEF Decide
  <2>2. Declared' /\ isBalanced'[readPlate] = isBalanced[readPlate]
    BY <2>1, PlatesDiffer DEF Declared, TypeOK
  <2>3. RoundsInv'
    BY <1>2, <1>3, <1>4, <1>7, <2>1, <2>2 DEF RoundsInv, Moves, locals
  <2>4. PlatesInv'
    BY <1>2, <2>1 DEF PlatesInv, Moves, locals
  <2>5. WorkInv'
    BY <1>2, <2>1 DEF WorkInv, locals
  <2>6. FlagsInv'
    BY <2>1, <2>2 DEF FlagsInv
  <2> QED BY <1>1, <1>3, <1>6, <2>3, <2>4, <2>5, <2>6
<1>8. CASE isBalanced[writePlate] = 0
  <2>1. /\ isBalanced' = [isBalanced EXCEPT ![writePlate] = 1]
        /\ readPlate' = writePlate
        /\ writePlate' = readPlate
        /\ totalIterations' = totalIterations + 1
    BY <1>8 DEF Decide
  <2>2. /\ isBalanced'[readPlate'] = 1
        /\ isBalanced'[writePlate'] = IF totalIterations = 0 THEN 0 ELSE 1
    BY <2>1, PlatesDiffer DEF FlagsInv, TypeOK
  <2>3. ~Declared'
    BY <2>2 DEF Declared
  <2>4. RoundsInv'
    BY <1>2, <1>4, <1>5, <2>1, <2>3 DEF RoundsInv, Moves, locals
  <2>5. PlatesInv'
    BY <1>2, <1>4, <2>1 DEF PlatesInv, Moves, locals, TypeOK
  <2>6. WorkInv'
    BY <1>2, <1>4, <2>1 DEF WorkInv, locals, TypeOK
  <2>7. FlagsInv'
    BY <1>5, <2>1, <2>2 DEF FlagsInv, TypeOK
  <2> QED BY <1>1, <1>3, <1>6, <2>4, <2>5, <2>6, <2>7
<1> QED BY <1>7, <1>8
-----------------------------------------------------------------------------
(* Work steps.  A thread in the middle of its work may write the plate it  *)
(* writes and lower its flag; a thread that ends its work counts it.       *)

Works(t) ==
  /\ UNCHANGED <<mainVars, currentPlate, newPlate, readPlate, writePlate,
                 isBalanced, totalIterations, barrier>>
  /\ localIsBalanced' \in [Threads -> BOOLEAN]
  /\ \A u \in Threads : u # t => localIsBalanced'[u] = localIsBalanced[u]
  /\ age' \in [Plates -> [Units -> Nat]]
  /\ age'[readPlate] = age[readPlate]

LEMMA InsideWork ==
  ASSUME TeamInv, NEW t \in Threads, pc[t] = "compute", Works(t),
         UNCHANGED <<pc, rounds>>
  PROVE  TeamInv'
<1> USE DEF TeamInv, Works
<1>1. ~Leaving /\ Undecided /\ ~Declared
  BY WorkingFacts
<1>2. rounds[t] # totalIterations + 1
  BY <1>1 DEF RoundsInv, FreshLabels, TypeOK
<1>3. TypeOK'
  BY DEF TypeOK, mainVars, barrier
<1>4. /\ Counted' = Counted /\ Leaving' = Leaving
      /\ Undecided' = Undecided /\ Declared' = Declared
  BY DEF Counted, Leaving, Undecided, Declared, barrier
<1>5. CountInv' /\ MutexInv' /\ PermitInv' /\ HalfInv' /\ LastInv'
  BY <1>4 DEF CountInv, MutexInv, PermitInv, HalfInv, LastInv, barrier
<1>6. RoundsInv'
  BY <1>1, <1>4 DEF RoundsInv
<1>7. PlatesInv'
  BY DEF PlatesInv
<1>8. WorkInv'
  BY <1>2 DEF WorkInv
<1>9. FlagsInv'
  BY <1>1, <1>4 DEF FlagsInv, AndedLabels, CountedLabels
<1>10. MainInv'
  BY DEF MainInv, mainVars, Joinable
<1> QED BY <1>3, <1>5, <1>6, <1>7, <1>8, <1>9, <1>10

LEMMA EndOfWork ==
  ASSUME TeamInv, NEW t \in Threads, Goto(t, "compute", "and"), Works(t),
         rounds' = [rounds EXCEPT ![t] = @ + 1], WorkInv'
  PROVE  TeamInv'
<1> USE DEF TeamInv, BarrierInv
<1>1. Moves(t, "compute", "and")
  BY GotoMoves DEF Moves
<1>2. TypeOK'
  BY DEF TypeOK, Works, Goto, Labels, mainVars, barrier
<1>3. BarrierInv' /\ (Leaving' <=> Leaving)
  BY <1>1, OutsideStep DEF OutsideLabels, Works
<1>4. (Undecided' <=> Undecided) /\ (Declared' <=> Declared)
  BY <1>1, <1>3, UndecidedStays DEF Works, Declared
<1>5. ~Leaving /\ Undecided /\ ~Declared
  BY <1>1, WorkingFacts DEF Moves
<1>6. /\ rounds[t] = totalIterations
      /\ rounds'[t] = totalIterations + 1
      /\ \A u \in Threads : u # t => rounds'[u] = rounds[u]
  BY <1>1, <1>5 DEF TypeOK, RoundsInv, FreshLabels, Moves
<1>7. RoundsInv'
  BY <1>1, <1>3, <1>4, <1>5, <1>6 DEF Works, RoundsInv, Moves, FreshLabels
<1>8. PlatesInv'
  BY <1>1 DEF Works, PlatesInv, Moves
<1>9. FlagsInv'
  BY <1>1, <1>4 DEF Works, FlagsInv, Moves, AndedLabels, CountedLabels
<1>10. MainInv'
  BY <1>1, MainStays DEF Works
<1> QED BY <1>2, <1>3, <1>7, <1>8, <1>9, <1>10
-----------------------------------------------------------------------------
(* All the common steps, and the steps that change nothing.                *)

LEMMA CommonPreserves ==
  ASSUME TeamInv, NEW t \in Threads, CommonStep(t)
  PROVE  TeamInv'
BY LoadPlatesPreserves, TestBalancedPreserves, AndBalancedPreserves,
   OpenTurnstile1Preserves, OpenTurnstile2Preserves, QuietSteps
DEF CommonStep, BarrierStep

LEMMA StutterPreserves ==
  ASSUME TeamInv, UNCHANGED vars
  PROVE  TeamInv'
<1> USE DEF vars, mainVars, locals, plateVars, barrier, TeamInv
<1>1. TypeOK'
  BY DEF TypeOK
<1>2. /\ Counted' = Counted /\ Leaving' = Leaving
      /\ Undecided' = Undecided /\ Declared' = Declared
  BY DEF Counted, Leaving, Undecided, Declared
<1>3. CountInv' /\ MutexInv' /\ PermitInv' /\ HalfInv' /\ LastInv'
  BY <1>2 DEF CountInv, MutexInv, PermitInv, HalfInv, LastInv
<1>4. RoundsInv' /\ PlatesInv' /\ WorkInv' /\ FlagsInv' /\ MainInv'
  BY <1>2 DEF RoundsInv, PlatesInv, WorkInv, FlagsInv, MainInv, Joinable
<1> QED BY <1>1, <1>3, <1>4
-----------------------------------------------------------------------------
(* What the invariant of the team implies.                                 *)

LEMMA StableFromInv == TeamInv => StableWhileComputing
BY WorkingFacts, PlatesDiffer DEF TeamInv, StableWhileComputing, PlatesInv

LEMMA InformedFromInv == TeamInv => DecisionIsInformed
BY DecisionFacts DEF DecisionIsInformed

LEMMA TogetherFromInv == TeamInv => ExitTogether
<1>1. ASSUME TeamInv, NEW t \in Threads, pc[t] = "done", NEW u \in Threads
      PROVE  /\ rounds[u] = totalIterations + 1
             /\ pc[u] \in {"done", "test", "load", "passTwo", "gateTwo",
                           "unlockOut"}
  <2>1. ~Leaving
    BY <1>1 DEF TeamInv, HalfInv, LeavingLabels
  <2>2. Declared
    BY <1>1 DEF TeamInv, RoundsInv
  <2> QED BY <1>1, <2>1, <2>2 DEF TeamInv, RoundsInv, ExitLabels
<1> QED BY <1>1 DEF ExitTogether

LEMMA TurnstilesFromInv == TeamInv => OneTurnstileOpen
BY DEF TeamInv, PermitInv, OneTurnstileOpen

LEMMA LagFromInv == TeamInv => ResultWithinOne
<1> SUFFICES ASSUME TeamInv, main = "returned", NEW x \in Units
             PROVE  age["plate"][x] =
                      totalIterations + 1 - ((totalIterations + 2) % 2)
  BY DEF ResultWithinOne, Result, TeamInv, TypeOK
<1>1. \A t \in Threads : rounds[t] = totalIterations + 1
  BY DEF TeamInv, MainInv, RoundsInv
<1>2. age[writePlate][x] = totalIterations + 1
  BY <1>1 DEF TeamInv, WorkInv
<1>3. age[readPlate][x] = totalIterations
  BY DEF TeamInv, PlatesInv
<1>4. CASE totalIterations % 2 = 0
  <2>1. writePlate = "plate" /\ (totalIterations + 2) % 2 = 0
    BY <1>4 DEF TeamInv, PlatesInv, TypeOK
  <2> QED BY <1>2, <2>1 DEF TeamInv, TypeOK
<1>5. CASE totalIterations % 2 # 0
  <2>1. readPlate = "plate" /\ (totalIterations + 2) % 2 = 1
    BY <1>5 DEF TeamInv, PlatesInv, TypeOK
  <2> QED BY <1>3, <2>1 DEF TeamInv, TypeOK
<1> QED BY <1>4, <1>5

LEMMA HangsFromInv == TeamInv => FailedTeamHangs
<1> SUFFICES ASSUME TeamInv, main = "crashed", created # 0 PROVE FALSE
  BY DEF FailedTeamHangs
<1>1. 0 \in Threads /\ created \in Threads
  BY ThreadCountAssumption DEF TeamInv, TypeOK, MainInv, Threads
<1>2. pc[0] = "done" /\ pc[created] = "new"
  BY <1>1 DEF TeamInv, TypeOK, MainInv, Joinable
<1>3. Declared /\ ~Leaving
  BY <1>1, <1>2 DEF TeamInv, RoundsInv, HalfInv, LeavingLabels
<1> QED BY <1>1, <1>2, <1>3 DEF TeamInv, RoundsInv, ExitLabels
-----------------------------------------------------------------------------
(* The refinement.  The end of a thread's work finishes a part, Decide     *)
(* completes the iteration, and every other step is invisible.             *)

AbstractCalm == \A t \in Computed : localIsBalanced[t]

(* What the abstract simulation does not see.                              *)
LEMMA Invisible ==
  ASSUME UNCHANGED <<rounds, plateVars>>,
         \A t \in Computed : localIsBalanced'[t] = localIsBalanced[t]
  PROVE  UNCHANGED Lockstep!vars
<1>1. Computed' = Computed
  BY DEF Computed, plateVars
<1>2. AbstractCalm' <=> AbstractCalm
  BY <1>1 DEF AbstractCalm
<1> QED BY <1>1, <1>2 DEF Lockstep!vars, AbstractCalm, plateVars

LEMMA EndOfWorkRefines ==
  ASSUME TeamInv, NEW t \in Threads, pc[t] = "compute", Works(t),
         rounds' = [rounds EXCEPT ![t] = @ + 1]
  PROVE  Lockstep!FinishPart(t)
<1>1. ~Declared /\ rounds[t] = totalIterations
  BY WorkingFacts DEF TeamInv, RoundsInv, FreshLabels
<1>2. t \notin Computed /\ Computed' = Computed \union {t}
  BY <1>1 DEF Computed, TeamInv, TypeOK, Works
<1>3. AbstractCalm' <=> AbstractCalm /\ localIsBalanced'[t]
  BY <1>2 DEF AbstractCalm, Computed, Works
<1>4. AbstractCalm' \in {AbstractCalm, FALSE}
  BY <1>3 DEF AbstractCalm
<1> QED BY <1>1, <1>2, <1>4
        DEF Lockstep!FinishPart, AbstractCalm, Declared, Works

(* A thread that has not ended its work is not among those that have.      *)
LEMMA InsideWorkInvisible ==
  ASSUME TeamInv, NEW t \in Threads, pc[t] = "compute", Works(t),
         UNCHANGED rounds
  PROVE  UNCHANGED Lockstep!vars
<1>1. Computed' = Computed /\ t \notin Computed
  BY WorkingFacts DEF Computed, TeamInv, TypeOK, RoundsInv, FreshLabels, Works
<1>2. AbstractCalm' <=> AbstractCalm
  BY <1>1 DEF AbstractCalm, Computed, Works
<1> QED BY <1>1, <1>2 DEF Lockstep!vars, AbstractCalm, Works

LEMMA DecideRefines ==
  ASSUME TeamInv, NEW t \in Threads, Decide(t)
  PROVE  Lockstep!Next
<1>1. /\ ~Declared
      /\ \A u \in Threads : rounds[u] = totalIterations + 1
      /\ isBalanced[writePlate] # 0 <=>
           totalIterations >= 2 /\ \A u \in Threads : localIsBalanced[u]
  BY DecisionFacts DEF Decide, Goto
<1>2. Computed = Threads
  BY <1>1 DEF Computed
<1>3. isBalanced[writePlate] # 0 <=> Lockstep!Balanced
  BY <1>1, <1>2 DEF Lockstep!Balanced, TeamInv, TypeOK
<1>4. UNCHANGED <<rounds, localIsBalanced>>
  BY DEF Decide, locals
<1>5. CASE isBalanced[writePlate] # 0
  <2>1. UNCHANGED totalIterations /\ Declared'
    BY <1>5 DEF Decide, Declared, TeamInv, TypeOK
  <2>2. Computed' = Computed /\ (AbstractCalm' <=> AbstractCalm)
    BY <1>4, <2>1 DEF Computed, AbstractCalm
  <2>3. Lockstep!DeclareBalanced
    BY <1>1, <1>2, <1>3, <1>5, <2>1, <2>2
    DEF Lockstep!DeclareBalanced, AbstractCalm, Declared
  <2> QED BY <2>3 DEF Lockstep!Next
<1>6. CASE isBalanced[writePlate] = 0
  <2>1. totalIterations' = totalIterations + 1
    BY <1>6 DEF Decide
  <2>2. Computed' = {}
    BY <1>1, <1>4, <2>1 DEF Computed, TeamInv, TypeOK
  <2>3. AbstractCalm' = TRUE
    BY <2>2 DEF AbstractCalm
  <2>4. ~Declared'
    BY <1>6, PlatesDiffer DEF Decide, TeamInv, FlagsInv, TypeOK, Declared
  <2>5. Lockstep!NextIteration
    BY <1>1, <1>2, <1>3, <1>6, <2>1, <2>2, <2>3, <2>4
    DEF Lockstep!NextIteration, AbstractCalm, Declared, TeamInv, TypeOK
  <2> QED BY <2>5 DEF Lockstep!Next
<1> QED BY <1>5, <1>6

LEMMA AndBalancedInvisible ==
  ASSUME TeamInv, NEW t \in Threads, AndBalanced(t)
  PROVE  UNCHANGED Lockstep!vars
<1>1. ~Declared
  BY WorkingFacts DEF AndBalanced, Goto
<1>2. ~Declared'
  BY <1>1 DEF AndBalanced, TeamInv, TypeOK, Declared
<1>3. UNCHANGED <<rounds, localIsBalanced, totalIterations>>
  BY DEF AndBalanced, locals
<1>4. Computed' = Computed /\ (AbstractCalm' <=> AbstractCalm)
  BY <1>3 DEF Computed, AbstractCalm
<1> QED BY <1>1, <1>2, <1>3, <1>4 DEF Lockstep!vars, AbstractCalm, Declared

LEMMA LoadPlatesInvisible ==
  ASSUME TeamInv, NEW t \in Threads, LoadPlates(t)
  PROVE  UNCHANGED Lockstep!vars
<1>1. t \in Computed => Declared
  BY DEF LoadPlates, Goto, TeamInv, RoundsInv, FreshLabels, Computed, TypeOK
<1>2. t \in Computed => localIsBalanced[t] = TRUE
  BY <1>1 DEF TeamInv, RoundsInv, TypeOK
<1>3. \A u \in Computed : localIsBalanced'[u] = localIsBalanced[u]
  BY <1>2 DEF LoadPlates, TeamInv, TypeOK, Computed
<1> QED BY <1>3, Invisible DEF LoadPlates

LEMMA UntouchedInvisible ==
  ASSUME UNCHANGED <<locals, plateVars>>
  PROVE  UNCHANGED Lockstep!vars
BY Invisible DEF locals

LEMMA MainInvisible ==
  ASSUME MainStep
  PROVE  UNCHANGED Lockstep!vars
BY UntouchedInvisible
DEF MainStep, CreateThread, CreateFails, JoinPartialTeam, JoinTeam

LEMMA CommonInvisible ==
  ASSUME TeamInv, NEW t \in Threads, CommonStep(t)
  PROVE  UNCHANGED Lockstep!vars
<1>1. CASE LoadPlates(t)   BY <1>1, LoadPlatesInvisible
<1>2. CASE AndBalanced(t)  BY <1>2, AndBalancedInvisible
<1>3. CASE TestBalanced(t) \/ BarrierStep(t)
  <2>1. UNCHANGED <<locals, plateVars>>
    BY <1>3
    DEF TestBalanced, BarrierStep, Arrive, ArriveLast, CloseTurnstile2,
        OpenTurnstile1, UnlockArrival, WaitTurnstile1, PostTurnstile1, Leave,
        LeaveLast, CloseTurnstile1, OpenTurnstile2, UnlockDeparture,
        WaitTurnstile2, PostTurnstile2
  <2> QED BY <2>1, UntouchedInvisible
<1> QED BY <1>1, <1>2, <1>3 DEF CommonStep

LEMMA InitRefines == Init => Lockstep!Init
<1> SUFFICES ASSUME Init PROVE Lockstep!Init
  OBVIOUS
<1>1. Computed = {}
  BY DEF Init, Computed
<1> QED BY <1>1 DEF Init, Lockstep!Init, Plates

-----------------------------------------------------------------------------
(* A complete team never stops.  What a thread needs to go on is what its  *)
(* actions ask: the mutex to arrive or to leave, a permit at a turnstile.  *)
CanGoOn(t) ==
  /\ pc[t] \notin {"new", "done"}
  /\ pc[t] \in {"arrive", "leave"} => barrierMutex = Free
  /\ pc[t] \in {"takeOne", "gateOne"} => turnstile1 > 0
  /\ pc[t] \in {"takeTwo", "gateTwo"} => turnstile2 > 0

TeamGoesOn == main = "join" => Joinable \/ \E t \in Threads : CanGoOn(t)

(* The last to arrive and the last to leave see to it that nobody is left  *)
(* alone with the others at a closed turnstile; and threads that exist     *)
(* have begun.                                                             *)
AwakeInv ==
  /\ Leaving => \E t \in Threads : pc[t] # "gateTwo"
  /\ ~Leaving => \E t \in Threads : pc[t] # "gateOne"
  /\ \A t \in Threads : t < created => pc[t] # "new"

(* A move that does not end at a gate.                                     *)
LEMMA MoveAwake ==
  ASSUME AwakeInv, NEW t \in Threads, pc'[t] \notin {"gateOne", "gateTwo", "new"},
         \A u \in Threads : u # t => pc'[u] = pc[u], created' = created
  PROVE  AwakeInv'
BY DEF AwakeInv

(* A move to a gate, when somebody is not there.                           *)
LEMMA GateAwake ==
  ASSUME AwakeInv, NEW t \in Threads, pc'[t] \in {"gateOne", "gateTwo"},
         \A u \in Threads : u # t => pc'[u] = pc[u], created' = created,
         Leaving' => \E u \in Threads : pc'[u] # "gateTwo",
         ~Leaving' => \E u \in Threads : pc'[u] # "gateOne"
  PROVE  AwakeInv'
BY DEF AwakeInv

LEMMA ArriveAwake ==
  ASSUME TeamInv, AwakeInv, NEW t \in Threads, Arrive(t)
  PROVE  AwakeInv'
<1>1. TypeOK /\ BarrierInv
  BY DEF TeamInv, BarrierInv
<1>2. /\ pc[t] = "arrive" /\ pc'[t] = "gateOne" /\ \A u \in Threads : u # t => pc'[u] = pc[u]
      /\ barrierCount' = barrierCount + 1 /\ barrierCount + 1 # ThreadCount /\ created' = created
  BY <1>1, GotoMoves DEF Arrive, mainVars
<1>3. BarrierInv' /\ ~Leaving'
  BY <1>1, <1>2, ArriveStep DEF BarrierInv, HalfInv, LeavingLabels
<1>4. Cardinality(Counted') # ThreadCount
  BY <1>2, <1>3 DEF BarrierInv, CountInv
<1>5. Counted' # Threads
  BY <1>4, ThreadsFinite
<1>6. PICK u \in Threads : pc'[u] \notin CountedLabels
  BY <1>5 DEF Counted
<1> QED BY <1>2, <1>3, <1>6, GateAwake DEF CountedLabels

LEMMA LeaveAwake ==
  ASSUME TeamInv, AwakeInv, NEW t \in Threads, Leave(t)
  PROVE  AwakeInv'
<1>1. TypeOK /\ BarrierInv
  BY DEF TeamInv, BarrierInv
<1>2. /\ pc[t] = "leave" /\ pc'[t] = "gateTwo" /\ \A u \in Threads : u # t => pc'[u] = pc[u]
      /\ barrierCount' = barrierCount - 1 /\ barrierCount - 1 # 0 /\ created' = created
  BY <1>1, GotoMoves DEF Leave, mainVars
<1>3. BarrierInv' /\ Leaving'
  BY <1>1, <1>2, LeaveStep DEF BarrierInv, HalfInv, ArrivingLabels
<1>4. Cardinality(Counted') # 0
  BY <1>2, <1>3 DEF BarrierInv, CountInv
<1>5. Counted' # {}
  BY <1>4, FS_EmptySet
<1>6. PICK u \in Threads : pc'[u] \in CountedLabels
  BY <1>5 DEF Counted
<1> QED BY <1>2, <1>3, <1>6, GateAwake DEF CountedLabels

LEMMA UnlockArrivalAwake ==
  ASSUME TeamInv, AwakeInv, NEW t \in Threads, UnlockArrival(t)
  PROVE  AwakeInv'
<1>1. TypeOK /\ BarrierInv
  BY DEF TeamInv, BarrierInv
<1>2. /\ pc[t] = "unlockIn" /\ pc'[t] = "gateOne" /\ created' = created
      /\ \A u \in Threads : u # t => pc'[u] = pc[u]
  BY <1>1, GotoMoves DEF UnlockArrival, mainVars
<1>3. Leaving'
  BY <1>1, <1>2, UnlockArrivalStep DEF BarrierInv, HalfInv, ArrivingLabels
<1> QED BY <1>2, <1>3, GateAwake

LEMMA UnlockDepartureAwake ==
  ASSUME TeamInv, AwakeInv, NEW t \in Threads, UnlockDeparture(t)
  PROVE  AwakeInv'
<1>1. TypeOK /\ BarrierInv
  BY DEF TeamInv, BarrierInv
<1>2. /\ pc[t] = "unlockOut" /\ pc'[t] = "gateTwo" /\ created' = created
      /\ \A u \in Threads : u # t => pc'[u] = pc[u]
  BY <1>1, GotoMoves DEF UnlockDeparture, mainVars
<1>3. ~Leaving'
  BY <1>1, <1>2, UnlockDepartureStep DEF BarrierInv, HalfInv, LeavingLabels
<1> QED BY <1>2, <1>3, GateAwake

LEMMA ThreadAwake ==
  ASSUME TeamInv, AwakeInv, NEW t \in Threads, CommonStep(t) \/ Decide(t)
  PROVE  AwakeInv'
<1>1. TypeOK
  BY DEF TeamInv
<1>2. ASSUME NEW from, NEW to, Goto(t, from, to), to \notin {"gateOne", "gateTwo", "new"},
             created' = created
      PROVE  AwakeInv'
  BY <1>1, <1>2, GotoMoves, MoveAwake
<1>3. created' = created
  BY DEF CommonStep, LoadPlates, TestBalanced, AndBalanced, BarrierStep, Arrive, ArriveLast,
     CloseTurnstile2, OpenTurnstile1, Decide, UnlockArrival, WaitTurnstile1, PostTurnstile1,
     Leave, LeaveLast, CloseTurnstile1, OpenTurnstile2, UnlockDeparture, WaitTurnstile2,
     PostTurnstile2, mainVars
<1>4. CASE LoadPlates(t) \/ TestBalanced(t) \/ AndBalanced(t) \/ Decide(t)
  <2>1. \/ Goto(t, "load", "test") \/ Goto(t, "test", "done") \/ Goto(t, "test", "compute")
        \/ Goto(t, "and", "arrive") \/ Goto(t, "decide", "unlockIn")
    BY <1>4 DEF LoadPlates, TestBalanced, AndBalanced, Decide
  <2> QED BY <1>2, <1>3, <2>1
<1>5. CASE \/ ArriveLast(t)      \/ CloseTurnstile2(t) \/ OpenTurnstile1(t) \/ WaitTurnstile1(t)
           \/ PostTurnstile1(t)  \/ LeaveLast(t)       \/ CloseTurnstile1(t)
           \/ OpenTurnstile2(t)  \/ WaitTurnstile2(t)  \/ PostTurnstile2(t)
  <2>1. \/ Goto(t, "arrive", "takeTwo") \/ Goto(t, "takeTwo", "openOne")
        \/ Goto(t, "openOne", "decide") \/ Goto(t, "gateOne", "passOne")
        \/ Goto(t, "passOne", "leave")  \/ Goto(t, "leave", "takeOne")
        \/ Goto(t, "takeOne", "openTwo") \/ Goto(t, "openTwo", "unlockOut")
        \/ Goto(t, "gateTwo", "passTwo") \/ Goto(t, "passTwo", "load")
    BY <1>5 DEF ArriveLast, CloseTurnstile2, OpenTurnstile1, WaitTurnstile1, PostTurnstile1,
       LeaveLast, CloseTurnstile1, OpenTurnstile2, WaitTurnstile2, PostTurnstile2
  <2> QED BY <1>2, <1>3, <2>1
<1> QED BY <1>4, <1>5, ArriveAwake, LeaveAwake, UnlockArrivalAwake, UnlockDepartureAwake
        DEF CommonStep, BarrierStep

LEMMA MainAwake ==
  ASSUME TeamInv, AwakeInv, MainStep
  PROVE  AwakeInv'
<1>1. TypeOK
  BY DEF TeamInv
<1>2. CASE CreateThread
  <2>1. created \in Threads /\ created \in Nat /\ created' = created + 1
    BY <1>1, <1>2, ThreadCountAssumption DEF TypeOK, CreateThread, Threads
  <2>2. pc'[created] = "load" /\ \A u \in Threads : u # created => pc'[u] = pc[u]
    BY <1>1, <1>2, <2>1, GotoMoves DEF CreateThread
  <2>3. \A u \in Threads : u < created + 1 => u = created \/ u < created
    BY <2>1 DEF Threads
  <2> QED BY <2>1, <2>2, <2>3 DEF AwakeInv
<1>3. CASE CreateFails \/ JoinPartialTeam \/ JoinTeam
  <2>1. UNCHANGED <<created, pc, turnstile1>>
    BY <1>3 DEF CreateFails, JoinPartialTeam, JoinTeam, barrier
  <2> QED BY <2>1 DEF AwakeInv, Leaving
<1> QED BY <1>2, <1>3 DEF MainStep

LEMMA StutterAwake ==
  ASSUME AwakeInv, UNCHANGED vars
  PROVE  AwakeInv'
BY DEF AwakeInv, Leaving, vars, mainVars, barrier

LEMMA InitAwake == Init => AwakeInv
<1> SUFFICES ASSUME Init PROVE AwakeInv
  OBVIOUS
<1>1. 0 \in Threads /\ pc[0] = "new" /\ created = 0 /\ Threads \subseteq Nat
  BY ThreadCountAssumption DEF Init, Threads
<1> QED BY <1>1 DEF AwakeInv

LEMMA GoesOnFromInv ==
  ASSUME TeamInv, AwakeInv
  PROVE  TeamGoesOn
<1> SUFFICES ASSUME main = "join" PROVE Joinable \/ \E t \in Threads : CanGoOn(t)
  BY DEF TeamGoesOn
<1>1. \A t \in Threads : pc[t] # "new"
  BY DEF TeamInv, MainInv, AwakeInv, Threads, TypeOK
<1>2. pc \in [Threads -> Labels] /\ turnstile1 \in Nat /\ turnstile2 \in Nat
      /\ turnstile1 + turnstile2 <= 1
  BY DEF TeamInv, TypeOK, PermitInv
<1>3. (\A t \in Threads : pc[t] \notin HoldingLabels) => barrierMutex = Free
  BY DEF TeamInv, TypeOK, MutexInv
<1>4. CASE turnstile1 = 0 /\ turnstile2 = 0
  <2>1. PICK t \in Threads : pc[t] \in BearingLabels
    BY <1>4 DEF TeamInv, PermitInv
  <2>2. CanGoOn(t)
    BY <2>1 DEF CanGoOn, BearingLabels
  <2> QED BY <2>2
<1>5. CASE turnstile1 = 1
  <2>1. Leaving /\ \A t \in Threads : pc[t] \in LeavingLabels
    BY <1>5 DEF Leaving, TeamInv, HalfInv
  <2>2. PICK t \in Threads : pc[t] # "gateTwo"
    BY <2>1 DEF AwakeInv
  <2>3. CASE pc[t] # "leave"
    <3>1. CanGoOn(t)
      BY <1>5, <2>1, <2>2, <2>3 DEF CanGoOn, LeavingLabels
    <3> QED BY <3>1
  <2>4. CASE pc[t] = "leave" /\ barrierMutex = Free
    <3>1. CanGoOn(t)
      BY <2>4 DEF CanGoOn
    <3> QED BY <3>1
  <2>5. CASE barrierMutex # Free
    <3>1. PICK u \in Threads : pc[u] \in HoldingLabels
      BY <1>3, <2>5
    <3>2. CanGoOn(u)
      BY <1>5, <2>1, <3>1 DEF CanGoOn, LeavingLabels, HoldingLabels
    <3> QED BY <3>2
  <2> QED BY <2>3, <2>4, <2>5
<1>6. CASE turnstile2 = 1
  <2>1. ~Leaving
    <3>1. turnstile1 = 0 /\ turnstile1 + turnstile2 = 1
      BY <1>2, <1>6
    <3> QED BY <3>1 DEF Leaving, TeamInv, PermitInv, BearingLabels
  <2>2. \A t \in Threads : pc[t] \in ArrivingLabels
    BY <2>1 DEF TeamInv, HalfInv
  <2>3. PICK t \in Threads : pc[t] # "gateOne"
    BY <2>1 DEF AwakeInv
  <2>4. CASE pc[t] \notin {"arrive", "done"}
    <3>1. CanGoOn(t)
      BY <1>1, <1>6, <2>2, <2>3, <2>4 DEF CanGoOn, ArrivingLabels
    <3> QED BY <3>1
  <2>5. CASE pc[t] = "arrive" /\ barrierMutex = Free
    <3>1. CanGoOn(t)
      BY <2>5 DEF CanGoOn
    <3> QED BY <3>1
  <2>6. CASE barrierMutex # Free
    <3>1. PICK u \in Threads : pc[u] \in HoldingLabels
      BY <1>3, <2>6
    <3>2. CanGoOn(u)
      BY <1>6, <2>2, <3>1 DEF CanGoOn, ArrivingLabels, HoldingLabels
    <3> QED BY <3>2
  <2>7. CASE pc[t] = "done"
    <3>1. Declared
      BY <2>7 DEF TeamInv, RoundsInv
    <3>2. \A u \in Threads : pc[u] \in ExitLabels
      BY <2>1, <3>1 DEF TeamInv, RoundsInv
    <3>3. CASE \A u \in Threads : pc[u] = "done"
      BY <3>3 DEF Joinable
    <3>4. CASE \E u \in Threads : pc[u] # "done"
      <4>1. PICK u \in Threads : pc[u] # "done"
        BY <3>4
      <4>2. CanGoOn(u)
        BY <1>6, <3>2, <4>1 DEF CanGoOn, ExitLabels
      <4> QED BY <4>2
    <3> QED BY <3>3, <3>4
  <2> QED BY <2>4, <2>5, <2>6, <2>7
<1> QED BY <1>2, <1>4, <1>5, <1>6
=============================================================================
