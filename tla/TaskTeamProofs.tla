--------------------------- MODULE TaskTeamProofs ---------------------------
(***************************************************************************)
(* For every team: the order of the work is right when routines wait for   *)
(* those they depend on, however many threads fail to be created, and the  *)
(* semaphores are destroyed under nobody, with no post left over; and a    *)
(* team created whole never leaves main joining a routine that is stuck.   *)
(***************************************************************************)
EXTENDS TaskTeam, FiniteSetTheorems, TLAPS

TypeOK ==
  /\ number \in Nat
  /\ ready \in [Semaphores -> Nat]
  /\ phase \in [Tasks -> {"unborn", "wait", "post"}]
  /\ passed \in [Tasks -> Nat]

(* The threads not yet added have not started.                             *)
BirthInv ==
  /\ stage = "add" =>
       \A i \in DOMAIN Team : i > number => phase[Team[i]] = "unborn"
  /\ \A t \in Tasks : phase[t] = "unborn" => passed[t] = 0

(* A semaphore is above zero only when its owner is complete.              *)
PostInv ==
  \A s \in Semaphores : ready[s] > 0 =>
    \A u \in Tasks : PostedBy(u, s) => Complete(u)

(* A wait that is over was for the work of a routine that is complete.     *)
Waited(t, k) == Complete(t) \/ (phase[t] = "wait" /\ k <= passed[t])
WaitInv ==
  \A t \in Tasks : \A k \in DOMAIN Waits[t] : Waited(t, k) =>
    \A u \in Tasks : PostedBy(u, Waits[t][k]) => Complete(u)

IInv == TypeOK /\ BirthInv /\ PostInv /\ WaitInv

(* Facts of the table of routines.                                         *)
LEMMA TableFacts ==
  /\ DOMAIN Team = 1 .. Len(Team) /\ Len(Team) \in Nat
  /\ \A i \in DOMAIN Team : Team[i] \in Tasks
  /\ \A t \in Tasks :
       /\ Len(Waits[t]) \in Nat /\ DOMAIN Waits[t] = 1 .. Len(Waits[t])
       /\ \A k \in DOMAIN Waits[t] : Waits[t][k] \in Semaphores
       /\ Len(Posts[t]) \in Nat /\ DOMAIN Posts[t] = 1 .. Len(Posts[t])
       /\ \A k \in DOMAIN Posts[t] : Posts[t][k] \in Semaphores
<1>1. /\ Team \in Seq(Tasks)
      /\ Waits \in [Tasks -> Seq(Semaphores)]
      /\ Posts \in [Tasks -> Seq(Semaphores)]
  BY TeamAssumption
<1>2. DOMAIN Team = 1 .. Len(Team) /\ Len(Team) \in Nat
  BY <1>1
<1>3. \A i \in DOMAIN Team : Team[i] \in Tasks
  BY DEF Tasks
<1>4. ASSUME NEW t \in Tasks
      PROVE  Waits[t] \in Seq(Semaphores) /\ Posts[t] \in Seq(Semaphores)
  BY <1>1
<1> QED BY <1>2, <1>3, <1>4

LEMMA InitIInv == Init => IInv
<1> SUFFICES ASSUME Init PROVE IInv
  OBVIOUS
<1>1. TypeOK
  BY DEF Init, TypeOK
<1>2. BirthInv
  BY TableFacts DEF Init, BirthInv
<1>3. PostInv /\ WaitInv
  BY DEF Init, PostInv, WaitInv, Waited, Complete
<1> QED BY <1>1, <1>2, <1>3 DEF IInv

(* What is complete stays complete.                                        *)
LEMMA MainPreserves ==
  ASSUME IInv, MainStep
  PROVE  IInv'
<1> USE DEF IInv
<1>1. CASE AddThread
  <2>1. PICK i \in DOMAIN Team :
          /\ i = number + 1 /\ number' = i
          /\ phase[Team[i]] = "unborn"
          /\ phase' \in {phase, [phase EXCEPT ![Team[i]] = "wait"]}
          /\ UNCHANGED <<stage, ready, passed>>
    <3>1. number + 1 \in DOMAIN Team /\ stage = "add"
      BY <1>1, TableFacts DEF AddThread, TypeOK
    <3>2. phase[Team[number + 1]] = "unborn"
      BY <3>1, TableFacts DEF BirthInv, TypeOK
    <3> QED BY <1>1, <3>1, <3>2 DEF AddThread
  <2>2. Team[i] \in Tasks /\ i \in Nat
    BY TableFacts
  <2>3. TypeOK'
    BY <2>1, <2>2 DEF TypeOK
  <2>4. \A t \in Tasks : phase'[t] = phase[t] \/ (t = Team[i] /\ phase'[t] = "wait")
    BY <2>1, <2>2 DEF TypeOK
  <2>5. \A t \in Tasks : Complete(t) => Complete(t)'
    BY <2>1, <2>4 DEF Complete
  <2>6. BirthInv'
    <3>0. \A t \in Tasks : phase'[t] = "unborn" => passed'[t] = 0
      BY <2>1, <2>4 DEF BirthInv
    <3> SUFFICES ASSUME stage = "add", NEW j \in DOMAIN Team, j > i
                 PROVE  phase'[Team[j]] = "unborn"
      BY <2>1, <3>0 DEF BirthInv
    <3>1. j # i /\ j > number
      BY <2>1, <2>2, TableFacts DEF TypeOK
    <3>2. Team[j] # Team[i]
      BY <3>1, TeamAssumption
    <3> QED BY <2>4, <3>1, <3>2, TableFacts DEF BirthInv
  <2>7. PostInv'
    BY <2>1, <2>5 DEF PostInv
  <2>8. WaitInv'
    <3> SUFFICES ASSUME NEW t \in Tasks, NEW k \in DOMAIN Waits[t], Waited(t, k)',
                        NEW u \in Tasks, PostedBy(u, Waits[t][k])
                 PROVE  Complete(u)'
      BY DEF WaitInv, PostedBy
    <3>1. CASE phase'[t] = phase[t]
      BY <2>1, <2>5, <3>1 DEF WaitInv, Waited, Complete
    <3>2. CASE t = Team[i] /\ phase'[t] = "wait"
      <4>1. passed'[t] = 0 /\ k \in Nat /\ k > 0
        BY <2>1, <2>2, <3>2, TableFacts DEF BirthInv
      <4> QED BY <3>2, <4>1 DEF Waited, Complete
    <3> QED BY <2>4, <3>1, <3>2
  <2> QED BY <2>3, <2>6, <2>7, <2>8
<1>2. CASE ~AddThread
  <2>1. /\ UNCHANGED <<ready, phase, passed>> /\ number' \in Nat
        /\ stage' # "add"
    BY <1>2 DEF MainStep, StartJoining, JoinThread, JoinCrashes, Destroy, TypeOK
  <2> QED
    BY <2>1
    DEF TypeOK, BirthInv, PostInv, WaitInv, Waited, Complete
<1> QED BY <1>1, <1>2

LEMMA WaitPreserves ==
  ASSUME IInv, NEW t \in Tasks, WaitSemaphore(t)
  PROVE  IInv'
<1> USE DEF IInv
<1> DEFINE k == passed[t] + 1
           s == Waits[t][k]
<1>1. k \in DOMAIN Waits[t] /\ k \in Nat /\ s \in Semaphores
  BY TableFacts DEF WaitSemaphore, TypeOK
<1>2. /\ phase[t] = "wait" /\ ready[s] > 0 /\ ready[s] - 1 \in Nat
      /\ ready' = [ready EXCEPT ![s] = @ - 1]
      /\ passed' = [passed EXCEPT ![t] = k]
      /\ UNCHANGED <<stage, number, phase>>
  BY <1>1 DEF WaitSemaphore, TypeOK
<1> HIDE DEF s
<1>3. TypeOK' /\ BirthInv'
  BY <1>1, <1>2 DEF TypeOK, BirthInv
<1>4. PostInv'
  BY <1>1, <1>2 DEF TypeOK, PostInv, Complete
<1>5. WaitInv'
  <2> SUFFICES ASSUME NEW v \in Tasks, NEW j \in DOMAIN Waits[v], Waited(v, j)',
                      NEW u \in Tasks, PostedBy(u, Waits[v][j])
               PROVE  Complete(u)
    BY <1>2 DEF WaitInv, PostedBy, Complete
  <2>1. CASE v = t /\ j = k
    BY <1>1, <1>2, <2>1 DEF PostInv, s
  <2>2. CASE ~(v = t /\ j = k)
    <3>1. j \in Nat
      BY TableFacts
    <3>2. Waited(v, j)
      BY <1>1, <1>2, <2>2, <3>1 DEF Waited, Complete, TypeOK
    <3> QED BY <3>2 DEF WaitInv
  <2> QED BY <2>1, <2>2
<1> QED BY <1>3, <1>4, <1>5

LEMMA FinishPreserves ==
  ASSUME IInv, NEW t \in Tasks, FinishWork(t)
  PROVE  IInv'
<1> USE DEF IInv
<1>1. /\ phase[t] = "wait" /\ passed[t] = Len(Waits[t])
      /\ phase' = [phase EXCEPT ![t] = "post"]
      /\ passed' = [passed EXCEPT ![t] = 0]
      /\ UNCHANGED <<stage, number, ready>>
  BY DEF FinishWork, Working
<1>2. TypeOK'
  BY <1>1 DEF TypeOK
<1>3. \A u \in Tasks : Complete(u) => Complete(u)'
  BY <1>1 DEF Complete, TypeOK
<1>4. BirthInv'
  BY <1>1, TableFacts DEF BirthInv, TypeOK
<1>5. PostInv'
  BY <1>1, <1>3 DEF PostInv
<1>6. WaitInv'
  <2> SUFFICES ASSUME NEW v \in Tasks, NEW j \in DOMAIN Waits[v], Waited(v, j)',
                      NEW u \in Tasks, PostedBy(u, Waits[v][j])
               PROVE  Complete(u)
    BY <1>3 DEF WaitInv, PostedBy
  <2>1. Waited(v, j)
    BY <1>1, TableFacts DEF Waited, Complete, TypeOK
  <2> QED BY <2>1 DEF WaitInv
<1> QED BY <1>2, <1>4, <1>5, <1>6

LEMMA PostPreserves ==
  ASSUME IInv, NEW t \in Tasks, PostSemaphore(t)
  PROVE  IInv'
<1> USE DEF IInv
<1> DEFINE k == passed[t] + 1
           s == Posts[t][k]
<1>1. k \in DOMAIN Posts[t] /\ k \in Nat /\ s \in Semaphores
  BY TableFacts DEF PostSemaphore, TypeOK
<1>2. /\ phase[t] = "post" /\ ready[s] + 1 \in Nat
      /\ ready' = [ready EXCEPT ![s] = @ + 1]
      /\ passed' = [passed EXCEPT ![t] = k]
      /\ UNCHANGED <<stage, number, phase>>
  BY <1>1 DEF PostSemaphore, TypeOK
<1>3. PostedBy(t, s)
  BY <1>1 DEF PostedBy
<1> HIDE DEF s
<1>4. TypeOK' /\ BirthInv'
  BY <1>1, <1>2 DEF TypeOK, BirthInv
<1>5. PostInv'
  <2> SUFFICES ASSUME NEW r \in Semaphores, ready'[r] > 0,
                      NEW u \in Tasks, PostedBy(u, r)
               PROVE  Complete(u)
    BY <1>2 DEF PostInv, PostedBy, Complete
  <2>1. CASE r = s
    BY <1>2, <1>3, <2>1, TeamAssumption DEF Complete
  <2>2. CASE r # s
    BY <1>2, <2>2 DEF PostInv, TypeOK
  <2> QED BY <2>1, <2>2
<1>6. WaitInv'
  <2>1. \A v \in Tasks : \A j : Waited(v, j)' => Waited(v, j)
    BY <1>2 DEF Waited, Complete, TypeOK
  <2> QED BY <1>2, <2>1 DEF WaitInv, Complete
<1> QED BY <1>4, <1>5, <1>6

LEMMA NextPreserves == IInv /\ [Next]_vars => IInv'
<1> SUFFICES ASSUME IInv, [Next]_vars PROVE IInv'
  OBVIOUS
<1>1. CASE UNCHANGED vars
  BY <1>1
  DEF vars, IInv, TypeOK, BirthInv, PostInv, WaitInv, Waited, Complete
<1> QED
  BY <1>1, MainPreserves, WaitPreserves, FinishPreserves, PostPreserves
  DEF Next, TaskStep

-----------------------------------------------------------------------------
(* The inductive invariant holds for every team.                           *)
THEOREM Invariance == Spec => []IInv
BY InitIInv, NextPreserves, PTL DEF Spec

(* Nobody starts before everything it depends on is complete: for every    *)
(* task graph whose table of waits and posts covers its arrows.            *)
THEOREM OrderRespected == Spec => []DependenciesRespected
<1>1. IInv => DependenciesRespected
  <2> SUFFICES ASSUME IInv, NEW t \in Tasks, Working(t) \/ Complete(t),
                      NEW u \in Dependencies[t]
               PROVE  Complete(u)
    BY DEF DependenciesRespected
  <2>1. u \in Tasks
    BY TeamAssumption
  <2>2. PICK s \in Semaphores : PostedBy(u, s) /\ WaitedBy(t, s)
    BY TeamAssumption
  <2>3. PICK k \in DOMAIN Waits[t] : Waits[t][k] = s
    BY <2>2 DEF WaitedBy
  <2>4. Waited(t, k)
    BY <2>3, TableFacts DEF Waited, Working
  <2> QED BY <2>1, <2>2, <2>3, <2>4 DEF IInv, WaitInv
<1> QED BY <1>1, Invariance, PTL

-----------------------------------------------------------------------------
(* Joining.  While it joins, and afterwards, main has waited for every     *)
(* routine before the next one to join.                                    *)
Over(t) == t \in failed \/ Done(t)

JoinInv ==
  /\ stage \in {"add", "join", "destroyed", "crashed"}
  /\ stage = "join" => \A i \in DOMAIN Team : i <= number => Over(Team[i])
  /\ stage = "destroyed" => \A t \in Tasks : Over(t)

LEMMA RoutineStaysOver ==
  ASSUME IInv, NEW u \in Tasks, WaitSemaphore(u) \/ FinishWork(u) \/ PostSemaphore(u),
         NEW t \in Tasks, Over(t)
  PROVE  Over(t)'
<1> USE DEF IInv, TypeOK
<1>1. UNCHANGED failed
  BY DEF WaitSemaphore, FinishWork, PostSemaphore
<1>2. CASE t \in failed
  BY <1>1, <1>2 DEF Over
<1>3. CASE Done(t)
  <2>1. phase[t] = "post" /\ passed[t] = Len(Posts[t])
    BY <1>3 DEF Done
  <2>2. u # t
    BY <2>1, TableFacts DEF WaitSemaphore, FinishWork, PostSemaphore, Working
  <2>3. phase'[t] = phase[t] /\ passed'[t] = passed[t]
    BY <2>2 DEF WaitSemaphore, FinishWork, PostSemaphore
  <2> QED BY <2>1, <2>3 DEF Over, Done
<1> QED BY <1>2, <1>3 DEF Over

LEMMA JoinStep ==
  ASSUME IInv, JoinInv, [Next]_vars
  PROVE  JoinInv'
<1> USE DEF IInv, TypeOK
<1>1. CASE AddThread
  BY <1>1 DEF AddThread, JoinInv
<1>2. CASE StartJoining
  BY <1>2, TableFacts DEF StartJoining, JoinInv
<1>3. CASE JoinThread
  <2>1. /\ stage = "join" /\ stage' = "join" /\ number' = number + 1
        /\ Over(Team[number + 1])
        /\ UNCHANGED <<failed, phase, passed>>
    BY <1>3 DEF JoinThread, Over
  <2>2. \A i \in DOMAIN Team : i <= number + 1 => Over(Team[i])
    <3> TAKE i \in DOMAIN Team
    <3>1. i \in Nat
      BY TableFacts
    <3> QED BY <2>1, <3>1 DEF JoinInv
  <2> QED BY <2>1, <2>2 DEF JoinInv, Over, Done
<1>4. CASE JoinCrashes
  BY <1>4 DEF JoinCrashes, JoinInv
<1>5. CASE Destroy
  <2>1. /\ stage = "join" /\ number = Len(Team) /\ stage' = "destroyed"
        /\ UNCHANGED <<failed, phase, passed>>
    BY <1>5 DEF Destroy
  <2>2. \A t \in Tasks : Over(t)
    <3> TAKE t \in Tasks
    <3>1. PICK i \in DOMAIN Team : Team[i] = t
      BY DEF Tasks
    <3> QED BY <2>1, <3>1, TableFacts DEF JoinInv
  <2> QED BY <2>1, <2>2 DEF JoinInv, Over, Done
<1>6. ASSUME NEW u \in Tasks, TaskStep(u)
      PROVE  JoinInv'
  <2>1. WaitSemaphore(u) \/ FinishWork(u) \/ PostSemaphore(u)
    BY <1>6 DEF TaskStep
  <2>2. UNCHANGED <<stage, number>>
    BY <2>1 DEF WaitSemaphore, FinishWork, PostSemaphore
  <2>3. \A t \in Tasks : Over(t) => Over(t)'
    BY <2>1, RoutineStaysOver
  <2> QED BY <2>2, <2>3, TableFacts DEF JoinInv
<1>7. CASE UNCHANGED vars
  BY <1>7 DEF vars, JoinInv, Over, Done
<1> QED BY <1>1, <1>2, <1>3, <1>4, <1>5, <1>6, <1>7 DEF Next, MainStep

LEMMA JoinInvariant == Spec => []JoinInv
<1>1. Init => JoinInv
  BY DEF Init, JoinInv
<1> QED BY <1>1, JoinStep, Invariance, PTL DEF Spec

-----------------------------------------------------------------------------
(* A semaphore is worth the posts done on it less the waits it let through.*)
Posted(s) == {p \in Places(Posts, s) : phase[p[1]] = "post" /\ p[2] <= passed[p[1]]}
Taken(s)  == {p \in Places(Waits, s) : Waited(p[1], p[2])}

CountInv ==
  \A s \in Semaphores :
    /\ IsFiniteSet(Posted(s)) /\ IsFiniteSet(Taken(s))
    /\ ready[s] + Cardinality(Taken(s)) = Cardinality(Posted(s))

LEMMA InPlaces ==
  ASSUME NEW table, NEW s, NEW p
  PROVE  p \in Places(table, s)
           <=> \E t \in Tasks : \E k \in DOMAIN table[t] : p = <<t, k>> /\ table[t][k] = s
BY DEF Places

(* A step that adds one place to a set counts it.                          *)
LEMMA CountOne ==
  ASSUME NEW S, NEW x, IsFiniteSet(S), x \notin S
  PROVE  IsFiniteSet(S \union {x}) /\ Cardinality(S \union {x}) = Cardinality(S) + 1
BY FS_AddElement

LEMMA MainCounts ==
  ASSUME IInv, CountInv, MainStep
  PROVE  CountInv'
<1> USE DEF IInv
<1>1. ready' = ready /\ passed' = passed
  BY DEF MainStep, AddThread, StartJoining, JoinThread, JoinCrashes, Destroy
<1>2. \A t \in Tasks : phase'[t] = phase[t]
                       \/ (phase[t] = "unborn" /\ passed[t] = 0 /\ phase'[t] = "wait")
  <2>1. CASE AddThread
    <3>1. number + 1 \in DOMAIN Team /\ stage = "add" /\ number + 1 > number
          /\ Team[number + 1] \in Tasks
      BY <2>1, TableFacts DEF AddThread, TypeOK
    <3>2. phase[Team[number + 1]] = "unborn" /\ passed[Team[number + 1]] = 0
      BY <3>1 DEF BirthInv
    <3> QED BY <2>1, <3>1, <3>2 DEF AddThread, TypeOK
  <2> QED BY <2>1 DEF MainStep, StartJoining, JoinThread, JoinCrashes, Destroy
<1>3. ASSUME NEW s \in Semaphores PROVE Posted(s)' = Posted(s) /\ Taken(s)' = Taken(s)
  <2>1. ASSUME NEW p \in Places(Posts, s)
        PROVE  (phase'[p[1]] = "post" /\ p[2] <= passed'[p[1]])
                 <=> (phase[p[1]] = "post" /\ p[2] <= passed[p[1]])
    <3>1. PICK t \in Tasks : p[1] = t
      BY InPlaces
    <3> QED BY <1>1, <1>2, <3>1
  <2>2. ASSUME NEW p \in Places(Waits, s) PROVE Waited(p[1], p[2])' <=> Waited(p[1], p[2])
    <3>1. PICK t \in Tasks : \E k \in DOMAIN Waits[t] : p = <<t, k>>
      BY InPlaces
    <3>2. PICK k \in DOMAIN Waits[t] : p = <<t, k>>
      BY <3>1
    <3>3. p[1] = t /\ p[2] = k /\ k \in Nat /\ k > 0
      BY <3>2, TableFacts
    <3> QED BY <1>1, <1>2, <3>3 DEF Waited, Complete
  <2> QED BY <2>1, <2>2 DEF Posted, Taken
<1> QED BY <1>1, <1>3 DEF CountInv

LEMMA WaitCounts ==
  ASSUME IInv, CountInv, NEW t \in Tasks, WaitSemaphore(t)
  PROVE  CountInv'
<1> USE DEF IInv
<1>1. PICK k \in DOMAIN Waits[t] : k = passed[t] + 1
  BY TableFacts DEF WaitSemaphore, TypeOK
<1>2. PICK s \in Semaphores : s = Waits[t][k]
  BY <1>1, TableFacts
<1>3. /\ phase[t] = "wait" /\ ready[s] > 0 /\ ready' = [ready EXCEPT ![s] = @ - 1]
      /\ passed' = [passed EXCEPT ![t] = k] /\ phase' = phase /\ k \in Nat
  BY <1>1, <1>2, TableFacts DEF WaitSemaphore
<1>4. \A r \in Semaphores : Posted(r)' = Posted(r)
  <2> SUFFICES ASSUME NEW r \in Semaphores, NEW p \in Places(Posts, r)
               PROVE  (phase'[p[1]] = "post" /\ p[2] <= passed'[p[1]])
                        <=> (phase[p[1]] = "post" /\ p[2] <= passed[p[1]])
    BY DEF Posted
  <2>1. PICK u \in Tasks : p[1] = u
    BY InPlaces
  <2> QED BY <1>3, <2>1 DEF TypeOK
<1>5. \A u \in Tasks : \A j \in DOMAIN Waits[u] :
        Waited(u, j)' <=> Waited(u, j) \/ (u = t /\ j = k)
  <2> SUFFICES ASSUME NEW u \in Tasks, NEW j \in DOMAIN Waits[u]
               PROVE  Waited(u, j)' <=> Waited(u, j) \/ (u = t /\ j = k)
    OBVIOUS
  <2>1. j \in Nat
    BY TableFacts
  <2> QED BY <1>1, <1>3, <2>1 DEF Waited, Complete, TypeOK
<1>6. ~ Waited(t, k)
  BY <1>1, <1>3 DEF Waited, Complete, TypeOK
<1>7. ASSUME NEW r \in Semaphores
      PROVE  Taken(r)' = IF r = s THEN Taken(r) \union {<<t, k>>} ELSE Taken(r)
  <2>1. \A p \in Places(Waits, r) : Waited(p[1], p[2])' <=> Waited(p[1], p[2]) \/ p = <<t, k>>
    <3> TAKE p \in Places(Waits, r)
    <3>1. PICK u \in Tasks : \E j \in DOMAIN Waits[u] : p = <<u, j>>
      BY InPlaces
    <3>2. PICK j \in DOMAIN Waits[u] : p = <<u, j>>
      BY <3>1
    <3>3. p[1] = u /\ p[2] = j
      BY <3>2
    <3> QED BY <1>5, <3>2, <3>3 DEF Waited, Complete
  <2>2. <<t, k>> \in Places(Waits, r) <=> r = s
    BY <1>2, InPlaces
  <2> QED BY <2>1, <2>2 DEF Taken
<1>8. <<t, k>> \notin Taken(s)
  BY <1>6 DEF Taken
<1>9. ASSUME NEW r \in Semaphores
      PROVE  IsFiniteSet(Taken(r))' /\ ready'[r] + Cardinality(Taken(r))' = Cardinality(Posted(r))
  <2>1. CASE r # s
    <3>1. Taken(r)' = Taken(r) /\ ready'[r] = ready[r]
      BY <1>3, <1>7, <2>1 DEF TypeOK
    <3> QED BY <3>1 DEF CountInv
  <2>2. CASE r = s
    <3>1. Taken(r)' = Taken(r) \union {<<t, k>>} /\ <<t, k>> \notin Taken(r)
          /\ ready'[r] = ready[r] - 1
      BY <1>3, <1>7, <1>8, <2>2 DEF TypeOK
    <3>2. IsFiniteSet(Taken(r)) /\ ready[r] + Cardinality(Taken(r)) = Cardinality(Posted(r))
          /\ ready[r] \in Nat
      BY DEF CountInv, TypeOK
    <3>3. Cardinality(Taken(r)) \in Nat
      BY <3>2, FS_CardinalityType
    <3>4. IsFiniteSet(Taken(r) \union {<<t, k>>})
          /\ Cardinality(Taken(r) \union {<<t, k>>}) = Cardinality(Taken(r)) + 1
      BY <3>1, <3>2, CountOne
    <3> QED BY <3>1, <3>2, <3>3, <3>4
  <2> QED BY <2>1, <2>2
<1> QED BY <1>4, <1>9 DEF CountInv

LEMMA FinishCounts ==
  ASSUME IInv, CountInv, NEW t \in Tasks, FinishWork(t)
  PROVE  CountInv'
<1> USE DEF IInv
<1>1. /\ phase[t] = "wait" /\ passed[t] = Len(Waits[t]) /\ ready' = ready
      /\ phase' = [phase EXCEPT ![t] = "post"] /\ passed' = [passed EXCEPT ![t] = 0]
  BY DEF FinishWork, Working
<1>2. ASSUME NEW s \in Semaphores PROVE Posted(s)' = Posted(s) /\ Taken(s)' = Taken(s)
  <2>1. ASSUME NEW p \in Places(Posts, s)
        PROVE  (phase'[p[1]] = "post" /\ p[2] <= passed'[p[1]])
                 <=> (phase[p[1]] = "post" /\ p[2] <= passed[p[1]])
    <3>1. PICK u \in Tasks : \E k \in DOMAIN Posts[u] : p = <<u, k>>
      BY InPlaces
    <3>2. PICK k \in DOMAIN Posts[u] : p = <<u, k>>
      BY <3>1
    <3>3. p[1] = u /\ p[2] = k /\ k \in Nat /\ k > 0
      BY <3>2, TableFacts
    <3> QED BY <1>1, <3>3 DEF TypeOK
  <2>2. ASSUME NEW p \in Places(Waits, s) PROVE Waited(p[1], p[2])' <=> Waited(p[1], p[2])
    <3>1. PICK u \in Tasks : \E k \in DOMAIN Waits[u] : p = <<u, k>>
      BY InPlaces
    <3>2. PICK k \in DOMAIN Waits[u] : p = <<u, k>>
      BY <3>1
    <3>3. p[1] = u /\ p[2] = k /\ k \in 1 .. Len(Waits[u])
      BY <3>2, TableFacts
    <3> QED BY <1>1, <3>3 DEF TypeOK, Waited, Complete
  <2> QED BY <2>1, <2>2 DEF Posted, Taken
<1> QED BY <1>1, <1>2 DEF CountInv

LEMMA PostCounts ==
  ASSUME IInv, CountInv, NEW t \in Tasks, PostSemaphore(t)
  PROVE  CountInv'
<1> USE DEF IInv
<1>1. PICK k \in DOMAIN Posts[t] : k = passed[t] + 1
  BY TableFacts DEF PostSemaphore, TypeOK
<1>2. PICK s \in Semaphores : s = Posts[t][k]
  BY <1>1, TableFacts
<1>3. /\ phase[t] = "post" /\ ready' = [ready EXCEPT ![s] = @ + 1]
      /\ passed' = [passed EXCEPT ![t] = k] /\ phase' = phase /\ k \in Nat
  BY <1>1, <1>2, TableFacts DEF PostSemaphore
<1>4. \A r \in Semaphores : Taken(r)' = Taken(r)
  <2> SUFFICES ASSUME NEW r \in Semaphores, NEW p \in Places(Waits, r)
               PROVE  Waited(p[1], p[2])' <=> Waited(p[1], p[2])
    BY DEF Taken
  <2>1. PICK u \in Tasks : p[1] = u
    BY InPlaces
  <2> QED BY <1>3, <2>1 DEF TypeOK, Waited, Complete
<1>5. ASSUME NEW r \in Semaphores
      PROVE  Posted(r)' = IF r = s THEN Posted(r) \union {<<t, k>>} ELSE Posted(r)
  <2>1. \A p \in Places(Posts, r) :
          (phase'[p[1]] = "post" /\ p[2] <= passed'[p[1]])
            <=> (phase[p[1]] = "post" /\ p[2] <= passed[p[1]]) \/ p = <<t, k>>
    <3> TAKE p \in Places(Posts, r)
    <3>1. PICK u \in Tasks : \E j \in DOMAIN Posts[u] : p = <<u, j>>
      BY InPlaces
    <3>2. PICK j \in DOMAIN Posts[u] : p = <<u, j>>
      BY <3>1
    <3>3. p[1] = u /\ p[2] = j /\ j \in Nat
      BY <3>2, TableFacts
    <3> QED BY <1>1, <1>3, <3>2, <3>3 DEF TypeOK
  <2>2. <<t, k>> \in Places(Posts, r) <=> r = s
    BY <1>2, InPlaces
  <2> QED BY <2>1, <2>2 DEF Posted
<1>6. <<t, k>> \notin Posted(s)
  BY <1>1, <1>3 DEF Posted, TypeOK
<1>7. ASSUME NEW r \in Semaphores
      PROVE  IsFiniteSet(Posted(r))' /\ ready'[r] + Cardinality(Taken(r)) = Cardinality(Posted(r))'
  <2>1. CASE r # s
    <3>1. Posted(r)' = Posted(r) /\ ready'[r] = ready[r]
      BY <1>3, <1>5, <2>1 DEF TypeOK
    <3> QED BY <3>1 DEF CountInv
  <2>2. CASE r = s
    <3>1. Posted(r)' = Posted(r) \union {<<t, k>>} /\ <<t, k>> \notin Posted(r)
          /\ ready'[r] = ready[r] + 1
      BY <1>3, <1>5, <1>6, <2>2 DEF TypeOK
    <3>2. /\ IsFiniteSet(Posted(r)) /\ ready[r] + Cardinality(Taken(r)) = Cardinality(Posted(r))
          /\ ready[r] \in Nat /\ IsFiniteSet(Taken(r))
      BY DEF CountInv, TypeOK
    <3>3. Cardinality(Posted(r)) \in Nat /\ Cardinality(Taken(r)) \in Nat
      BY <3>2, FS_CardinalityType
    <3>4. IsFiniteSet(Posted(r) \union {<<t, k>>})
          /\ Cardinality(Posted(r) \union {<<t, k>>}) = Cardinality(Posted(r)) + 1
      BY <3>1, <3>2, CountOne
    <3> QED BY <3>1, <3>2, <3>3, <3>4
  <2> QED BY <2>1, <2>2
<1> QED BY <1>4, <1>7 DEF CountInv

LEMMA InitCounts == Init => CountInv
<1> SUFFICES ASSUME Init, NEW s \in Semaphores
             PROVE  /\ IsFiniteSet(Posted(s)) /\ IsFiniteSet(Taken(s))
                    /\ ready[s] + Cardinality(Taken(s)) = Cardinality(Posted(s))
  BY DEF CountInv
<1>1. \A t \in Tasks : phase[t] = "unborn"
  BY DEF Init
<1>2. \A p \in Places(Posts, s) \union Places(Waits, s) : p[1] \in Tasks
  BY InPlaces
<1>3. Posted(s) = {} /\ Taken(s) = {}
  BY <1>1, <1>2 DEF Posted, Taken, Waited, Complete
<1> QED BY <1>3, FS_EmptySet DEF Init

LEMMA NextCounts == IInv /\ CountInv /\ [Next]_vars => CountInv'
<1> SUFFICES ASSUME IInv, CountInv, [Next]_vars PROVE CountInv'
  OBVIOUS
<1>1. CASE UNCHANGED vars
  BY <1>1 DEF vars, CountInv, Posted, Taken, Waited, Complete
<1> QED BY <1>1, MainCounts, WaitCounts, FinishCounts, PostCounts DEF Next, TaskStep

(* The semaphores and the team are destroyed under nobody, and when every  *)
(* thread was created no post is left over: for every team whose table     *)
(* posts each semaphore as often as it waits for it (main.c lines 77-86,   *)
(* ethread.c lines 125-138).                                               *)
THEOREM NothingLeftOver == Spec => []DestroyedLast
<1>1. ASSUME IInv, JoinInv, CountInv PROVE DestroyedLast
  <2> SUFFICES ASSUME stage = "destroyed"
               PROVE  /\ \A t \in Tasks \ failed : Done(t)
                      /\ failed = {} => \A s \in Semaphores : ready[s] = 0
    BY DEF DestroyedLast
  <2>1. \A t \in Tasks \ failed : Done(t)
    BY <1>1 DEF JoinInv, Over
  <2>2. ASSUME failed = {}, NEW s \in Semaphores PROVE ready[s] = 0
    <3>1. \A t \in Tasks : phase[t] = "post" /\ passed[t] = Len(Posts[t])
      BY <2>1, <2>2 DEF Done
    <3>2. Posted(s) = Places(Posts, s)
      <4> SUFFICES ASSUME NEW p \in Places(Posts, s)
                   PROVE  phase[p[1]] = "post" /\ p[2] <= passed[p[1]]
        BY DEF Posted
      <4>1. PICK u \in Tasks : \E k \in DOMAIN Posts[u] : p = <<u, k>>
        BY InPlaces
      <4>2. PICK k \in DOMAIN Posts[u] : p = <<u, k>>
        BY <4>1
      <4>3. p[1] = u /\ p[2] = k /\ k \in 1 .. Len(Posts[u])
        BY <4>2, TableFacts
      <4> QED BY <3>1, <4>3
    <3>3. Taken(s) = Places(Waits, s)
      <4> SUFFICES ASSUME NEW p \in Places(Waits, s) PROVE Waited(p[1], p[2])
        BY DEF Taken
      <4>1. p[1] \in Tasks
        BY InPlaces
      <4> QED BY <3>1, <4>1 DEF Waited, Complete
    <3>4. /\ IsFiniteSet(Taken(s)) /\ ready[s] \in Nat
          /\ ready[s] + Cardinality(Taken(s)) = Cardinality(Posted(s))
      BY <1>1 DEF CountInv, IInv, TypeOK
    <3>5. Cardinality(Taken(s)) \in Nat
      BY <3>4, FS_CardinalityType
    <3>6. Cardinality(Posted(s)) = Cardinality(Taken(s))
      BY <3>2, <3>3, BalanceAssumption
    <3> QED BY <3>4, <3>5, <3>6
  <2> QED BY <2>1, <2>2
<1>2. Spec => []CountInv
  BY InitCounts, NextCounts, Invariance, PTL DEF Spec
<1> QED BY <1>1, <1>2, Invariance, JoinInvariant, PTL

-----------------------------------------------------------------------------
(* Nobody waits in vain.  What a routine needs to go on is what its        *)
(* actions ask: its thread, and a post of the semaphore it has come to.    *)
CanGoOn(t) ==
  /\ phase[t] # "unborn" /\ ~Done(t)
  /\ phase[t] = "wait" /\ passed[t] < Len(Waits[t]) =>
       ready[Waits[t][passed[t] + 1]] > 0

JoinedGoesOn ==
  stage = "join" /\ number < Len(Team) /\ failed = {} =>
    Done(Team[number + 1]) \/ CanGoOn(Team[number + 1])

(* Every routine main has counted has a thread, or its creation failed;    *)
(* no routine counts more waits or posts than it has.                      *)
BornInv ==
  /\ \A i \in DOMAIN Team : stage # "add" \/ i <= number =>
       Team[i] \in failed \/ phase[Team[i]] # "unborn"
  /\ \A t \in Tasks :
       /\ phase[t] = "wait" => passed[t] <= Len(Waits[t])
       /\ phase[t] = "post" => passed[t] <= Len(Posts[t])

LEMMA InitBorn == Init => BornInv
<1> SUFFICES ASSUME Init PROVE BornInv
  OBVIOUS
<1>1. \A i \in DOMAIN Team : ~(i <= 0)
  BY TableFacts
<1> QED BY <1>1 DEF Init, BornInv

LEMMA MainBorn ==
  ASSUME IInv, JoinInv, BornInv, MainStep
  PROVE  BornInv'
<1> USE DEF IInv, TypeOK
<1>1. CASE AddThread
  <2> DEFINE n == number + 1
  <2>1. /\ stage = "add" /\ stage' = "add" /\ number' = n /\ passed' = passed
        /\ n \in DOMAIN Team /\ Team[n] \in Tasks
    BY <1>1, TableFacts DEF AddThread
  <2>2. phase[Team[n]] = "unborn" /\ passed[Team[n]] = 0
    BY <2>1 DEF BirthInv
  <2>3. \/ phase' = [phase EXCEPT ![Team[n]] = "wait"] /\ failed' = failed
        \/ phase' = phase /\ failed' = failed \union {Team[n]}
    BY <1>1 DEF AddThread
  <2>4. ASSUME NEW i \in DOMAIN Team, i <= n
        PROVE  Team[i] \in failed' \/ phase'[Team[i]] # "unborn"
    <3>1. i <= number \/ i = n
      BY <2>4, TableFacts
    <3>2. Team[i] \in Tasks
      BY TableFacts
    <3> QED BY <2>1, <2>3, <3>1, <3>2 DEF BornInv
  <2>5. ASSUME NEW t \in Tasks
        PROVE  /\ phase'[t] = "wait" => passed'[t] <= Len(Waits[t])
               /\ phase'[t] = "post" => passed'[t] <= Len(Posts[t])
    <3>1. CASE phase'[t] = phase[t]
      BY <2>1, <3>1 DEF BornInv
    <3>2. CASE t = Team[n] /\ phase'[t] = "wait"
      BY <2>1, <2>2, <3>2, TableFacts
    <3> QED BY <2>1, <2>3, <3>1, <3>2
  <2> HIDE DEF n
  <2> QED BY <2>1, <2>4, <2>5 DEF BornInv
<1>2. CASE StartJoining
  <2>1. stage = "add" /\ number = Len(Team) /\ UNCHANGED <<failed, phase, passed>>
    BY <1>2 DEF StartJoining
  <2>2. \A i \in DOMAIN Team : i <= number
    BY <2>1, TableFacts
  <2> QED BY <2>1, <2>2 DEF BornInv
<1>3. CASE JoinThread \/ JoinCrashes \/ Destroy
  <2>1. stage = "join" /\ UNCHANGED <<failed, phase, passed>>
    BY <1>3 DEF JoinThread, JoinCrashes, Destroy
  <2> QED BY <2>1 DEF BornInv
<1> QED BY <1>1, <1>2, <1>3 DEF MainStep

LEMMA TaskBorn ==
  ASSUME IInv, BornInv, NEW t \in Tasks,
         WaitSemaphore(t) \/ FinishWork(t) \/ PostSemaphore(t)
  PROVE  BornInv'
<1> USE DEF IInv, TypeOK
<1>1. UNCHANGED <<stage, number, failed>>
  BY DEF WaitSemaphore, FinishWork, PostSemaphore
<1>2. \A u \in Tasks : phase[u] # "unborn" => phase'[u] # "unborn"
  BY DEF WaitSemaphore, FinishWork, PostSemaphore
<1>3. ASSUME NEW u \in Tasks
      PROVE  /\ phase'[u] = "wait" => passed'[u] <= Len(Waits[u])
             /\ phase'[u] = "post" => passed'[u] <= Len(Posts[u])
  <2>1. CASE u # t
    <3>1. phase'[u] = phase[u] /\ passed'[u] = passed[u]
      BY <2>1 DEF WaitSemaphore, FinishWork, PostSemaphore
    <3> QED BY <3>1 DEF BornInv
  <2>2. CASE u = t
    BY <2>2, TableFacts DEF WaitSemaphore, FinishWork, PostSemaphore
  <2> QED BY <2>1, <2>2
<1> QED BY <1>1, <1>2, <1>3, TableFacts DEF BornInv

LEMMA BornInvariant == Spec => []BornInv
<1>1. IInv /\ JoinInv /\ BornInv /\ [Next]_vars => BornInv'
  <2> SUFFICES ASSUME IInv, JoinInv, BornInv, [Next]_vars PROVE BornInv'
    OBVIOUS
  <2>1. CASE UNCHANGED vars
    BY <2>1 DEF vars, BornInv
  <2> QED BY <2>1, MainBorn, TaskBorn DEF Next, TaskStep
<1> QED BY <1>1, InitBorn, Invariance, JoinInvariant, PTL DEF Spec

LEMMA PlacesFinite ==
  ASSUME NEW s \in Semaphores
  PROVE  IsFiniteSet(Places(Waits, s))
<1>1. IsFiniteSet(Tasks)
  <2>1. Team \in Surjection(1 .. Len(Team), Tasks)
    <3>1. Team \in [1 .. Len(Team) -> Tasks]
      BY TeamAssumption
    <3> QED BY <3>1, TableFacts DEF Surjection, Tasks
  <2>2. IsFiniteSet(1 .. Len(Team))
    BY TableFacts, FS_Interval
  <2> QED BY <2>1, <2>2, FS_Surjection
<1> DEFINE P(t) == {<<t, k>> : k \in {j \in DOMAIN Waits[t] : Waits[t][j] = s}}
           f == [t \in Tasks |-> P(t)]
           R == {P(t) : t \in Tasks}
<1>2. ASSUME NEW t \in Tasks PROVE IsFiniteSet(P(t))
  <2> DEFINE K == {j \in DOMAIN Waits[t] : Waits[t][j] = s}
             g == [k \in K |-> <<t, k>>]
  <2>1. IsFiniteSet(1 .. Len(Waits[t]))
    BY TableFacts, FS_Interval
  <2>2. K \in SUBSET (1 .. Len(Waits[t]))
    BY TableFacts
  <2>3. IsFiniteSet(K)
    BY <2>1, <2>2, FS_Subset
  <2>4. g \in Surjection(K, P(t))
    BY DEF Surjection
  <2> QED BY <2>3, <2>4, FS_Surjection
<1>3. f \in Surjection(Tasks, R)
  BY DEF Surjection
<1>4. IsFiniteSet(R)
  BY <1>1, <1>3, FS_Surjection
<1>5. \A T \in R : IsFiniteSet(T)
  BY <1>2
<1>6. IsFiniteSet(UNION R)
  BY <1>4, <1>5, FS_UNION
<1> QED BY <1>6 DEF Places

(* A semaphore whose owner is done has been posted in full.                *)
LEMMA AllPosted ==
  ASSUME NEW s \in Semaphores, NEW u \in Tasks, PostedBy(u, s), Done(u)
  PROVE  Posted(s) = Places(Posts, s)
<1> SUFFICES ASSUME NEW p \in Places(Posts, s)
             PROVE  phase[p[1]] = "post" /\ p[2] <= passed[p[1]]
  BY DEF Posted
<1>1. PICK v \in Tasks : \E k \in DOMAIN Posts[v] : p = <<v, k>> /\ Posts[v][k] = s
  BY InPlaces
<1>2. PICK k \in DOMAIN Posts[v] : p = <<v, k>> /\ Posts[v][k] = s
  BY <1>1
<1>3. v = u
  BY <1>2, TeamAssumption DEF PostedBy
<1>4. p[1] = u /\ p[2] = k /\ k \in 1 .. Len(Posts[u])
  BY <1>2, <1>3, TableFacts
<1> QED BY <1>4 DEF Done

(* A wait that is to come, for a semaphore posted in full, finds a post.   *)
LEMMA PostLeft ==
  ASSUME IInv, CountInv, NEW s \in Semaphores, NEW p \in Places(Waits, s),
         ~Waited(p[1], p[2]), Posted(s) = Places(Posts, s)
  PROVE  ready[s] > 0
<1>1. /\ IsFiniteSet(Taken(s)) /\ ready[s] \in Nat
      /\ ready[s] + Cardinality(Taken(s)) = Cardinality(Posted(s))
  BY DEF CountInv, IInv, TypeOK
<1>2. Taken(s) \in SUBSET Places(Waits, s) /\ p \notin Taken(s)
  BY DEF Taken
<1>3. IsFiniteSet(Places(Waits, s))
  BY PlacesFinite
<1>4. Cardinality(Places(Waits, s)) # Cardinality(Taken(s))
  BY <1>2, <1>3, FS_Subset
<1>5. Cardinality(Taken(s)) \in Nat
  BY <1>1, FS_CardinalityType
<1>6. Cardinality(Posted(s)) = Cardinality(Places(Waits, s))
  BY BalanceAssumption
<1> QED BY <1>1, <1>4, <1>5, <1>6

(* Somebody posts what somebody waits for.                                 *)
LEMMA WaitedIsPosted ==
  ASSUME NEW s \in Semaphores, NEW t \in Tasks, WaitedBy(t, s)
  PROVE  \E u \in Tasks : PostedBy(u, s)
<1>1. PICK k \in DOMAIN Waits[t] : Waits[t][k] = s
  BY DEF WaitedBy
<1>2. Places(Waits, s) # {}
  BY <1>1, InPlaces
<1>3. Cardinality(Places(Waits, s)) # 0
  BY <1>2, PlacesFinite, FS_EmptySet
<1>4. Places(Posts, s) # {}
  BY <1>3, BalanceAssumption, FS_EmptySet
<1>5. PICK p \in Places(Posts, s) : TRUE
  BY <1>4
<1>6. PICK u \in Tasks : \E j \in DOMAIN Posts[u] : p = <<u, j>> /\ Posts[u][j] = s
  BY InPlaces
<1> QED BY <1>6 DEF PostedBy

(* When every thread was created, main never joins a routine that waits    *)
(* for a semaphore at zero: all the routines before it are done, they have *)
(* made all the posts it may need, and the routines after it that share    *)
(* them cannot have taken its own (main.c lines 66-77).                    *)
THEOREM NeverJoinsBlocked == Spec => []JoinedGoesOn
<1>1. ASSUME IInv, JoinInv, CountInv, BornInv PROVE JoinedGoesOn
  <2> SUFFICES ASSUME stage = "join", number < Len(Team), failed = {},
                      ~Done(Team[number + 1])
               PROVE  CanGoOn(Team[number + 1])
    BY DEF JoinedGoesOn
  <2>1. PICK i \in DOMAIN Team : i = number + 1
    BY <1>1, TableFacts DEF IInv, TypeOK
  <2>2. PICK t \in Tasks : t = Team[i]
    BY TableFacts
  <2>3. phase[t] # "unborn" /\ ~Done(t)
    BY <1>1, <2>1, <2>2 DEF BornInv
  <2>4. \A j \in DOMAIN Team : j < i => Done(Team[j])
    BY <1>1, <2>1, TableFacts DEF JoinInv, Over, IInv, TypeOK
  <2>5. ASSUME phase[t] = "wait", passed[t] < Len(Waits[t])
        PROVE  ready[Waits[t][passed[t] + 1]] > 0
    <3>1. PICK k \in DOMAIN Waits[t] : k = passed[t] + 1
      BY <1>1, <2>5, TableFacts DEF IInv, TypeOK
    <3>2. PICK s \in Semaphores : s = Waits[t][k]
      BY TableFacts
    <3>3. WaitedBy(t, s)
      BY <3>2 DEF WaitedBy
    <3>4. PICK u \in Tasks : PostedBy(u, s)
      BY <3>3, WaitedIsPosted
    <3>5. PICK j \in DOMAIN Team : Team[j] = u
      BY DEF Tasks
    <3>6. j < i
      BY <2>2, <3>3, <3>4, <3>5, OrderAssumption
    <3>7. Posted(s) = Places(Posts, s)
      BY <2>4, <3>4, <3>5, <3>6, AllPosted
    <3>8. <<t, k>> \in Places(Waits, s)
      BY <3>2, InPlaces
    <3>9. ~Waited(t, k)
      BY <1>1, <2>5, <3>1 DEF Waited, Complete, IInv, TypeOK
    <3>10. ready[s] > 0
      <4> DEFINE p == <<t, k>>
      <4>1. p[1] = t /\ p[2] = k /\ p \in Places(Waits, s)
        BY <3>8
      <4> HIDE DEF p
      <4> QED BY <1>1, <3>7, <3>9, <4>1, PostLeft
    <3> QED BY <3>1, <3>2, <3>10
  <2> QED BY <2>1, <2>2, <2>3, <2>5 DEF CanGoOn
<1>2. Spec => []CountInv
  BY InitCounts, NextCounts, Invariance, PTL DEF Spec
<1> QED BY <1>1, <1>2, Invariance, JoinInvariant, BornInvariant, PTL
=============================================================================
