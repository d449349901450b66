------------------------- MODULE ProdConsBoundProofs -------------------------
(***************************************************************************)
(* Theorems about ProdConsBound for every capacity and every number of     *)
(* rounds: the types, that the ring and its semaphores implement a bounded *)
(* channel, that nothing is left behind when main cleans up, and that      *)
(* nobody waits in vain.                                                   *)
(***************************************************************************)
EXTENDS ProdConsBound, TLAPS

One(b) == IF b THEN 1 ELSE 0

(* A thread is past both loops exactly when it is done.                    *)
LoopInv ==
  /\ producer # "done" => pAt.round < Rounds
  /\ producer = "done" => pAt.round = Rounds /\ pAt.index = 0
  /\ consumer # "done" => cAt.round < Rounds
  /\ consumer = "done" => cAt.round = Rounds /\ cAt.index = 0

(* Main creates a thread once, and joins both unless something failed.     *)
StageInv ==
  /\ main = "createProducer" => producer = "unborn"
  /\ main \in {"createProducer", "createConsumer"} => consumer = "unborn"
  /\ main = "joinConsumer" => producer = "done"
  /\ main \in {"cleanUp", "freed", "exited"} /\ ~error =>
       producer = "done" /\ consumer = "done"

(* Every slot is free, filled, or in the hands of one of the threads.      *)
SemaphoresInv ==
  /\ count - value \in 0 .. Capacity
  /\ canProduce = Capacity - (count - value) - One(producer = "store")
                    - One(consumer = "signal")
  /\ canConsume = (count - value) - One(producer = "signal")
                    - One(consumer = "take")

(* The producer's next slot is the first one after the filled ones.        *)
NextStored == IF producer = "signal" THEN Advance(pAt).index ELSE pAt.index
RingInv    == NextStored = Slot(count - value)

(* The filled slots hold the products not yet taken, in order.             *)
ContentInv == \A i \in 0 .. count - value - 1 : buffer[Slot(i)] = value + 1 + i

(* The loop counters and the products tell the same progress.              *)
ProgressInv ==
  /\ count = pAt.round * Capacity + pAt.index + One(producer = "signal")
  /\ value = cAt.round * Capacity + cAt.index + One(consumer = "signal")

IInv == TypeOK /\ LoopInv /\ StageInv /\ SemaphoresInv /\ RingInv
          /\ ContentInv /\ ProgressInv

-----------------------------------------------------------------------------
LEMMA AdvanceFacts ==
  ASSUME NEW at \in Ats, at.round < Rounds
  PROVE  /\ Advance(at) \in Ats
         /\ Advance(at).index = IF at.index + 1 < Capacity THEN at.index + 1 ELSE 0
         /\ Advance(at).round * Capacity + Advance(at).index
              = at.round * Capacity + at.index + 1
         /\ Advance(at).round >= Rounds =>
              Advance(at).round = Rounds /\ Advance(at).index = 0
<1>1. /\ at.round \in Nat /\ at.index \in 0 .. Capacity - 1
      /\ Capacity \in Nat \ {0} /\ Rounds \in Nat
      /\ at = [round |-> at.round, index |-> at.index]
  BY ArgumentsAssumption DEF Ats, Slots
<1>2. (at.round + 1) * Capacity = at.round * Capacity + Capacity
  BY <1>1
<1>3. CASE at.index + 1 < Capacity
  <2>1. Advance(at) = [round |-> at.round, index |-> at.index + 1]
    BY <1>1, <1>3 DEF Advance
  <2>2. at.round * Capacity \in Nat
    BY <1>1
  <2> QED BY <1>1, <1>3, <2>1, <2>2 DEF Ats, Slots
<1>4. CASE ~(at.index + 1 < Capacity)
  <2>1. Advance(at) = [round |-> at.round + 1, index |-> 0]
    BY <1>4 DEF Advance
  <2>2. at.index + 1 = Capacity
    BY <1>1, <1>4
  <2>3. at.round * Capacity \in Nat
    BY <1>1
  <2> QED BY <1>1, <1>2, <2>1, <2>2, <2>3 DEF Ats, Slots
<1> QED BY <1>3, <1>4

(* The steps that touch neither a slot, a semaphore nor a loop counter.    *)
RingStays ==
  UNCHANGED <<buffer, canProduce, canConsume, pAt, count, cAt, value>>

LEMMA MainPreserves ==
  ASSUME IInv, MainStep
  PROVE  IInv' /\ UNCHANGED <<count, Inside, value>>
<1> USE DEF IInv, mainVars, producerVars, consumerVars
<1>1. /\ RingStays
      /\ (producer' = "store") = (producer = "store")
      /\ (producer' = "signal") = (producer = "signal")
      /\ (producer' = "done") = (producer = "done")
      /\ (consumer' = "take") = (consumer = "take")
      /\ (consumer' = "signal") = (consumer = "signal")
      /\ (consumer' = "done") = (consumer = "done")
  BY DEF MainStep, CreateProducer, CreateConsumer, CreateFails, JoinProducer,
         JoinConsumer, CleanUp, Exit, Crash, RingStays, StageInv
<1>2. TypeOK' /\ StageInv'
  BY DEF MainStep, CreateProducer, CreateConsumer, CreateFails, JoinProducer,
         JoinConsumer, CleanUp, Exit, Crash, TypeOK, StageInv
<1>3. LoopInv'
  BY <1>1 DEF RingStays, LoopInv
<1>4. SemaphoresInv' /\ ProgressInv'
  BY <1>1 DEF RingStays, SemaphoresInv, ProgressInv, One
<1>5. RingInv' /\ ContentInv' /\ UNCHANGED <<count, Inside, value>>
  <2>1. NextTaken' = NextTaken /\ NextStored' = NextStored
    BY <1>1 DEF RingStays, NextTaken, NextStored, Advance
  <2>2. \A i : Slot(i)' = Slot(i)
    BY <2>1 DEF Slot
  <2> QED BY <1>1, <2>1, <2>2 DEF RingStays, RingInv, ContentInv, Inside
<1> QED BY <1>2, <1>3, <1>4, <1>5

(* What the types say of the numbers, for the arithmetic below.            *)
LEMMA Numbers ==
  ASSUME TypeOK, LoopInv
  PROVE  /\ Capacity \in Nat \ {0} /\ Rounds \in Nat \ {0}
         /\ count \in Nat /\ value \in Nat
         /\ pAt.index \in 0 .. Capacity - 1 /\ cAt.index \in 0 .. Capacity - 1
         /\ pAt.round * Capacity \in Nat /\ cAt.round * Capacity \in Nat
         /\ NextTaken \in 0 .. Capacity - 1 /\ NextStored \in 0 .. Capacity - 1
<1> USE DEF TypeOK, LoopInv, Ats
<1>1. /\ Capacity \in Nat \ {0} /\ Rounds \in Nat \ {0}
      /\ pAt.index \in 0 .. Capacity - 1 /\ cAt.index \in 0 .. Capacity - 1
      /\ pAt.round \in Nat /\ cAt.round \in Nat
  BY ArgumentsAssumption DEF Slots
<1>2. pAt.round * Capacity \in Nat /\ cAt.round * Capacity \in Nat
  BY <1>1
<1>3. NextTaken \in 0 .. Capacity - 1
  BY <1>1, AdvanceFacts DEF NextTaken
<1>4. NextStored \in 0 .. Capacity - 1
  BY <1>1, AdvanceFacts DEF NextStored
<1> QED BY <1>1, <1>2, <1>3, <1>4

(* A semaphore or a loop counter moves, the ring does not.                 *)
LEMMA RingPreserved ==
  ASSUME TypeOK, LoopInv, RingInv, ContentInv,
         UNCHANGED <<buffer, count, value>>,
         NextTaken' = NextTaken, NextStored' = NextStored
  PROVE  RingInv' /\ ContentInv' /\ UNCHANGED Inside
<1>1. \A i : Slot(i)' = Slot(i)
  BY DEF Slot
<1> QED BY <1>1 DEF RingInv, ContentInv, Inside

LEMMA WaitSlotPreserves ==
  ASSUME IInv, WaitSlot
  PROVE  IInv' /\ UNCHANGED <<count, Inside, value>>
<1> USE DEF IInv, WaitSlot, mainVars, consumerVars
<1>1. TypeOK' /\ LoopInv' /\ StageInv'
  BY ArgumentsAssumption DEF TypeOK, LoopInv, StageInv
<1>2. SemaphoresInv'
  BY Numbers DEF SemaphoresInv, One, TypeOK
<1>3. ProgressInv'
  BY DEF ProgressInv, One
<1>4. NextTaken' = NextTaken /\ NextStored' = NextStored
  BY DEF NextTaken, NextStored, Advance
<1> QED BY <1>1, <1>2, <1>3, <1>4, RingPreserved

LEMMA SignalItemPreserves ==
  ASSUME IInv, SignalItem
  PROVE  IInv' /\ UNCHANGED <<count, Inside, value>>
<1> USE DEF IInv, SignalItem, mainVars, consumerVars
<1>1. /\ pAt \in Ats /\ pAt.round < Rounds
  BY DEF TypeOK, LoopInv
<1>2. /\ pAt' \in Ats
      /\ pAt'.round * Capacity + pAt'.index = pAt.round * Capacity + pAt.index + 1
      /\ pAt'.round >= Rounds => pAt'.round = Rounds /\ pAt'.index = 0
  BY <1>1, AdvanceFacts
<1>3. pAt'.round \in Nat /\ Rounds \in Nat
  BY <1>2, ArgumentsAssumption DEF Ats
<1>4. SemaphoresInv'
  BY Numbers DEF SemaphoresInv, One, TypeOK
<1>5. canConsume' \in 0 .. Capacity
  BY <1>4, Numbers DEF SemaphoresInv, One, TypeOK
<1>6. TypeOK'
  BY <1>2, <1>5 DEF TypeOK
<1>7. LoopInv'
  BY <1>2, <1>3 DEF LoopInv
<1>8. StageInv'
  BY DEF StageInv
<1>9. ProgressInv'
  <2>1. count = pAt'.round * Capacity + pAt'.index
    BY <1>2, Numbers DEF ProgressInv, One
  <2>2. producer' # "signal"
    OBVIOUS
  <2>3. pAt'.round * Capacity + pAt'.index + 0 = count
    BY <2>1, Numbers
  <2> QED BY <2>2, <2>3 DEF ProgressInv, One
<1>10. NextTaken' = NextTaken /\ NextStored' = NextStored
  BY DEF NextTaken, NextStored, Advance
<1> QED BY <1>4, <1>6, <1>7, <1>8, <1>9, <1>10, RingPreserved

LEMMA WaitItemPreserves ==
  ASSUME IInv, WaitItem
  PROVE  IInv' /\ UNCHANGED <<count, Inside, value>>
<1> USE DEF IInv, WaitItem, mainVars, producerVars
<1>1. TypeOK' /\ LoopInv' /\ StageInv'
  BY ArgumentsAssumption DEF TypeOK, LoopInv, StageInv
<1>2. SemaphoresInv'
  BY Numbers DEF SemaphoresInv, One, TypeOK
<1>3. ProgressInv'
  BY DEF ProgressInv, One
<1>4. NextTaken' = NextTaken /\ NextStored' = NextStored
  BY DEF NextTaken, NextStored, Advance
<1> QED BY <1>1, <1>2, <1>3, <1>4, RingPreserved

LEMMA SignalSlotPreserves ==
  ASSUME IInv, SignalSlot
  PROVE  IInv' /\ UNCHANGED <<count, Inside, value>>
<1> USE DEF IInv, SignalSlot, mainVars, producerVars
<1>1. /\ cAt \in Ats /\ cAt.round < Rounds
  BY DEF TypeOK, LoopInv
<1>2. /\ cAt' \in Ats
      /\ cAt'.round * Capacity + cAt'.index = cAt.round * Capacity + cAt.index + 1
      /\ cAt'.round >= Rounds => cAt'.round = Rounds /\ cAt'.index = 0
  BY <1>1, AdvanceFacts
<1>3. cAt'.round \in Nat /\ Rounds \in Nat
  BY <1>2, ArgumentsAssumption DEF Ats
<1>4. SemaphoresInv'
  BY Numbers DEF SemaphoresInv, One, TypeOK
<1>5. canProduce' \in 0 .. Capacity
  BY <1>4, Numbers DEF SemaphoresInv, One, TypeOK
<1>6. TypeOK'
  BY <1>2, <1>5 DEF TypeOK
<1>7. LoopInv'
  BY <1>2, <1>3 DEF LoopInv
<1>8. StageInv'
  BY DEF StageInv
<1>9. ProgressInv'
  <2>1. value = cAt'.round * Capacity + cAt'.index
    BY <1>2, Numbers DEF ProgressInv, One
  <2>2. consumer' # "signal"
    OBVIOUS
  <2>3. cAt'.round * Capacity + cAt'.index + 0 = value
    BY <2>1, Numbers
  <2> QED BY <2>2, <2>3 DEF ProgressInv, One
<1>10. NextTaken' = NextTaken /\ NextStored' = NextStored
  BY DEF NextTaken, NextStored, Advance
<1> QED BY <1>4, <1>6, <1>7, <1>8, <1>9, <1>10, RingPreserved

-----------------------------------------------------------------------------
(* The two steps that move a product.                                      *)

LEMMA SlotFacts ==
  ASSUME TypeOK, LoopInv
  PROVE  /\ \A i \in 0 .. Capacity : Slot(i) \in Slots
         /\ Slot(0) = NextTaken
         /\ \A i, j \in 0 .. Capacity - 1 : i # j => Slot(i) # Slot(j)
         /\ \A i \in 0 .. Capacity - 1 :
              Slot(i + 1) = IF Slot(i) + 1 < Capacity THEN Slot(i) + 1 ELSE 0
BY Numbers DEF Slot, Slots

(* What is inside, without the buffer.                                     *)
InsideNumbered == Inside = [i \in 1 .. count - value |-> value + i]

LEMMA InsideIs == IInv => InsideNumbered
<1> SUFFICES ASSUME TypeOK, LoopInv, ContentInv, SemaphoresInv
             PROVE  InsideNumbered
  BY DEF IInv
<1>1. \A i \in 1 .. count - value : buffer[Slot(i - 1)] = value + i
  <2> SUFFICES ASSUME NEW i \in 1 .. count - value
               PROVE  buffer[Slot(i - 1)] = value + i
    OBVIOUS
  <2>1. i - 1 \in 0 .. count - value - 1 /\ value + 1 + (i - 1) = value + i
    BY Numbers
  <2> QED BY <2>1 DEF ContentInv
<1> QED BY <1>1 DEF Inside, InsideNumbered

LEMMA StorePreserves ==
  ASSUME IInv, Store
  PROVE  IInv' /\ count - value < Capacity
<1> USE DEF IInv, Store, mainVars, consumerVars
<1> DEFINE n == count - value
<1>1. /\ n \in 0 .. Capacity - 1
      /\ n + 1 = count' - value'
  BY Numbers DEF SemaphoresInv, One, TypeOK
<1>2. /\ pAt.index = Slot(n) /\ pAt \in Ats /\ pAt.index \in Slots
      /\ pAt.round < Rounds
  BY DEF RingInv, NextStored, TypeOK, LoopInv, Ats
<1>3. NextTaken' = NextTaken /\ \A i : Slot(i)' = Slot(i)
  BY DEF NextTaken, Advance, Slot
<1>4. /\ buffer' \in [Slots -> Nat]
      /\ buffer'[Slot(n)] = value + 1 + n
      /\ \A i \in 0 .. n - 1 : buffer'[Slot(i)] = buffer[Slot(i)]
  <2>1. buffer \in [Slots -> Nat] /\ count \in Nat /\ count + 1 = value + 1 + n
    BY Numbers DEF TypeOK
  <2>2. \A i \in 0 .. n - 1 : Slot(i) # Slot(n) /\ Slot(i) \in Slots
    BY <1>1, SlotFacts, Numbers
  <2> QED BY <1>2, <2>1, <2>2
<1>5. TypeOK'
  BY <1>4, Numbers DEF TypeOK
<1>6. LoopInv' /\ StageInv'
  BY DEF LoopInv, StageInv
<1>7. SemaphoresInv'
  BY <1>1, Numbers DEF SemaphoresInv, One
<1>8. RingInv'
  <2>1. NextStored' = IF Slot(n) + 1 < Capacity THEN Slot(n) + 1 ELSE 0
    BY <1>2, AdvanceFacts DEF NextStored
  <2>2. NextStored' = Slot(n + 1)
    BY <1>1, <2>1, SlotFacts
  <2> QED BY <1>1, <1>3, <2>2 DEF RingInv
<1>9. ContentInv'
  <2> SUFFICES ASSUME NEW i \in 0 .. n
               PROVE  buffer'[Slot(i)] = value + 1 + i
    BY <1>1, <1>3, Numbers DEF ContentInv
  <2> QED BY <1>1, <1>4, Numbers DEF ContentInv
<1>10. ProgressInv'
  BY Numbers DEF ProgressInv, One
<1> QED BY <1>1, <1>5, <1>6, <1>7, <1>8, <1>9, <1>10, Numbers

LEMMA TakePreserves ==
  ASSUME IInv, Take
  PROVE  IInv' /\ count - value > 0 /\ value' = value + 1
<1> USE DEF IInv, Take, mainVars, producerVars
<1> DEFINE n == count - value
<1>1. n \in 1 .. Capacity
  BY Numbers DEF SemaphoresInv, One, TypeOK
<1>2. /\ cAt.index = Slot(0) /\ cAt \in Ats /\ cAt.round < Rounds
  BY SlotFacts DEF NextTaken, TypeOK, LoopInv
<1>3. value' = value + 1
  BY <1>1, <1>2, Numbers DEF ContentInv
<1>4. n - 1 = count' - value' /\ value' \in Nat
  BY <1>1, <1>3, Numbers
<1>5. TypeOK' /\ LoopInv' /\ StageInv'
  BY <1>4 DEF TypeOK, LoopInv, StageInv
<1>6. SemaphoresInv'
  BY <1>1, <1>4, Numbers DEF SemaphoresInv, One
<1>7. NextTaken' = IF NextTaken + 1 < Capacity THEN NextTaken + 1 ELSE 0
  BY <1>2, AdvanceFacts DEF NextTaken
<1>11. \A i \in 0 .. Capacity - 1 : Slot(i)' = Slot(i + 1)
  BY <1>7, Numbers DEF Slot
<1>8. RingInv'
  <2>1. NextStored' = NextStored
    BY DEF NextStored, Advance
  <2>2. n \in Nat /\ NextStored = Slot(n)
    BY <1>1, Numbers DEF RingInv
  <2> HIDE DEF n
  <2> QED BY <1>1, <1>4, <1>7, <2>1, <2>2, Numbers DEF RingInv, Slot
<1>9. ContentInv'
  <2> SUFFICES ASSUME NEW i \in 0 .. n - 2
               PROVE  buffer[Slot(i)'] = value + 1 + 1 + i
    BY <1>1, <1>3, <1>4, Numbers DEF ContentInv
  <2>1. i + 1 \in 0 .. n - 1 /\ Slot(i)' = Slot(i + 1)
    BY <1>1, <1>11, Numbers
  <2>2. buffer[Slot(i + 1)] = value + 1 + (i + 1)
    BY <2>1 DEF ContentInv
  <2> QED BY <2>1, <2>2, Numbers
<1>10. ProgressInv'
  BY <1>3, Numbers DEF ProgressInv, One
<1> QED BY <1>1, <1>3, <1>5, <1>6, <1>8, <1>9, <1>10, Numbers

-----------------------------------------------------------------------------
LEMMA InitIInv == Init => IInv /\ Channel!Init
<1> SUFFICES ASSUME Init PROVE IInv /\ Channel!Init
  OBVIOUS
<1> USE DEF Init, Start
<1>0. Capacity \in Nat \ {0} /\ Rounds \in Nat \ {0}
  BY ArgumentsAssumption
<1>1. pAt.index = 0 /\ cAt.index = 0 /\ pAt.round = 0 /\ cAt.round = 0
  OBVIOUS
<1>2. TypeOK
  <2>1. pAt \in Ats /\ cAt \in Ats
    BY <1>0 DEF Ats, Slots
  <2>2. buffer \in [Slots -> Nat]
    OBVIOUS
  <2>3. error \in BOOLEAN
    OBVIOUS
  <2>4. canProduce \in 0 .. Capacity /\ canConsume \in 0 .. Capacity
    BY <1>0
  <2> HIDE DEF Start
  <2> QED BY <2>1, <2>2, <2>3, <2>4 DEF TypeOK
<1>3. LoopInv /\ StageInv
  BY <1>0, <1>1 DEF LoopInv, StageInv
<1>4. SemaphoresInv /\ ProgressInv
  BY <1>0, <1>1 DEF SemaphoresInv, ProgressInv, One
<1>5. RingInv /\ ContentInv
  BY <1>0, <1>1 DEF RingInv, ContentInv, NextStored, NextTaken, Slot
<1>6. Inside = <<>>
  BY <1>0 DEF Inside
<1> QED BY <1>2, <1>3, <1>4, <1>5, <1>6 DEF IInv, Channel!Init

LEMMA NextPreserves == IInv /\ [Next]_vars => IInv' /\ [Channel!Next]_(Channel!vars)
<1> SUFFICES ASSUME IInv, [Next]_vars
             PROVE  IInv' /\ [Channel!Next]_(Channel!vars)
  OBVIOUS
<1> USE DEF Channel!vars
<1>1. CASE UNCHANGED vars
  <2>1. RingStays /\ UNCHANGED <<main, error, producer, consumer>>
    BY <1>1 DEF vars, mainVars, producerVars, consumerVars, RingStays
  <2>2. IInv'
    BY <2>1
    DEF IInv, TypeOK, LoopInv, StageInv, SemaphoresInv, RingInv, ContentInv,
        ProgressInv, RingStays, NextStored, NextTaken, Slot
  <2>3. UNCHANGED <<count, Inside, value>>
    BY <2>1 DEF RingStays, Inside, NextTaken, Slot, Advance
  <2> QED BY <2>2, <2>3
<1>2. CASE Store
  <2>1. IInv' /\ count - value < Capacity
    BY <1>2, StorePreserves
  <2> DEFINE n == count - value
  <2>2. /\ count' = count + 1 /\ value' = value
        /\ n \in Nat /\ value \in Nat /\ count' - value' = n + 1
        /\ count + 1 = value + (n + 1)
    BY <1>2, <2>1, Numbers DEF Store, consumerVars, IInv, SemaphoresInv
  <2>3. Inside = [i \in 1 .. n |-> value + i]
    BY InsideIs DEF InsideNumbered
  <2>4. Inside' = [i \in 1 .. n + 1 |-> value + i]
    <3>1. InsideNumbered'
      BY <2>1, InsideIs, PTL
    <3>2. Inside' = [i \in 1 .. count' - value' |-> value' + i]
      BY <3>1 DEF InsideNumbered
    <3> QED BY <2>2, <3>2
  <2> HIDE DEF n
  <2>5. Inside \in Seq(Nat) /\ Len(Inside) = n
    BY <2>2, <2>3
  <2>6. Inside' = Append(Inside, count + 1)
    BY <2>2, <2>3, <2>4, <2>5
  <2> QED BY <2>1, <2>2, <2>5, <2>6 DEF n, Channel!Next, Channel!Put
<1>3. CASE Take
  <2>1. IInv' /\ count - value > 0 /\ value' = value + 1
    BY <1>3, TakePreserves
  <2> DEFINE n == count - value
  <2>2. /\ count' = count /\ n \in Nat /\ n > 0 /\ value \in Nat
        /\ count' - value' = n - 1
    BY <1>3, <2>1, Numbers DEF Take, producerVars, IInv, SemaphoresInv
  <2>3. Inside = [i \in 1 .. n |-> value + i]
    BY InsideIs DEF InsideNumbered
  <2>4. Inside' = [i \in 1 .. n - 1 |-> value + 1 + i]
    <3>1. InsideNumbered'
      BY <2>1, InsideIs, PTL
    <3>2. Inside' = [i \in 1 .. count' - value' |-> value' + i]
      BY <3>1 DEF InsideNumbered
    <3> QED BY <2>1, <2>2, <3>2
  <2> HIDE DEF n
  <2>5. Inside \in Seq(Nat) /\ Len(Inside) = n /\ Inside # <<>>
    BY <2>2, <2>3
  <2>6. Head(Inside) = value + 1
    BY <2>2, <2>3, <2>5
  <2>7. Inside' = Tail(Inside)
    BY <2>2, <2>3, <2>4, <2>5
  <2> QED BY <2>1, <2>2, <2>5, <2>6, <2>7 DEF Channel!Next, Channel!Get
<1> QED
  BY <1>1, <1>2, <1>3, MainPreserves, WaitSlotPreserves, SignalItemPreserves,
     WaitItemPreserves, SignalSlotPreserves
  DEF Next, ProducerStep, ConsumerStep

-----------------------------------------------------------------------------
(* The inductive invariant holds for every capacity and number of rounds.  *)
THEOREM Invariance == Spec => []IInv
BY InitIInv, NextPreserves, PTL DEF Spec

(* No index leaves the buffer and no semaphore exceeds its capacity.       *)
THEOREM TypeCorrect == Spec => []TypeOK
<1>1. IInv => TypeOK
  BY DEF IInv
<1> QED BY <1>1, Invariance, PTL

(* The ring and its semaphores are a bounded channel.                      *)
THEOREM RingIsChannel == Spec => ImplementsChannel
BY InitIInv, NextPreserves, PTL DEF Spec, ImplementsChannel, Channel!Spec

(* When nothing failed, main cleans up only after the last product of the  *)
(* last round was taken, and every slot is free again.                     *)
THEOREM AllTaken == Spec => []EveryItemTaken
<1>1. IInv => EveryItemTaken
  <2> SUFFICES ASSUME IInv, producer = "done", consumer = "done"
               PROVE  /\ value = Rounds * Capacity
                      /\ count = value
                      /\ canProduce = Capacity
    BY DEF IInv, StageInv, EveryItemTaken
  <2>1. pAt.round = Rounds /\ pAt.index = 0 /\ cAt.round = Rounds /\ cAt.index = 0
    BY DEF IInv, LoopInv
  <2>2. Rounds * Capacity \in Nat
    BY ArgumentsAssumption
  <2>3. count = Rounds * Capacity /\ value = Rounds * Capacity
    BY <2>1, <2>2 DEF IInv, ProgressInv, One
  <2> QED BY <2>2, <2>3, ArgumentsAssumption DEF IInv, SemaphoresInv, One
<1> QED BY <1>1, Invariance, PTL

-----------------------------------------------------------------------------
(* The program never stands still.  What each thread needs to go on is     *)
(* what its actions ask: a thread to join, a slot, a product.              *)
MainReady ==
  /\ main # "exited"
  /\ main = "joinProducer" => producer = "done"
  /\ main = "joinConsumer" => consumer = "done"

ProducerReady ==
  /\ producer \notin {"unborn", "done"}
  /\ producer = "waitSlot" => canProduce > 0

ConsumerReady ==
  /\ consumer \notin {"unborn", "done"}
  /\ consumer = "waitItem" => canConsume > 0

SomebodyReady ==
  main # "exited" => MainReady \/ ProducerReady \/ ConsumerReady

(* Main only joins threads it has created.                                 *)
CreatedInv ==
  /\ main \in {"createConsumer", "joinProducer", "joinConsumer"} =>
       producer # "unborn"
  /\ main \in {"joinProducer", "joinConsumer"} => consumer # "unborn"

LEMMA InitCreated == Init => CreatedInv
BY DEF Init, CreatedInv

LEMMA CreatedPreserved == IInv /\ CreatedInv /\ [Next]_vars => CreatedInv'
<1> SUFFICES ASSUME IInv, CreatedInv, [Next]_vars PROVE CreatedInv'
  OBVIOUS
<1>1. CASE CreateProducer
  BY <1>1 DEF CreateProducer, CreatedInv
<1>2. CASE CreateConsumer
  <2>1. main = "createConsumer" /\ main' = "joinProducer"
        /\ consumer' = "waitItem" /\ producer' = producer
    BY <1>2 DEF CreateConsumer, producerVars
  <2> QED BY <2>1 DEF CreatedInv
<1>3. CASE CreateFails \/ CleanUp \/ Exit \/ Crash
  BY <1>3 DEF CreateFails, CleanUp, Exit, Crash, CreatedInv
<1>4. CASE JoinProducer
  BY <1>4 DEF JoinProducer, CreatedInv, producerVars, consumerVars
<1>5. CASE JoinConsumer
  BY <1>5 DEF JoinConsumer, CreatedInv
<1>6. CASE ProducerStep
  BY <1>6 DEF ProducerStep, WaitSlot, Store, SignalItem, CreatedInv, mainVars, consumerVars
<1>7. CASE ConsumerStep
  BY <1>7 DEF ConsumerStep, WaitItem, Take, SignalSlot, CreatedInv, mainVars, producerVars
<1>8. CASE UNCHANGED vars
  BY <1>8 DEF vars, mainVars, producerVars, consumerVars, CreatedInv
<1> QED BY <1>1, <1>2, <1>3, <1>4, <1>5, <1>6, <1>7, <1>8 DEF Next, MainStep

(* A position inside the loops is before their end.                        *)
LEMMA InsideLoops ==
  ASSUME NEW r \in Nat, NEW i \in 0 .. Capacity - 1, r < Rounds
  PROVE  r * Capacity + i < Rounds * Capacity
<1>1. Capacity \in Nat /\ Rounds \in Nat
  BY ArgumentsAssumption
<1>2. \A a, b, c \in Nat : a + 1 <= b => a * c + c <= b * c
  <2> SUFFICES ASSUME NEW a \in Nat, NEW b \in Nat, NEW c \in Nat, a + 1 <= b
               PROVE  a * c + c <= b * c
    OBVIOUS
  <2>1. PICK d \in Nat : b = a + 1 + d
    <3>1. b - a - 1 \in Nat /\ b = a + 1 + (b - a - 1)
      OBVIOUS
    <3> QED BY <3>1
  <2>2. b * c = a * c + c + d * c /\ a * c \in Nat /\ d * c \in Nat
    BY <2>1
  <2> QED BY <2>2
<1>3. r * Capacity + Capacity <= Rounds * Capacity
  BY <1>1, <1>2
<1>4. r * Capacity \in Nat /\ Rounds * Capacity \in Nat
  BY <1>1
<1> QED BY <1>1, <1>3, <1>4

LEMMA ReadyFromInv == IInv /\ CreatedInv => SomebodyReady
<1> SUFFICES ASSUME IInv, CreatedInv, main # "exited", ~MainReady
             PROVE  ProducerReady \/ ConsumerReady
  BY DEF SomebodyReady
<1>1. TypeOK /\ LoopInv /\ StageInv /\ SemaphoresInv /\ ProgressInv
  BY DEF IInv
<1>2. producer # "unborn" /\ consumer # "unborn"
      /\ (producer # "done" \/ consumer # "done")
  BY <1>1 DEF MainReady, CreatedInv, StageInv
<1>3. /\ pAt.round \in Nat /\ pAt.index \in 0 .. Capacity - 1
      /\ cAt.round \in Nat /\ cAt.index \in 0 .. Capacity - 1
      /\ count \in Nat /\ value \in Nat /\ canProduce \in Nat /\ canConsume \in Nat
      /\ Capacity \in Nat \ {0} /\ Rounds * Capacity \in Nat
  BY <1>1, ArgumentsAssumption DEF TypeOK, Ats, Slots
<1> SUFFICES ASSUME ~ProducerReady, ~ConsumerReady PROVE FALSE
  OBVIOUS
<1>4. producer = "done" \/ (producer = "waitSlot" /\ canProduce = 0)
  BY <1>1, <1>2, <1>3 DEF TypeOK, ProducerReady
<1>5. consumer = "done" \/ (consumer = "waitItem" /\ canConsume = 0)
  BY <1>1, <1>2, <1>3 DEF TypeOK, ConsumerReady
<1>6. canProduce = Capacity - (count - value) /\ canConsume = count - value
  BY <1>1, <1>3, <1>4, <1>5 DEF SemaphoresInv, One
<1>7. CASE producer = "waitSlot" /\ consumer = "waitItem"
  BY <1>3, <1>4, <1>5, <1>6, <1>7
<1>8. CASE producer = "waitSlot" /\ consumer = "done"
  <2>1. value = Rounds * Capacity /\ count = pAt.round * Capacity + pAt.index
    BY <1>1, <1>3, <1>8 DEF LoopInv, ProgressInv, One
  <2>2. count < Rounds * Capacity
    BY <1>1, <1>3, <1>8, <2>1, InsideLoops DEF LoopInv
  <2>3. canProduce = 0
    BY <1>4, <1>8
  <2> QED BY <1>3, <1>6, <2>1, <2>2, <2>3
<1>9. CASE producer = "done" /\ consumer = "waitItem"
  <2>1. count = Rounds * Capacity /\ value = cAt.round * Capacity + cAt.index
    BY <1>1, <1>3, <1>9 DEF LoopInv, ProgressInv, One
  <2>2. value < Rounds * Capacity
    BY <1>1, <1>3, <1>9, <2>1, InsideLoops DEF LoopInv
  <2>3. canConsume = 0
    BY <1>5, <1>9
  <2> QED BY <1>3, <1>6, <2>1, <2>2, <2>3
<1> QED BY <1>2, <1>4, <1>5, <1>7, <1>8, <1>9

(* In every state before the exit some thread can take its next step: no   *)
(* two threads wait for each other's semaphore, and main does not join one *)
(* that waits for a post nobody will make (lines 169-218), for every       *)
(* capacity and number of rounds and whatever thread is not created.       *)
THEOREM NeverStuck == Spec => []SomebodyReady
BY InitIInv, NextPreserves, InitCreated, CreatedPreserved, ReadyFromInv,
   Invariance, PTL DEF Spec
=============================================================================
