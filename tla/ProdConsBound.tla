---------------------------- MODULE ProdConsBound ----------------------------
(***************************************************************************)
(* A producer and a consumer over a bounded buffer:                        *)
(* examples/pthreads/prod_cons_bound.  Two semaphores count the free and   *)
(* the filled slots; each thread walks the slots in rounds with an index   *)
(* of its own and no lock.  The random delays of both threads are the      *)
(* interleavings of this model.                                            *)
(***************************************************************************)
EXTENDS Naturals, Sequences

CONSTANTS Capacity,        (* buffer_capacity                              *)
          Rounds,          (* rounds                                       *)
          CreateMayFail    (* pthread_create may return an error           *)

(* analyze_arguments rejects zero for both.                                *)
ASSUME ArgumentsAssumption ==
  /\ Capacity \in Nat \ {0}
  /\ Rounds \in Nat \ {0}
  /\ CreateMayFail \in BOOLEAN

VARIABLES
  main,         (* where the main thread is                                *)
  error,        (* what create_threads returned is not EXIT_SUCCESS        *)
  buffer,       (* the slots; the heap block lives until main is "freed"   *)
  canProduce,   (* can_produce                                             *)
  canConsume,   (* can_consume                                             *)
  producer,     (* where the producer is                                   *)
  pAt,          (* its loop counters: round and index                      *)
  count,        (* the products it has made                                *)
  consumer,     (* where the consumer is                                   *)
  cAt,          (* its loop counters: round and index                      *)
  value         (* the last product it took, 0 before the first            *)

mainVars     == <<main, error>>
producerVars == <<producer, pAt, count>>
consumerVars == <<consumer, cAt, value>>
vars == <<mainVars, buffer, canProduce, canConsume, producerVars, consumerVars>>

Slots == 0 .. Capacity - 1
Start == [round |-> 0, index |-> 0]

(* Mutant of Advance: the index wraps one slot late.                       *)
WrapLate(at) ==
  IF at.index + 1 <= Capacity
  THEN [at EXCEPT !.index = @ + 1]
  ELSE [round |-> at.round + 1, index |-> 0]

(* The two nested loops: the next slot, or the first one of another round. *)
Advance(at) ==
  IF at.index + 1 < Capacity
  THEN [at EXCEPT !.index = @ + 1]
  ELSE [round |-> at.round + 1, index |-> 0]

(* Mutant of Init: one slot too many can be produced.                      *)
OneSlotTooMany ==
  /\ main = "createProducer" /\ error = FALSE
  /\ buffer = [i \in Slots |-> 0]
  /\ canProduce = Capacity + 1 /\ canConsume = 0
  /\ producer = "unborn" /\ pAt = Start /\ count = 0
  /\ consumer = "unborn" /\ cAt = Start /\ value = 0

Init ==
  /\ main = "createProducer" /\ error = FALSE
  /\ buffer = [i \in Slots |-> 0]
  /\ canProduce = Capacity /\ canConsume = 0
  /\ producer = "unborn" /\ pAt = Start /\ count = 0
  /\ consumer = "unborn" /\ cAt = Start /\ value = 0

-----------------------------------------------------------------------------
(* The main thread.                                                        *)

CreateProducer ==
  /\ main = "createProducer"
  /\ main' = "createConsumer"
  /\ producer' = "waitSlot"
  /\ UNCHANGED <<error, buffer, canProduce, canConsume, pAt, count, consumerVars>>

CreateConsumer ==
  /\ main = "createConsumer"
  /\ main' = "joinProducer"
  /\ consumer' = "waitItem"
  /\ UNCHANGED <<error, buffer, canProduce, canConsume, producerVars, cAt, value>>

(* After an error nobody is joined, not even a producer that is running.   *)
CreateFails ==
  /\ CreateMayFail
  /\ main \in {"createProducer", "createConsumer"}
  /\ main' = "cleanUp"
  /\ error' = TRUE
  /\ UNCHANGED <<buffer, canProduce, canConsume, producerVars, consumerVars>>

JoinProducer ==
  /\ main = "joinProducer"
  /\ producer = "done"
  /\ main' = "joinConsumer"
  /\ UNCHANGED <<error, buffer, canProduce, canConsume, producerVars, consumerVars>>

(* Mutant of JoinConsumer: only the producer is waited for.                *)
SkipConsumer ==
  /\ main = "joinConsumer"
  /\ main' = "cleanUp"
  /\ UNCHANGED <<error, buffer, canProduce, canConsume, producerVars, consumerVars>>

JoinConsumer ==
  /\ main = "joinConsumer"
  /\ consumer = "done"
  /\ main' = "cleanUp"
  /\ UNCHANGED <<error, buffer, canProduce, canConsume, producerVars, consumerVars>>

(* The semaphores are destroyed, the buffer and the shared data freed.     *)
CleanUp ==
  /\ main = "cleanUp"
  /\ main' = "freed"
  /\ UNCHANGED <<error, buffer, canProduce, canConsume, producerVars, consumerVars>>

(* Returning from main ends the process and every thread of it.            *)
Exit ==
  /\ main = "freed"
  /\ main' = "exited"
  /\ UNCHANGED <<error, buffer, canProduce, canConsume, producerVars, consumerVars>>

(* A use of the freed block may end the process; otherwise the bytes are   *)
(* still there and the thread goes on as if nothing had happened, which is *)
(* what the actions of the threads do when main is "freed".                *)
Crash ==
  /\ main = "freed"
  /\ \/ producer \notin {"unborn", "done"}
     \/ consumer \notin {"unborn", "done"}
  /\ main' = "exited"
  /\ UNCHANGED <<error, buffer, canProduce, canConsume, producerVars, consumerVars>>

-----------------------------------------------------------------------------
(* produce.                                                                *)

WaitSlot ==
  /\ producer = "waitSlot"
  /\ canProduce > 0
  /\ canProduce' = canProduce - 1
  /\ producer' = "store"
  /\ UNCHANGED <<mainVars, buffer, canConsume, pAt, count, consumerVars>>

Store ==
  /\ producer = "store"
  /\ count' = count + 1
  /\ buffer' = [buffer EXCEPT ![pAt.index] = count + 1]
  /\ producer' = "signal"
  /\ UNCHANGED <<mainVars, canProduce, canConsume, pAt, consumerVars>>

SignalItem ==
  /\ producer = "signal"
  /\ canConsume' = canConsume + 1
  /\ pAt' = Advance(pAt)
  /\ producer' = IF pAt'.round < Rounds THEN "waitSlot" ELSE "done"
  /\ UNCHANGED <<mainVars, buffer, canProduce, count, consumerVars>>

(* consume.                                                                *)

WaitItem ==
  /\ consumer = "waitItem"
  /\ canConsume > 0
  /\ canConsume' = canConsume - 1
  /\ consumer' = "take"
  /\ UNCHANGED <<mainVars, buffer, canProduce, producerVars, cAt, value>>

(* The product is copied before the delay and printed after it.            *)
Take ==
  /\ consumer = "take"
  /\ value' = buffer[cAt.index]
  /\ consumer' = "signal"
  /\ UNCHANGED <<mainVars, buffer, canProduce, canConsume, producerVars, cAt>>

(* Mutant of SignalSlot: the slot is not given back.                       *)
KeepSlot ==
  /\ consumer = "signal"
  /\ cAt' = Advance(cAt)
  /\ consumer' = IF cAt'.round < Rounds THEN "waitItem" ELSE "done"
  /\ UNCHANGED <<mainVars, buffer, canProduce, canConsume, producerVars, value>>

SignalSlot ==
  /\ consumer = "signal"
  /\ canProduce' = canProduce + 1
  /\ cAt' = Advance(cAt)
  /\ consumer' = IF cAt'.round < Rounds THEN "waitItem" ELSE "done"
  /\ UNCHANGED <<mainVars, buffer, canConsume, producerVars, value>>

MainStep ==
  \/ CreateProducer \/ CreateConsumer \/ CreateFails
  \/ JoinProducer \/ JoinConsumer \/ CleanUp \/ Exit \/ Crash
ProducerStep == main # "exited" /\ (WaitSlot \/ Store \/ SignalItem)
ConsumerStep == main # "exited" /\ (WaitItem \/ Take \/ SignalSlot)

Next == MainStep \/ ProducerStep \/ ConsumerStep

Spec == Init /\ [][Next]_vars

(* The operating system keeps every thread that can run running.           *)
FairSpec ==
  Spec /\ WF_vars(MainStep) /\ WF_vars(ProducerStep) /\ WF_vars(ConsumerStep)

-----------------------------------------------------------------------------
(* Properties.                                                             *)

Ats == [round : 0 .. Rounds, index : Slots]

(* Both indexes stay inside the buffer, both semaphores within its         *)
(* capacity, and every thread is where its function can be (lines 151-222).*)
TypeOK ==
  /\ main \in {"createProducer", "createConsumer", "joinProducer",
               "joinConsumer", "cleanUp", "freed", "exited"}
  /\ error \in BOOLEAN
  /\ buffer \in [Slots -> Nat]
  /\ canProduce \in 0 .. Capacity /\ canConsume \in 0 .. Capacity
  /\ producer \in {"unborn", "waitSlot", "store", "signal", "done"}
  /\ consumer \in {"unborn", "waitItem", "take", "signal", "done"}
  /\ pAt \in Ats /\ cAt \in Ats
  /\ count \in Nat /\ value \in Nat

(* The products inside: those made and not yet taken, in the slots that    *)
(* follow the one the consumer reads next.                                 *)
NextTaken == IF consumer = "signal" THEN Advance(cAt).index ELSE cAt.index
Slot(i)   == IF NextTaken + i < Capacity THEN NextTaken + i
             ELSE NextTaken + i - Capacity
Inside    == [i \in 1 .. count - value |-> buffer[Slot(i - 1)]]

(* The ring of slots and its two semaphores are a bounded channel: no      *)
(* product is overwritten before it is taken, lost, repeated or taken out  *)
(* of order, although neither thread ever locks the buffer (lines 181-218).*)
Channel == INSTANCE BoundedChannel
             WITH sent <- count, channel <- Inside, received <- value
ImplementsChannel == Channel!Spec

(* When both threads were created, the buffer is given back only after     *)
(* every product of every round was made and taken (lines 169-172).        *)
EveryItemTaken ==
  main \in {"cleanUp", "freed", "exited"} /\ ~error =>
    /\ value = Rounds * Capacity
    /\ count = value
    /\ canProduce = Capacity

(* Whichever thread fails to be created, the program ends: main never      *)
(* waits for a thread that waits for a semaphore nobody will post.         *)
Terminates == <>(main = "exited")

(* create_threads says it waits for both threads (line 168) before main    *)
(* cleans up (line 97): no thread is left running over freed memory.       *)
FreedAfterThreads ==
  main = "freed" =>
    /\ producer \in {"unborn", "done"}
    /\ consumer \in {"unborn", "done"}
=============================================================================
