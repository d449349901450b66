---------------------------- MODULE HeatMpiProofs ----------------------------
(***************************************************************************)
(* Theorems about HeatMpi when a send waits until its message is received  *)
(* (~Buffered), for every number of ranks, of jobs and of rows: the parts  *)
(* of two results are never put together, although rank 0 receives each    *)
(* part from MPI_ANY_SOURCE, the ranks implement the job farm, and they    *)
(* never all wait for each other.                                          *)
(*                                                                         *)
(* The argument: a rank whose result is not the one under construction     *)
(* cannot go past its first part, of tag 0.  Once rank 0 has taken a first *)
(* part it asks for tags above 0, which only that sender can have sent.    *)
(***************************************************************************)
EXTENDS HeatMpi, FiniteSetTheorems, SequenceTheorems, TLAPS

(* How many messages of rank w's result have been received.                *)
Taken(w) ==
  IF incoming # <<>> /\ givenTo[incoming[1].job] = w THEN Len(incoming) ELSE 0

(* What a rank may be at, and what of it is in transit.                    *)
Silent(w) == outgoing[w] = <<>> /\ toMaster[w] = <<>>

Fresh(w) == worker[w] = "waiting" /\ toWorker[w] = <<>> /\ Silent(w)

Ordered(w, j) == worker[w] = "waiting" /\ toWorker[w] = <<j>> /\ Silent(w)

Computing(w, j) ==
  worker[w] = "busy" /\ toWorker[w] = <<>> /\ Silent(w) /\ workerJob[w] = j

(* The messages not received yet are the last ones of the result, one of   *)
(* them in transit at most.                                                *)
Answering(w, j) ==
  /\ worker[w] = IF outgoing[w] = <<>> THEN "waiting" ELSE "sending"
  /\ toWorker[w] = <<>>
  /\ workerJob[w] = j
  /\ Taken(w) < Shape[j].rows + 4
  /\ toMaster[w] \in {<<>>, <<ResultMessages(j)[Taken(w) + 1]>>}
  /\ Len(outgoing[w]) = ((Shape[j].rows + 4) - Taken(w)) - Len(toMaster[w])
  /\ \A n \in 1 .. Len(outgoing[w]) :
       outgoing[w][n] = ResultMessages(j)[((Shape[j].rows + 4) - Len(outgoing[w])) + n]

Dismissed(w) ==
  \/ worker[w] = "waiting" /\ toWorker[w] = <<NoJob>> /\ Silent(w)
  \/ /\ worker[w] = "leaving" /\ toWorker[w] = <<>>
     /\ outgoing[w] = <<DisconnectSignal>> /\ toMaster[w] = <<>>
  \/ /\ worker[w] = "gone" /\ toWorker[w] = <<>>
     /\ outgoing[w] = <<>> /\ toMaster[w] = <<DisconnectSignal>>

Left(w) == worker[w] = "gone" /\ toWorker[w] = <<>> /\ Silent(w)

RanksLeft == {w \in Workers : Left(w)}

(* Rank w has to answer for job j.                                         *)
Owes(w, j) ==
  /\ givenTo[j] = w
  /\ results[j] = <<>>
  /\ Ordered(w, j) \/ Computing(w, j) \/ Answering(w, j)

Engaged(w) == \E j \in Jobs : Owes(w, j)

-----------------------------------------------------------------------------
(* The inductive invariant.                                                *)

(* Where rank 0 is tells what each of the other ranks is at.               *)
Placed(w) ==
  \/ /\ w = target /\ master \in {"distribute", "answer"}
     /\ Fresh(w)
  \/ /\ w = target /\ master \in {"confirmFirst", "confirm"}
     /\ Dismissed(w)
  \/ /\ w > target /\ master \in {"distribute", "confirmFirst"}
     /\ Fresh(w)
  \/ /\ ~(w = target /\ master \in {"distribute", "answer", "confirmFirst", "confirm"})
     /\ ~(w > target /\ master \in {"distribute", "confirmFirst"})
     /\ Engaged(w) \/ Left(w)

RanksInv == \A w \in Workers : Placed(w)

JobsInv ==
  \A j \in Jobs :
    /\ givenTo[j] # Nobody <=> j < processedCount /\ j < jobsCount
    /\ givenTo[j] = Nobody => results[j] = <<>>
    /\ \A w \in Workers : givenTo[j] = w /\ results[j] = <<>> => Owes(w, j)

(* The result under construction is one rank's, from its first part on.    *)
Builds(w, j) ==
  /\ givenTo[j] = w /\ results[j] = <<>>
  /\ Answering(w, j)
  /\ Len(incoming) <= Shape[j].rows + 3
  /\ \A n \in 1 .. Len(incoming) : incoming[n] = ResultMessages(j)[n]

IncomingInv ==
  incoming # <<>> =>
    master = "receive" /\ \E w \in Workers, j \in Jobs : Builds(w, j)

CountsInv ==
  /\ master # "aborted"
  /\ disconnectedCount = Cardinality(RanksLeft)
  /\ master \in {"confirmFirst", "confirm", "written"} => processedCount >= jobsCount
  /\ master = "written" => disconnectedCount = WorkersCount
  /\ processedCount <= jobsCount + disconnectedCount
                       + (IF master = "confirm" THEN 1 ELSE 0)

SyncInv == RanksInv /\ JobsInv /\ IncomingInv /\ CountsInv

(* Only a missing plate ends the MPI job.                                  *)
IInv ==
  /\ TypeOK
  /\ ResultsIntact
  /\ IF master = "aborted" THEN ReadMayFail ELSE SyncInv

-----------------------------------------------------------------------------
(* Messages.                                                               *)

(* Each message of a result but the first is told from it by its part, and *)
(* only the last one is the index.                                         *)
LEMMA Parts ==
  ASSUME NEW rows \in Nat \ {0}, NEW k \in 0 .. rows + 3
  PROVE  /\ PartAt(rows, k) = "rows" <=> k = 0
         /\ PartAt(rows, k) = "jobIndex" <=> k = rows + 3
         /\ PartAt(rows, k) = "row" <=> k \in 2 .. rows + 1
<1>1. CASE k = 0
  BY <1>1 DEF PartAt
<1>2. CASE k = 1
  BY <1>2 DEF PartAt
<1>3. CASE k \in 2 .. rows + 1
  BY <1>3 DEF PartAt
<1>4. CASE k = rows + 2
  BY <1>4 DEF PartAt
<1>5. CASE k = rows + 3
  BY <1>5 DEF PartAt
<1> QED BY <1>1, <1>2, <1>3, <1>4, <1>5

LEMMA PlateShape ==
  ASSUME NEW j \in Jobs
  PROVE  Shape[j].rows \in Nat \ {0} /\ Shape[j].cols \in Nat \ {0}
BY ShapeAssumption

LEMMA ResultFacts ==
  ASSUME NEW j \in Jobs
  PROVE  /\ ResultMessages(j) \in Seq(Messages)
         /\ Len(ResultMessages(j)) = Shape[j].rows + 4
         /\ ResultMessages(j) # <<>>
         /\ \A n \in 1 .. Shape[j].rows + 4 :
              /\ ResultMessages(j)[n] =
                   [tag |-> n - 1, part |-> PartAt(Shape[j].rows, n - 1), job |-> j]
              /\ ResultMessages(j)[n] \in Messages
<1> DEFINE last == Shape[j].rows + 4
<1>1. last \in Nat /\ last > 0
  BY PlateShape
<1>2. \A n \in 1 .. last :
        ResultMessages(j)[n] =
          [tag |-> n - 1, part |-> PartAt(Shape[j].rows, n - 1), job |-> j]
  BY DEF ResultMessages
<1>3. DOMAIN ResultMessages(j) = 1 .. last
  BY DEF ResultMessages
<1>4. \A n \in 1 .. last : ResultMessages(j)[n] \in Messages
  <2> SUFFICES ASSUME NEW n \in 1 .. last
               PROVE  ResultMessages(j)[n] \in ToSet(ResultMessages(j))
    BY DEF Messages
  <2> QED BY <1>3 DEF ToSet
<1>5. ResultMessages(j) = [n \in 1 .. last |-> ResultMessages(j)[n]]
  BY <1>2 DEF ResultMessages
<1> HIDE DEF last
<1>6. ResultMessages(j) \in Seq(Messages) /\ Len(ResultMessages(j)) = last
  BY <1>1, <1>4, <1>5, IsASeq, LenProperties, <1>3
<1>7. ResultMessages(j) # <<>>
  BY <1>1, <1>6
<1> QED BY <1>2, <1>4, <1>6, <1>7 DEF last

LEMMA PartFacts ==
  ASSUME NEW j \in Jobs, NEW n \in 1 .. Shape[j].rows + 4
  PROVE  /\ ResultMessages(j)[n].tag = n - 1
         /\ ResultMessages(j)[n].part = PartAt(Shape[j].rows, n - 1)
         /\ ResultMessages(j)[n].job = j
<1>1. ResultMessages(j)[n] =
        [tag |-> n - 1, part |-> PartAt(Shape[j].rows, n - 1), job |-> j]
  BY ResultFacts
<1> QED BY <1>1

LEMMA SignalIsMessage == DisconnectSignal \in Messages
BY DEF Messages

(* What MPI_Recv finds when a rank has one message in transit at most.     *)
LEMMA TakeOne ==
  ASSUME NEW w \in Workers, NEW m, NEW tag,
         toMaster \in [Workers -> Seq(Messages)],
         toMaster[w] \in {<<>>, <<m>>},
         FirstTagged(w, tag) # 0
  PROVE  /\ toMaster[w] = <<m>>
         /\ m.tag = tag
         /\ toMaster[w][FirstTagged(w, tag)] = m
         /\ TakeMessage(w, FirstTagged(w, tag)) =>
              toMaster' = [toMaster EXCEPT ![w] = <<>>]
<1> DEFINE places == {i \in 1 .. Len(toMaster[w]) : toMaster[w][i].tag = tag}
<1>1. places # {} /\ FirstTagged(w, tag) = Min(places)
  BY DEF FirstTagged, SelectInSeq
<1>2. toMaster[w] = <<m>> /\ Len(toMaster[w]) = 1 /\ toMaster[w][1] = m
  BY <1>1
<1>3. places = {1} /\ m.tag = tag
  BY <1>1, <1>2
<1>4. Min({1}) = 1
  BY DEF Min
<1>5. FirstTagged(w, tag) = 1
  BY <1>1, <1>3, <1>4
<1>6. RemoveAt(<<m>>, 1) = <<>>
  BY DEF RemoveAt
<1> QED BY <1>2, <1>3, <1>5, <1>6 DEF TakeMessage

-----------------------------------------------------------------------------
(* A rank that a step leaves alone.                                        *)

LEMMA RankStays ==
  ASSUME NEW w \in Workers,
         worker'[w] = worker[w], workerJob'[w] = workerJob[w],
         outgoing'[w] = outgoing[w], toWorker'[w] = toWorker[w],
         toMaster'[w] = toMaster[w], Taken(w)' = Taken(w)
  PROVE  /\ Fresh(w)' <=> Fresh(w)
         /\ Dismissed(w)' <=> Dismissed(w)
         /\ Left(w)' <=> Left(w)
         /\ \A j \in Jobs : /\ Ordered(w, j)' <=> Ordered(w, j)
                            /\ Computing(w, j)' <=> Computing(w, j)
                            /\ Answering(w, j)' <=> Answering(w, j)
BY DEF Fresh, Dismissed, Left, Ordered, Computing, Answering, Silent

LEMMA DebtStays ==
  ASSUME NEW w \in Workers, NEW j \in Jobs,
         worker'[w] = worker[w], workerJob'[w] = workerJob[w],
         outgoing'[w] = outgoing[w], toWorker'[w] = toWorker[w],
         toMaster'[w] = toMaster[w], Taken(w)' = Taken(w),
         givenTo'[j] = givenTo[j], results'[j] = results[j]
  PROVE  Owes(w, j)' <=> Owes(w, j)
BY RankStays DEF Owes

(* A rank answers for one job at a time.                                   *)
LEMMA OneDebt ==
  ASSUME NEW w \in Workers, NEW i \in Jobs, NEW j \in Jobs,
         Owes(w, i), Owes(w, j)
  PROVE  i = j
<1>1. CASE toWorker[w] = <<>>
  BY <1>1 DEF Owes, Ordered, Computing, Answering
<1>2. CASE toWorker[w] # <<>>
  <2>1. toWorker[w] = <<i>> /\ toWorker[w] = <<j>>
    BY <1>2 DEF Owes, Ordered, Computing, Answering
  <2>2. <<i>>[1] = i /\ <<j>>[1] = j
    OBVIOUS
  <2> QED BY <2>1, <2>2
<1> QED BY <1>1, <1>2

LEMMA SituationsDiffer ==
  ASSUME TypeOK, NEW w \in Workers
  PROVE  /\ ~(Fresh(w) /\ Dismissed(w)) /\ ~(Fresh(w) /\ Left(w))
         /\ ~(Dismissed(w) /\ Left(w))
         /\ \A j \in Jobs : Owes(w, j) => ~Fresh(w) /\ ~Dismissed(w) /\ ~Left(w)
<1>1. ASSUME NEW j \in Jobs, Answering(w, j)
      PROVE  ~(outgoing[w] = <<>> /\ toMaster[w] = <<>>)
  <2>1. Taken(w) \in Nat
    BY DEF Taken, TypeOK
  <2> QED BY <1>1, <2>1, PlateShape DEF Answering
<1>2. NoJob \notin Jobs
  BY MaxJobsAssumption DEF NoJob, Jobs
<1>3. \A j \in Jobs : Answering(w, j) => worker[w] \in {"waiting", "sending"} /\ toWorker[w] = <<>>
  BY DEF Answering
<1>4. ~(Fresh(w) /\ Dismissed(w)) /\ ~(Fresh(w) /\ Left(w)) /\ ~(Dismissed(w) /\ Left(w))
  BY DEF Fresh, Dismissed, Left, Silent
<1> QED BY <1>1, <1>2, <1>3, <1>4
        DEF Owes, Fresh, Dismissed, Left, Ordered, Computing, Silent

-----------------------------------------------------------------------------
(* What the messages already received say of their sender.                 *)
LEMMA BuilderFacts ==
  ASSUME TypeOK, incoming # <<>>, NEW w \in Workers, NEW j \in Jobs, Builds(w, j)
  PROVE  /\ Len(incoming) \in 1 .. Shape[j].rows + 3
         /\ incoming[1].job = j /\ incoming[1].part = "rows"
         /\ givenTo[incoming[1].job] = w
         /\ Taken(w) = Len(incoming)
         /\ \A v \in Workers : v # w => Taken(v) = 0
<1>1. incoming \in Seq(Messages) /\ Len(incoming) \in Nat /\ Len(incoming) # 0
  BY DEF TypeOK
<1>2. 1 \in 1 .. Len(incoming) /\ 1 \in 1 .. Shape[j].rows + 4
  BY <1>1, PlateShape
<1>3. incoming[1] = ResultMessages(j)[1]
  BY <1>2 DEF Builds
<1>4. incoming[1] = [tag |-> 0, part |-> PartAt(Shape[j].rows, 0), job |-> j]
  BY <1>2, <1>3, ResultFacts
<1>5. PartAt(Shape[j].rows, 0) = "rows"
  BY Parts, PlateShape
<1>6. incoming[1].job = j /\ incoming[1].part = "rows" /\ givenTo[incoming[1].job] = w
  BY <1>4, <1>5 DEF Builds
<1>7. Len(incoming) \in 1 .. Shape[j].rows + 3
  BY <1>1, PlateShape DEF Builds
<1> QED BY <1>6, <1>7 DEF Taken

-----------------------------------------------------------------------------
(* Ranks that have left.                                                   *)

LEMMA WorkersFinite ==
  /\ IsFiniteSet(Workers) /\ Cardinality(Workers) = WorkersCount
  /\ \A S \in SUBSET Workers :
       /\ IsFiniteSet(S) /\ Cardinality(S) \in Nat
       /\ Cardinality(S) <= WorkersCount
       /\ Cardinality(S) = WorkersCount => S = Workers
<1>1. WorkersCount \in Nat
  BY WorkersCountAssumption
<1>2. IsFiniteSet(Workers) /\ Cardinality(Workers) = WorkersCount
  BY <1>1, FS_Interval DEF Workers
<1> QED BY <1>2, FS_Subset, FS_CardinalityType

LEMMA SomebodyStays ==
  ASSUME NEW w \in Workers, ~Left(w), CountsInv
  PROVE  disconnectedCount < WorkersCount
<1>1. RanksLeft \in SUBSET Workers /\ RanksLeft # Workers
  BY DEF RanksLeft
<1>2. Cardinality(RanksLeft) <= WorkersCount /\ Cardinality(RanksLeft) # WorkersCount
  BY <1>1, WorkersFinite
<1>3. Cardinality(RanksLeft) \in Nat
  BY <1>1, WorkersFinite
<1> QED BY <1>2, <1>3, WorkersCountAssumption DEF CountsInv

LEMMA NobodyStays ==
  ASSUME NEW w \in Workers, CountsInv, disconnectedCount = WorkersCount
  PROVE  Left(w)
BY SomebodyStays, WorkersCountAssumption

-----------------------------------------------------------------------------
(* The steps of the other ranks: what a rank is at, as rank 0 sees it, does *)
(* not change.                                                             *)

LEMMA RankStep ==
  ASSUME SyncInv, NEW w \in Workers,
         UNCHANGED masterVars,
         \A v \in Workers : v # w =>
           /\ worker'[v] = worker[v] /\ workerJob'[v] = workerJob[v]
           /\ outgoing'[v] = outgoing[v] /\ toWorker'[v] = toWorker[v]
           /\ toMaster'[v] = toMaster[v],
         ~Fresh(w), ~Left(w), ~Left(w)',
         Dismissed(w) => Dismissed(w)',
         \A j \in Jobs : Owes(w, j) => Owes(w, j)',
         \A j \in Jobs : Answering(w, j) => Answering(w, j)'
  PROVE  SyncInv'
<1>1. \A v \in Workers : Taken(v)' = Taken(v)
  BY DEF masterVars, Taken
<1>2. \A v \in Workers \ {w} :
        /\ Fresh(v)' <=> Fresh(v)
        /\ Dismissed(v)' <=> Dismissed(v)
        /\ Left(v)' <=> Left(v)
        /\ \A j \in Jobs : /\ Owes(v, j)' <=> Owes(v, j)
                           /\ Answering(v, j)' <=> Answering(v, j)
  BY <1>1, RankStays, DebtStays DEF masterVars
<1>3. RanksInv'
  <2> SUFFICES ASSUME NEW v \in Workers PROVE Placed(v)'
    BY DEF RanksInv
  <2>1. Placed(v)
    BY DEF SyncInv, RanksInv
  <2>2. Engaged(v) => Engaged(v)'
    BY <1>2 DEF Engaged
  <2> QED BY <1>2, <2>1, <2>2 DEF Placed, masterVars
<1>4. JobsInv'
  BY <1>2 DEF SyncInv, JobsInv, masterVars
<1>5. IncomingInv'
  <2>1. \A v \in Workers, j \in Jobs : Builds(v, j) => Builds(v, j)'
    BY <1>2 DEF Builds, masterVars
  <2> QED BY <2>1 DEF SyncInv, IncomingInv, masterVars
<1>6. CountsInv'
  <2>1. RanksLeft' = RanksLeft
    BY <1>2 DEF RanksLeft
  <2> QED BY <2>1 DEF SyncInv, CountsInv, masterVars
<1> QED BY <1>3, <1>4, <1>5, <1>6 DEF SyncInv

LEMMA NoJobIsNone == NoJob \notin Jobs /\ Nobody \notin Workers
BY MaxJobsAssumption, WorkersCountAssumption DEF NoJob, Jobs, Nobody, Workers

LEMMA ReceiveOrderPreserves ==
  ASSUME ~Buffered, TypeOK, SyncInv, NEW w \in Workers, ReceiveOrder(w)
  PROVE  TypeOK' /\ SyncInv'
<1>1. /\ worker[w] = "waiting" /\ toMaster[w] = <<>> /\ toWorker[w] # <<>>
      /\ UNCHANGED <<masterVars, toMaster>>
  BY DEF ReceiveOrder, WorkerSent
<1>2. /\ Head(toWorker[w]) \in Jobs \union {NoJob}
      /\ Tail(toWorker[w]) \in Seq(Jobs \union {NoJob})
  BY <1>1 DEF TypeOK
<1>3. /\ workerJob' = [workerJob EXCEPT ![w] = Head(toWorker[w])]
      /\ toWorker' = [toWorker EXCEPT ![w] = Tail(toWorker[w])]
      /\ Head(toWorker[w]) = NoJob =>
           /\ worker' = [worker EXCEPT ![w] = "leaving"]
           /\ outgoing' = [outgoing EXCEPT ![w] = <<DisconnectSignal>>]
      /\ Head(toWorker[w]) # NoJob =>
           /\ worker' = [worker EXCEPT ![w] = "busy"]
           /\ outgoing' = [outgoing EXCEPT ![w] = <<>>]
  BY DEF ReceiveOrder
<1>4. TypeOK'
  <2>1. /\ workerJob' \in [Workers -> Jobs \union {NoJob}]
        /\ toWorker' \in [Workers -> Seq(Jobs \union {NoJob})]
    BY <1>2, <1>3 DEF TypeOK
  <2>2. <<DisconnectSignal>> \in Seq(Messages) /\ <<>> \in Seq(Messages)
    BY SignalIsMessage
  <2>3. /\ worker' \in [Workers -> {"waiting", "busy", "sending", "leaving", "gone"}]
        /\ outgoing' \in [Workers -> Seq(Messages)]
    BY <1>3, <2>2 DEF TypeOK
  <2> QED BY <1>1, <2>1, <2>3 DEF TypeOK, masterVars
<1>5. /\ ~Fresh(w) /\ ~Left(w)
      /\ \A j \in Jobs : ~Computing(w, j) /\ ~Answering(w, j)
  BY <1>1 DEF Fresh, Left, Computing, Answering
<1>6. ~Left(w)'
  BY <1>3 DEF TypeOK, Left
<1>7. Dismissed(w) => Dismissed(w)'
  <2> HAVE Dismissed(w)
  <2>1. toWorker[w] = <<NoJob>>
    BY <1>1 DEF Dismissed
  <2>2. Head(toWorker[w]) = NoJob /\ Tail(toWorker[w]) = <<>>
    BY <2>1
  <2> QED BY <1>1, <1>3, <2>2 DEF Dismissed, TypeOK
<1>8. ASSUME NEW j \in Jobs, Owes(w, j)
      PROVE  Owes(w, j)'
  <2>1. toWorker[w] = <<j>> /\ givenTo[j] = w /\ results[j] = <<>>
    BY <1>5, <1>8 DEF Owes, Ordered
  <2>2. Head(toWorker[w]) = j /\ Tail(toWorker[w]) = <<>> /\ j # NoJob
    BY <2>1, NoJobIsNone
  <2>3. Computing(w, j)'
    BY <1>1, <1>3, <2>2 DEF Computing, Silent, TypeOK
  <2> QED BY <1>1, <2>1, <2>3 DEF Owes, masterVars
<1>9. \A v \in Workers : v # w =>
           /\ worker'[v] = worker[v] /\ workerJob'[v] = workerJob[v]
           /\ outgoing'[v] = outgoing[v] /\ toWorker'[v] = toWorker[v]
           /\ toMaster'[v] = toMaster[v]
  BY <1>1, <1>3 DEF TypeOK
<1>10. SyncInv'
  BY <1>1, <1>5, <1>6, <1>7, <1>8, <1>9, RankStep
<1> QED BY <1>4, <1>10

LEMMA ProcessJobPreserves ==
  ASSUME ~Buffered, TypeOK, SyncInv, NEW w \in Workers, ProcessJob(w)
  PROVE  TypeOK' /\ SyncInv'
<1>1. /\ worker[w] = "busy"
      /\ UNCHANGED <<masterVars, workerJob, channels>>
      /\ worker' = [worker EXCEPT ![w] = "sending"]
      /\ outgoing' = [outgoing EXCEPT ![w] = ResultMessages(workerJob[w])]
  BY DEF ProcessJob
<1>2. ~Fresh(w) /\ ~Left(w) /\ ~Dismissed(w) /\ \A j \in Jobs : ~Answering(w, j)
  BY <1>1 DEF Fresh, Left, Dismissed, Answering
<1>3. PICK j \in Jobs : Owes(w, j) /\ Computing(w, j)
  <2>1. Placed(w)
    BY DEF SyncInv, RanksInv
  <2>2. Engaged(w)
    BY <1>2, <2>1 DEF Placed
  <2> QED BY <1>1, <1>2, <2>2 DEF Engaged, Owes, Ordered
<1>4. workerJob[w] = j /\ toMaster[w] = <<>> /\ toWorker[w] = <<>>
  BY <1>3 DEF Computing, Silent
<1>5. TypeOK'
  <2>1. /\ outgoing' \in [Workers -> Seq(Messages)]
        /\ worker' \in [Workers -> {"waiting", "busy", "sending", "leaving", "gone"}]
    BY <1>1, <1>4, ResultFacts DEF TypeOK
  <2> QED BY <1>1, <2>1 DEF TypeOK, masterVars, channels
<1>6. worker'[w] = "sending" /\ outgoing'[w] = ResultMessages(j)
  BY <1>1, <1>4 DEF TypeOK
<1>7. Taken(w) = 0 /\ UNCHANGED Taken(w)
  <2>1. ASSUME incoming # <<>>
        PROVE  givenTo[incoming[1].job] # w
    <3>1. PICK v \in Workers, i \in Jobs : Builds(v, i)
      BY <2>1 DEF SyncInv, IncomingInv
    <3>2. v # w
      BY <1>2, <3>1 DEF Builds
    <3> QED BY <2>1, <3>1, <3>2, BuilderFacts
  <2>2. Taken(w) = 0
    BY <2>1 DEF Taken
  <2>3. UNCHANGED Taken(w)
    BY <1>1 DEF Taken, masterVars
  <2> QED BY <2>2, <2>3
<1>8. Answering(w, j)'
  <2>1. /\ toMaster'[w] = <<>> /\ toWorker'[w] = <<>> /\ workerJob'[w] = j
        /\ Taken(w)' = 0
    BY <1>1, <1>4, <1>7 DEF channels
  <2>2. /\ outgoing'[w] # <<>> /\ Len(outgoing'[w]) = Shape[j].rows + 4
        /\ Len(toMaster'[w]) = 0
    BY <1>6, <2>1, ResultFacts
  <2>3. \A n \in 1 .. Len(outgoing'[w]) : outgoing'[w][n] =
          ResultMessages(j)[Shape[j].rows + 4 - Len(outgoing'[w]) + n]
    BY <1>6, <2>2, PlateShape
  <2>4. /\ Taken(w)' < Shape[j].rows + 4
        /\ Len(outgoing'[w]) = ((Shape[j].rows + 4) - Taken(w)') - Len(toMaster'[w])
    BY <2>1, <2>2, PlateShape
  <2>5. \A n \in 1 .. Len(outgoing'[w]) : outgoing'[w][n] =
          ResultMessages(j)[((Shape[j].rows + 4) - Len(outgoing'[w])) + n]
    BY <2>2, <2>3, PlateShape
  <2> QED BY <1>6, <2>1, <2>2, <2>4, <2>5, Zenon DEF Answering
<1>9. \A i \in Jobs : Owes(w, i) => Owes(w, i)'
  <2> SUFFICES ASSUME NEW i \in Jobs, Owes(w, i) PROVE Owes(w, i)'
    OBVIOUS
  <2>1. i = j
    BY <1>3, OneDebt
  <2> QED BY <1>1, <1>8, <2>1 DEF Owes, masterVars
<1>10. ~Left(w)'
  BY <1>6 DEF Left
<1>11. \A v \in Workers : v # w =>
           /\ worker'[v] = worker[v] /\ workerJob'[v] = workerJob[v]
           /\ outgoing'[v] = outgoing[v] /\ toWorker'[v] = toWorker[v]
           /\ toMaster'[v] = toMaster[v]
  BY <1>1 DEF TypeOK, channels
<1>12. SyncInv'
  BY <1>1, <1>2, <1>9, <1>10, <1>11, RankStep
<1> QED BY <1>5, <1>12

LEMMA TakenType ==
  ASSUME TypeOK, NEW w \in Workers
  PROVE  Taken(w) \in Nat
BY DEF TypeOK, Taken

LEMMA SendPartPreserves ==
  ASSUME ~Buffered, TypeOK, SyncInv, NEW w \in Workers, SendPart(w)
  PROVE  TypeOK' /\ SyncInv'
<1>1. /\ outgoing[w] # <<>> /\ toMaster[w] = <<>>
      /\ UNCHANGED <<masterVars, workerJob, toWorker>>
      /\ toMaster' = [toMaster EXCEPT ![w] = Append(toMaster[w], Head(outgoing[w]))]
      /\ outgoing' = [outgoing EXCEPT ![w] = Tail(outgoing[w])]
      /\ worker' = IF Len(outgoing[w]) > 1 THEN worker
                   ELSE [worker EXCEPT ![w] =
                           IF worker[w] = "sending" THEN "waiting" ELSE "gone"]
  BY DEF SendPart, WorkerSent
<1>2. /\ outgoing[w] \in Seq(Messages) /\ Len(outgoing[w]) \in Nat \ {0}
      /\ Head(outgoing[w]) = outgoing[w][1] /\ outgoing[w][1] \in Messages
      /\ Tail(outgoing[w]) \in Seq(Messages)
      /\ Len(Tail(outgoing[w])) = Len(outgoing[w]) - 1
      /\ \A n \in 1 .. Len(outgoing[w]) - 1 : Tail(outgoing[w])[n] = outgoing[w][n + 1]
  BY <1>1 DEF TypeOK
<1>3. /\ outgoing'[w] = Tail(outgoing[w])
      /\ toMaster'[w] = <<outgoing[w][1]>>
      /\ toWorker'[w] = toWorker[w] /\ workerJob'[w] = workerJob[w]
  BY <1>1, <1>2 DEF TypeOK
<1>4. TypeOK'
  <2>1. /\ toMaster' \in [Workers -> Seq(Messages)]
        /\ outgoing' \in [Workers -> Seq(Messages)]
    BY <1>1, <1>2 DEF TypeOK
  <2>2. worker' \in [Workers -> {"waiting", "busy", "sending", "leaving", "gone"}]
    BY <1>1 DEF TypeOK
  <2> QED BY <1>1, <2>1, <2>2 DEF TypeOK, masterVars
<1>5. ~Fresh(w) /\ ~Left(w) /\ \A j \in Jobs : ~Ordered(w, j) /\ ~Computing(w, j)
  BY <1>1 DEF Fresh, Left, Ordered, Computing, Silent
<1>6. ~Left(w)'
  BY <1>3 DEF Left, Silent
<1>7. Dismissed(w) => Dismissed(w)'
  <2> HAVE Dismissed(w)
  <2>1. worker[w] = "leaving" /\ toWorker[w] = <<>> /\ outgoing[w] = <<DisconnectSignal>>
    BY <1>1 DEF Dismissed, Silent
  <2>2. Len(outgoing[w]) = 1 /\ Tail(outgoing[w]) = <<>> /\ outgoing[w][1] = DisconnectSignal
    BY <2>1
  <2>3. worker'[w] = "gone"
    BY <1>1, <2>1, <2>2 DEF TypeOK
  <2> QED BY <1>3, <2>1, <2>2, <2>3 DEF Dismissed
<1>8. Taken(w)' = Taken(w) /\ Taken(w) \in Nat
  BY <1>1, TakenType DEF Taken, masterVars
<1>9. ASSUME NEW j \in Jobs, Answering(w, j)
      PROVE  Answering(w, j)'
  <2> DEFINE last == Shape[j].rows + 4
  <2>1. last \in Nat /\ Taken(w) < last
    BY <1>9, PlateShape DEF Answering
  <2>2. /\ worker[w] = "sending" /\ toWorker[w] = <<>> /\ workerJob[w] = j
        /\ Len(outgoing[w]) = last - Taken(w)
        /\ \A n \in 1 .. Len(outgoing[w]) :
             outgoing[w][n] = ResultMessages(j)[(last - Len(outgoing[w])) + n]
    <3>1. /\ worker[w] = "sending" /\ toWorker[w] = <<>> /\ workerJob[w] = j
          /\ Len(outgoing[w]) = (last - Taken(w)) - Len(toMaster[w])
          /\ \A n \in 1 .. Len(outgoing[w]) :
               outgoing[w][n] = ResultMessages(j)[(last - Len(outgoing[w])) + n]
      BY <1>1, <1>9, Zenon DEF Answering
    <3>2. Len(toMaster[w]) = 0
      BY <1>1
    <3>3. Len(outgoing[w]) = last - Taken(w)
      BY <1>8, <2>1, <3>1, <3>2
    <3> QED BY <3>1, <3>3, Zenon
  <2> HIDE DEF last
  <2>3. outgoing[w][1] = ResultMessages(j)[Taken(w) + 1]
    <3>1. last - Len(outgoing[w]) + 1 = Taken(w) + 1
      BY <1>8, <2>1, <2>2
    <3>2. outgoing[w][1] = ResultMessages(j)[last - Len(outgoing[w]) + 1]
      BY <1>2, <2>2
    <3> QED BY <3>1, <3>2
  <2>4. /\ toMaster'[w] = <<ResultMessages(j)[Taken(w) + 1]>>
        /\ Len(toMaster'[w]) = 1
    BY <1>3, <2>3
  <2>5. Len(outgoing'[w]) = last - Taken(w) - 1
    BY <1>2, <1>3, <2>2
  <2>6. ASSUME NEW n \in 1 .. Len(outgoing'[w])
        PROVE  outgoing'[w][n] = ResultMessages(j)[(last - Len(outgoing'[w])) + n]
    <3>1. n + 1 \in 1 .. Len(outgoing[w]) /\ n \in 1 .. Len(outgoing[w]) - 1
      BY <1>2, <1>3
    <3>2. outgoing'[w][n] = ResultMessages(j)[last - Len(outgoing[w]) + (n + 1)]
      BY <1>2, <1>3, <2>2, <3>1
    <3>3. last - Len(outgoing[w]) + (n + 1) = (last - Len(outgoing'[w])) + n
      BY <1>2, <1>3, <2>1
    <3> QED BY <3>2, <3>3
  <2>7. worker'[w] = IF outgoing'[w] = <<>> THEN "waiting" ELSE "sending"
    <3>1. outgoing'[w] = <<>> <=> ~(Len(outgoing[w]) > 1)
      <4>1. outgoing'[w] = <<>> <=> Len(outgoing'[w]) = 0
        BY <1>2, <1>3, EmptySeq
      <4> QED BY <1>2, <1>3, <4>1
    <3> QED BY <1>1, <2>2, <3>1 DEF TypeOK
  <2>8. Len(outgoing'[w]) = (last - Taken(w)') - Len(toMaster'[w])
    BY <1>8, <2>1, <2>4, <2>5
  <2>9. toMaster'[w] \in {<<>>, <<ResultMessages(j)[Taken(w)' + 1]>>} /\ Taken(w)' < last
    BY <1>8, <2>1, <2>4
  <2>10. toWorker'[w] = <<>> /\ workerJob'[w] = j
    BY <1>3, <2>2
  <2> QED BY <2>6, <2>7, <2>8, <2>9, <2>10, Zenon DEF Answering, last
<1>10. \A j \in Jobs : Owes(w, j) => Owes(w, j)'
  BY <1>1, <1>5, <1>9 DEF Owes, masterVars
<1>11. \A v \in Workers : v # w =>
           /\ worker'[v] = worker[v] /\ workerJob'[v] = workerJob[v]
           /\ outgoing'[v] = outgoing[v] /\ toWorker'[v] = toWorker[v]
           /\ toMaster'[v] = toMaster[v]
  BY <1>1 DEF TypeOK
<1>12. SyncInv'
  BY <1>1, <1>5, <1>6, <1>7, <1>9, <1>10, <1>11, RankStep
<1> QED BY <1>4, <1>12

-----------------------------------------------------------------------------
(* The steps of rank 0.                                                    *)

LEMMA NotReceiving ==
  ASSUME SyncInv, master # "receive"
  PROVE  incoming = <<>>
BY DEF SyncInv, IncomingInv

LEMMA FreshOwesNothing ==
  ASSUME TypeOK, SyncInv, NEW w \in Workers, Fresh(w) \/ Dismissed(w) \/ Left(w), NEW j \in Jobs
  PROVE  ~Owes(w, j)
BY SituationsDiffer

(* A job is sent to a rank that has nothing to do.                         *)
LEMMA OrderEffect ==
  ASSUME TypeOK, SyncInv, NEW t \in Workers, t = target, NEW j, j = processedCount,
         Fresh(t), incoming = <<>>,
         processedCount < jobsCount, Order(processedCount),
         processedCount' = processedCount + 1,
         UNCHANGED <<jobsCount, disconnectedCount, incoming, results, workerVars,
                     toMaster>>
  PROVE  /\ Engaged(t)'
         /\ \A w \in Workers : w # t =>
              /\ Fresh(w)' <=> Fresh(w)
              /\ Left(w)' <=> Left(w)
              /\ Engaged(w) => Engaged(w)'
         /\ ~Left(t) /\ RanksLeft' = RanksLeft
         /\ j \in Jobs /\ givenTo[j] = Nobody
         /\ givenTo' = [givenTo EXCEPT ![j] = t]
         /\ givenTo' \in [Jobs -> Workers \union {Nobody}]
         /\ toWorker' \in [Workers -> Seq(Jobs \union {NoJob})]
         /\ processedCount' <= jobsCount /\ processedCount' \in 0 .. MaxJobs + WorkersCount
         /\ JobsInv' /\ IncomingInv'
<1>1. j \in Jobs /\ j \in Nat
  BY MaxJobsAssumption DEF TypeOK, Jobs
<1>2. /\ toWorker' = [toWorker EXCEPT ![t] = <<j>>]
      /\ givenTo' = [givenTo EXCEPT ![j] = t]
  BY <1>1 DEF Order, Fresh, TypeOK
<1>3. givenTo[j] = Nobody /\ results[j] = <<>>
  BY <1>1 DEF SyncInv, JobsInv, TypeOK
<1>4. /\ givenTo' \in [Jobs -> Workers \union {Nobody}]
      /\ toWorker' \in [Workers -> Seq(Jobs \union {NoJob})]
  <2>1. <<j>> \in Seq(Jobs \union {NoJob})
    BY <1>1
  <2> QED BY <1>1, <1>2, <2>1 DEF TypeOK
<1>5. \A w \in Workers : Taken(w) = 0 /\ Taken(w)' = 0
  BY DEF Taken
<1>6. Owes(t, j)'
  <2>1. Ordered(t, j)'
    BY <1>1, <1>2 DEF Ordered, Fresh, Silent, workerVars, TypeOK
  <2>2. givenTo'[j] = t /\ results'[j] = <<>>
    BY <1>1, <1>2, <1>3 DEF TypeOK
  <2> QED BY <2>1, <2>2 DEF Owes
<1>7. \A w \in Workers, i \in Jobs : Owes(w, i) => i # j /\ w # t
  BY <1>3, NoJobIsNone, FreshOwesNothing DEF Owes
<1>8. \A w \in Workers : w # t =>
        /\ Fresh(w)' <=> Fresh(w)
        /\ Left(w)' <=> Left(w)
        /\ \A i \in Jobs : i # j => (Owes(w, i)' <=> Owes(w, i))
  <2> SUFFICES ASSUME NEW w \in Workers, w # t
               PROVE  /\ Fresh(w)' <=> Fresh(w)
                      /\ Left(w)' <=> Left(w)
                      /\ \A i \in Jobs : i # j => (Owes(w, i)' <=> Owes(w, i))
    OBVIOUS
  <2>1. /\ worker'[w] = worker[w] /\ workerJob'[w] = workerJob[w]
        /\ outgoing'[w] = outgoing[w] /\ toWorker'[w] = toWorker[w]
        /\ toMaster'[w] = toMaster[w] /\ Taken(w)' = Taken(w)
    BY <1>2, <1>5 DEF workerVars, TypeOK
  <2>2. \A i \in Jobs : i # j => givenTo'[i] = givenTo[i] /\ results'[i] = results[i]
    BY <1>2 DEF TypeOK
  <2> QED BY <2>1, <2>2, RankStays, DebtStays
<1>9. Engaged(t)' /\ \A w \in Workers : w # t => (Engaged(w) => Engaged(w)')
  BY <1>1, <1>6, <1>7, <1>8 DEF Engaged
<1>10. ~Left(t) /\ ~Left(t)'
  BY <1>2 DEF Fresh, Left, TypeOK
<1>11. RanksLeft' = RanksLeft
  BY <1>8, <1>10 DEF RanksLeft
<1>12. processedCount' <= jobsCount /\ processedCount' \in 0 .. MaxJobs + WorkersCount
  BY WorkersCountAssumption, MaxJobsAssumption DEF TypeOK
<1>13. JobsInv'
  <2> SUFFICES ASSUME NEW i \in Jobs
               PROVE  /\ givenTo'[i] # Nobody <=> i < processedCount' /\ i < jobsCount'
                      /\ givenTo'[i] = Nobody => results'[i] = <<>>
                      /\ \A w \in Workers :
                           givenTo'[i] = w /\ results'[i] = <<>> => Owes(w, i)'
    BY DEF JobsInv
  <2>1. CASE i = j
    BY <1>1, <1>2, <1>6, <2>1, NoJobIsNone DEF TypeOK
  <2>2. CASE i # j
    <3>1. givenTo'[i] = givenTo[i] /\ results'[i] = results[i] /\ i \in Nat
      BY <1>2, <2>2, MaxJobsAssumption DEF TypeOK, Jobs
    <3>2. i < processedCount' <=> i < processedCount
      BY <1>1, <2>2, <3>1
    <3> QED BY <1>7, <1>8, <2>2, <3>1, <3>2 DEF SyncInv, JobsInv
  <2> QED BY <2>1, <2>2
<1>14. IncomingInv'
  BY DEF IncomingInv
<1> QED BY <1>1, <1>2, <1>3, <1>4, <1>8, <1>9, <1>10, <1>11, <1>12, <1>13, <1>14

(* The first distribution goes on to a rank that is fresh, or ends.        *)
LEMMA NextTargetEffect ==
  ASSUME TypeOK, NextTarget(disconnectedCount), disconnectedCount < WorkersCount
  PROVE  /\ target' \in Workers /\ master' \in {"distribute", "receive"}
         /\ \A w \in Workers :
              /\ w = target' /\ master' = "distribute" => w > target
              /\ w > target' /\ master' = "distribute" => w > target
              /\ ~(w = target' /\ master' = "distribute") /\ ~(w > target' /\ master' = "distribute")
                   => w <= target
BY WorkersCountAssumption DEF NextTarget, Collecting, TypeOK, Workers

LEMMA GiveFirstJobPreserves ==
  ASSUME TypeOK, SyncInv, GiveFirstJob
  PROVE  TypeOK' /\ SyncInv'
<1>1. /\ master = "distribute" /\ processedCount < jobsCount
      /\ Order(processedCount) /\ processedCount' = processedCount + 1
      /\ NextTarget(disconnectedCount)
      /\ UNCHANGED <<jobsCount, disconnectedCount, incoming, results, workerVars,
                     toMaster>>
  BY DEF GiveFirstJob
<1>2. PICK t \in Workers : t = target
  BY DEF TypeOK
<1>3. PICK j : j = processedCount
  OBVIOUS
<1>4. incoming = <<>>
  BY <1>1, NotReceiving
<1>5. Fresh(t)
  <2>1. Placed(t)
    BY DEF SyncInv, RanksInv
  <2> QED BY <1>1, <1>2, <2>1 DEF Placed
<1>6. /\ Engaged(t)'
      /\ \A w \in Workers : w # t =>
              /\ Fresh(w)' <=> Fresh(w)
              /\ Left(w)' <=> Left(w)
              /\ Engaged(w) => Engaged(w)'
      /\ ~Left(t) /\ RanksLeft' = RanksLeft
      /\ givenTo' \in [Jobs -> Workers \union {Nobody}]
      /\ toWorker' \in [Workers -> Seq(Jobs \union {NoJob})]
      /\ processedCount' <= jobsCount /\ processedCount' \in 0 .. MaxJobs + WorkersCount
      /\ JobsInv' /\ IncomingInv'
  BY <1>1, <1>2, <1>3, <1>4, <1>5, OrderEffect
<1>7. disconnectedCount < WorkersCount
  BY <1>6, SomebodyStays DEF SyncInv
<1>8. /\ target' \in Workers /\ master' \in {"distribute", "receive"}
      /\ \A w \in Workers :
           /\ w = target' /\ master' = "distribute" => w > t
           /\ w > target' /\ master' = "distribute" => w > t
           /\ ~(w = target' /\ master' = "distribute") /\ ~(w > target' /\ master' = "distribute")
                => w <= t
  BY <1>1, <1>2, <1>7, NextTargetEffect
<1>9. TypeOK'
  BY <1>1, <1>6, <1>8 DEF TypeOK, workerVars
<1>10. RanksInv'
  <2> SUFFICES ASSUME NEW w \in Workers PROVE Placed(w)'
    BY DEF RanksInv
  <2>1. Placed(w) /\ w \in Int /\ t \in Int
    BY DEF SyncInv, RanksInv, Workers
  <2>2. CASE w = t
    BY <1>6, <1>8, <2>1, <2>2 DEF Placed
  <2>3. CASE w > t
    BY <1>1, <1>2, <1>6, <1>8, <2>1, <2>3 DEF Placed
  <2>4. CASE w < t
    BY <1>1, <1>2, <1>6, <1>8, <2>1, <2>4 DEF Placed
  <2> QED BY <2>1, <2>2, <2>3, <2>4
<1>11. CountsInv'
  <2>1. /\ disconnectedCount' = Cardinality(RanksLeft')
        /\ jobsCount' \in Nat /\ disconnectedCount' \in Nat
        /\ processedCount' \in Nat /\ processedCount' <= jobsCount'
    BY <1>1, <1>6, <1>9, MaxJobsAssumption DEF SyncInv, CountsInv, TypeOK
  <2> QED BY <1>8, <2>1 DEF CountsInv
<1> QED BY <1>6, <1>9, <1>10, <1>11 DEF SyncInv

LEMMA GiveNextJobPreserves ==
  ASSUME TypeOK, SyncInv, GiveNextJob
  PROVE  TypeOK' /\ SyncInv'
<1>1. /\ master = "answer" /\ master' = "receive" /\ processedCount < jobsCount
      /\ Order(processedCount) /\ processedCount' = processedCount + 1
      /\ UNCHANGED <<jobsCount, target, disconnectedCount, incoming, results,
                     workerVars, toMaster>>
  BY DEF GiveNextJob
<1>2. PICK t \in Workers : t = target
  BY DEF TypeOK
<1>3. PICK j : j = processedCount
  OBVIOUS
<1>4. incoming = <<>>
  BY <1>1, NotReceiving
<1>5. Fresh(t)
  <2>1. Placed(t)
    BY DEF SyncInv, RanksInv
  <2> QED BY <1>1, <1>2, <2>1 DEF Placed
<1>6. /\ Engaged(t)'
      /\ \A w \in Workers : w # t =>
              /\ Fresh(w)' <=> Fresh(w)
              /\ Left(w)' <=> Left(w)
              /\ Engaged(w) => Engaged(w)'
      /\ ~Left(t) /\ RanksLeft' = RanksLeft
      /\ givenTo' \in [Jobs -> Workers \union {Nobody}]
      /\ toWorker' \in [Workers -> Seq(Jobs \union {NoJob})]
      /\ processedCount' <= jobsCount /\ processedCount' \in 0 .. MaxJobs + WorkersCount
      /\ JobsInv' /\ IncomingInv'
  BY <1>1, <1>2, <1>3, <1>4, <1>5, OrderEffect
<1>7. TypeOK'
  BY <1>1, <1>6 DEF TypeOK, workerVars
<1>8. RanksInv'
  <2> SUFFICES ASSUME NEW w \in Workers PROVE Placed(w)'
    BY DEF RanksInv
  <2>1. Placed(w)
    BY DEF SyncInv, RanksInv
  <2> QED BY <1>1, <1>2, <1>6, <2>1 DEF Placed
<1>9. CountsInv'
  <2>1. /\ disconnectedCount' = Cardinality(RanksLeft')
        /\ jobsCount' \in Nat /\ disconnectedCount' \in Nat
        /\ processedCount' \in Nat /\ processedCount' <= jobsCount'
    BY <1>1, <1>6, <1>7, MaxJobsAssumption DEF SyncInv, CountsInv, TypeOK
  <2> QED BY <1>1, <2>1 DEF CountsInv
<1> QED BY <1>6, <1>7, <1>8, <1>9 DEF SyncInv

(* A step that leaves the table of jobs and all the ranks but t alone.     *)
LEMMA OthersStay ==
  ASSUME NEW t,
         \A w \in Workers : w # t =>
           /\ worker'[w] = worker[w] /\ workerJob'[w] = workerJob[w]
           /\ outgoing'[w] = outgoing[w] /\ toWorker'[w] = toWorker[w]
           /\ toMaster'[w] = toMaster[w] /\ Taken(w)' = Taken(w),
         UNCHANGED <<givenTo, results>>
  PROVE  \A w \in Workers : w # t =>
           /\ Fresh(w)' <=> Fresh(w)
           /\ Dismissed(w)' <=> Dismissed(w)
           /\ Left(w)' <=> Left(w)
           /\ Engaged(w)' <=> Engaged(w)
           /\ \A j \in Jobs : Owes(w, j)' <=> Owes(w, j)
<1> SUFFICES ASSUME NEW w \in Workers, w # t
             PROVE  /\ Fresh(w)' <=> Fresh(w)
                    /\ Dismissed(w)' <=> Dismissed(w)
                    /\ Left(w)' <=> Left(w)
                    /\ Engaged(w)' <=> Engaged(w)
                    /\ \A j \in Jobs : Owes(w, j)' <=> Owes(w, j)
  OBVIOUS
<1>1. \A j \in Jobs : Owes(w, j)' <=> Owes(w, j)
  BY DebtStays
<1>2. Engaged(w)' <=> Engaged(w)
  BY <1>1 DEF Engaged
<1> QED BY <1>1, <1>2, RankStays

(* A rank that has nothing to do is told to leave.                         *)
LEMMA DismissEffect ==
  ASSUME TypeOK, SyncInv, NEW t \in Workers, t = target,
         Fresh(t), incoming = <<>>, Dismiss,
         processedCount >= jobsCount,
         processedCount' \in {processedCount, processedCount + 1},
         UNCHANGED <<jobsCount, disconnectedCount, incoming, results, workerVars,
                     toMaster>>
  PROVE  /\ Dismissed(t)'
         /\ \A w \in Workers : w # t =>
              /\ Fresh(w)' <=> Fresh(w)
              /\ Left(w)' <=> Left(w)
              /\ Engaged(w)' <=> Engaged(w)
         /\ ~Left(t) /\ RanksLeft' = RanksLeft
         /\ toWorker' \in [Workers -> Seq(Jobs \union {NoJob})]
         /\ JobsInv' /\ IncomingInv'
<1>1. toWorker' = [toWorker EXCEPT ![t] = <<NoJob>>] /\ UNCHANGED givenTo
  BY DEF Dismiss, Fresh, TypeOK
<1>2. toWorker' \in [Workers -> Seq(Jobs \union {NoJob})]
  <2>1. <<NoJob>> \in Seq(Jobs \union {NoJob})
    OBVIOUS
  <2> QED BY <1>1, <2>1 DEF TypeOK
<1>3. toWorker'[t] = <<NoJob>>
  BY <1>1 DEF TypeOK
<1>4. Dismissed(t)' /\ ~Left(t) /\ ~Left(t)'
  BY <1>3 DEF Fresh, Dismissed, Left, Silent, workerVars
<1>5. \A w \in Workers : w # t =>
        /\ worker'[w] = worker[w] /\ workerJob'[w] = workerJob[w]
        /\ outgoing'[w] = outgoing[w] /\ toWorker'[w] = toWorker[w]
        /\ toMaster'[w] = toMaster[w] /\ Taken(w)' = Taken(w)
  BY <1>1 DEF workerVars, TypeOK, Taken
<1>6. \A w \in Workers : w # t =>
        /\ Fresh(w)' <=> Fresh(w)
        /\ Left(w)' <=> Left(w)
        /\ Engaged(w)' <=> Engaged(w)
        /\ \A j \in Jobs : Owes(w, j)' <=> Owes(w, j)
  BY <1>1, <1>5, OthersStay
<1>7. RanksLeft' = RanksLeft
  BY <1>4, <1>6 DEF RanksLeft
<1>8. JobsInv'
  <2>1. \A j \in Jobs : ~Owes(t, j)
    BY FreshOwesNothing
  <2>2. \A j \in Jobs : j < processedCount' /\ j < jobsCount' <=> j < processedCount /\ j < jobsCount
    BY MaxJobsAssumption DEF TypeOK, Jobs
  <2> QED BY <1>1, <1>6, <2>1, <2>2 DEF SyncInv, JobsInv
<1>9. IncomingInv'
  BY DEF IncomingInv
<1> QED BY <1>2, <1>4, <1>6, <1>7, <1>8, <1>9

LEMMA DismissAtOncePreserves ==
  ASSUME TypeOK, SyncInv, DismissAtOnce
  PROVE  TypeOK' /\ SyncInv'
<1>1. /\ master = "distribute" /\ master' = "confirmFirst"
      /\ processedCount >= jobsCount /\ Dismiss
      /\ UNCHANGED <<jobsCount, target, processedCount, disconnectedCount, incoming,
                     results, workerVars, toMaster>>
      /\ UNCHANGED givenTo
  BY DEF DismissAtOnce, Dismiss
<1>2. PICK t \in Workers : t = target
  BY DEF TypeOK
<1>3. incoming = <<>>
  BY <1>1, NotReceiving
<1>4. Fresh(t)
  <2>1. Placed(t)
    BY DEF SyncInv, RanksInv
  <2> QED BY <1>1, <1>2, <2>1 DEF Placed
<1>5. /\ Dismissed(t)'
      /\ \A w \in Workers : w # t =>
              /\ Fresh(w)' <=> Fresh(w)
              /\ Left(w)' <=> Left(w)
              /\ Engaged(w)' <=> Engaged(w)
      /\ RanksLeft' = RanksLeft
      /\ toWorker' \in [Workers -> Seq(Jobs \union {NoJob})]
      /\ JobsInv' /\ IncomingInv'
  BY <1>1, <1>2, <1>3, <1>4, DismissEffect
<1>6. TypeOK'
  BY <1>1, <1>5 DEF TypeOK, workerVars
<1>7. RanksInv'
  <2> SUFFICES ASSUME NEW w \in Workers PROVE Placed(w)'
    BY DEF RanksInv
  <2>1. Placed(w)
    BY DEF SyncInv, RanksInv
  <2> QED BY <1>1, <1>2, <1>5, <2>1 DEF Placed
<1>8. CountsInv'
  <2>1. disconnectedCount' = Cardinality(RanksLeft')
    BY <1>1, <1>5 DEF SyncInv, CountsInv
  <2>2. processedCount' <= jobsCount' + disconnectedCount'
    BY <1>1 DEF SyncInv, CountsInv, TypeOK
  <2> QED BY <1>1, <2>1, <2>2 DEF CountsInv, TypeOK
<1> QED BY <1>5, <1>6, <1>7, <1>8 DEF SyncInv

LEMMA DismissAfterResultPreserves ==
  ASSUME TypeOK, SyncInv, DismissAfterResult
  PROVE  TypeOK' /\ SyncInv'
<1>1. /\ master = "answer" /\ master' = "confirm"
      /\ processedCount >= jobsCount /\ Dismiss
      /\ processedCount' = processedCount + 1
      /\ UNCHANGED <<jobsCount, target, disconnectedCount, incoming,
                     results, workerVars, toMaster>>
      /\ UNCHANGED givenTo
  BY DEF DismissAfterResult, Dismiss
<1>2. PICK t \in Workers : t = target
  BY DEF TypeOK
<1>3. incoming = <<>>
  BY <1>1, NotReceiving
<1>4. Fresh(t)
  <2>1. Placed(t)
    BY DEF SyncInv, RanksInv
  <2> QED BY <1>1, <1>2, <2>1 DEF Placed
<1>5. /\ Dismissed(t)'
      /\ \A w \in Workers : w # t =>
              /\ Fresh(w)' <=> Fresh(w)
              /\ Left(w)' <=> Left(w)
              /\ Engaged(w)' <=> Engaged(w)
      /\ ~Left(t) /\ RanksLeft' = RanksLeft
      /\ toWorker' \in [Workers -> Seq(Jobs \union {NoJob})]
      /\ JobsInv' /\ IncomingInv'
  BY <1>1, <1>2, <1>3, <1>4, DismissEffect
<1>6. disconnectedCount < WorkersCount
  BY <1>5, SomebodyStays DEF SyncInv
<1>7. processedCount <= jobsCount + disconnectedCount
  BY <1>1 DEF SyncInv, CountsInv, TypeOK
<1>8. processedCount' \in 0 .. MaxJobs + WorkersCount
  BY <1>1, <1>6, <1>7, WorkersCountAssumption, MaxJobsAssumption DEF TypeOK
<1>9. TypeOK'
  BY <1>1, <1>5, <1>8 DEF TypeOK, workerVars
<1>10. RanksInv'
  <2> SUFFICES ASSUME NEW w \in Workers PROVE Placed(w)'
    BY DEF RanksInv
  <2>1. Placed(w)
    BY DEF SyncInv, RanksInv
  <2> QED BY <1>1, <1>2, <1>5, <2>1 DEF Placed
<1>11. CountsInv'
  <2>1. disconnectedCount' = Cardinality(RanksLeft')
    BY <1>1, <1>5 DEF SyncInv, CountsInv
  <2>2. processedCount' <= jobsCount' + disconnectedCount' + 1 /\ processedCount' >= jobsCount'
    BY <1>1, <1>7 DEF TypeOK
  <2> QED BY <1>1, <2>1, <2>2 DEF CountsInv, TypeOK
<1> QED BY <1>5, <1>9, <1>10, <1>11 DEF SyncInv

(* The signal of the dismissed rank is received; that rank has left.       *)
LEMMA DisconnectEffect ==
  ASSUME TypeOK, SyncInv, ReceiveDisconnect, NEW t \in Workers, t = target
  PROVE  /\ Dismissed(t) /\ Left(t)'
         /\ \A w \in Workers : w # t =>
              /\ Fresh(w)' <=> Fresh(w)
              /\ Left(w)' <=> Left(w)
              /\ Engaged(w)' <=> Engaged(w)
         /\ incoming = <<>>
         /\ toMaster' \in [Workers -> Seq(Messages)]
         /\ disconnectedCount' = Cardinality(RanksLeft')
         /\ disconnectedCount' \in 0 .. WorkersCount
         /\ processedCount <= jobsCount + disconnectedCount'
         /\ JobsInv'
<1>1. /\ master \in {"confirmFirst", "confirm"}
      /\ FirstTagged(t, 0) # 0 /\ TakeMessage(t, FirstTagged(t, 0))
      /\ disconnectedCount' = disconnectedCount + 1
      /\ UNCHANGED <<jobsCount, processedCount, incoming, results, givenTo,
                     workerVars, toWorker>>
  BY DEF ReceiveDisconnect
<1>2. incoming = <<>>
  BY <1>1, NotReceiving
<1>3. Dismissed(t)
  <2>1. Placed(t) /\ ~(t > target)
    BY DEF SyncInv, RanksInv, Workers
  <2> QED BY <1>1, <2>1 DEF Placed
<1>4. toMaster[t] = <<DisconnectSignal>> /\ toMaster' = [toMaster EXCEPT ![t] = <<>>]
  <2>1. toMaster[t] \in {<<>>, <<DisconnectSignal>>}
    BY <1>3 DEF Dismissed, Silent
  <2>2. toMaster \in [Workers -> Seq(Messages)]
    BY DEF TypeOK
  <2> QED BY <1>1, <2>1, <2>2, TakeOne
<1>5. toMaster' \in [Workers -> Seq(Messages)] /\ toMaster'[t] = <<>>
  BY <1>4 DEF TypeOK
<1>6. worker[t] = "gone" /\ toWorker[t] = <<>> /\ outgoing[t] = <<>>
  BY <1>3, <1>4 DEF Dismissed, Silent
<1>7. ~Left(t) /\ Left(t)'
  BY <1>1, <1>4, <1>5, <1>6 DEF Left, Silent, workerVars
<1>8. \A w \in Workers : w # t =>
        /\ worker'[w] = worker[w] /\ workerJob'[w] = workerJob[w]
        /\ outgoing'[w] = outgoing[w] /\ toWorker'[w] = toWorker[w]
        /\ toMaster'[w] = toMaster[w] /\ Taken(w)' = Taken(w)
  BY <1>1, <1>4 DEF workerVars, TypeOK, Taken
<1>9. \A w \in Workers : w # t =>
        /\ Fresh(w)' <=> Fresh(w)
        /\ Left(w)' <=> Left(w)
        /\ Engaged(w)' <=> Engaged(w)
        /\ \A j \in Jobs : Owes(w, j)' <=> Owes(w, j)
  BY <1>1, <1>8, OthersStay
<1>10. /\ disconnectedCount' = Cardinality(RanksLeft')
       /\ disconnectedCount' \in 0 .. WorkersCount
  <2>1. RanksLeft' = RanksLeft \union {t} /\ t \notin RanksLeft
    BY <1>7, <1>9 DEF RanksLeft
  <2>2. RanksLeft \in SUBSET Workers /\ RanksLeft' \in SUBSET Workers
    BY <2>1 DEF RanksLeft
  <2>3. Cardinality(RanksLeft') = Cardinality(RanksLeft) + 1
    BY <2>1, <2>2, WorkersFinite, FS_AddElement
  <2>4. Cardinality(RanksLeft') \in Nat /\ Cardinality(RanksLeft') <= WorkersCount
    BY <2>2, WorkersFinite
  <2>5. disconnectedCount = Cardinality(RanksLeft)
    BY DEF SyncInv, CountsInv
  <2> QED BY <1>1, <2>3, <2>4, <2>5, WorkersCountAssumption
<1>11. processedCount <= jobsCount + disconnectedCount'
  BY <1>1 DEF SyncInv, CountsInv, TypeOK
<1>12. JobsInv'
  <2>1. \A j \in Jobs : ~Owes(t, j)
    BY <1>3, FreshOwesNothing
  <2> QED BY <1>1, <1>9, <2>1 DEF SyncInv, JobsInv
<1> QED BY <1>2, <1>3, <1>5, <1>7, <1>9, <1>10, <1>11, <1>12

LEMMA ReceiveDisconnectPreserves ==
  ASSUME TypeOK, SyncInv, ReceiveDisconnect
  PROVE  TypeOK' /\ SyncInv'
<1>1. PICK t \in Workers : t = target
  BY DEF TypeOK
<1>2. /\ master \in {"confirmFirst", "confirm"}
      /\ IF master = "confirmFirst" THEN NextTarget(disconnectedCount')
         ELSE master' = Collecting(disconnectedCount') /\ UNCHANGED target
      /\ UNCHANGED <<jobsCount, processedCount, incoming, results, givenTo,
                     workerVars, toWorker>>
  BY DEF ReceiveDisconnect
<1>3. /\ Dismissed(t) /\ Left(t)'
      /\ \A w \in Workers : w # t =>
           /\ Fresh(w)' <=> Fresh(w)
           /\ Left(w)' <=> Left(w)
           /\ Engaged(w)' <=> Engaged(w)
      /\ incoming = <<>>
      /\ toMaster' \in [Workers -> Seq(Messages)]
      /\ disconnectedCount' = Cardinality(RanksLeft')
      /\ disconnectedCount' \in 0 .. WorkersCount
      /\ processedCount <= jobsCount + disconnectedCount'
      /\ JobsInv'
  BY <1>1, DisconnectEffect
<1>4. /\ target' \in Workers
      /\ master' \in {"distribute", "receive", "written"}
      /\ master' = "written" => disconnectedCount' = WorkersCount
      /\ master' = "distribute" => master = "confirmFirst" /\ target' = t + 1
      /\ master' # "distribute" /\ master = "confirmFirst" => t = WorkersCount
  BY <1>1, <1>2, <1>3, WorkersCountAssumption DEF NextTarget, Collecting, Workers
<1>5. TypeOK'
  BY <1>2, <1>3, <1>4 DEF TypeOK, workerVars
<1>6. RanksInv'
  <2> SUFFICES ASSUME NEW w \in Workers PROVE Placed(w)'
    BY DEF RanksInv
  <2>1. Placed(w) /\ w \in Int /\ t \in Int /\ w <= WorkersCount
    BY WorkersCountAssumption DEF SyncInv, RanksInv, Workers
  <2>2. CASE w = t
    BY <1>3, <1>4, <2>1, <2>2 DEF Placed
  <2>3. CASE w > t
    BY <1>1, <1>2, <1>3, <1>4, <2>1, <2>3 DEF Placed
  <2>4. CASE w < t
    BY <1>1, <1>2, <1>3, <1>4, <2>1, <2>4 DEF Placed
  <2> QED BY <2>1, <2>2, <2>3, <2>4
<1>7. IncomingInv'
  BY <1>2, <1>3 DEF IncomingInv
<1>8. CountsInv'
  <2>1. processedCount' >= jobsCount'
    BY <1>2 DEF SyncInv, CountsInv
  <2> QED BY <1>2, <1>3, <1>4, <2>1 DEF CountsInv, TypeOK
<1> QED BY <1>3, <1>5, <1>6, <1>7, <1>8 DEF SyncInv

-----------------------------------------------------------------------------
(* A message that MPI_Recv takes from MPI_ANY_SOURCE is the next one of    *)
(* the result under construction, or the first of a new one.               *)
LEMMA NextPart ==
  ASSUME TypeOK, SyncInv, master = "receive", NEW w \in Workers,
         FirstTagged(w, Len(incoming)) # 0
  PROVE  \E j \in Jobs :
           /\ Owes(w, j) /\ Answering(w, j)
           /\ incoming # <<>> => Builds(w, j)
           /\ Taken(w) = Len(incoming)
           /\ \A v \in Workers : v # w => Taken(v) = 0
           /\ Len(incoming) \in 0 .. Shape[j].rows + 3
           /\ toMaster[w] = <<ResultMessages(j)[Len(incoming) + 1]>>
           /\ toMaster[w][FirstTagged(w, Len(incoming))]
                = ResultMessages(j)[Len(incoming) + 1]
           /\ TakeMessage(w, FirstTagged(w, Len(incoming)))
                => toMaster' = [toMaster EXCEPT ![w] = <<>>]
<1>1. PICK k \in Nat : k = Len(incoming)
  BY DEF TypeOK
<1>2. toMaster \in [Workers -> Seq(Messages)]
  BY DEF TypeOK
<1>3. toMaster[w] # <<>>
  <2>1. PICK m : m = NoJob
    OBVIOUS
  <2>2. toMaster[w] = <<>> => toMaster[w] = <<m>>
    BY <1>1, <1>2, TakeOne
  <2>3. <<m>> # <<>>
    OBVIOUS
  <2> QED BY <2>2, <2>3
<1>4. PICK j \in Jobs : Owes(w, j) /\ Answering(w, j)
  <2>1. Engaged(w) \/ Left(w)
    BY DEF SyncInv, RanksInv, Placed
  <2>2. Engaged(w)
    BY <1>3, <2>1 DEF Left, Silent
  <2> QED BY <1>3, <2>2 DEF Engaged, Owes, Ordered, Computing, Silent
<1>5. PICK taken \in Nat : taken = Taken(w)
  BY TakenType
<1>6. PICK m : m = ResultMessages(j)[taken + 1]
  OBVIOUS
<1>7. toMaster[w] \in {<<>>, <<m>>} /\ taken < Shape[j].rows + 4
  BY <1>4, <1>5, <1>6 DEF Answering
<1>8. /\ toMaster[w] = <<m>> /\ m.tag = k
      /\ toMaster[w][FirstTagged(w, k)] = m
      /\ TakeMessage(w, FirstTagged(w, k)) => toMaster' = [toMaster EXCEPT ![w] = <<>>]
  <2>1. FirstTagged(w, k) # 0
    BY <1>1
  <2> QED BY <1>2, <1>7, <2>1, TakeOne
<1>9. taken = k
  <2>1. taken + 1 \in 1 .. Shape[j].rows + 4
    BY <1>7, PlateShape
  <2>2. m.tag = (taken + 1) - 1
    BY <1>6, <2>1, PartFacts
  <2> QED BY <1>8, <2>2
<1>10. k \in 0 .. Shape[j].rows + 3
  BY <1>7, <1>9, PlateShape
<1>11. CASE incoming = <<>>
  <2>1. \A v \in Workers : v # w => Taken(v) = 0
    BY <1>11 DEF Taken
  <2> QED BY <1>1, <1>4, <1>5, <1>6, <1>8, <1>9, <1>10, <1>11, <2>1
<1>12. CASE incoming # <<>>
  <2>1. PICK v \in Workers, i \in Jobs : Builds(v, i)
    BY <1>12 DEF SyncInv, IncomingInv
  <2>2. /\ k # 0
        /\ \A u \in Workers : u # v => Taken(u) = 0
    BY <1>1, <1>12, <2>1, BuilderFacts
  <2>3. v = w
    BY <1>5, <1>9, <2>2
  <2>4. i = j
    <3>1. Owes(w, i)
      BY <2>1, <2>3 DEF Builds, Owes
    <3> QED BY <1>4, <3>1, OneDebt
  <2> QED BY <1>1, <1>4, <1>5, <1>6, <1>8, <1>9, <1>10, <2>1, <2>2, <2>3, <2>4
<1> QED BY <1>11, <1>12

(* What rank 0 takes that message for is what it was sent as.              *)
LEMMA ExpectedIsSent ==
  ASSUME TypeOK, NEW w \in Workers, NEW j \in Jobs,
         incoming # <<>> => Builds(w, j),
         Len(incoming) \in 0 .. Shape[j].rows + 3,
         NEW m, m = ResultMessages(j)[Len(incoming) + 1]
  PROVE  /\ m.part = Expected /\ m.job = j /\ m \in Messages
         /\ Expected = "jobIndex" <=> Len(incoming) = Shape[j].rows + 3
         /\ Fits(m)
<1>1. PICK k \in Nat : k = Len(incoming)
  BY PlateShape
<1>2. k \in 0 .. Shape[j].rows + 3 /\ k + 1 \in 1 .. Shape[j].rows + 4
  BY <1>1, PlateShape
<1>3. m = [tag |-> k, part |-> PartAt(Shape[j].rows, k), job |-> j] /\ m \in Messages
  BY <1>1, <1>2, ResultFacts
<1>4. Expected = PartAt(Shape[j].rows, k)
  <2>1. CASE incoming = <<>>
    <3>1. k = 0 /\ Expected = "rows"
      BY <1>1, <2>1 DEF Expected
    <3> QED BY <1>2, <3>1, Parts, PlateShape
  <2>2. CASE incoming # <<>>
    <3>1. RowsReceived = Shape[j].rows
      BY <2>2, BuilderFacts DEF RowsReceived
    <3> QED BY <1>1, <2>2, <3>1 DEF Expected
  <2> QED BY <2>1, <2>2
<1>5. /\ PartAt(Shape[j].rows, k) = "jobIndex" <=> k = Shape[j].rows + 3
      /\ PartAt(Shape[j].rows, k) = "row" <=> k \in 2 .. Shape[j].rows + 1
  BY <1>2, Parts, PlateShape
<1>6. Fits(m)
  <2> SUFFICES ASSUME m.part = "row"
               PROVE  Expected = "row" /\ Shape[m.job].cols <= Shape[incoming[2].job].cols
    BY DEF Fits
  <2>1. k \in 2 .. Shape[j].rows + 1 /\ Expected = "row"
    BY <1>3, <1>4, <1>5
  <2>2. incoming # <<>> /\ 2 \in 1 .. Len(incoming) /\ 2 \in 1 .. Shape[j].rows + 4
    BY <1>1, <2>1, PlateShape
  <2>3. incoming[2] = ResultMessages(j)[2]
    BY <2>2 DEF Builds
  <2>4. incoming[2].job = j
    BY <2>2, <2>3, PartFacts
  <2> QED BY <1>3, <2>1, <2>4, PlateShape
<1> QED BY <1>1, <1>3, <1>4, <1>5, <1>6

LEMMA ReceivePartPreserves ==
  ASSUME TypeOK, SyncInv, NEW w \in Workers, ReceivePart(w)
  PROVE  TypeOK' /\ SyncInv'
<1>1. PICK k \in Nat : k = Len(incoming)
  BY DEF TypeOK
<1>2. /\ master = "receive" /\ Expected # "jobIndex"
      /\ FirstTagged(w, Len(incoming)) # 0
      /\ TakeMessage(w, FirstTagged(w, Len(incoming)))
      /\ UNCHANGED <<jobsCount, target, processedCount, disconnectedCount, results,
                     givenTo, workerVars, toWorker>>
  BY DEF ReceivePart
<1>3. PICK j \in Jobs :
        /\ Owes(w, j) /\ Answering(w, j)
        /\ incoming # <<>> => Builds(w, j)
        /\ Taken(w) = k
        /\ \A v \in Workers : v # w => Taken(v) = 0
        /\ k \in 0 .. Shape[j].rows + 3
        /\ toMaster[w] = <<ResultMessages(j)[k + 1]>>
        /\ toMaster[w][FirstTagged(w, Len(incoming))] = ResultMessages(j)[k + 1]
        /\ toMaster' = [toMaster EXCEPT ![w] = <<>>]
  BY <1>1, <1>2, NextPart
<1>4. PICK m : m = ResultMessages(j)[k + 1]
  OBVIOUS
<1>5. /\ m \in Messages /\ Fits(m) /\ k # Shape[j].rows + 3
  BY <1>1, <1>2, <1>3, <1>4, ExpectedIsSent
<1>6. master' = "receive" /\ incoming' = Append(incoming, m)
  BY <1>2, <1>3, <1>4, <1>5 DEF ReceivePart
<1>7. /\ incoming' \in Seq(Messages) /\ incoming' # <<>>
      /\ Len(incoming') = k + 1 /\ k + 1 <= Shape[j].rows + 3
      /\ \A n \in 1 .. k + 1 : incoming'[n] = ResultMessages(j)[n]
  <2>1. /\ Len(incoming') = k + 1 /\ incoming' \in Seq(Messages)
        /\ incoming'[k + 1] = m
        /\ \A n \in 1 .. k : incoming'[n] = incoming[n]
    BY <1>1, <1>5, <1>6 DEF TypeOK
  <2>2. \A n \in 1 .. k : incoming[n] = ResultMessages(j)[n]
    <3>1. CASE incoming = <<>>
      BY <1>1, <3>1
    <3>2. CASE incoming # <<>>
      BY <1>1, <1>3, <3>2 DEF Builds
    <3> QED BY <3>1, <3>2
  <2>3. incoming' # <<>>
    <3>1. Len(<<>>) = 0
      OBVIOUS
    <3> QED BY <1>1, <2>1, <3>1
  <2>4. k + 1 <= Shape[j].rows + 3
    BY <1>3, <1>5, PlateShape
  <2> QED BY <1>4, <2>1, <2>2, <2>3, <2>4
<1>8. TypeOK'
  <2>1. toMaster' \in [Workers -> Seq(Messages)]
    BY <1>3 DEF TypeOK
  <2> QED BY <1>2, <1>6, <1>7, <2>1 DEF TypeOK, workerVars
<1>9. givenTo[j] = w /\ results[j] = <<>> /\ UNCHANGED <<givenTo, results>>
  BY <1>2, <1>3 DEF Owes
<1>10. Taken(w)' = k + 1 /\ \A v \in Workers : v # w => Taken(v)' = 0
  <2>1. incoming'[1].job = j
    <3>1. 1 \in 1 .. k + 1 /\ 1 \in 1 .. Shape[j].rows + 4
      BY PlateShape
    <3> QED BY <1>7, <3>1, PartFacts
  <2> QED BY <1>7, <1>9, <2>1 DEF Taken
<1>11. \A v \in Workers : v # w =>
         /\ worker'[v] = worker[v] /\ workerJob'[v] = workerJob[v]
         /\ outgoing'[v] = outgoing[v] /\ toWorker'[v] = toWorker[v]
         /\ toMaster'[v] = toMaster[v] /\ Taken(v)' = Taken(v)
  BY <1>2, <1>3, <1>10 DEF workerVars, TypeOK
<1>12. \A v \in Workers : v # w =>
         /\ Left(v)' <=> Left(v)
         /\ Engaged(v)' <=> Engaged(v)
         /\ \A i \in Jobs : Owes(v, i)' <=> Owes(v, i)
  BY <1>9, <1>11, OthersStay
<1>13. Answering(w, j)'
  <2> DEFINE last == Shape[j].rows + 4
  <2>1. /\ worker[w] = IF outgoing[w] = <<>> THEN "waiting" ELSE "sending"
        /\ toWorker[w] = <<>> /\ workerJob[w] = j
        /\ Len(outgoing[w]) = (last - k) - Len(toMaster[w])
        /\ \A n \in 1 .. Len(outgoing[w]) :
             outgoing[w][n] = ResultMessages(j)[(last - Len(outgoing[w])) + n]
    BY <1>3, Zenon DEF Answering
  <2>2. last \in Nat /\ k + 1 < last
    BY <1>7, PlateShape
  <2> HIDE DEF last
  <2>3. Len(toMaster[w]) = 1 /\ toMaster'[w] = <<>> /\ Len(toMaster'[w]) = 0
    BY <1>3 DEF TypeOK
  <2>4. Len(outgoing[w]) = (last - Taken(w)') - Len(toMaster'[w]) /\ Taken(w)' < last
    BY <1>10, <2>1, <2>2, <2>3
  <2>5. outgoing'[w] = outgoing[w] /\ worker'[w] = worker[w]
        /\ toWorker'[w] = toWorker[w] /\ workerJob'[w] = workerJob[w]
    BY <1>2 DEF workerVars
  <2>6. toMaster'[w] \in {<<>>, <<ResultMessages(j)[Taken(w)' + 1]>>}
    BY <2>3
  <2> QED BY <2>1, <2>4, <2>5, <2>6, Zenon DEF Answering, last
<1>14. Owes(w, j)' /\ ~Left(w) /\ ~Left(w)'
  <2>1. Owes(w, j)'
    BY <1>9, <1>13 DEF Owes
  <2>2. ~Left(w)
    BY <1>3 DEF Left, Silent
  <2>3. worker'[w] \in {"waiting", "sending"}
    BY <1>13 DEF Answering
  <2> QED BY <2>1, <2>2, <2>3 DEF Left
<1>15. RanksInv'
  <2> SUFFICES ASSUME NEW v \in Workers PROVE Engaged(v)' \/ Left(v)'
    BY <1>6 DEF RanksInv, Placed
  <2>1. Engaged(v) \/ Left(v)
    BY <1>2 DEF SyncInv, RanksInv, Placed
  <2> QED BY <1>12, <1>14, <2>1 DEF Engaged
<1>16. JobsInv'
  <2>1. \A i \in Jobs : Owes(w, i) => i = j
    BY <1>3, OneDebt
  <2> QED BY <1>2, <1>9, <1>12, <1>14, <2>1 DEF SyncInv, JobsInv
<1>17. IncomingInv'
  <2>1. Builds(w, j)'
    BY <1>7, <1>9, <1>13 DEF Builds
  <2> QED BY <1>6, <2>1 DEF IncomingInv
<1>18. CountsInv'
  <2>1. RanksLeft' = RanksLeft
    BY <1>12, <1>14 DEF RanksLeft
  <2> QED BY <1>2, <1>6, <2>1 DEF SyncInv, CountsInv
<1> QED BY <1>8, <1>15, <1>16, <1>17, <1>18 DEF SyncInv

(* The last part stores the whole result, at its own index.                *)
LEMMA StoreEffect ==
  ASSUME TypeOK, SyncInv, NEW w \in Workers, StoreResult(w)
  PROVE  \E j \in Jobs :
           /\ Owes(w, j) /\ Answering(w, j)
           /\ Taken(w) = Shape[j].rows + 3
           /\ \A v \in Workers : v # w => Taken(v) = 0
           /\ toMaster[w] # <<>> /\ Len(toMaster[w]) = 1
           /\ toMaster' = [toMaster EXCEPT ![w] = <<>>]
           /\ master' = "answer"
           /\ results' = [results EXCEPT ![j] = ResultMessages(j)]
<1>1. PICK k \in Nat : k = Len(incoming)
  BY DEF TypeOK
<1>2. /\ master = "receive" /\ Expected = "jobIndex"
      /\ FirstTagged(w, Len(incoming)) # 0
      /\ TakeMessage(w, FirstTagged(w, Len(incoming)))
  BY DEF StoreResult
<1>3. PICK j \in Jobs :
        /\ Owes(w, j) /\ Answering(w, j)
        /\ incoming # <<>> => Builds(w, j)
        /\ Taken(w) = k
        /\ \A v \in Workers : v # w => Taken(v) = 0
        /\ k \in 0 .. Shape[j].rows + 3
        /\ toMaster[w] = <<ResultMessages(j)[k + 1]>>
        /\ toMaster[w][FirstTagged(w, Len(incoming))] = ResultMessages(j)[k + 1]
        /\ toMaster' = [toMaster EXCEPT ![w] = <<>>]
  BY <1>1, <1>2, NextPart
<1>4. PICK m : m = ResultMessages(j)[k + 1]
  OBVIOUS
<1>5. m.part = "jobIndex" /\ m.job = j /\ m \in Messages /\ k = Shape[j].rows + 3
  BY <1>1, <1>2, <1>3, <1>4, ExpectedIsSent
<1>6. PICK index \in IndexOf(m) :
        /\ master' = IF index \in JobIndexes THEN "answer" ELSE "aborted"
        /\ results' = [i \in Jobs |-> IF i = index THEN Append(incoming, m)
                                      ELSE results[i]]
  BY <1>3, <1>4 DEF StoreResult
<1>7. index = j
  BY <1>5, <1>6 DEF IndexOf, Fits
<1>8. j \in JobIndexes
  <2>1. givenTo[j] # Nobody /\ j \in Nat
    BY <1>3, NoJobIsNone, MaxJobsAssumption DEF Owes, Jobs
  <2>2. j < jobsCount
    BY <2>1 DEF SyncInv, JobsInv
  <2> QED BY <2>1, <2>2 DEF JobIndexes, TypeOK
<1>9. Append(incoming, m) = ResultMessages(j)
  <2> DEFINE all == Append(incoming, m)
  <2>1. /\ all \in Seq(Messages) /\ Len(all) = k + 1
        /\ all[k + 1] = m
        /\ \A n \in 1 .. k : all[n] = incoming[n]
    <3>1. incoming \in Seq(Messages) /\ m \in Messages
      BY <1>5 DEF TypeOK
    <3> QED BY <1>1, <3>1, AppendProperties
  <2> HIDE DEF all
  <2>2. incoming # <<>>
    <3>1. Len(<<>>) = 0 /\ k # 0
      BY <1>5, PlateShape
    <3> QED BY <1>1, <3>1
  <2>3. \A n \in 1 .. k : incoming[n] = ResultMessages(j)[n]
    BY <1>1, <1>3, <2>2 DEF Builds
  <2>4. \A n \in 1 .. k + 1 : all[n] = ResultMessages(j)[n]
    BY <1>4, <2>1, <2>3
  <2>5. Len(ResultMessages(j)) = k + 1 /\ ResultMessages(j) \in Seq(Messages)
    BY <1>5, ResultFacts, PlateShape
  <2>6. all = ResultMessages(j)
    BY <2>1, <2>4, <2>5, SeqEqual
  <2> QED BY <2>6 DEF all
<1>10. results' = [results EXCEPT ![j] = ResultMessages(j)]
  BY <1>6, <1>7, <1>9 DEF TypeOK
<1>11. toMaster[w] # <<>> /\ Len(toMaster[w]) = 1
  BY <1>3
<1> QED BY <1>3, <1>5, <1>6, <1>7, <1>8, <1>10, <1>11

LEMMA StoreResultPreserves ==
  ASSUME TypeOK, SyncInv, NEW w \in Workers, StoreResult(w)
  PROVE  TypeOK' /\ SyncInv'
<1>1. PICK j \in Jobs :
        /\ Owes(w, j) /\ Answering(w, j)
        /\ Taken(w) = Shape[j].rows + 3
        /\ \A v \in Workers : v # w => Taken(v) = 0
        /\ toMaster[w] # <<>> /\ Len(toMaster[w]) = 1
        /\ toMaster' = [toMaster EXCEPT ![w] = <<>>]
        /\ master' = "answer"
        /\ results' = [results EXCEPT ![j] = ResultMessages(j)]
  BY StoreEffect
<1>2. /\ master = "receive" /\ incoming' = <<>> /\ target' = w
      /\ UNCHANGED <<jobsCount, processedCount, disconnectedCount, givenTo,
                     workerVars, toWorker>>
  BY DEF StoreResult
<1>3. TypeOK'
  <2>1. toMaster' \in [Workers -> Seq(Messages)] /\ results' \in [Jobs -> Seq(Messages)]
    BY <1>1, ResultFacts DEF TypeOK
  <2> QED BY <1>1, <1>2, <2>1 DEF TypeOK, workerVars
<1>4. Fresh(w)'
  <2>1. /\ worker[w] = IF outgoing[w] = <<>> THEN "waiting" ELSE "sending"
        /\ toWorker[w] = <<>>
        /\ Len(outgoing[w]) = ((Shape[j].rows + 4) - Taken(w)) - Len(toMaster[w])
    BY <1>1, Zenon DEF Answering
  <2>2. Len(outgoing[w]) = 0 /\ outgoing[w] \in Seq(Messages)
    <3>1. outgoing[w] \in Seq(Messages)
      BY DEF TypeOK
    <3> QED BY <1>1, <2>1, <3>1, PlateShape
  <2>3. outgoing[w] = <<>>
    BY <2>2, EmptySeq
  <2>4. toMaster'[w] = <<>>
    BY <1>1 DEF TypeOK
  <2> QED BY <1>2, <2>1, <2>3, <2>4 DEF Fresh, Silent, workerVars
<1>5. /\ givenTo[j] = w /\ ~Left(w) /\ ~Left(w)'
      /\ results'[j] = ResultMessages(j) /\ results'[j] # <<>>
      /\ \A i \in Jobs : i # j => results'[i] = results[i]
  <2>1. ~Left(w) /\ ~Left(w)'
    BY <1>1, <1>4 DEF Left, Silent, Fresh
  <2> QED BY <1>1, <2>1, ResultFacts DEF Owes, TypeOK
<1>6. \A v \in Workers : v # w =>
         /\ worker'[v] = worker[v] /\ workerJob'[v] = workerJob[v]
         /\ outgoing'[v] = outgoing[v] /\ toWorker'[v] = toWorker[v]
         /\ toMaster'[v] = toMaster[v] /\ Taken(v)' = Taken(v)
  <2>1. \A v \in Workers : v # w => Taken(v)' = Taken(v)
    BY <1>1, <1>2 DEF Taken
  <2> QED BY <1>1, <1>2, <2>1 DEF workerVars, TypeOK
<1>7. ASSUME NEW v \in Workers, v # w
      PROVE  /\ Left(v)' <=> Left(v)
             /\ \A i \in Jobs : Owes(v, i) => i # j /\ Owes(v, i)'
  <2>1. \A i \in Jobs : Owes(v, i) => i # j
    BY <1>5, <1>7 DEF Owes
  <2>2. \A i \in Jobs : i # j => (Owes(v, i)' <=> Owes(v, i))
    BY <1>2, <1>5, <1>6, <1>7, DebtStays
  <2> QED BY <1>6, <1>7, <2>1, <2>2, RankStays
<1>8. RanksInv'
  <2> SUFFICES ASSUME NEW v \in Workers, v # w PROVE Engaged(v)' \/ Left(v)'
    BY <1>1, <1>2, <1>4 DEF RanksInv, Placed
  <2>1. Engaged(v) \/ Left(v)
    BY <1>2 DEF SyncInv, RanksInv, Placed
  <2> QED BY <1>7, <2>1 DEF Engaged
<1>9. JobsInv'
  <2> SUFFICES ASSUME NEW i \in Jobs
               PROVE  /\ givenTo'[i] # Nobody <=> i < processedCount' /\ i < jobsCount'
                      /\ givenTo'[i] = Nobody => results'[i] = <<>>
                      /\ \A v \in Workers :
                           givenTo'[i] = v /\ results'[i] = <<>> => Owes(v, i)'
    BY DEF JobsInv
  <2>1. CASE i = j
    BY <1>2, <1>5, <2>1, NoJobIsNone DEF SyncInv, JobsInv
  <2>2. CASE i # j
    <3>1. /\ givenTo[i] # Nobody <=> i < processedCount /\ i < jobsCount
          /\ givenTo[i] = Nobody => results[i] = <<>>
          /\ \A v \in Workers : givenTo[i] = v /\ results[i] = <<>> => Owes(v, i)
      BY DEF SyncInv, JobsInv
    <3>2. ~Owes(w, i)
      BY <1>1, <2>2, OneDebt
    <3> QED BY <1>2, <1>5, <1>7, <2>2, <3>1, <3>2
  <2> QED BY <2>1, <2>2
<1>10. IncomingInv'
  BY <1>2 DEF IncomingInv
<1>11. CountsInv'
  <2>1. RanksLeft' = RanksLeft
    BY <1>5, <1>7 DEF RanksLeft
  <2> QED BY <1>1, <1>2, <2>1 DEF SyncInv, CountsInv
<1> QED BY <1>3, <1>8, <1>9, <1>10, <1>11 DEF SyncInv

-----------------------------------------------------------------------------

LEMMA InitIInv == Init => IInv
<1> SUFFICES ASSUME Init PROVE IInv
  OBVIOUS
<1>1. TypeOK
  BY WorkersCountAssumption, MaxJobsAssumption DEF Init, TypeOK, Workers
<1>2. ResultsIntact
  BY DEF Init, ResultsIntact
<1>3. \A w \in Workers : Fresh(w)
  BY DEF Init, Fresh, Silent
<1>4. RanksInv
  BY <1>3, WorkersCountAssumption DEF Init, RanksInv, Placed, Workers
<1>5. JobsInv
  BY NoJobIsNone, MaxJobsAssumption DEF Init, JobsInv, Jobs
<1>6. IncomingInv
  BY DEF Init, IncomingInv
<1>7. CountsInv
  <2>1. RanksLeft = {}
    BY DEF Init, RanksLeft, Left
  <2> QED BY <2>1, FS_EmptySet DEF Init, CountsInv
<1> QED BY <1>1, <1>2, <1>4, <1>5, <1>6, <1>7 DEF IInv, SyncInv, Init

(* Only the last part of a result changes the table.                       *)
LEMMA ResultsKept ==
  ASSUME TypeOK, SyncInv, ResultsIntact, Next
  PROVE  ResultsIntact'
<1>1. ASSUME NEW w \in Workers, StoreResult(w)
      PROVE  ResultsIntact'
  <2>1. PICK j \in Jobs : results' = [results EXCEPT ![j] = ResultMessages(j)]
    BY <1>1, StoreEffect
  <2> QED BY <2>1 DEF ResultsIntact, TypeOK
<1>2. CASE UNCHANGED results
  BY <1>2 DEF ResultsIntact
<1> QED BY <1>1, <1>2
    DEF Next, MasterStep, WorkerStep, GiveFirstJob, DismissAtOnce, GiveNextJob,
        DismissAfterResult, ReceiveDisconnect, ReceivePart, ReceiveOrder,
        ProcessJob, SendPart, PlateMissing, masterVars

LEMMA StutterPreserves ==
  ASSUME IInv, UNCHANGED vars
  PROVE  IInv'
<1>1. /\ UNCHANGED <<master, jobsCount, target, processedCount, disconnectedCount,
                     incoming, results, givenTo>>
      /\ UNCHANGED <<worker, workerJob, outgoing, toWorker, toMaster>>
  BY DEF vars, masterVars, workerVars, channels
<1>2. TypeOK' /\ ResultsIntact'
  BY <1>1 DEF IInv, TypeOK, ResultsIntact
<1>3. ASSUME SyncInv
      PROVE  SyncInv'
  <2>1. \A w \in Workers : Taken(w)' = Taken(w)
    BY <1>1 DEF Taken
  <2>2. \A w \in Workers :
          /\ Fresh(w)' <=> Fresh(w)
          /\ Dismissed(w)' <=> Dismissed(w)
          /\ Left(w)' <=> Left(w)
          /\ Engaged(w)' <=> Engaged(w)
          /\ \A j \in Jobs : Owes(w, j)' <=> Owes(w, j)
    BY <1>1, <2>1, OthersStay, NoJobIsNone
  <2>3. \A w \in Workers, j \in Jobs : Answering(w, j)' <=> Answering(w, j)
    BY <1>1, <2>1, RankStays
  <2>4. RanksInv'
    BY <1>1, <1>3, <2>2 DEF SyncInv, RanksInv, Placed
  <2>5. JobsInv'
    BY <1>1, <1>3, <2>2 DEF SyncInv, JobsInv
  <2>6. IncomingInv'
    <3>1. \A w \in Workers, j \in Jobs : Builds(w, j) => Builds(w, j)'
      BY <1>1, <2>3 DEF Builds
    <3> QED BY <1>1, <1>3, <3>1 DEF SyncInv, IncomingInv
  <2>7. CountsInv'
    <3>1. RanksLeft' = RanksLeft
      BY <2>2 DEF RanksLeft
    <3> QED BY <1>1, <1>3, <3>1 DEF SyncInv, CountsInv
  <2> QED BY <2>4, <2>5, <2>6, <2>7 DEF SyncInv
<1> QED BY <1>1, <1>2, <1>3 DEF IInv

LEMMA NextPreserves ==
  ASSUME ~Buffered, IInv, [Next]_vars
  PROVE  IInv'
<1>1. CASE UNCHANGED vars
  BY <1>1, StutterPreserves
<1>2. CASE Next
  <2>1. master # "aborted" /\ TypeOK /\ SyncInv /\ ResultsIntact
    BY <1>2 DEF Next, MasterStep, WorkerStep, GiveFirstJob, DismissAtOnce,
        GiveNextJob, DismissAfterResult, ReceiveDisconnect, ReceivePart,
        StoreResult, ReceiveOrder, ProcessJob, SendPart, PlateMissing, IInv
  <2>2. ResultsIntact'
    BY <1>2, <2>1, ResultsKept
  <2>3. ASSUME NEW w \in Workers, PlateMissing(w)
        PROVE  TypeOK' /\ master' = "aborted" /\ ReadMayFail
    BY <2>1, <2>3 DEF PlateMissing, TypeOK, workerVars, channels
  <2>4. MasterStep => TypeOK' /\ SyncInv'
    BY <2>1, GiveFirstJobPreserves, DismissAtOncePreserves, GiveNextJobPreserves,
       DismissAfterResultPreserves, ReceiveDisconnectPreserves,
       ReceivePartPreserves, StoreResultPreserves DEF MasterStep
  <2>5. ASSUME NEW w \in Workers, WorkerStep(w)
        PROVE  TypeOK' /\ SyncInv'
    BY <2>1, <2>5, ReceiveOrderPreserves, ProcessJobPreserves, SendPartPreserves
       DEF WorkerStep
  <2>6. TypeOK' /\ SyncInv' => IInv'
    BY <2>2 DEF IInv, SyncInv, CountsInv
  <2>7. CASE MasterStep
    BY <2>4, <2>6, <2>7
  <2>8. ASSUME NEW w \in Workers, WorkerStep(w) PROVE IInv'
    BY <2>5, <2>6, <2>8
  <2>9. ASSUME NEW w \in Workers, PlateMissing(w) PROVE IInv'
    BY <2>2, <2>3, <2>9 DEF IInv
  <2> QED BY <1>2, <2>7, <2>8, <2>9 DEF Next
<1> QED BY <1>1, <1>2

-----------------------------------------------------------------------------
(* With synchronous sends the whole invariant holds in every reachable     *)
(* state of omp_mpi's main(), for any number of ranks, jobs and rows.      *)
THEOREM SynchronousInvariance ==
  ASSUME ~Buffered
  PROVE  Spec => []IInv
<1>1. IInv /\ [Next]_vars => IInv'
  BY NextPreserves
<1> QED BY <1>1, InitIInv, PTL DEF Spec

(* The types are respected: processedCount, which counts the ranks that    *)
(* are dismissed too, stays below MaxJobs + WorkersCount.                  *)
THEOREM MessageTypes ==
  ASSUME ~Buffered
  PROVE  Spec => []TypeOK
<1>1. IInv => TypeOK
  BY DEF IInv
<1> QED BY <1>1, SynchronousInvariance, PTL

(* Every stored result is made of the messages of its own job, although    *)
(* receiveJobResult() takes each of them from MPI_ANY_SOURCE.              *)
THEOREM NoResultMixed ==
  ASSUME ~Buffered
  PROVE  Spec => []ResultsIntact
<1>1. IInv => ResultsIntact
  BY DEF IInv
<1> QED BY <1>1, SynchronousInvariance, PTL

(* A result is never too long for the buffer it is received into, nor its  *)
(* index out of the table: what ends the MPI job is a missing plate.       *)
THEOREM OnlyMissingPlateAborts ==
  ASSUME ~Buffered
  PROVE  Spec => [](master = "aborted" => ReadMayFail)
<1>1. IInv => (master = "aborted" => ReadMayFail)
  BY DEF IInv
<1> QED BY <1>1, SynchronousInvariance, PTL

-----------------------------------------------------------------------------
(* The jobs in a rank's hands are the one it has to answer for, if any.    *)
LEMMA HandFacts ==
  ASSUME TypeOK, SyncInv, ResultsIntact, NEW w \in Workers
  PROVE  /\ \A j \in Jobs : Owes(w, j) => InHand(w) = {j}
         /\ Fresh(w) \/ Dismissed(w) \/ Left(w) => InHand(w) = {}
<1>1. \A j \in Jobs : j \in InHand(w) <=> Owes(w, j)
  <2> SUFFICES ASSUME NEW j \in Jobs PROVE j \in InHand(w) <=> Owes(w, j)
    OBVIOUS
  <2>1. results[j] # ResultMessages(j) <=> results[j] = <<>>
    BY ResultFacts DEF ResultsIntact
  <2>2. givenTo[j] = w /\ results[j] = <<>> => Owes(w, j)
    BY DEF SyncInv, JobsInv
  <2> QED BY <2>1, <2>2 DEF InHand, Owes
<1>2. InHand(w) \subseteq Jobs
  BY DEF InHand
<1> QED BY <1>1, <1>2, OneDebt, FreshOwesNothing

LEMMA EngagedIsNotGone ==
  ASSUME NEW w \in Workers, NEW j \in Jobs, Owes(w, j)
  PROVE  worker[w] # "gone"
<1>1. Answering(w, j) => worker[w] \in {"waiting", "sending"}
  BY DEF Answering
<1> QED BY <1>1 DEF Owes, Ordered, Computing

(* The loop that collects results (lines 62-82) waits for exactly one      *)
(* result of every rank that was not dismissed.                            *)
THEOREM EachRankOneJob ==
  ASSUME ~Buffered
  PROVE  Spec => []OneJobEach
<1>1. ASSUME IInv
      PROVE  OneJobEach
  <2> SUFFICES ASSUME master = "receive"
               PROVE  /\ \A w \in Workers : Cardinality(InHand(w))
                           = IF worker[w] = "gone" THEN 0 ELSE 1
                      /\ disconnectedCount
                           = Cardinality({w \in Workers : worker[w] = "gone"})
    BY DEF OneJobEach
  <2>1. TypeOK /\ SyncInv /\ ResultsIntact
    BY <1>1 DEF IInv
  <2>2. \A w \in Workers : Engaged(w) \/ Left(w)
    BY <2>1 DEF SyncInv, RanksInv, Placed
  <2>3. ASSUME NEW w \in Workers
        PROVE  /\ Cardinality(InHand(w)) = IF worker[w] = "gone" THEN 0 ELSE 1
               /\ worker[w] = "gone" <=> Left(w)
    <3>1. CASE Left(w)
      <4>1. InHand(w) = {} /\ worker[w] = "gone"
        BY <2>1, <3>1, HandFacts DEF Left
      <4> QED BY <3>1, <4>1, FS_EmptySet
    <3>2. CASE ~Left(w)
      <4>1. PICK j \in Jobs : Owes(w, j)
        BY <2>2, <3>2 DEF Engaged
      <4>2. InHand(w) = {j} /\ worker[w] # "gone"
        BY <2>1, <4>1, HandFacts, EngagedIsNotGone
      <4> QED BY <3>2, <4>2, FS_Singleton
    <3> QED BY <3>1, <3>2
  <2>4. {w \in Workers : worker[w] = "gone"} = RanksLeft
    BY <2>3 DEF RanksLeft
  <2> QED BY <2>1, <2>3, <2>4 DEF SyncInv, CountsInv
<1> QED BY <1>1, SynchronousInvariance, PTL

(* When nobody is engaged and no job is left to give, all are stored.      *)
LEMMA NothingLeft ==
  ASSUME TypeOK, SyncInv, ResultsIntact, processedCount >= jobsCount,
         \A w \in Workers : InHand(w) = {}
  PROVE  \A j \in Jobs : results[j] = ResultMessages(j) <=> j \in JobIndexes
<1> SUFFICES ASSUME NEW j \in Jobs
             PROVE  results[j] = ResultMessages(j) <=> j \in JobIndexes
  OBVIOUS
<1>1. j \in JobIndexes <=> givenTo[j] # Nobody
  BY MaxJobsAssumption DEF SyncInv, JobsInv, JobIndexes, Jobs, TypeOK
<1>2. givenTo[j] # Nobody => results[j] = ResultMessages(j)
  BY DEF InHand, TypeOK
<1>3. givenTo[j] = Nobody => results[j] # ResultMessages(j)
  BY ResultFacts DEF SyncInv, JobsInv
<1> QED BY <1>1, <1>2, <1>3

(* The report is written with every result, and nobody is left behind.     *)
THEOREM ReportIsComplete ==
  ASSUME ~Buffered
  PROVE  Spec => []CompleteReport
<1>1. ASSUME IInv
      PROVE  CompleteReport
  <2> SUFFICES ASSUME master = "written"
               PROVE  /\ \A j \in JobIndexes : results[j] = ResultMessages(j)
                      /\ \A w \in Workers : worker[w] = "gone" /\ toWorker[w] = <<>>
                                            /\ toMaster[w] = <<>>
    BY DEF CompleteReport
  <2>1. TypeOK /\ SyncInv /\ ResultsIntact
    BY <1>1 DEF IInv
  <2>2. \A w \in Workers : Left(w)
    BY <2>1, NobodyStays DEF SyncInv, CountsInv
  <2>3. \A w \in Workers : InHand(w) = {}
    BY <2>1, <2>2, HandFacts
  <2>4. processedCount >= jobsCount
    BY <2>1 DEF SyncInv, CountsInv
  <2>5. JobIndexes \subseteq Jobs
    BY <2>1, MaxJobsAssumption DEF JobIndexes, Jobs, TypeOK
  <2>6. \A j \in Jobs : results[j] = ResultMessages(j) <=> j \in JobIndexes
    BY <2>1, <2>3, <2>4, NothingLeft
  <2> QED BY <2>2, <2>5, <2>6 DEF Left, Silent
<1> QED BY <1>1, SynchronousInvariance, PTL

-----------------------------------------------------------------------------
(* The refinement of JobFarm.                                              *)

LEMMA InitRefines == Init => Farm!Init
<1> SUFFICES ASSUME Init PROVE Farm!Init
  OBVIOUS
<1>1. JobIndexes \in SUBSET Jobs
  BY MaxJobsAssumption DEF Init, JobIndexes, Jobs
<1>2. {j \in JobIndexes : givenTo[j] = Nobody} = JobIndexes
  BY <1>1 DEF Init
<1>3. [w \in Workers |-> InHand(w)] = [w \in Workers |-> {}]
  <2>1. \A w \in Workers : InHand(w) = {}
    BY NoJobIsNone DEF Init, InHand
  <2> QED BY <2>1
<1>4. {j \in Jobs : results[j] = ResultMessages(j)} = {}
  BY ResultFacts DEF Init
<1>5. (master = "written") = FALSE
  BY DEF Init
<1> QED BY <1>1, <1>2, <1>3, <1>4, <1>5 DEF Farm!Init

(* The steps the farm does not see.                                        *)
LEMMA FarmStutters ==
  ASSUME UNCHANGED <<jobsCount, givenTo, results>>,
         (master' = "written") <=> (master = "written")
  PROVE  UNCHANGED Farm!vars
<1>1. JobIndexes' = JobIndexes
  BY DEF JobIndexes
<1>2. {j \in JobIndexes : givenTo[j] = Nobody}' = {j \in JobIndexes : givenTo[j] = Nobody}
  BY <1>1
<1>3. [w \in Workers |-> InHand(w)]' = [w \in Workers |-> InHand(w)]
  BY DEF InHand
<1>4. {j \in Jobs : results[j] = ResultMessages(j)}'
        = {j \in Jobs : results[j] = ResultMessages(j)}
  OBVIOUS
<1>5. (master = "written")' = (master = "written")
  OBVIOUS
<1> QED BY <1>1, <1>2, <1>3, <1>4, <1>5 DEF Farm!vars

LEMMA GiveRefines ==
  ASSUME TypeOK, SyncInv, ResultsIntact, NEW t \in Workers, Fresh(t),
         NEW j \in Jobs, j < jobsCount, givenTo[j] = Nobody,
         givenTo' = [givenTo EXCEPT ![j] = t],
         UNCHANGED <<jobsCount, results>>,
         master # "written", master' # "written"
  PROVE  Farm!Give(t, j)
<1>1. InHand(t) = {}
  BY HandFacts
<1>2. results[j] = <<>> /\ results[j] # ResultMessages(j)
  BY ResultFacts DEF SyncInv, JobsInv
<1>3. JobIndexes' = JobIndexes /\ j \in JobIndexes /\ JobIndexes \subseteq Jobs
  BY MaxJobsAssumption DEF JobIndexes, Jobs, TypeOK
<1>4. givenTo'[j] = t /\ \A i \in Jobs : i # j => givenTo'[i] = givenTo[i]
  BY DEF TypeOK
<1>5. {i \in JobIndexes : givenTo[i] = Nobody}'
        = {i \in JobIndexes : givenTo[i] = Nobody} \ {j}
  BY <1>3, <1>4, NoJobIsNone
<1>6. InHand(t)' = {j}
  <2>1. \A i \in Jobs : i \in InHand(t)' <=> i = j
    BY <1>1, <1>2, <1>4 DEF InHand
  <2>2. InHand(t)' \subseteq Jobs
    BY DEF InHand
  <2> QED BY <2>1, <2>2
<1>7. \A w \in Workers : w # t => InHand(w)' = InHand(w)
  BY <1>4, NoJobIsNone DEF InHand
<1>8. [w \in Workers |-> InHand(w)]'
        = [[w \in Workers |-> InHand(w)] EXCEPT ![t] = {j}]
  BY <1>6, <1>7
<1>9. {i \in Jobs : results[i] = ResultMessages(i)}'
        = {i \in Jobs : results[i] = ResultMessages(i)}
  OBVIOUS
<1>10. (master = "written")' = (master = "written")
  OBVIOUS
<1>11. [w \in Workers |-> InHand(w)][t] = {}
  BY <1>1
<1>12. j \in {i \in JobIndexes : givenTo[i] = Nobody}
  BY <1>3
<1> QED BY <1>3, <1>5, <1>8, <1>9, <1>10, <1>11, <1>12 DEF Farm!Give

LEMMA StoreRefines ==
  ASSUME TypeOK, SyncInv, ResultsIntact, NEW w \in Workers, StoreResult(w)
  PROVE  Farm!Store(w)
<1>1. PICK j \in Jobs :
        /\ Owes(w, j)
        /\ master' = "answer"
        /\ results' = [results EXCEPT ![j] = ResultMessages(j)]
  BY StoreEffect
<1>2. master = "receive" /\ UNCHANGED <<jobsCount, givenTo>>
  BY DEF StoreResult
<1>3. InHand(w) = {j} /\ givenTo[j] = w
  BY <1>1, HandFacts DEF Owes
<1>4. results'[j] = ResultMessages(j) /\ \A i \in Jobs : i # j => results'[i] = results[i]
  BY <1>1 DEF TypeOK
<1>5. InHand(w)' = {}
  <2>1. \A i \in Jobs : i # j => ~(givenTo[i] = w /\ results[i] # ResultMessages(i))
    BY <1>3 DEF InHand
  <2> QED BY <1>2, <1>4, <2>1 DEF InHand
<1>6. \A v \in Workers : v # w => InHand(v)' = InHand(v)
  BY <1>2, <1>3, <1>4 DEF InHand
<1>7. [v \in Workers |-> InHand(v)]'
        = [[v \in Workers |-> InHand(v)] EXCEPT ![w] = {}]
  BY <1>5, <1>6
<1>8. {i \in Jobs : results[i] = ResultMessages(i)}'
        = {i \in Jobs : results[i] = ResultMessages(i)} \union {j}
  BY <1>4
<1>9. JobIndexes' = JobIndexes
  BY <1>2 DEF JobIndexes
<1>10. {i \in JobIndexes : givenTo[i] = Nobody}' = {i \in JobIndexes : givenTo[i] = Nobody}
  BY <1>2, <1>9
<1>11. (master = "written")' = (master = "written")
  BY <1>1, <1>2
<1>12. [v \in Workers |-> InHand(v)][w] = {j}
  BY <1>3
<1> QED BY <1>7, <1>8, <1>9, <1>10, <1>11, <1>12 DEF Farm!Store

LEMMA LastDisconnectRefines ==
  ASSUME TypeOK, SyncInv, ResultsIntact, ReceiveDisconnect, master' = "written",
         SyncInv'
  PROVE  Farm!Report
<1>1. PICK t \in Workers : t = target
  BY DEF TypeOK
<1>2. /\ master \in {"confirmFirst", "confirm"}
      /\ UNCHANGED <<jobsCount, givenTo, results>>
  BY DEF ReceiveDisconnect
<1>3. \A w \in Workers : w # t => (Left(w)' <=> Left(w))
  BY <1>1, DisconnectEffect
<1>4. Dismissed(t)
  BY <1>1, DisconnectEffect
<1>5. \A w \in Workers : Left(w)'
  <2>1. \A w \in Workers : ~Left(w)' => disconnectedCount' < WorkersCount
    <3>1. RanksLeft' \subseteq Workers /\ disconnectedCount' = Cardinality(RanksLeft')
          /\ disconnectedCount' = WorkersCount
      BY DEF RanksLeft, SyncInv, CountsInv
    <3>2. RanksLeft' = Workers
      BY <3>1, WorkersFinite
    <3> QED BY <3>2 DEF RanksLeft
  <2>2. disconnectedCount' = WorkersCount
    BY DEF SyncInv, CountsInv
  <2> QED BY <2>1, <2>2, WorkersCountAssumption
<1>6. \A w \in Workers : InHand(w) = {}
  BY <1>3, <1>4, <1>5, HandFacts
<1>7. processedCount >= jobsCount
  BY <1>2 DEF SyncInv, CountsInv
<1>8. \A j \in Jobs : results[j] = ResultMessages(j) <=> j \in JobIndexes
  BY <1>6, <1>7, NothingLeft
<1>9. JobIndexes \subseteq Jobs /\ JobIndexes' = JobIndexes
  BY <1>2, MaxJobsAssumption DEF JobIndexes, Jobs, TypeOK
<1>10. {j \in Jobs : results[j] = ResultMessages(j)} = JobIndexes
  BY <1>8, <1>9
<1>11. /\ {j \in JobIndexes : givenTo[j] = Nobody}' = {j \in JobIndexes : givenTo[j] = Nobody}
       /\ [w \in Workers |-> InHand(w)]' = [w \in Workers |-> InHand(w)]
       /\ {j \in Jobs : results[j] = ResultMessages(j)}'
            = {j \in Jobs : results[j] = ResultMessages(j)}
  BY <1>2, <1>9 DEF InHand
<1>12. (master = "written")' = TRUE /\ ~(master = "written")
  BY <1>2
<1> QED BY <1>9, <1>10, <1>11, <1>12 DEF Farm!Report

LEMMA FirstGiveRefines ==
  ASSUME TypeOK, SyncInv, ResultsIntact, GiveFirstJob \/ GiveNextJob
  PROVE  Farm!Next
<1>1. /\ master \in {"distribute", "answer"}
      /\ processedCount < jobsCount /\ Order(processedCount)
      /\ processedCount' = processedCount + 1
      /\ UNCHANGED <<jobsCount, disconnectedCount, incoming, results, workerVars,
                     toMaster>>
  BY DEF GiveFirstJob, GiveNextJob
<1>2. PICK t \in Workers : t = target
  BY DEF TypeOK
<1>3. PICK j : j = processedCount
  OBVIOUS
<1>4. incoming = <<>>
  BY <1>1, NotReceiving
<1>5. Fresh(t)
  <2>1. Placed(t)
    BY DEF SyncInv, RanksInv
  <2> QED BY <1>1, <1>2, <2>1 DEF Placed
<1>6. /\ j \in Jobs /\ givenTo[j] = Nobody
      /\ givenTo' = [givenTo EXCEPT ![j] = t]
      /\ ~Left(t)
  BY <1>1, <1>2, <1>3, <1>4, <1>5, OrderEffect
<1>7. master # "written" /\ master' # "written"
  <2>1. disconnectedCount < WorkersCount
    BY <1>6, SomebodyStays DEF SyncInv
  <2>2. GiveFirstJob => master' \in {"distribute", "receive"}
    BY <2>1, NextTargetEffect DEF GiveFirstJob
  <2>3. GiveNextJob => master' = "receive"
    BY DEF GiveNextJob
  <2> QED BY <1>1, <2>2, <2>3
<1>8. Farm!Give(t, j)
  BY <1>1, <1>3, <1>5, <1>6, <1>7, GiveRefines
<1> QED BY <1>6, <1>8 DEF Farm!Next

LEMMA StepRefines ==
  ASSUME ~Buffered, IInv, IInv', [Next]_vars
  PROVE  [Farm!Next]_(Farm!vars)
<1>1. CASE UNCHANGED vars
  BY <1>1, FarmStutters DEF vars, masterVars
<1>2. CASE Next
  <2>1. master # "aborted" /\ TypeOK /\ SyncInv /\ ResultsIntact
    BY <1>2 DEF Next, MasterStep, WorkerStep, GiveFirstJob, DismissAtOnce,
        GiveNextJob, DismissAfterResult, ReceiveDisconnect, ReceivePart,
        StoreResult, ReceiveOrder, ProcessJob, SendPart, PlateMissing, IInv
  <2>2. CASE GiveFirstJob \/ GiveNextJob
    BY <2>1, <2>2, FirstGiveRefines
  <2>3. CASE DismissAtOnce
    BY <2>3, FarmStutters DEF DismissAtOnce, Dismiss
  <2>4. CASE DismissAfterResult
    BY <2>4, FarmStutters DEF DismissAfterResult, Dismiss
  <2>5. CASE ReceiveDisconnect
    <3>1. CASE master' = "written"
      <4>1. SyncInv'
        BY <3>1 DEF IInv
      <4>2. Farm!Report
        BY <2>1, <2>5, <3>1, <4>1, LastDisconnectRefines
      <4> QED BY <4>2 DEF Farm!Next
    <3>2. CASE master' # "written"
      BY <2>5, <3>2, FarmStutters DEF ReceiveDisconnect
    <3> QED BY <3>1, <3>2
  <2>6. ASSUME NEW w \in Workers, ReceivePart(w)
        PROVE  [Farm!Next]_(Farm!vars)
    <3>1. master = "receive" /\ master' \in {"receive", "aborted"}
          /\ UNCHANGED <<jobsCount, givenTo, results>>
      BY <2>6 DEF ReceivePart
    <3> QED BY <3>1, FarmStutters
  <2>7. ASSUME NEW w \in Workers, StoreResult(w)
        PROVE  [Farm!Next]_(Farm!vars)
    <3>1. Farm!Store(w)
      BY <2>1, <2>7, StoreRefines
    <3> QED BY <3>1 DEF Farm!Next
  <2>8. ASSUME NEW w \in Workers, WorkerStep(w)
        PROVE  [Farm!Next]_(Farm!vars)
    <3>1. UNCHANGED masterVars
      BY <2>8 DEF WorkerStep, ReceiveOrder, ProcessJob, SendPart
    <3> QED BY <3>1, FarmStutters DEF masterVars
  <2>9. ASSUME NEW w \in Workers, PlateMissing(w)
        PROVE  [Farm!Next]_(Farm!vars)
    BY <2>9, FarmStutters DEF PlateMissing
  <2> QED BY <1>2, <2>2, <2>3, <2>4, <2>5, <2>6, <2>7, <2>8, <2>9
          DEF Next, MasterStep
<1> QED BY <1>1, <1>2

(* main() of omp_mpi implements the job farm when its sends are            *)
(* synchronous: each job to one rank that has nothing else to do, each     *)
(* result stored once, the report when all are stored.                     *)
THEOREM FarmImplemented ==
  ASSUME ~Buffered
  PROVE  Spec => ImplementsJobFarm
<1>1. IInv /\ IInv' /\ [Next]_vars => [Farm!Next]_(Farm!vars)
  BY StepRefines
<1> QED BY <1>1, InitRefines, SynchronousInvariance, PTL
        DEF Spec, ImplementsJobFarm, Farm!Spec

-----------------------------------------------------------------------------
(* Nobody waits for ever: what rank 0, and rank w, need to go on are the   *)
(* guards of their actions.                                                *)
MasterReady ==
  \/ master = "distribute" /\ MasterSent
  \/ master = "answer"
  \/ /\ master \in {"confirmFirst", "confirm"} /\ MasterSent
     /\ FirstTagged(target, 0) # 0
  \/ /\ master = "receive" /\ MasterSent
     /\ \E w \in Workers : FirstTagged(w, Len(incoming)) # 0

RankReady(w) ==
  \/ worker[w] = "waiting" /\ WorkerSent(w) /\ toWorker[w] # <<>>
  \/ worker[w] = "busy"
  \/ outgoing[w] # <<>> /\ WorkerSent(w)

SomebodyReady ==
  master \notin {"written", "aborted"} => MasterReady \/ \E w \in Workers : RankReady(w)

(* While rank 0 waits for results, some rank has not left.                 *)
ResultsExpected == master = "receive" => disconnectedCount < WorkersCount

LEMMA FindOne ==
  ASSUME NEW w \in Workers, NEW m, toMaster[w] = <<m>>
  PROVE  FirstTagged(w, m.tag) # 0
<1> DEFINE places == {i \in 1 .. Len(toMaster[w]) : toMaster[w][i].tag = m.tag}
<1>1. Len(toMaster[w]) = 1 /\ toMaster[w][1] = m
  OBVIOUS
<1>2. places = {1}
  BY <1>1
<1>3. FirstTagged(w, m.tag) = Min(places)
  BY <1>2 DEF FirstTagged, SelectInSeq
<1>4. Min({1}) = 1
  BY DEF Min
<1> QED BY <1>2, <1>3, <1>4

LEMMA ResultsStillExpected ==
  ASSUME IInv, ResultsExpected, [Next]_vars
  PROVE  ResultsExpected'
<1> SUFFICES ASSUME master' = "receive" PROVE disconnectedCount' < WorkersCount
  BY DEF ResultsExpected
<1>1. CASE GiveNextJob
  <2>1. master = "answer" /\ disconnectedCount' = disconnectedCount
    BY <1>1 DEF GiveNextJob
  <2>2. target \in Workers /\ Fresh(target) /\ CountsInv
    BY <2>1 DEF IInv, TypeOK, SyncInv, RanksInv, Placed
  <2>3. ~Left(target)
    BY <2>2 DEF Fresh, Left
  <2> QED BY <2>1, <2>2, <2>3, SomebodyStays
<1>2. CASE GiveFirstJob \/ ReceiveDisconnect
  <2>1. master' = Collecting(disconnectedCount')
    BY <1>2 DEF GiveFirstJob, ReceiveDisconnect, NextTarget
  <2> QED BY <2>1 DEF Collecting
<1>3. CASE ~GiveNextJob /\ ~GiveFirstJob /\ ~ReceiveDisconnect
  <2>1. disconnectedCount' = disconnectedCount /\ master = "receive"
    BY <1>3 DEF Next, MasterStep, DismissAtOnce, DismissAfterResult, ReceivePart, StoreResult,
       WorkerStep, ReceiveOrder, ProcessJob, SendPart, PlateMissing, vars, masterVars
  <2> QED BY <2>1 DEF ResultsExpected
<1> QED BY <1>1, <1>2, <1>3

(* A rank that owes a result can go on when rank 0 has sent it all.        *)
LEMMA DebtorGoesOn ==
  ASSUME ~Buffered, TypeOK, NEW w \in Workers, NEW j \in Jobs, master = "receive", MasterSent,
         Computing(w, j) \/ Answering(w, j), Taken(w) = Len(incoming)
  PROVE  MasterReady \/ RankReady(w)
<1>1. CASE Computing(w, j)
  BY <1>1 DEF Computing, RankReady
<1>2. CASE Answering(w, j) /\ toMaster[w] = <<>>
  <2>1. Len(toMaster[w]) = 0
    BY <1>2
  <2>2. Taken(w) \in Nat /\ Shape[j].rows \in Nat
    BY PlateShape DEF Taken, TypeOK
  <2>3. Len(outgoing[w]) # 0
    BY <1>2, <2>1, <2>2 DEF Answering
  <2> QED BY <1>2, <2>3 DEF RankReady, WorkerSent
<1>3. CASE Answering(w, j) /\ toMaster[w] # <<>>
  <2> DEFINE m == ResultMessages(j)[Taken(w) + 1]
  <2>1. toMaster[w] = <<m>>
    BY <1>3 DEF Answering
  <2>2. Taken(w) + 1 \in 1 .. Shape[j].rows + 4 /\ Taken(w) \in Nat
    <3>1. Taken(w) \in Nat
      BY DEF Taken, TypeOK
    <3>2. Taken(w) < Shape[j].rows + 4 /\ Shape[j].rows \in Nat
      BY <1>3, PlateShape DEF Answering
    <3> QED BY <3>1, <3>2
  <2>3. m.tag = Len(incoming)
    <3>1. \A n \in 1 .. Shape[j].rows + 4 : ResultMessages(j)[n].tag = n - 1
      BY PartFacts
    <3>2. m.tag = (Taken(w) + 1) - 1
      BY <2>2, <3>1
    <3> QED BY <2>2, <3>2
  <2> HIDE DEF m
  <2>4. FirstTagged(w, Len(incoming)) # 0
    BY <2>1, <2>3, FindOne
  <2> QED BY <2>4 DEF MasterReady
<1> QED BY <1>1, <1>2, <1>3

LEMMA ReadyWhenSynchronous ==
  ASSUME ~Buffered, IInv, ResultsExpected
  PROVE  SomebodyReady
<1> SUFFICES ASSUME master \notin {"written", "aborted"}
             PROVE  MasterReady \/ \E w \in Workers : RankReady(w)
  BY DEF SomebodyReady
<1>1. TypeOK /\ RanksInv /\ IncomingInv /\ CountsInv
  BY DEF IInv, SyncInv
<1>2. CASE \E w \in Workers : toWorker[w] # <<>>
  <2>1. PICK w \in Workers : toWorker[w] # <<>>
    BY <1>2
  <2>2. Placed(w)
    BY <1>1 DEF RanksInv
  <2>3. worker[w] = "waiting" /\ toMaster[w] = <<>>
    BY <2>1, <2>2 DEF Placed, Fresh, Dismissed, Engaged, Owes, Ordered, Computing, Answering, Left,
       Silent
  <2> QED BY <2>1, <2>3 DEF RankReady, WorkerSent
<1>3. CASE \A w \in Workers : toWorker[w] = <<>>
  <2>1. MasterSent
    BY <1>3 DEF MasterSent
  <2>2. CASE master \in {"distribute", "answer"}
    BY <2>1, <2>2 DEF MasterReady
  <2>3. CASE master \in {"confirmFirst", "confirm"}
    <3>1. target \in Workers /\ Placed(target)
      BY <1>1 DEF TypeOK, RanksInv
    <3>2. Dismissed(target) /\ toWorker[target] = <<>>
      BY <1>3, <2>3, <3>1, WorkersCountAssumption DEF Placed, Workers
    <3>3. \/ outgoing[target] = <<DisconnectSignal>> /\ toMaster[target] = <<>>
          \/ toMaster[target] = <<DisconnectSignal>>
      BY <3>2 DEF Dismissed
    <3>4. CASE outgoing[target] = <<DisconnectSignal>> /\ toMaster[target] = <<>>
      <4>1. outgoing[target] # <<>>
        BY <3>4
      <4> QED BY <3>1, <3>4, <4>1 DEF RankReady, WorkerSent
    <3>5. CASE toMaster[target] = <<DisconnectSignal>>
      <4>1. FirstTagged(target, DisconnectSignal.tag) # 0
        BY <3>1, <3>5, FindOne
      <4>2. DisconnectSignal.tag = 0
        BY DEF DisconnectSignal
      <4> QED BY <2>1, <2>3, <4>1, <4>2 DEF MasterReady
    <3> QED BY <3>3, <3>4, <3>5
  <2>4. CASE master = "receive" /\ incoming # <<>>
    <3>1. PICK w \in Workers, j \in Jobs : Builds(w, j)
      BY <1>1, <2>4 DEF IncomingInv
    <3>2. Answering(w, j) /\ Taken(w) = Len(incoming)
      BY <1>1, <2>4, <3>1, BuilderFacts DEF Builds
    <3> QED BY <1>1, <2>1, <2>4, <3>2, DebtorGoesOn
  <2>5. CASE master = "receive" /\ incoming = <<>>
    <3>1. PICK w \in Workers : ~Left(w)
      <4>1. SUFFICES ASSUME \A w \in Workers : Left(w) PROVE FALSE
        OBVIOUS
      <4>2. RanksLeft = Workers
        BY <4>1 DEF RanksLeft
      <4>3. disconnectedCount = WorkersCount
        BY <1>1, <4>2, WorkersFinite DEF CountsInv
      <4> QED BY <2>5, <4>3, WorkersCountAssumption DEF ResultsExpected
    <3>2. Engaged(w)
      BY <1>1, <2>5, <3>1 DEF RanksInv, Placed
    <3>3. PICK j \in Jobs : Owes(w, j)
      BY <3>2 DEF Engaged
    <3>4. Computing(w, j) \/ Answering(w, j)
      <4>1. toWorker[w] = <<>>
        BY <1>3
      <4>2. ASSUME Ordered(w, j) PROVE FALSE
        <5>1. Len(toWorker[w]) = 1
          <6>1. toWorker[w] = <<j>>
            BY <4>2 DEF Ordered
          <6> QED BY <6>1
        <5>2. Len(toWorker[w]) # 1
          BY <4>1
        <5> QED BY <5>1, <5>2
      <4> QED BY <3>3, <4>2 DEF Owes
    <3>5. Taken(w) = Len(incoming)
      BY <2>5 DEF Taken
    <3> QED BY <1>1, <2>1, <2>5, <3>4, <3>5, DebtorGoesOn
  <2> QED BY <1>1, <2>2, <2>3, <2>4, <2>5 DEF TypeOK
<1> QED BY <1>2, <1>3

(* Although rank 0 and the others send to each other with blocking sends   *)
(* that wait for their receivers, they never all wait: until the report is *)
(* written, or a missing plate ends the job, some rank can go on.          *)
THEOREM NeverAllWaiting ==
  ASSUME ~Buffered
  PROVE  Spec => []SomebodyReady
<1>1. Init => ResultsExpected
  BY DEF Init, ResultsExpected
<1>2. IInv /\ ResultsExpected /\ [Next]_vars => ResultsExpected'
  BY ResultsStillExpected
<1>3. IInv /\ ResultsExpected => SomebodyReady
  BY ReadyWhenSynchronous
<1> QED BY <1>1, <1>2, <1>3, SynchronousInvariance, PTL DEF Spec
=============================================================================
