------------------------------- MODULE HeatMpi -------------------------------
(***************************************************************************)
(* homeworks/omp_mpi: rank 0 gives the jobs of the file to the other ranks *)
(* and collects their results; a rank asks for nothing, it gets its next   *)
(* job, or the order to stop, when its result has been received.           *)
(*                                                                         *)
(* A result travels in rows + 4 messages, number k of them with tag k:     *)
(* rows, cols, the rows of the plate, iterations, jobIndex.  Rank 0        *)
(* receives each of them from MPI_ANY_SOURCE.  MPI keeps the order of the  *)
(* messages of one sender and promises none between senders.               *)
(*                                                                         *)
(* MPI_Send may return when the message is buffered (Buffered), or wait    *)
(* until it is received (~Buffered, which is what MPI_Ssend, or a plate    *)
(* too large for the eager protocol, would do).  The model has these two   *)
(* extremes.                                                               *)
(*                                                                         *)
(* The eleven messages that give a job have fixed source and tags of their *)
(* own and are received in the order they are sent; they are one message   *)
(* here.  What a plate holds is abstracted to the job it comes from.       *)
(***************************************************************************)
EXTENDS SequencesExt

CONSTANTS WorkersCount,   (* mpi.size - 1                                  *)
          MaxJobs,        (* bound: lines of the job file                  *)
          Shape,          (* rows and cols of the plate of each job        *)
          Buffered,       (* MPI_Send returns before the message is taken  *)
          ReadMayFail     (* whether a plate file may be missing           *)

Workers == 1 .. WorkersCount
Jobs    == 0 .. MaxJobs - 1

ASSUME WorkersCountAssumption == WorkersCount \in Nat \ {0}
ASSUME MaxJobsAssumption == MaxJobs \in Nat \ {0}
ASSUME ShapeAssumption ==
  Shape \in [Jobs -> [rows : Nat \ {0}, cols : Nat \ {0}]]
ASSUME BufferedAssumption == Buffered \in BOOLEAN
ASSUME ReadMayFailAssumption == ReadMayFail \in BOOLEAN

VARIABLES
  master,             (* where rank 0 is in main()                         *)
  jobsCount,          (* lines of the job file: at least one               *)
  target,             (* i of the first distribution, then *source         *)
  processedCount,
  disconnectedCount,
  incoming,           (* the messages of the result being received         *)
  results,            (* the messages each results[jobIndex] is made of    *)
  givenTo,            (* history: the rank each job was sent to, or Nobody *)
  worker,             (* where each other rank is in main()                *)
  workerJob,          (* its jobData                                       *)
  outgoing,           (* what it has still to send                         *)
  toWorker,           (* messages from rank 0 not received yet             *)
  toMaster            (* messages to rank 0 not received yet               *)

masterVars == <<master, jobsCount, target, processedCount, disconnectedCount,
                incoming, results, givenTo>>
workerVars == <<worker, workerJob, outgoing>>
channels   == <<toWorker, toMaster>>

vars == <<masterVars, workerVars, channels>>

Nobody == 0
NoJob  == -1

(* What is in message k of a result whose plate has so many rows.          *)
PartAt(rows, k) ==
  CASE k = 0           -> "rows"
    [] k = 1           -> "cols"
    [] k \in 2 .. rows + 1 -> "row"
    [] k = rows + 2    -> "iterations"
    [] k = rows + 3    -> "jobIndex"

(* sendJobResult() as a sequence of messages.                              *)
ResultMessages(j) ==
  [n \in 1 .. Shape[j].rows + 4 |->
     [tag |-> n - 1, part |-> PartAt(Shape[j].rows, n - 1), job |-> j]]

DisconnectSignal == [tag |-> 0, part |-> "disconnect", job |-> NoJob]

Init ==
  /\ master = "distribute"
  /\ jobsCount \in 1 .. MaxJobs
  /\ target = 1
  /\ processedCount = 0
  /\ disconnectedCount = 0
  /\ incoming = <<>>
  /\ results = [j \in Jobs |-> <<>>]
  /\ givenTo = [j \in Jobs |-> Nobody]
  /\ worker = [w \in Workers |-> "waiting"]
  /\ workerJob = [w \in Workers |-> NoJob]
  /\ outgoing = [w \in Workers |-> <<>>]
  /\ toWorker = [w \in Workers |-> <<>>]
  /\ toMaster = [w \in Workers |-> <<>>]

-----------------------------------------------------------------------------
(* MPI as the program uses it.                                             *)

(* Mutant of WorkerSent: the results are sent with MPI_Isend.              *)
WorkerNeverWaits(w) == w \in Workers

(* The last MPI_Send of rank 0, of rank w, has returned.                   *)
MasterSent == Buffered \/ \A w \in Workers : toWorker[w] = <<>>
WorkerSent(w) == Buffered \/ toMaster[w] = <<>>

(* The place in rank w's messages of the one MPI_Recv takes for a tag: the *)
(* first with that tag, 0 if there is none.                                *)
FirstTagged(w, tag) == SelectInSeq(toMaster[w], LAMBDA m : m.tag = tag)

TakeMessage(w, n) ==
  toMaster' = [toMaster EXCEPT ![w] = RemoveAt(@, n)]

-----------------------------------------------------------------------------
(* Rank 0.                                                                 *)

(* Mutant of Collecting: one rank too few is waited for.                   *)
CollectingButOne(disconnected) ==
  IF disconnected < WorkersCount - 1 THEN "receive" ELSE "written"

(* The loop condition, after another rank has been dealt with.             *)
Collecting(disconnected) ==
  IF disconnected < WorkersCount THEN "receive" ELSE "written"

(* Mutant of NextTarget: i <= mpi.size.                                    *)
NextTargetPastEnd(disconnected) ==
  IF target <= WorkersCount
  THEN master' = "distribute" /\ target' = target + 1
  ELSE master' = Collecting(disconnected) /\ target' = target

(* The first distribution goes on with the next rank, if there is one.     *)
NextTarget(disconnected) ==
  IF target < WorkersCount
  THEN master' = "distribute" /\ target' = target + 1
  ELSE master' = Collecting(disconnected) /\ target' = target

Order(j) ==
  /\ toWorker' = [toWorker EXCEPT ![target] = Append(@, j)]
  /\ givenTo' = [givenTo EXCEPT ![j] = target]

Dismiss ==
  /\ toWorker' = [toWorker EXCEPT ![target] = Append(@, NoJob)]
  /\ UNCHANGED givenTo

(* Mutant of GiveFirstJob: the job is not counted.                         *)
GiveFirstJobUncounted ==
  /\ master = "distribute"
  /\ MasterSent
  /\ processedCount < jobsCount
  /\ Order(processedCount)
  /\ NextTarget(disconnectedCount)
  /\ UNCHANGED <<jobsCount, processedCount, disconnectedCount, incoming,
                 results, workerVars, toMaster>>

GiveFirstJob ==
  /\ master = "distribute"
  /\ MasterSent
  /\ processedCount < jobsCount
  /\ Order(processedCount)
  /\ processedCount' = processedCount + 1
  /\ NextTarget(disconnectedCount)
  /\ UNCHANGED <<jobsCount, disconnectedCount, incoming, results, workerVars,
                 toMaster>>

(* More ranks than jobs.                                                   *)
DismissAtOnce ==
  /\ master = "distribute"
  /\ MasterSent
  /\ processedCount >= jobsCount
  /\ Dismiss
  /\ master' = "confirmFirst"
  /\ UNCHANGED <<jobsCount, target, processedCount, disconnectedCount, incoming,
                 results, workerVars, toMaster>>

(* What the next message of a result is taken for: the first one fixes the *)
(* number of rows (a disconnect signal is the integer 1) and the second    *)
(* the number of columns.                                                  *)
RowsReceived ==
  IF incoming[1].part = "rows" THEN Shape[incoming[1].job].rows ELSE 1

Expected ==
  IF incoming = <<>> THEN "rows" ELSE PartAt(RowsReceived, Len(incoming))

(* A row of a plate is too long for any other buffer, and for the one of a *)
(* narrower plate: MPI_ERR_TRUNCATE, which is fatal.                       *)
Fits(m) ==
  m.part = "row" =>
    Expected = "row" /\ Shape[m.job].cols <= Shape[incoming[2].job].cols

(* The index a result is stored at.  An iteration count taken for a        *)
(* jobIndex may be any index, in the table or not.                         *)
JobIndexes == 0 .. jobsCount - 1
OutOfRange == MaxJobs
IndexOf(m) ==
  CASE m.part = "jobIndex"            -> {m.job}
    [] m.part # "jobIndex" /\ Fits(m)  -> JobIndexes \union {OutOfRange}
    [] ~Fits(m)                       -> {OutOfRange}

ReceivePart(w) ==
  /\ master = "receive"
  /\ MasterSent
  /\ Expected # "jobIndex"
  /\ LET n == FirstTagged(w, Len(incoming))
     IN  /\ n # 0
         /\ master' = IF Fits(toMaster[w][n]) THEN "receive" ELSE "aborted"
         /\ incoming' = Append(incoming, toMaster[w][n])
         /\ TakeMessage(w, n)
  /\ UNCHANGED <<jobsCount, target, processedCount, disconnectedCount, results,
                 givenTo, workerVars, toWorker>>

(* The last message of the result says where it comes from and where it is *)
(* stored.                                                                 *)
StoreResult(w) ==
  /\ master = "receive"
  /\ MasterSent
  /\ Expected = "jobIndex"
  /\ LET n == FirstTagged(w, Len(incoming))
         m == toMaster[w][n]
     IN  /\ n # 0
         /\ \E index \in IndexOf(m) :
              /\ master' = IF index \in JobIndexes THEN "answer" ELSE "aborted"
              /\ results' = [j \in Jobs |-> IF j = index THEN Append(incoming, m)
                                            ELSE results[j]]
         /\ TakeMessage(w, n)
  /\ incoming' = <<>>
  /\ target' = w
  /\ UNCHANGED <<jobsCount, processedCount, disconnectedCount, givenTo,
                 workerVars, toWorker>>

(* Mutant of GiveNextJob: the job is not counted.                          *)
GiveNextJobUncounted ==
  /\ master = "answer"
  /\ processedCount < jobsCount
  /\ Order(processedCount)
  /\ master' = "receive"
  /\ UNCHANGED <<jobsCount, target, processedCount, disconnectedCount, incoming,
                 results, workerVars, toMaster>>

GiveNextJob ==
  /\ master = "answer"
  /\ processedCount < jobsCount
  /\ Order(processedCount)
  /\ processedCount' = processedCount + 1
  /\ master' = "receive"
  /\ UNCHANGED <<jobsCount, target, disconnectedCount, incoming, results,
                 workerVars, toMaster>>

DismissAfterResult ==
  /\ master = "answer"
  /\ processedCount >= jobsCount
  /\ Dismiss
  /\ processedCount' = processedCount + 1
  /\ master' = "confirm"
  /\ UNCHANGED <<jobsCount, target, disconnectedCount, incoming, results,
                 workerVars, toMaster>>

(* Mutant of ReceiveDisconnect: a rank that leaves is not counted.         *)
ReceiveDisconnectUncounted ==
  /\ master \in {"confirmFirst", "confirm"}
  /\ MasterSent
  /\ FirstTagged(target, 0) # 0
  /\ TakeMessage(target, FirstTagged(target, 0))
  /\ IF master = "confirmFirst"
     THEN NextTarget(disconnectedCount)
     ELSE master' = Collecting(disconnectedCount) /\ UNCHANGED target
  /\ UNCHANGED <<jobsCount, processedCount, disconnectedCount, incoming, results,
                 givenTo, workerVars, toWorker>>

(* The signal that the dismissed rank leaves: tag 0, from that rank only.  *)
ReceiveDisconnect ==
  /\ master \in {"confirmFirst", "confirm"}
  /\ MasterSent
  /\ FirstTagged(target, 0) # 0
  /\ TakeMessage(target, FirstTagged(target, 0))
  /\ disconnectedCount' = disconnectedCount + 1
  /\ IF master = "confirmFirst"
     THEN NextTarget(disconnectedCount')
     ELSE master' = Collecting(disconnectedCount') /\ UNCHANGED target
  /\ UNCHANGED <<jobsCount, processedCount, incoming, results, givenTo,
                 workerVars, toWorker>>

-----------------------------------------------------------------------------
(* The other ranks.                                                        *)

(* shouldProcessAJob and, if it is true, the job.                          *)
ReceiveOrder(w) ==
  /\ master # "aborted"
  /\ worker[w] = "waiting"
  /\ WorkerSent(w)
  /\ toWorker[w] # <<>>
  /\ workerJob' = [workerJob EXCEPT ![w] = Head(toWorker[w])]
  /\ worker' = [worker EXCEPT ![w] =
                  IF Head(toWorker[w]) = NoJob THEN "leaving" ELSE "busy"]
  /\ outgoing' = [outgoing EXCEPT ![w] =
                    IF Head(toWorker[w]) = NoJob THEN <<DisconnectSignal>>
                    ELSE <<>>]
  /\ toWorker' = [toWorker EXCEPT ![w] = Tail(@)]
  /\ UNCHANGED <<masterVars, toMaster>>

ProcessJob(w) ==
  /\ master # "aborted"
  /\ worker[w] = "busy"
  /\ worker' = [worker EXCEPT ![w] = "sending"]
  /\ outgoing' = [outgoing EXCEPT ![w] = ResultMessages(workerJob[w])]
  /\ UNCHANGED <<masterVars, workerJob, channels>>

(* readPlate() exits when the file cannot be opened: the MPI job ends.     *)
PlateMissing(w) ==
  /\ ReadMayFail
  /\ master \notin {"aborted", "written"}
  /\ worker[w] = "busy"
  /\ master' = "aborted"
  /\ UNCHANGED <<jobsCount, target, processedCount, disconnectedCount, incoming,
                 results, givenTo, workerVars, channels>>

SendPart(w) ==
  /\ master # "aborted"
  /\ outgoing[w] # <<>>
  /\ WorkerSent(w)
  /\ toMaster' = [toMaster EXCEPT ![w] = Append(@, Head(outgoing[w]))]
  /\ outgoing' = [outgoing EXCEPT ![w] = Tail(@)]
  /\ worker' = IF Len(outgoing[w]) > 1 THEN worker
               ELSE [worker EXCEPT ![w] =
                       IF @ = "sending" THEN "waiting" ELSE "gone"]
  /\ UNCHANGED <<masterVars, workerJob, toWorker>>

-----------------------------------------------------------------------------

MasterStep ==
  \/ GiveFirstJob \/ DismissAtOnce \/ GiveNextJob \/ DismissAfterResult
  \/ ReceiveDisconnect
  \/ \E w \in Workers : ReceivePart(w) \/ StoreResult(w)

WorkerStep(w) == ReceiveOrder(w) \/ ProcessJob(w) \/ SendPart(w)

Next ==
  \/ MasterStep
  \/ \E w \in Workers : WorkerStep(w) \/ PlateMissing(w)

(* Every rank goes on while it can: the processes run and MPI delivers.  A *)
(* missing plate file is nobody's duty.                                    *)
Spec ==
  /\ Init
  /\ [][Next]_vars
  /\ WF_vars(MasterStep)
  /\ \A w \in Workers : WF_vars(WorkerStep(w))

-----------------------------------------------------------------------------
Messages ==
  {DisconnectSignal} \union UNION {ToSet(ResultMessages(j)) : j \in Jobs}

(* Types.                                                                  *)
TypeOK ==
  /\ master \in {"distribute", "confirmFirst", "receive", "answer", "confirm",
                 "written", "aborted"}
  /\ jobsCount \in 1 .. MaxJobs
  /\ target \in Workers
  /\ processedCount \in 0 .. MaxJobs + WorkersCount
  /\ disconnectedCount \in 0 .. WorkersCount
  /\ incoming \in Seq(Messages)
  /\ results \in [Jobs -> Seq(Messages)]
  /\ givenTo \in [Jobs -> Workers \union {Nobody}]
  /\ worker \in [Workers -> {"waiting", "busy", "sending", "leaving", "gone"}]
  /\ workerJob \in [Workers -> Jobs \union {NoJob}]
  /\ outgoing \in [Workers -> Seq(Messages)]
  /\ toWorker \in [Workers -> Seq(Jobs \union {NoJob})]
  /\ toMaster \in [Workers -> Seq(Messages)]

(* The comments of SimulationResult in types.h: the plate, the iterations  *)
(* and the index of a stored result are those of one job.                  *)
ResultsIntact ==
  \A j \in Jobs : results[j] \in {<<>>, ResultMessages(j)}

(* The jobs rank w was given and has no stored result of.                  *)
InHand(w) == {j \in Jobs : givenTo[j] = w /\ results[j] # ResultMessages(j)}

(* While rank 0 waits for results, every rank that was not dismissed has   *)
(* exactly one job to answer for: the loop never waits for a result nobody *)
(* will send, and no rank is left behind when it ends.                     *)
OneJobEach ==
  master = "receive" =>
    /\ \A w \in Workers :
         Cardinality(InHand(w)) = IF worker[w] = "gone" THEN 0 ELSE 1
    /\ disconnectedCount = Cardinality({w \in Workers : worker[w] = "gone"})

(* When the report is written every job has its result, every rank is on   *)
(* its way to MPI_Finalize() and no message is left behind.                *)
CompleteReport ==
  master = "written" =>
    /\ \A j \in JobIndexes : results[j] = ResultMessages(j)
    /\ \A w \in Workers :
         worker[w] = "gone" /\ toWorker[w] = <<>> /\ toMaster[w] = <<>>

(* Unless a plate is missing, the report is written.                       *)
EventuallyWritten == <>(master \in {"written", "aborted"})

Farm == INSTANCE JobFarm WITH
  jobs     <- JobIndexes,
  waiting  <- {j \in JobIndexes : givenTo[j] = Nobody},
  doing    <- [w \in Workers |-> InHand(w)],
  stored   <- {j \in Jobs : results[j] = ResultMessages(j)},
  reported <- master = "written"

(* With synchronous sends the ranks implement the job farm.                *)
ImplementsJobFarm == Farm!Spec
=============================================================================
