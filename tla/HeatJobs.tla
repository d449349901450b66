------------------------------ MODULE HeatJobs ------------------------------
(***************************************************************************)
(* A whole run of a heat homework, from the command line to the report:    *)
(* the jobs are read, simulated one after the other and reported, and the  *)
(* plates are released.  Three versions: "serial" and "omp" are simulated  *)
(* here row by row, with what their loops do with the plates; "team" (the  *)
(* pthreads and optimized homeworks) takes simulate() as HeatTeam shows it.*)
(* For "omp" a worker simulates each job and sends its result to rank 0,   *)
(* as HeatMpi shows it, and the plates of all the processes are kept here. *)
(***************************************************************************)
EXTENDS Integers, Sequences, ReportTime

CONSTANTS Plates,          (* names of plate files: <<stem, extension>>    *)
          MaxJobs,         (* bound of the lines of a job file             *)
          MaxRows,         (* bound of the interior rows of a plate        *)
          MaxIterations,   (* bound of a simulation                        *)
          Durations,       (* seconds of an iteration                      *)
          Word,            (* what an int of a message can count: 2^32     *)
          UpperHalves      (* the half of a size_t that no message fills   *)

ASSUME HeatJobsAssumption ==
  /\ MaxJobs \in Nat /\ MaxRows \in Nat /\ MaxIterations \in Nat \ {0}
  /\ Durations \subseteq Nat
  /\ Word \in Nat \ {0} /\ UpperHalves \subseteq Nat

VARIABLES
  input,      (* the command line and the files it names                   *)
  phase,      (* where the program is                                      *)
  job,        (* the job being simulated or reported                       *)
  live,       (* the plates in memory                                      *)
  holds,      (* what each plate ever reserved holds                       *)
  misused,    (* history: a plate was freed that was not there             *)
  source,     (* previousPlate, readPlate: what an iteration reads         *)
  target,     (* currentPlate, writePlate: what it writes                  *)
  given,      (* the local variable of simulate() with the plate read      *)
  iteration,  (* the iteration being computed, from 1                      *)
  computed,   (* its rows already computed                                 *)
  calm,       (* its isBalanced                                            *)
  status,     (* "running" until the loop is left                          *)
  changes,    (* history: how its rows changed                             *)
  returned,   (* history: what simulate() returned for each job            *)
  results,    (* the results array                                         *)
  report,     (* the lines of the .tsv file                                *)
  files       (* what each .bin file written holds                         *)

memory   == <<live, holds, misused>>
handles  == <<source, target, given>>
lockstep == <<iteration, computed, calm, status>>
stored   == <<returned, results>>
output   == <<report, files>>
vars == <<input, phase, job, memory, handles, lockstep, changes, stored, output>>

Versions == {"serial", "omp", "team"}

Inputs ==
  [version    : Versions,
   arguments  : {"jobs", "help", "wrong"},
   threads    : {0, 1},                        (* none, or at least one    *)
   readable   : BOOLEAN,                       (* the job file is there    *)
   lines      : UNION {[1 .. n -> Plates] : n \in 0 .. MaxJobs},
   terminated : BOOLEAN,                       (* the last line ends       *)
   missing    : SUBSET Plates,
   rows       : [Plates -> 0 .. MaxRows],
   duration   : Durations]

(* Inputs that make no difference to a program are given one value.        *)
Relevant(i) ==
  /\ i.version # "team" => i.threads = 1
  /\ i.lines = <<>> => i.terminated
  /\ i.arguments # "jobs" \/ ~ i.readable =>
       i.lines = <<>> /\ i.missing = {} /\ i.readable = (i.arguments # "jobs")
  /\ \A p \in Plates : (\A k \in DOMAIN i.lines : i.lines[k] # p) =>
       p \notin i.missing /\ i.rows[p] = 0

(* calcFileLinesCount(): newlines are counted.                             *)
JobsCount == IF input.terminated THEN Len(input.lines) ELSE Len(input.lines) - 1

Rows == 1 .. input.rows[input.lines[job]]

Init ==
  /\ input \in Inputs /\ Relevant(input)
  /\ phase = "arguments" /\ job = 1
  /\ live = {} /\ holds = <<>> /\ misused = FALSE
  /\ source = 0 /\ target = 0 /\ given = 0
  /\ iteration = 1 /\ computed = {} /\ calm = TRUE /\ status = "running" /\ changes = {}
  /\ returned = <<>> /\ results = <<>>
  /\ report = <<>> /\ files = [name \in {} |-> 0]

-----------------------------------------------------------------------------
(* Memory.  Every plate reserved is a new one, number Fresh.               *)

Fresh == Len(holds) + 1

Content(i) == [plate |-> input.lines[job], iteration |-> i]

(* destroyPlate() of some plates, and some new ones.                       *)
FreeAndReserve(gone, new) ==
  /\ live' = (live \ gone) \union new
  /\ misused' = (misused \/ ~ (gone \subseteq live))

Stop(how) ==
  /\ phase' = how
  /\ UNCHANGED <<input, job, memory, handles, lockstep, changes, stored, output>>

-----------------------------------------------------------------------------
(* Input.                                                                  *)

SerialArguments ==
  /\ phase = "arguments" /\ input.version = "serial"
  /\ Stop(IF input.arguments = "jobs" THEN "jobs" ELSE "failed")

(* After the help the program goes on with a job file it was not given.    *)
TeamArguments ==
  /\ phase = "arguments" /\ input.version # "serial"
  /\ \/ input.arguments = "jobs" /\ Stop("jobs")
     \/ input.arguments = "help" /\ (Stop("failed") \/ Stop("crashed"))
     \/ input.arguments = "wrong" /\ Stop("failed")

ReadJobData ==
  /\ phase = "jobs"
  /\ Stop(IF ~ input.readable THEN "failed" ELSE IF JobsCount > 0 THEN "plate" ELSE "report")

(* readPlate() of the serial version: both plates of simulate() are the    *)
(* one that is read.                                                       *)
ReadSerialPlate ==
  /\ phase = "plate" /\ input.version = "serial"
  /\ input.lines[job] \notin input.missing
  /\ live' = live \union {Fresh}
  /\ holds' = Append(holds, Content(0))
  /\ source' = Fresh /\ target' = Fresh /\ given' = Fresh
  /\ phase' = "top"
  /\ UNCHANGED <<input, job, misused, lockstep, changes, stored, output>>

(* readPlate() of the others, and copyPlate(): the copy is read, the plate *)
(* is written.                                                             *)
ReadPlate ==
  /\ phase = "plate" /\ input.version # "serial"
  /\ input.lines[job] \notin input.missing
  /\ live' = live \union {Fresh, Fresh + 1}
  /\ holds' = holds \o <<Content(0), Content(0)>>
  /\ source' = Fresh + 1 /\ target' = Fresh /\ given' = Fresh
  /\ phase' = IF input.version = "omp" THEN "rows" ELSE "team"
  /\ UNCHANGED <<input, job, misused, lockstep, changes, stored, output>>

PlateMissing ==
  /\ phase = "plate" /\ input.lines[job] \in input.missing
  /\ Stop("failed")

-----------------------------------------------------------------------------
(* The simulations.                                                        *)

NextIteration ==
  /\ iteration' = iteration + 1 /\ computed' = {} /\ calm' = TRUE /\ changes' = {}
  /\ UNCHANGED status

(* Mutant of ToFree: the plate is freed in the first pass too.             *)
SourceAlways == {source}

(* What a pass of the serial loop frees: nothing in the first, when both   *)
(* plates are the one read.                                                *)
ToFree == IF source = target THEN {} ELSE {source}

(* The first half of the do loop of the serial simulate(), with the plate  *)
(* that simulationIteration() reserves.                                    *)
SerialTop ==
  /\ phase = "top"
  /\ FreeAndReserve(ToFree, {Fresh})
  /\ holds' = Append(holds, Content(0))
  /\ IF source = target THEN UNCHANGED <<lockstep, changes>> ELSE NextIteration
  /\ source' = target /\ target' = Fresh
  /\ phase' = "rows"
  /\ UNCHANGED <<input, job, given, stored, output>>

ComputeRow(row, change, moving) ==
  /\ row \notin computed
  /\ iteration = MaxIterations => change = "still"
  /\ computed' = computed \union {row}
  /\ calm' = (calm /\ change \notin moving)
  /\ changes' = changes \union {change}
  /\ UNCHANGED <<input, phase, job, memory, handles, iteration, status, stored, output>>

Changes == {"rise", "fall", "still"}

(* The serial loop goes down the rows and looks at how much a temperature  *)
(* rises.                                                                  *)
SerialRow ==
  /\ phase = "rows" /\ input.version = "serial"
  /\ \E row \in Rows, change \in Changes :
       row - 1 \in computed \union {0} /\ ComputeRow(row, change, {"rise"})

(* Mutant of OmpMoving: as in the serial version.                          *)
RisesOnly == {"rise"}

(* The parallel loop takes the rows in any order and looks at how much a   *)
(* temperature changes; its flags are reduced to one.                      *)
OmpMoving == {"rise", "fall"}

OmpRow ==
  /\ phase = "rows" /\ input.version = "omp"
  /\ \E row \in Rows, change \in Changes : ComputeRow(row, change, OmpMoving)

(* The end of simulate(): the other plate is freed, and the result goes    *)
(* into its array or, with OpenMP, stays in the worker to be sent.         *)
Finish(plate, iterations, other) ==
  LET result == [plate |-> plate, iterations |-> iterations]
  IN  /\ returned' = Append(returned, result)
      /\ results' = IF input.version = "omp" THEN results ELSE Append(results, result)
      /\ FreeAndReserve({other}, {})
      /\ phase' = IF input.version = "omp" THEN "send" ELSE "next"

(* The end of the do loop of the serial simulate().                        *)
SerialDecide ==
  /\ phase = "rows" /\ input.version = "serial" /\ computed = Rows
  /\ holds' = [holds EXCEPT ![target] = Content(iteration)]
  /\ IF calm
     THEN /\ status' = "balanced"
          /\ Finish(target, iteration, source)
     ELSE /\ phase' = "top"
          /\ UNCHANGED <<status, live, misused, stored>>
  /\ UNCHANGED <<input, job, handles, iteration, computed, calm, changes, output>>

(* The end of the loop of calcNewTemperature() with OpenMP, and of the     *)
(* simulate() around it: the plates are swapped unless in balance, and the *)
(* plate returned is simulate()'s own.                                     *)
OmpDecide ==
  /\ phase = "rows" /\ input.version = "omp" /\ computed = Rows
  /\ holds' = [holds EXCEPT ![target] = Content(iteration)]
  /\ IF calm
     THEN /\ status' = "balanced"
          /\ Finish(given, iteration, given + 1)
          /\ UNCHANGED <<handles, iteration, computed, calm, changes>>
     ELSE /\ NextIteration
          /\ source' = target /\ target' = source
          /\ UNCHANGED <<phase, given, live, misused, stored>>
  /\ UNCHANGED <<input, job, output>>

(* sendJobResult() and receiveJobResult(): rank 0 reserves a plate of its  *)
(* own, and the worker's is never freed.  The iterations, a size_t, are    *)
(* sent and received as an int, into memory that nobody initialised.       *)
SendResult ==
  /\ phase = "send"
  /\ \E upper \in UpperHalves :
       results' = Append(results,
                    [plate |-> Fresh,
                     iterations |-> upper * Word + (returned[job].iterations % Word)])
  /\ live' = live \union {Fresh}
  /\ holds' = Append(holds, holds[returned[job].plate])
  /\ phase' = "next"
  /\ UNCHANGED <<input, job, misused, handles, lockstep, changes, returned, output>>

(* simulate() with a team, as HeatTeam shows it: after n iterations, three *)
(* at least, the plate given holds the last one computed into it.  A team  *)
(* of no threads computes nothing and reports one iteration.               *)
TeamSimulate ==
  /\ phase = "team"
  /\ \E n \in IF input.threads = 0 THEN {1} ELSE 3 .. MaxIterations + 2 :
       /\ iteration' = n
       /\ holds' = [holds EXCEPT ![given] =
                      Content(IF input.threads = 0 THEN 0 ELSE IF n % 2 = 1 THEN n ELSE n - 1)]
       /\ Finish(given, n, given + 1)
  /\ status' = "balanced"
  /\ UNCHANGED <<input, job, handles, computed, calm, changes, output>>

NextJob ==
  /\ phase = "next" /\ job < JobsCount
  /\ phase' = "plate" /\ job' = job + 1
  /\ iteration' = 1 /\ computed' = {} /\ calm' = TRUE /\ status' = "running" /\ changes' = {}
  /\ UNCHANGED <<input, memory, handles, stored, output>>

LastJob == phase = "next" /\ job = JobsCount /\ Stop("report")

-----------------------------------------------------------------------------
(* Output.                                                                 *)

(* writeJobsResult() names the report after the first job.  With no jobs   *)
(* it reads past the array: a crash, a name that cannot be opened, or a    *)
(* report of nothing.                                                      *)
OpenReport ==
  /\ phase = "report"
  /\ \/ JobsCount = 0 /\ Stop("crashed")
     \/ Stop("failed")
     \/ /\ phase' = IF JobsCount = 0 THEN "free" ELSE "line"
        /\ job' = 1
        /\ UNCHANGED <<input, memory, handles, lockstep, changes, stored, output>>

WriteJobResult ==
  /\ phase = "line"
  /\ LET n == results[job].iterations
     IN  report' = Append(report, [plate |-> input.lines[job], iterations |-> n,
                                   time |-> FormatTime(n * input.duration)])
  /\ phase' = "file"
  /\ UNCHANGED <<input, job, memory, handles, lockstep, changes, stored, files>>

RemoveExtension(name) == name[1]

FileName(k) == <<RemoveExtension(input.lines[k]), results[k].iterations>>

(* writePlate(): the file is named after the plate, without the extension, *)
(* and the iterations, and the one of an earlier job with the same ones is *)
(* written over.                                                           *)
WritePlate ==
  /\ phase = "file"
  /\ \/ /\ files' = [name \in DOMAIN files \union {FileName(job)} |->
                      IF name = FileName(job) THEN holds[results[job].plate] ELSE files[name]]
        /\ job' = job + 1
        /\ phase' = IF job = JobsCount THEN "free" ELSE "line"
        /\ UNCHANGED <<input, memory, handles, lockstep, changes, stored, report>>
     \/ Stop("failed")

(* destroyJobsData() and destroySimulationResult(), of rank 0.             *)
FreeResults ==
  /\ phase = "free"
  /\ FreeAndReserve({results[k].plate : k \in DOMAIN results}, {})
  /\ phase' = "exit"
  /\ UNCHANGED <<input, job, holds, handles, lockstep, changes, stored, output>>

-----------------------------------------------------------------------------
InputStep == SerialArguments \/ TeamArguments \/ ReadJobData \/ ReadSerialPlate \/ ReadPlate
               \/ PlateMissing
SimulateStep == SerialTop \/ SerialRow \/ SerialDecide \/ OmpRow \/ OmpDecide \/ SendResult
                  \/ TeamSimulate \/ NextJob \/ LastJob
OutputStep == OpenReport \/ WriteJobResult \/ WritePlate \/ FreeResults

Done == phase \in {"exit", "failed", "crashed"} /\ UNCHANGED vars

Next == InputStep \/ SimulateStep \/ OutputStep \/ Done

Spec == Init /\ [][Next]_vars

-----------------------------------------------------------------------------
Stored   == {results[k].plate : k \in DOMAIN results}
Returned == {returned[k].plate : k \in DOMAIN returned}

(* Who owns the plates.  None is freed twice, and the plates an iteration  *)
(* reads and writes are in memory and are two.  Between jobs and during    *)
(* the report there are only the results, each with its own plate, and     *)
(* with OpenMP the plates that the workers returned, each another one.     *)
(* At the end those of the workers, one for each job, are what is left     *)
(* (omp_mpi/src/solution.c:94-96 frees nothing); the other versions leave  *)
(* nothing, though serial/src/solution.c:52-72 frees all the plates of a   *)
(* job but one, which may have been the one read.                          *)
PlatesOwned ==
  /\ ~ misused
  /\ phase = "rows" => source # target /\ {source, target} \subseteq live
  /\ \A i, j \in DOMAIN results : results[i].plate = results[j].plate => i = j
  /\ \A i, j \in DOMAIN returned : returned[i].plate = returned[j].plate => i = j
  /\ input.version = "omp" => Stored \intersect Returned = {}
  /\ phase \in {"plate", "send", "next", "report", "line", "file", "free"} =>
       live = Stored \union Returned
  /\ phase = "exit" =>
       /\ live = IF input.version = "omp" THEN Returned ELSE {}
       /\ DOMAIN returned = 1 .. JobsCount

Lockstep(n) == INSTANCE HeatLockstep WITH Workers <- 1 .. n, WarmUp <- 0

(* What keeps a simulation going.                                          *)
Moving == IF input.version = "omp" THEN {"rise", "fall"} ELSE {"rise"}

(* Each job is a simulation in lockstep from its first iteration on,       *)
(* whatever the job before left behind, without the warm-up of the thread  *)
(* teams; the OpenMP loop stops with the first iteration in which no row   *)
(* changes, the serial one with the first in which none rises, although    *)
(* others may fall (serial/src/solution.c:98 lacks the fabs()).            *)
EachJobLockstep ==
  [][/\ \/ UNCHANGED lockstep
        \/ phase \in {"top", "rows"} /\ \E n \in 0 .. MaxRows : Rows = 1 .. n /\ Lockstep(n)!Next
        \/ status = "balanced" /\ Lockstep(0)!Init'
        \/ phase = "team"
     /\ phase = "rows" /\ phase' \in {"send", "next"} => changes \intersect Moving = {}
     /\ phase \in {"top", "rows"} /\ iteration' # iteration =>
          changes \intersect Moving # {}]_vars

(* What a file written for job k holds.  The serial version keeps the last *)
(* plate; in the others it is the one computed into the plate of the file, *)
(* and with a team of none the file is the plate that was read.            *)
FileContent(k) ==
  LET n == returned[k].iterations
  IN  [plate |-> input.lines[k],
       iteration |-> IF input.version = "team" /\ input.threads = 0 THEN 0
                     ELSE IF input.version = "serial" \/ n % 2 = 1 THEN n ELSE n - 1]

(* What a run that ends well leaves.  It reports the jobs of the file, one *)
(* line for each that ends in a newline, in order.  The iterations of a    *)
(* line are those of its simulation or, with OpenMP, as much of them as    *)
(* the message carries (omp_mpi/src/solution.c:162 and 184); its time is   *)
(* exact while it fits.  And each line has a file, named without the       *)
(* extension, with the plate of the last job of that name: of the last     *)
(* iteration or, with swapped plates, of the one before                    *)
(* (omp_mpi/src/solution.c:215).                                           *)
ReportFaithful ==
  phase = "exit" =>
    /\ DOMAIN report = {k \in DOMAIN input.lines : k < Len(input.lines) \/ input.terminated}
    /\ DOMAIN files = {FileName(k) : k \in DOMAIN report}
    /\ \A k \in DOMAIN report :
         LET n == report[k].iterations
         IN  /\ report[k].plate = input.lines[k]
             /\ IF input.version = "omp"
                THEN \E upper \in UpperHalves :
                       n = upper * Word + (returned[k].iterations % Word)
                ELSE n = returned[k].iterations
             /\ TimeFits(n * input.duration) => TimeExact(n * input.duration, report[k].time)
             /\ (\A j \in DOMAIN report : FileName(j) = FileName(k) => j <= k) =>
                  files[FileName(k)] = FileContent(k)
=============================================================================
