# Verification of the heat simulations and thread examples of paralela-24b

The repository holds the homeworks of a course on parallel programming, four
versions of one heat-transfer simulation (`homeworks/`), and the course's
examples and exercises with threads, semaphores, MPI and OpenMP (`examples/`,
`exercises/`).  This directory models the programs in TLA+, checks them with
TLC on small instances and proves, with TLAPS, what matters most for every
value of the constants.

Paths below are relative to the repository.

## 1. The system

### The heat simulation

Each homework reads a job file (one simulation per line: plate file, duration
of a step, diffusivity, cell size, epsilon), simulates each plate until no
interior cell changes by more than epsilon in an iteration, and writes a report
and the final plates.

| component | state | operations | interaction |
|---|---|---|---|
| serial (`homeworks/serial`) | the previous and the current plate | `simulate`, `simulationIteration` | none |
| thread team (`homeworks/pthreads`) | `SharedData`: two plates with their `isBalanced` flags, iteration count, a mutex for the flag, a two-turnstile barrier (`barrierCount`, `barrierMutex`, `turnstile1`, `turnstile2`) | `create_threads`, `calcNewTemperature` (one per thread), `join_threads` | shared memory; the last thread at the barrier decides for all |
| dynamic mapping (`homeworks/optimized`) | the same and `currentCell` with its mutex | the same; cells are taken one by one | shared memory |
| distributed (`homeworks/omp_mpi`) | rank 0: job counters and the table of results; a worker: its job and its result | `sendJobData`, `receiveJobData`, `sendJobResult`, `receiveJobResult`, `processJob` | MPI messages; in a worker, an OpenMP loop |
| job input, report (`input.c`, `output.c`) | files | `readJobData`, `calcFileLinesCount`, `readPlate`, `writeJobsResult`, `format_time` | called by `main` |

What is hard:

* a barrier used again and again: a fast thread must not overtake a slow one
  (`calcNewTemperature`, lines 157-186), although the last thread opens the
  first turnstile *before* it swaps the plates;
* waiting for a semaphore with `barrierMutex` held (lines 159 and 180);
* `isBalanced` has three values with three meanings (0: somebody is not in
  balance, 1: in balance so far, 2: stop), one field per plate, and is read
  without its mutex to leave the loop (line 127);
* `currentCell` is set back to 0 without its own mutex (`optimized`, line 213);
* pointers that were copied before the plates were swapped (line 85);
* a thread that cannot be created (line 286);
* rank 0 receives every part of a result from `MPI_ANY_SOURCE`
  (`omp_mpi/src/solution.c`, lines 66 and 170-185), with tags that depend on
  the number of rows, and with the disconnect signal under the tag of `rows`;
* two plates that change places while a third pointer, `simulate()`'s own,
  stays: what is freed, what is returned and what is written to disk (`serial`
  lines 52-72, the others around line 85);
* a job file whose last line has no newline, no line at all, a plate that is
  missing, the same plate twice, two plates whose names differ in the extension
  (`input.c` line 100, `output.c`);
* what travels between two processes and what does not: a result is reserved
  twice, in the worker and in rank 0, and its iterations, a `size_t`, are sent
  as an int (`omp_mpi/src/solution.c`, lines 94-96 and 162-184);
* the time of the report, a product of ints (`format_time`).

### Examples and exercises

| component | state | what makes it correct |
|---|---|---|
| `prod_cons_bound` | a ring of slots, two semaphores | the consumer gets what was produced, in order; no slot is written before it is released; both end |
| `building_tasks`, `ethread.c` | eight semaphores, a thread team | the ten tasks respect their partial order and all finish; the team never grows past its capacity |
| `readers_writers` | a counter under a rwlock, an array of threads that grows | no writer increments an old value; threads created are joined when the array cannot grow |
| `position_race`, `birthday_pinata` | a counter under a mutex | each position once; exactly one guest breaks the piñata |
| `hello_order_semaphor`, `hello_order_cond_safe`, `delayed_busy_wait`, `hello_w`, `recursiveHello` | a semaphore each, a text each, an unlocked counter, main's loop counter, a chain of threads | greetings in order; nothing is used after its release |
| `hello`, `hello_iw_pri`, `hello_iw_shr`, `create_thread_team`, `team_shot_put`, `grandma_lottery` | a cell per thread at most | every thread created is joined, also after a failed creation |
| `mpi_wrapper` and its programs, `mpi_ping_pong` | messages in transit | order along the chain, what is sent arrives whole, one ball |
| `mpi_hybrid_distr_arg` | none | the ranges of the processes tile the whole range (the program does not compile as committed) |
| `prod_cons_unbound`, `network_simul_packet_loss`, `omp_mergesort` | | do not compile as committed |

What is hard in them is failure: each request to the system (`malloc`,
`pthread_create`, a lock's initialisation) may be refused in the middle of a
team's life, and each program goes on in a way of its own.  Most join all the
threads they meant to create, `create_thread_team` those it did; some do not
look at the result, or compare it with a value it never has.

PROJECT.json lists all of them, with the hazards of each at the line where
they bite.

## 2. Modules

```
HeatLockstep            abstract: one iteration at a time
   ^ implements
HeatTeam                team of threads, barrier, plates, decision
   ^ EXTENDS      ^ EXTENDS
HeatPthreads      HeatDynamic       the two ways of sharing an iteration
   | MCHeatPthreads (+ RowPartition)   | MCHeatDynamic

JobFarm                 abstract: each job to one worker, one result each
   ^ implements
HeatMpi  <- MCHeatMpi

BoundedChannel          abstract: a bounded FIFO channel
   ^ implements
ProdConsBound

TaskTeam                routines ordered by semaphores, in a thread team
   ^ EXTENDS
BuildingTasks           the ten routines and the task graph

HeatLockstep (abstract)    ReportTime   format_time()
   ^ implements               ^ EXTENDS
   +-------- HeatJobs --------+         a whole run, from arguments to report
                ^ EXTENDS
           MCHeatJobs

OrderedGreetings        abstract: announcements in order, each once
   ^ implements            ^ implements
ThreadExamples          MpiExamples  (wrapper, greetings, ping-pong, data)
   | EXTENDS OrderedTeams, LockedTeams, PlainTeams
   |    each EXTENDS TeamMain: reserve, create, join, release, refusals
```

Proofs: `HeatTeamProofs` (lemmas only), `HeatSharingProofs` (`HeatPthreads`,
`RowPartition` and `HeatDynamic`; each part uses the assumption of its own
module only), `HeatMpiProofs`, `HeatJobsProofs`, `ProdConsBoundProofs`,
`TaskTeamProofs`, `ThreadExamplesProofs`, `MpiExamplesProofs`.

### HeatTeam, HeatPthreads, HeatDynamic

`HeatTeam` is `simulate()` and everything `calcNewTemperature()` does in both
programs.  A thread's `pc` names where it is:

| label | line of `homeworks/pthreads/src/solution.c` | action |
|---|---|---|
| load | 123-125 | `LoadPlates` |
| test | 127 | `TestBalanced` |
| compute | 133-150 | `ComputeRows` / `TakeCell`, `ComputeCell` (`optimized` 161-191) |
| and | 152-154 | `AndBalanced` |
| arrive | 157-158 | `Arrive`, `ArriveLast` |
| takeTwo, openOne, decide, unlockIn | 159, 160, 161-172, 174 | `CloseTurnstile2`, `OpenTurnstile1`, `Decide` (`DecideAndReset`), `UnlockArrival` |
| gateOne, passOne | 175, 176 | `WaitTurnstile1`, `PostTurnstile1` |
| leave | 178-179 | `Leave`, `LeaveLast` |
| takeOne, openTwo, unlockOut | 180, 181, 183 | `CloseTurnstile1`, `OpenTurnstile2`, `UnlockDeparture` |
| gateTwo, passTwo | 185, 186 | `WaitTurnstile2`, `PostTurnstile2` |

Abstractions:

* A temperature is abstracted to its age: `age[p][x]` is the number of
  iterations behind the contents of row (or cell) `x` of plate `p`.  Whether a
  thread finds its part in balance is nondeterministic (`Outcomes`), which
  covers every plate and every epsilon.
* A critical section in which nothing blocks is one step.  `barrierMutex` is a
  variable because its holder waits for semaphores; `can_accsess_isBalanced`
  and `can_accsess_currentCell` are not, as no thread waits with them held
  except to finish.  `Decide` takes `can_accsess_isBalanced` inside
  `barrierMutex`, and no thread takes them in the other order.
* The rows of a thread are computed in one step: no other thread writes what
  it reads while it does so, which is what `StableWhileComputing` says of the
  state in which it reads.  In `HeatDynamic` each cell is a step of its own.
* A failed `malloc` is not modelled; a failed `pthread_create` is
  (`CreateFails`), up to the dereference of the NULL team in `join_threads`
  (`JoinPartialTeam`).
* `rounds` is a history variable, read by no action.

`RowPartition` is the arithmetic of lines 106-120, and that of
`mpi_hybrid_distr_arg`, with C's truncating `/` and `%`.  `MCHeatPthreads` takes the
chunks of rows from it; `HeatPthreads` only assumes that they are a partition
(`ChunkAssumption`), which `BlocksAreChunks` in `HeatSharingProofs` proves of
the arithmetic for every number of rows and threads.

The program's default build of `optimized` is modelled by `HeatDynamic`; the
one with `CYCLIC_MAPPING` is, in spite of its name, the block mapping of
`HeatPthreads`.

### HeatLockstep

What the team promises: an iteration is complete when every worker has
computed its part once, then it is either declared balanced or the next one
starts.  `HeatTeam!Lockstep` is the refinement mapping: the abstract iteration
is `totalIterations + 1`, a worker has computed when its `rounds` has reached
it, and the decision of the last thread is the abstract `NextIteration` or
`DeclareBalanced`.  Every other step of barrier, locks and pointers is a
stutter.  `WarmUp` is 2: the balance of the first two iterations is not
believed (see finding 2).

### HeatMpi and JobFarm

`main()` of `omp_mpi`, for rank 0 (`MasterStep`) and for the others
(`WorkerStep`), with the messages in transit per rank.  `mpi_receive` with a
tag takes the first message with that tag of some rank (`FirstTagged`): MPI
keeps the order of one sender's messages and promises nothing between senders.
The result under construction, `incoming`, is the sequence of the messages
received; message number k of a result has tag k, so its length is the tag
awaited.  What a message is taken *for* (`Expected`) depends on what was
received before it, which is how one result's rows can be taken for another
one's iterations.  A message longer than the buffer it is received into ends
the program (`aborted`), as MPI's default error handler does.

Messages that give a job have a fixed source and are received in the order
they are sent, so they are one message.  `threadCount` is sent uninitialised as
an int and received as a double, and then not used by the OpenMP loop: it is
left out.  `Buffered` selects between sends that return at once and sends that
wait for the receiver: the two things MPI allows.  `JobFarm` is the promise:
each job is given to one rank that has nothing else to do, its own result is
stored once, the report comes when all of them are.

### ProdConsBound and BoundedChannel

`main()`, `create_threads()`, `produce()` and `consume()` of
`examples/pthreads/prod_cons_bound`.  Each loop body is three steps: wait for a
semaphore, store (or take) a product, post the other semaphore and advance the
loop counters.  `pAt` and `cAt` are the pairs of loop counters.  The delays are
the interleavings; printing is left out, as what the consumer prints is the
`value` it has taken.  After `free()` a thread may go on as if the block were
still there, or the process may end (`Crash`).

`BoundedChannel` knows products, a sequence of at most `Capacity` of them, and
the last one received.  In the refinement mapping the sequence (`Inside`) is
read from the slots that follow the consumer's next one, as many as were made
and not yet taken: a slot overwritten, skipped or read twice breaks it.

### TaskTeam and BuildingTasks

`TaskTeam` is the thread team of `ethread.c` (`reserve_threads`, `add_thread`,
`join_threads`) with routines of the shape all those of
`building_tasks/src/main.c` have: some `sem_wait`, the work, some `sem_post`.
Which semaphores is a constant: `BuildingTasks` transcribes the ten routines
(`BuildingWaits`, `BuildingPosts`), and the arrows of the graph in the readme
(`GraphOfReadme`, from `img/building_tasks.svg`), which only the properties and
the assumption on the constants use.  `passed` counts the semaphores a routine
has passed: it works from its last wait to `FinishWork`.  `add_thread` does not
look at the result of `pthread_create`, so a routine in `failed` is counted and
joined; its identifier is zero and `pthread_join` returns an error or ends the
process.

### HeatJobs and ReportTime

`HeatJobs` is what surrounds a simulation: `processArguments`, `readJobData`,
`calcFileLinesCount`, `readPlate`, `copyPlate`, the loop over the jobs,
`writeJobsResult`, `writePlate`, `destroyPlate` and the ways out of `main()`.
`input` is the command line and the files; a plate in memory is a number, and
`holds` says of which plate file and of which iteration its contents are, so
that a pointer to the wrong plate is visible in the file written.

Three versions run through it.  The `serial` one and the OpenMP loop of a worker
of `omp_mpi` are simulated here, row by row: in order and looking at how much a
temperature *rises*, or in any order, with flags reduced to one, and looking at
how much it *changes*.  A row's change (`rise`, `fall`, `still`) is what its
temperatures are abstracted to.  A serial job begins with both plates the same
one, so that its first pass frees nothing.  For `pthreads` and `optimized`
(version `team`) `simulate()` is one step whose effect is what `HeatTeam`'s
`ResultWithinOne` and finding 2 say of it: three iterations at least, and a
plate one behind for even counts; an empty team reports one iteration of nothing.
For `omp` the results reach the report in the order of the jobs, as `HeatMpi`
shows; `SendResult` is what happens to one on the way.  `returned` has what
`simulate()` returned in the worker, `results` what rank 0 stores: another plate,
with the contents of the first, and as many iterations as four bytes carry over
a field of eight that nobody initialised (`Word`, what the lower half counts up
to, and `UpperHalves`, what the upper one may hold).  `FreeResults` frees rank
0's plates only.  `live` holds the plates of all the processes.

A plate file is a stem and an extension; `RemoveExtension` takes the stem, which
is what the file of the final plate is named after.  A name without a point is a
stem with an empty extension, and a point in a directory is left out.

`FormatTime` follows `format_time()` statement by statement: years, months, days,
hours, minutes and seconds are ints and what is left is a `time_t`.  `Wrapped` is
what an int keeps of a number: C leaves the overflow of `years * 31536000`
undefined, and the code gcc generates for it wraps.  `TimeFits` says when that
does not happen: for less than 69 years with ints of 32 bits.  The product of
iterations and duration, a `double`, is taken as exact.

### TeamMain, OrderedTeams, LockedTeams, PlainTeams, ThreadExamples

Fourteen programs with the same plan (reserve, create a team, join it,
release, exit), so that their state and the steps of their main threads are
written once, in `TeamMain`, with the place to go when a request is refused as a
parameter: that is what the programs differ in.  A program is a handful of such
steps (`RaceMain`, `ShotPutMain`, ...) and the steps of one of its threads
(`Race`, `Athlete`, ...).  `main` names the request that comes next, `live` what
is reserved, `routine` where each thread is.

* Creating a thread, or not, and going on: `Create`, `CreateFails` (the loop is
  left and some threads are joined), `CreateFailsUnseen` (nobody looks).
* Joining a thread that was never created returns an error nobody reads or
  follows a bad pointer: `Join` returns or crashes.
* `sem` holds the semaphores not yet destroyed; a post to another one has no
  effect any more.
* `InitSemaphores` initialises those of `hello_order_semaphor`, any set of which
  may be denied.  The result is overwritten, so the program goes on, and the
  semaphore is what `calloc()` left: the GNU C library takes those zeroes for a
  semaphore at 0.  For all threads but the first that is the value it should have
  had; without the first turn nobody ever greets (`NoFirstTurn`).
* `refused` is the set of all the refusals of the run, so that the properties
  can say which of them a status tells.
* The array of `readers_writers` is full with 0, 10, 100, 1000, ... threads
  (`GrowsAt`), and each growth may be refused; `GrowthFactor`, 10 in the code, is
  a parameter.
* `delayed_busy_wait` reads and writes `next_thread` without a lock: `load` and
  `store` are two steps of `BusyGreet`.
* `readers_writers` frees the shared data before it destroys the rwlock in it:
  `Release` or `Crash`.  A build that watches memory (`make asan`) crashes.
* `hello_w` gives each thread a pointer to main's loop counter, which
  `SerialGreet` reads when it runs.

`ThreadExamples` puts the programs together: the initial state chooses one and
its command line.

### MpiExamples

The wrapper `Mpi.hpp` and four programs over it.  `channel[r][s]` are the
messages of one process to another, in order; `eager` says whether a send
returns before its message is received, and both are checked.  A message longer
than the buffer it is received into is an error of MPI, which ends the job.
`gathered` is the array process 0 prints in `hello_itm`, filled in the order
of arrival.

## 3. Runs

| run | instance | shows |
|---|---|---|
| `heat_pthreads` | 3 threads, 2 interior rows, up to 4 iterations, creation may fail | types, the safety properties below, termination, refinement of `HeatLockstep` |
| `heat_dynamic` | 3 threads, 3 x 4 cells, up to 4 iterations, creation may fail | the same for the shared counter |
| `heat_mpi` | rank 0 and 3 workers, 1 to 4 jobs, plates of 1 or 2 rows and 2 widths, synchronous sends | results are not mixed, every rank is dismissed, the report is complete, refinement of `JobFarm` |
| `heat_stale_plate` | as `heat_pthreads` | violation: finding 1 |
| `heat_warm_up` | as `heat_pthreads` | violation: finding 2 |
| `heat_mpi_buffered` | the results of 2 workers in transit together | violation: finding 3 |
| `prod_cons_bound` | 3 slots, 3 rounds, creation may fail | types, all products taken in order, refinement of `BoundedChannel`, termination |
| `prod_cons_freed` | the same | violation: finding 4 |
| `building_tasks` | the program's ten routines, at most one failed creation | the task graph is respected and carried out |
| `thread_examples` | fourteen programs, up to 3 threads (6 athletes), 2 hits, 2 distances, an array that doubles | greetings in order, positions once, one breaker, no use after release, exit status, termination |
| `heat_jobs` | 3 versions, up to 2 jobs of 3 plates (two with the same stem), up to 2 interior rows and 3 iterations, every file missing or not, ints of two years of seconds, messages that carry one bit of the iterations | plates in memory, the report and the files, each job in lockstep |
| `mpi_examples` | four programs, up to 4 processes, a buffer of 2 and data of up to 4 | order, integrity of what is sent, progress |

Bounds.  `MaxIterations` bounds the data, not the control: from that iteration
on every part is in balance.  Four iterations cover both uses of each plate,
the two iterations of warm-up and both parities of the result.  Three threads
are the first number for which the last to arrive, the last to leave and a
third thread can be in different halves of the barrier, and one of the three
owns only border rows.  With 12 cells, two of them interior, a thread may get
none, one or both.  In `heat_mpi` there are runs with fewer jobs than workers,
as many, and more; plates of one and of two rows give equal tags to different
parts of a result.  In `prod_cons_bound` three slots let a full and an empty
ring be told from the states between, and three rounds reuse each slot twice.
`building_tasks` has the size of the program; `MaxFailures` bounds the failed
creations, and one is enough to block any part of the graph.  In `thread_examples` refusals are
not bounded; three threads are the first with one between two others, and two
hits let a guest hit twice or two guests once, and with `GrowthFactor` at 2 the
array of `readers_writers` is full with none and with two threads, so that a
growth is refused while threads run.  In `heat_jobs` two jobs let one
leave its plates to the other, be the same plate, or be the line without a
newline; three iterations take each plate through both places; the durations
are chosen so that some multiple falls on each boundary of minute, hour, day,
month, year and on the days of month 12; `IntMax` is two years less one second,
so that some times overflow, and with `Word` at 2 messages carry one bit of the
iterations, so that most simulations lose some on the way to rank 0.  In
`mpi_examples` a buffer of two has lengths below, at and above it.  The proofs remove these bounds for the
safety properties of every model, but for `HeatMpi` with buffered sends, where
finding 3 stands.

Deadlock is checked in `thread_examples`, `heat_jobs` and `mpi_examples`, where
`Done` (`Over` in `mpi_examples`) is the only way to stop: a program that has
ended, or that lost its first turn.  In the other runs it is not
(`CHECK_DEADLOCK FALSE`): the programs end, and a team with a failed creation
does stop; that every complete team goes on to the end is the liveness property.  That nobody waits in vain before the end is proved
for every size (section 4).

Fairness.  Weak fairness of each thread, of the main thread and of each rank:
the kernel schedules every runnable thread and MPI delivers.  It is weak
although threads wait for a mutex and for semaphores: in this barrier a thread
that waits is alone or waits for a permit that comes back, and whoever
overtakes it runs into the other turnstile.  A missing plate file
(`PlateMissing`) and a failed creation have no fairness: they need not happen.
`ThreadExamples` and `MpiExamples` ask for the same of main, of each thread and
of each process.  Main is given a result by every request, which one is not
said.  Weak fairness lets a waiting thread be passed over at a lock, and the
programs still end, because those that pass it end.  The threads of
`delayed_busy_wait` wait by looking, which is a step only when it is their turn.
`HeatJobs` has a single thread and no liveness property.

Properties of the team (`HeatTeam`):

* `StableWhileComputing`: a thread computes from the plate of this iteration
  into the other one; nobody swaps meanwhile.
* `DecisionIsInformed`: when the last thread decides, the whole plate has been
  computed and the flag is the conjunction of what all found (except in the
  two first iterations).
* `ExitTogether`: all threads leave the loop after the same iteration.
* `OneTurnstileOpen`: one permit for both turnstiles.
* `ResultWithinOne`: the returned plate is at the reported iteration or, when
  it is even, one behind.
* `FailedTeamHangs`: after a failed creation the join returns only if no
  thread existed.
* `CellComputedOnce`, `CounterBounded` (`HeatDynamic`): no cell is computed
  twice, and the counter exceeds the plate by one per thread at most.
* `EventuallyReturns`: a complete team finishes.

That the blocks of rows are a partition is not a property of these runs but an
assumption of `HeatPthreads`, evaluated by TLC and proved of the arithmetic
(`BlocksAreChunks`).

Properties of the distribution (`HeatMpi`): `ResultsIntact` (a stored result is
made of the messages of one job and stored at its index), `OneJobEach` (while
rank 0 waits, every rank not dismissed owes exactly one result),
`CompleteReport` (all results, all ranks gone, no message left),
`EventuallyWritten` (the report is written or a missing plate has ended the job,
with all the results collected so far: the code has no other answer to it),
`ImplementsJobFarm`.

Properties of the producer and the consumer (`ProdConsBound`):
`ImplementsChannel`, `EveryItemTaken` (the buffer is given back after the last
product was taken), `Terminates`, and `FreedAfterThreads`, which fails.

Properties of a task team (`TaskTeam`): `DependenciesRespected` (what a routine
depends on is complete when it starts), `DestroyedLast` (the semaphores are
destroyed after the last routine, with no post left over), `GraphCompletes`.

Properties of a whole run (`HeatJobs`):

* `PlatesOwned`: nothing is freed twice or used after its release, one plate per
  result; at the end nothing is left but, with `omp`, the plate of each job in
  the memory of its worker.
* `ReportFaithful`: which lines of the job file are reported; the iterations of
  each, or the half of them that reached rank 0; the time, exact while it fits;
  and for each line a file, named by the stem and the iterations, with the plate
  of the last job of that name, at the iteration the version keeps.
* `EachJobLockstep`: every job is a `HeatLockstep` simulation with no warm-up,
  from its first state on, whatever the job before left behind; and it stops with
  the first iteration in which no row changes or, in the serial version, in which
  none rises.

Properties of the thread programs (`ThreadExamples`):

* `ImplementsOrdered`: they implement `OrderedGreetings` whatever thread is not
  created.
* `UsesAreLive`: what a thread uses is not released, except semaphore 0, which
  the last thread posts to when main may have destroyed it.
* `PositionsDistinct`, `OneBreaker`: what the locks are for.
* `ReportsFailure`: a program exits with 0 exactly when all that was refused is in
  `Unnoticed`, the refusals it does not look at or forgets; without a refusal
  every thread has run to its end; and a crash follows one of the refusals in
  `Fatal`, or is that of `readers_writers`.
* `Terminates`: they end, unless the first turn could not be given.

Properties of the MPI programs (`MpiExamples`): `ImplementsOrdered`,
`DataArrives` (every process prints what process 0 read, and only data that does
not fit ends the job; one ball in the ping-pong), `Progress` (the players serve
for ever, everybody else ends).

Definitions introduced by a comment "Mutant of ..." are slips of the kind a
change to that code could introduce; no specification uses them.  Each of them
is the evidence that some property notices it.

### Findings

1. `heat_stale_plate`: `simulate()` returns its local `writePlate`, the plate
   read from the file.  After an even number of iterations the final plate is
   the copy, which is freed; the file written is one iteration behind the count
   in its name.  `types.h` and `design/solution.pseudo` promise the final plate.
2. `heat_warm_up`: the flags start at 0 and are only ever and-ed, so the first
   two iterations cannot end the simulation: a plate in balance from the start
   is simulated three times.
3. `heat_mpi_buffered`: parts of two results can be put together, because the
   source is not fixed after the first part.  `heat_mpi` shows that with
   synchronous sends the protocol is right, so the cause is the use of
   `MPI_ANY_SOURCE` with buffering and nothing else.
4. `prod_cons_freed`: when the consumer cannot be created nobody waits for the
   producer, and `main()` frees the buffer and the semaphores it is using.

The others are stated, as they are, by a property of a run that passes: the
property says what the code does instead of what is promised.

5. `heat_jobs`, `EachJobLockstep`: the serial version lacks the `fabs()`
   (`serial/src/solution.c:98`), so a plate that only cools down is in balance at
   once; `serial/readme.adoc:16` speaks of any change.  With `Moving` the same
   for all versions, as the readme has it, TLC finds the property violated by a
   first iteration in which a row falls.
6. `heat_jobs`, `ReportFaithful`: a last line without a newline is not simulated
   and nobody is told; `serial/readme.adoc:36` says that each line defines a
   simulation.
7. `heat_jobs`, `ReportFaithful`: of the iterations of a result rank 0 receives
   four bytes, over a field that nobody initialised.
8. `thread_examples`, `ReportsFailure` and `Terminates`: what `sem_init()` returns
   is overwritten (`hello_order_semaphor/src/main.c:49` and 56), so that the
   branch with the message for it (96-98) is dead.  The program exits with 0 or,
   without the first turn, waits for ever.

Disagreements with no promise to quote, which the same properties state: every
job of `omp_mpi` leaves a plate in its worker (`PlatesOwned`); the files of two
plates with one stem and as many iterations are one file, and the time of a
simulation of 69 years or more is wrong (`ReportFaithful`); finding 1 holds of
`omp_mpi` too (`ReportFaithful`, `FileContent`).

## 4. Proofs

Assumptions on the constants: at least one thread; `Chunk` assigns every
interior row to exactly one thread; the interior cells are cells; a capacity and
a number of rounds that are not zero; the table of a task team
(`TeamAssumption`; `BalanceAssumption`, as many posts as waits;
`OrderAssumption`, who posts a semaphore is added before who waits for it); at
least one worker rank, and plates of at least one row and one column; at least
one process and room for something in its buffer; an int that counts the
seconds of a year, a word that is not zero, an array that grows by a factor of
two or more; bounds that are natural numbers.  Each is a
named ASSUME, evaluated by TLC in the passing runs.

**Rows.**  `HeatSharingProofs` begins with the arithmetic of `RowPartition`:
`BlocksDisjoint`, `BlocksCover` and `LoadsEven` for every number of rows and
threads, from the division theorem for `\div` and `%` (`Division`) and the
monotonicity of products; `BlocksAreChunks` puts them together as what
`ChunkAssumption` asks for.

**Team.**  The safety properties are not inductive: they say nothing of the
threads between the turnstiles.  The inductive invariant `IInv` adds

* `CountInv`, `MutexInv`: what `barrierCount` and `barrierMutex` say of the
  threads' places;
* `PermitInv`: one permit is in one of the turnstiles or in the hands of one
  thread;
* `HalfInv`: where the permit is tells in which half of the barrier *all*
  threads are (`Leaving`), hence that nobody computes while somebody decides;
* `LastInv`: when `barrierCount` has reached `threadCount`, or 0, all the
  others are at the gate;
* `RoundsInv`, `PlatesInv`, `WorkInv`, `FlagsInv`: iteration counts, plates and
  flags for each half;
* `MainInv`: the main thread;
* `ChunkInv` (`HeatPthreads`) or `HeldInv`, `CounterInv`, `EndedInv`
  (`HeatDynamic`): why the plate is complete when all have computed.

`HeatTeamProofs` shows, one lemma per action, that every step both programs
share preserves the shared part, `TeamInv`; cardinalities of `Counted` come
from FiniteSetTheorems.  `HeatSharingProofs` adds the steps of each of the two
and concludes `Invariance` (`DynamicInvariance`), the safety properties and
`Refinement` (`DynamicRefinement`): the initial states map to the initial state
of `HeatLockstep` and every step to a step or a stutter.

**Ring.**  `ProdConsBoundProofs`, for every capacity and number of rounds.
The inductive invariant says that every slot is free, filled or in one thread's
hands (`SemaphoresInv`), that the producer's next slot is the one after the
filled ones (`RingInv`), that those hold the products not yet taken in order
(`ContentInv`), and that loop counters and products tell the same progress
(`ProgressInv`, `LoopInv`).  `RingInv` relates the two indexes by the distance
between them, so the wrap needs no modulus.  `RingIsChannel` follows because
the sequence inside is then the numbers from `value + 1` to `count`
(`InsideIs`), and `AllTaken` because both loops have ended.

**Task teams.**  `TaskTeamProofs`, for every team and task graph that meet
`TeamAssumption`: a semaphore is posted by one routine only, and each arrow of
the graph has a semaphore.  A semaphore above zero (`PostInv`) and a wait that
is over (`WaitInv`) both mean that the owner is complete; nothing else is needed
for `OrderRespected`.  Whether there are enough posts for all is another matter
(`GraphCompletes`), and is checked for the program's table.

`NothingLeftOver` is `DestroyedLast`, with what `DependenciesRespected` does not
need: main has waited for the routines before the one it joins (`JoinInv`), and
the value of a semaphore is the number of posts done less the waits let through
(`CountInv`).  A team created whole and done has done all of both, and
`BalanceAssumption` says that they are equally many; TLC evaluates it on the
program's table.

**Counter of cells.**  `CounterStaysBounded`, in `HeatSharingProofs`: beside the
inductive invariant, `PastInv` says that the counter is past the plate by no
more than the number of threads that have ended their part.

**Ranges.**  `RangesTile`: a range that is not reversed is divided as the rows
are (`RangesAreBlocks`), so the theorems about blocks apply;
`ReversedRangesEmpty` is about C's division of a negative range.

**Distribution.**  `HeatMpiProofs`, for every number of ranks, jobs and rows,
with synchronous sends: the theorems and the lemmas about sending have the
hypothesis `~Buffered`.  It cannot be dropped: with `Buffered` finding 3 is a
counterexample to `ResultsIntact`.  The inductive
invariant `IInv` says

* `RanksInv`: where rank 0 is (which rank it is giving a job, answering or
  dismissing) tells what every other rank is at: not asked yet, engaged with
  exactly one job, being dismissed, or gone;
* `Answering`: of a rank that sends its result, the messages received, the one
  in transit and those not sent yet are, in this order, the result's;
* `IncomingInv`: the result under construction is made of the first messages of
  one rank's result.  It holds because every *other* rank stands at its first
  message, of tag 0, while rank 0 asks for tags above 0, which is the whole
  reason why `MPI_ANY_SOURCE` does no harm here;
* `JobsInv`, `CountsInv`: a job given and without a result is owed by the rank
  it was given to, and what `processedCount` and `disconnectedCount` count.

From it follow `MessageTypes`, `NoResultMixed`, `EachRankOneJob`,
`ReportIsComplete`, `OnlyMissingPlateAborts` and the refinement of `JobFarm`,
`FarmImplemented`.

**Thread programs.**  `ThreadExamplesProofs`, for every number of threads, hits
and refusals.  Two inductive invariants.  `LInv`, for the programs with a lock,
adds to the properties who holds the lock in which part of its routine
(`WritersAlone`: a mutex has one holder, a writer holds the rwlock alone), that
a value taken from the counter is not ahead of it and that the holder's is the
last, and that a guest who has hit the piñata for the last time and not yet
looked is alone with it.  From it follow `DistinctPositions` and `BrokenOnce`.

`CourseInv`, for all the programs, is the course of main.  Its place tells
which threads may run (`Path`: none before the loop of creations, those below
`index` in it, those not joined yet in the loop of joins, none after it) and what
is reserved (`Reserves`), from which `NothingUsedAfterRelease` follows, with the
exception the property makes.  In
`recursiveHello` it is each thread that joins another, so `Chain` says who
waits for whom along the whole chain.  `StatusInv` relates the exit status to
the set of what was refused, at every place of main and not only at its end;
`Safe` says that nothing fatal was refused, which is what `Path` and the parts
about joins and texts rest on.  `StatusTells` follows.

`GreetingsInOrder` is the refinement of `OrderedGreetings`.  It adds
`OrderInv`, one part per program, because each keeps the order for a reason of
its own: with a chain of semaphores, one thread at most has the turn, and it is
the next one (`TurnIsOne`); `hello_order_cond_safe` prints in main, from the
first text on (`TextsInOrder`); in the busy wait the counter without a lock
stands at the only thread past its wait (`CounterIsTurn`); `hello_w` joins
each thread before the next is created (`OneAtATime`); in the race the counter
is the number of runners that have a position, printed under the lock
(`RaceInOrder`); and in the recursion nobody is created before its creator has
greeted (`ChainInOrder`).

**MPI examples.**  `MpiExamplesProofs`, for every number of processes, size of
the buffer and length of what is sent, with and without buffered sends.  The
inductive invariant says of each program exactly which messages are in transit,
given where the processes are: the one token of the chain, the greetings not yet
collected, the ball when no player has it, the length and the data that process
0 has sent and the others have not received.  Nothing else is in any channel, so
what a process receives is what it expects: from it follow `SentArrivesWhole`,
and `RanksGreetInOrder`, the refinement of `OrderedGreetings`.

**Whole runs.**  `HeatJobsProofs`, for every job file, number of jobs, rows and
iterations.  `PInv` says that the plates in memory are those of the results and
those the job under way has in its current phase (`Working`), which are never
among them (`Owners`), and what each phase knows of the job and of the two plates
an iteration uses (`Phases`).  With OpenMP the plates returned are kept apart from those stored.
`PlatesAreOwned` follows.  `TimesAreExact` is arithmetic: five divisions, each of
what the one before has left, and products that `FitsInt` shows an int to hold
when the years do (`TimeFits`).

`JobsInLockstep` adds `LoopInv`: a job starts from the first state of a
simulation, whatever the job before left, and the flag of a complete iteration
says that no row moved, in the sense of its version.  Each step of a loop is then
a step of `HeatLockstep` or none.

`ReportsAreFaithful` adds three: in the OpenMP loop the plate given is written in
the odd iterations and keeps the one before in the even ones (`SwapInv`); the
plate of each result goes on holding what was computed into it, as the plates of
the jobs after it are others (`ResultsInv`, from `Owners`); and the report and
the files are those of the jobs so far (`ReportInv`).  Jobs with the same stem
and as many iterations write the same file, which keeps the plate of the last.

**Nobody waits in vain.**  Deadlock freedom, for every value of the constants.
ENABLED is out of the prover's reach, so each theorem says with the guards of the
actions (`CanGoOn`, `Ready`) that somebody's next step is possible.  On instances
of the size of section 3 TLC found those guards equal to ENABLED of the action.
That some step is always possible does not say that the run ends: that stays
liveness.

* `TeamNeverStops`, `DynamicNeverStops`: a team whose threads were all created,
  until it is joined.  The last to arrive at the barrier, and the last to leave,
  wait for a turnstile while they hold the mutex the others need; `HalfInv` and
  `LastInv` say that the permit is then there or with a thread that brings it.
  `AwakeInv` adds that not all are at the closed gate of the half they are in,
  and that a thread that was created has begun.
* `NeverAllWaiting` of `HeatMpi`, with synchronous sends, until the report is
  written or a missing plate ends the job.  Rank 0 waits for anybody's request,
  for a part of a result, or for a send to be taken; `RanksInv` gives the rank
  that owes it the message.  `ResultsExpected` adds that some rank is not yet
  dismissed while rank 0 waits for results.
* `NeverAllWaiting` of `MpiExamples`, also when a send waits for its receiver.
  `SendsToAll` adds that process 0 goes on to the last receiver, and `OnlyTwoPlay`
  that without exactly two processes there is no ball.
* `NeverStuck` of `ProdConsBound`, in every state before the exit, whatever
  thread was not created: both semaphores cannot be zero with both threads
  waiting, and who ends leaves enough posts for the other.  `CreatedInv` says
  that main only joins threads it has created.
* `NeverJoinsBlocked` of `TaskTeam`, when every thread was created.  Stronger
  than deadlock freedom: the routine main joins never waits at a semaphore that
  is zero.  The routines before it are done, they have made every post it may need
  (`OrderAssumption`), and those after it have not taken more than their own part
  (`BalanceAssumption`, `CountInv`).  When a thread was not created, those
  that need its posts do wait for ever, and so does main if it joins one of them.
  `BornInv` adds that each routine main has counted has a thread or failed.
* `NobodyWaitsInVain` of `ThreadExamples`, whatever was refused but the semaphore
  of the first turn: each program for its own reason.  A chain of semaphores gives the turn to a thread that exists
  (`TurnGiven`), because those that exist are the first
  ones (`CreatedInOrder`); the counter of the busy wait stands at the least thread
  that has not ended; in the recursion the one furthest down the chain waits for
  nobody; and a lock's holder waits for nothing.  Main only waits for a thread
  that runs.

**Model-checked only.**  `EventuallyReturns`, `EventuallyWritten`, `Terminates`,
`GraphCompletes` and `Progress`: liveness is out of the prover's reach.  What
`HeatMpi` does with buffered sends, and the other findings: they are
counterexamples.  The inductive invariants were checked by TLC on the instances
of section 3 before they were proved, and are not in the runs any more.

## 5. Not modelled, and the plan

Not modelled:

* in the simulations: failed `malloc`s, the time measured, the text of a job
  line, the bytes of a plate, temperatures beyond what they do to the balance;
* `omp_mpi` with one process: the report is made of uninitialised memory;
* `create_thread`, `create_threads` and `join_thread` of `ethread.c`: no program
  calls them;
* the product of iterations and duration as a `double`, exact here;
* `prod_cons_unbound`: `consumer.c` is a copy of `main.c` and `queue.c` ends in
  the middle of a function;
* `network_simul_packet_loss`: `Queue.hpp` does not compile;
* `omp_mergesort`: the brace at the end of the line `#pragma omp taskgroup {`
  belongs to the pragma, so the braces of `mergesort.hpp` do not match;
* `mpi_hybrid_distr_arg` calls `getRank()` and `getSize()`, which `Mpi.hpp` does not
  have (it has `rank()` and `size()`), so it does not compile either; the
  arithmetic of its ranges is modelled as it is written;
* `omp_for`, `omp_team`, `mpi_hello`, the wrapper's `hello`, `square`: they only
  print, in an order nobody promises;
* `build_h2o`, `dancing_pairs`, `dining_philosophers`: pseudocode without a
  program; `src/common/Makefile`: no state.

Every other program of the repository has a model.  Of the plan nothing is left
but proofs of liveness, which stays with TLC.
