--------------------------- MODULE HeatJobsProofs ---------------------------
(***************************************************************************)
(* A heat run, for any jobs, plates and iterations: the time of a line is  *)
(* exact, every plate has one owner, each job is a simulation in lockstep, *)
(* and the report has every job, with the file of its plate.               *)
(***************************************************************************)
EXTENDS HeatJobs, SequenceTheorems, TLAPS

(* An int that is not negative is what is left of it.                      *)
LEMMA SmallRemainder == ASSUME NEW m \in Nat \ {0}, NEW a \in 0 .. m - 1 PROVE a % m = a
<1>1. a \in Int /\ m \in Int /\ m > 0 /\ 0 <= a /\ a < m
  OBVIOUS
<1> QED BY <1>1, SMTT(30)

(* A number that fits into an int is kept as it is.                        *)
LEMMA FitsInt ==
  ASSUME NEW x \in 0 .. IntMax
  PROVE  Wrapped(x) = x
<1> DEFINE m == 2 * (IntMax + 1)
           a == x + IntMax + 1
<1>1. m \in Nat \ {0} /\ a \in 0 .. m - 1
  BY IntMaxAssumption
<1>2. a % m = a
  <2> HIDE DEF m, a
  <2> QED BY <1>1, SmallRemainder
<1> QED BY <1>2, IntMaxAssumption DEF Wrapped

(* format_time() of the homeworks loses no second while the years of the   *)
(* time fit into an int, and a year has a thirteenth month of five days.   *)
THEOREM TimesAreExact ==
  \A seconds \in Nat : TimeFits(seconds) => TimeExact(seconds, FormatTime(seconds))
<1> SUFFICES ASSUME NEW seconds \in Nat, TimeFits(seconds)
             PROVE  TimeExact(seconds, FormatTime(seconds))
  OBVIOUS
<1> DEFINE years  == seconds \div 31536000      inYear   == seconds - years * 31536000
           months == inYear \div 2592000        inMonth  == inYear - months * 2592000
           days   == inMonth \div 86400         inDay    == inMonth - days * 86400
           hours  == inDay \div 3600            inHour   == inDay - hours * 3600
           minutes == inHour \div 60            inMinute == inHour - minutes * 60
<1>1. Minute = 60 /\ Hour = 3600 /\ Day = 86400 /\ Month = 2592000 /\ Year = 31536000
  BY SMT DEF Minute, Hour, Day, Month, Year
<1>2. IntMax \in Nat /\ IntMax >= 31536000 /\ years * 31536000 <= IntMax
  BY <1>1, IntMaxAssumption DEF TimeFits
<1>3. years \in Nat /\ inYear \in Nat /\ inYear < 31536000
      /\ seconds = years * 31536000 + inYear
  BY SMT
<1>4. Units(seconds, Year) = years /\ Left(seconds, Year) = inYear
  <2>1. years \in 0 .. IntMax /\ years * 31536000 \in 0 .. IntMax
    BY <1>2, <1>3, SMT
  <2>2. Wrapped(years) = years /\ Wrapped(years * 31536000) = years * 31536000
    BY <2>1, FitsInt
  <2> QED BY <1>1, <2>2 DEF Units, Left
<1> HIDE DEF years, inYear
<1>5. months \in Nat /\ months < 13 /\ inMonth \in Nat /\ inMonth < 2592000
      /\ inYear = months * 2592000 + inMonth
  BY <1>3, SMT
<1>6. Units(inYear, Month) = months /\ Left(inYear, Month) = inMonth
  <2>1. months \in 0 .. IntMax /\ months * 2592000 \in 0 .. IntMax
    BY <1>2, <1>3, <1>5, SMT
  <2>2. Wrapped(months) = months /\ Wrapped(months * 2592000) = months * 2592000
    BY <2>1, FitsInt
  <2> QED BY <1>1, <2>2 DEF Units, Left
<1> HIDE DEF months, inMonth
<1>7. days \in Nat /\ days < 30 /\ inDay \in Nat /\ inDay < 86400
      /\ inMonth = days * 86400 + inDay
  BY <1>5, SMT
<1>8. Units(inMonth, Day) = days /\ Left(inMonth, Day) = inDay
  <2>1. days \in 0 .. IntMax /\ days * 86400 \in 0 .. IntMax
    BY <1>2, <1>5, <1>7, SMT
  <2>2. Wrapped(days) = days /\ Wrapped(days * 86400) = days * 86400
    BY <2>1, FitsInt
  <2> QED BY <1>1, <2>2 DEF Units, Left
<1> HIDE DEF days, inDay
<1>9. hours \in Nat /\ hours < 24 /\ inHour \in Nat /\ inHour < 3600
      /\ inDay = hours * 3600 + inHour
  BY <1>7, SMT
<1>10. Units(inDay, Hour) = hours /\ Left(inDay, Hour) = inHour
  <2>1. hours \in 0 .. IntMax /\ hours * 3600 \in 0 .. IntMax
    BY <1>2, <1>7, <1>9, SMT
  <2>2. Wrapped(hours) = hours /\ Wrapped(hours * 3600) = hours * 3600
    BY <2>1, FitsInt
  <2> QED BY <1>1, <2>2 DEF Units, Left
<1> HIDE DEF hours, inHour
<1>11. minutes \in Nat /\ minutes < 60 /\ inMinute \in Nat /\ inMinute < 60
       /\ inHour = minutes * 60 + inMinute
  BY <1>9, SMT
<1>12. Units(inHour, Minute) = minutes /\ Left(inHour, Minute) = inMinute
       /\ Wrapped(inMinute) = inMinute
  <2>1. minutes \in 0 .. IntMax /\ minutes * 60 \in 0 .. IntMax /\ inMinute \in 0 .. IntMax
    BY <1>2, <1>9, <1>11, SMT
  <2>2. Wrapped(minutes) = minutes /\ Wrapped(minutes * 60) = minutes * 60
        /\ Wrapped(inMinute) = inMinute
    BY <2>1, FitsInt
  <2> QED BY <1>1, <2>2 DEF Units, Left
<1> HIDE DEF minutes, inMinute
<1>13. FormatTime(seconds) = [years |-> years, months |-> months, days |-> days,
                              hours |-> hours, minutes |-> minutes, secs |-> inMinute]
  BY <1>4, <1>6, <1>8, <1>10, <1>12 DEF FormatTime
<1>14. months = 12 => days < 5
  BY <1>3, <1>5, <1>7, <1>9, <1>11, SMT
<1> QED
  BY <1>1, <1>3, <1>5, <1>7, <1>9, <1>11, <1>13, <1>14, SMT DEF TimeExact, Recompose

-----------------------------------------------------------------------------
(* The plates of the jobs done belong to the results, of rank 0 and, with  *)
(* OpenMP, of the workers, and the others in memory to the simulation that *)
(* runs.                                                                   *)

Ended == {"exit", "failed", "crashed"}

Owned == Stored \union Returned

Results == [plate : Nat, iterations : Nat]

Working ==
  CASE phase \in {"top", "rows"} -> {source, target}
    [] phase = "team"            -> {given, given + 1}
    [] OTHER                     -> {}

Held == [plate : Plates, iteration : Nat]

Types ==
  /\ input.lines \in Seq(Plates)
  /\ input.version \in Versions
  /\ job \in Nat /\ iteration \in Nat
  /\ holds \in Seq(Held)
  /\ results \in Seq(Results) /\ returned \in Seq(Results)
  /\ source \in Nat /\ target \in Nat /\ given \in Nat

(* Where the phases come from.                                             *)
Phases ==
  /\ phase \in {"plate", "top", "rows", "team", "send", "next"} => job \in 1 .. JobsCount
  /\ phase \in {"arguments", "jobs"} => job = 1 /\ results = <<>> /\ returned = <<>>
  /\ phase \in {"plate", "top", "rows", "team"} => Len(returned) = job - 1
  /\ phase \in {"send", "next"} => Len(returned) = job
  /\ phase = "send" => input.version = "omp"
  /\ phase = "team" => input.version = "team"
  /\ phase = "top" => input.version = "serial"
  /\ phase = "rows" => source # target
  /\ phase = "rows" /\ input.version = "omp" => {source, target} = {given, given + 1}

Owners ==
  /\ ~ misused
  /\ \A i, j \in DOMAIN results : results[i].plate = results[j].plate => i = j
  /\ \A i, j \in DOMAIN returned : returned[i].plate = returned[j].plate => i = j
  /\ IF input.version = "omp" THEN Stored \intersect Returned = {} ELSE results = returned
  /\ Owned \subseteq 1 .. Len(holds)
  /\ phase \notin Ended =>
       /\ live = Owned \union Working /\ Owned \intersect Working = {}
       /\ Working \subseteq 1 .. Len(holds)
  /\ phase = "exit" => live = IF input.version = "omp" THEN Returned ELSE {}

PInv == Types /\ Phases /\ Owners

LEMMA InitPInv == Init => PInv
<1> SUFFICES ASSUME Init PROVE PInv
  OBVIOUS
<1>1. input \in Inputs
  BY DEF Init
<1>2. input.version \in Versions
      /\ input.lines \in UNION {[1 .. n -> Plates] : n \in 0 .. MaxJobs}
  BY <1>1 DEF Inputs
<1>3. input.lines \in Seq(Plates)
  BY <1>2, SeqDef, HeatJobsAssumption
<1>4. Types
  BY <1>2, <1>3 DEF Init, Types
<1>5. Phases /\ Owners
  BY DEF Init, Phases, Owners, Ended, Owned, Stored, Returned, Working
<1> QED
  BY <1>4, <1>5 DEF PInv

(* Without new results their plates are the same.                          *)
LEMMA SameOwned ==
  ASSUME UNCHANGED stored
  PROVE  /\ results' = results /\ returned' = returned
         /\ Stored' = Stored /\ Returned' = Returned /\ Owned' = Owned
BY DEF stored, Stored, Returned, Owned

(* The names of the jobs are names of plates.                              *)
LEMMA ContentHeld ==
  ASSUME Types, job \in 1 .. JobsCount
  PROVE  \A i \in Nat : Content(i) \in Held
<1>1. job \in 1 .. Len(input.lines)
  BY LenProperties DEF Types, JobsCount
<1> QED
  BY <1>1, ElementOfSeq DEF Types, Content, Held

LEMMA InputPInv == ASSUME PInv, InputStep PROVE PInv'
<1>1. Types /\ Phases /\ Owners
  BY DEF PInv
<1>2. CASE SerialArguments \/ TeamArguments \/ ReadJobData \/ PlateMissing
  <2>1. UNCHANGED <<input, job, memory, handles, lockstep, changes, stored, output>>
    BY <1>2 DEF SerialArguments, TeamArguments, ReadJobData, PlateMissing, Stop
  <2>2. /\ phase \in {"arguments", "jobs", "plate"}
        /\ \/ phase' \in Ended
           \/ phase = "arguments" /\ phase' = "jobs"
           \/ phase = "jobs" /\ phase' = "report"
           \/ phase = "jobs" /\ phase' = "plate" /\ JobsCount > 0
        /\ phase' # "exit"
    <3>1. CASE SerialArguments \/ TeamArguments
      BY <3>1 DEF SerialArguments, TeamArguments, Stop, Ended
    <3>2. CASE ReadJobData
      BY <3>2 DEF ReadJobData, Stop, Ended
    <3>3. CASE PlateMissing
      BY <3>3 DEF PlateMissing, Stop, Ended
    <3> QED
      BY <1>2, <3>1, <3>2, <3>3
  <2>3. JobsCount \in Int /\ JobsCount' = JobsCount
    BY <1>1, <2>1, LenProperties DEF Types, JobsCount
  <2>4. Types' /\ Phases'
    BY <1>1, <2>1, <2>2, <2>3, SameOwned, EmptySeq
       DEF Types, Phases, memory, handles, lockstep, output, Ended
  <2>5. Owners'
    BY <1>1, <2>1, <2>2, SameOwned DEF Owners, memory, handles, lockstep, output, Ended, Working
  <2> QED
    BY <2>4, <2>5 DEF PInv
<1>3. CASE ReadSerialPlate
  <2>1. \A i \in Nat : Content(i) \in Held
    BY <1>1, <1>3, ContentHeld DEF Phases, ReadSerialPlate
  <2>2. holds' \in Seq(Held) /\ Len(holds') = Len(holds) + 1 /\ Len(holds) \in Nat
    BY <1>1, <1>3, <2>1, AppendProperties, LenProperties DEF Types, ReadSerialPlate
  <2>3. Types' /\ Phases'
    BY <1>1, <1>3, <2>2, SameOwned DEF Types, Phases, ReadSerialPlate, Fresh, JobsCount, lockstep
  <2>4. Owners'
    <3>1. /\ Owned' = Owned /\ UNCHANGED <<input, stored>> /\ misused' = misused
          /\ phase' = "top"
      BY <1>3, SameOwned DEF ReadSerialPlate
    <3>2. Working' = {Len(holds) + 1} /\ live' = live \union {Len(holds) + 1}
      BY <1>3 DEF ReadSerialPlate, Working, Fresh
    <3>3. live = Owned
      BY <1>1, <1>3 DEF Owners, ReadSerialPlate, Ended, Working
    <3> QED
      BY <1>1, <2>2, <3>1, <3>2, <3>3, SameOwned DEF Owners, Ended
  <2> QED
    BY <2>3, <2>4 DEF PInv
<1>4. CASE ReadPlate
  <2>1. \A i \in Nat : Content(i) \in Held
    BY <1>1, <1>4, ContentHeld DEF Phases, ReadPlate
  <2>2. holds' \in Seq(Held) /\ Len(holds') = Len(holds) + 2 /\ Len(holds) \in Nat
    <3>1. <<Content(0), Content(0)>> \in Seq(Held) /\ Len(<<Content(0), Content(0)>>) = 2
      BY <2>1
    <3> QED
      BY <1>1, <1>4, <3>1, ConcatProperties, LenProperties DEF Types, ReadPlate
  <2>3. Types' /\ Phases'
    BY <1>1, <1>4, <2>2, SameOwned
       DEF Types, Phases, ReadPlate, Fresh, JobsCount, lockstep, Versions
  <2>4. Owners'
    <3>1. Owned' = Owned /\ UNCHANGED <<input, stored>> /\ misused' = misused
          /\ phase' \in {"rows", "team"}
      BY <1>4, SameOwned DEF ReadPlate
    <3>2. Working' = {Len(holds) + 1, Len(holds) + 2}
          /\ live' = live \union {Len(holds) + 1, Len(holds) + 2}
      BY <1>4, <2>2 DEF ReadPlate, Working, Fresh
    <3>3. live = Owned
      BY <1>1, <1>4 DEF Owners, ReadPlate, Ended, Working
    <3> QED
      BY <1>1, <2>2, <3>1, <3>2, <3>3, SameOwned DEF Owners, Ended
  <2> QED
    BY <2>3, <2>4 DEF PInv
<1> QED
  BY <1>2, <1>3, <1>4 DEF InputStep

-----------------------------------------------------------------------------
(* The end of simulate(): what it returned has the plate kept, which goes  *)
(* into the results at once except with OpenMP.                            *)
Finished ==
  /\ results' \in Seq(Results) /\ returned' \in Seq(Results)
  /\ Len(returned') = Len(returned) + 1
  /\ phase' = IF input.version = "omp" THEN "send" ELSE "next"

PlatesOf(all) == {all[k].plate : k \in DOMAIN all}

Distinct(all) == \A i, j \in DOMAIN all : all[i].plate = all[j].plate => i = j

(* One more result is one more plate, another one if it is not there yet.  *)
LEMMA OneMore ==
  ASSUME NEW old \in Seq(Results), NEW result \in Results, NEW new, new = Append(old, result)
  PROVE  /\ new \in Seq(Results) /\ Len(new) = Len(old) + 1 /\ Len(old) \in Nat
         /\ PlatesOf(new) = PlatesOf(old) \union {result.plate}
         /\ Distinct(old) /\ result.plate \notin PlatesOf(old) => Distinct(new)
<1>1. new \in Seq(Results)
  BY AppendProperties
<1>2. /\ DOMAIN old = 1 .. Len(old) /\ DOMAIN new = 1 .. Len(old) + 1
      /\ Len(old) \in Nat /\ Len(new) = Len(old) + 1
      /\ \A k \in 1 .. Len(old) : new[k] = old[k]
      /\ new[Len(old) + 1] = result
  BY <1>1, AppendProperties, LenProperties
<1>3. PlatesOf(new) = PlatesOf(old) \union {result.plate}
  BY <1>2 DEF PlatesOf
<1>4. ASSUME Distinct(old), result.plate \notin PlatesOf(old) PROVE Distinct(new)
  <2>1. \A k \in 1 .. Len(old) : new[k].plate \in PlatesOf(old)
    BY <1>2 DEF PlatesOf
  <2>2. new[Len(old) + 1].plate \notin PlatesOf(old)
    BY <1>2, <1>4
  <2>3. \A i, j \in 1 .. Len(old) : new[i].plate = new[j].plate => i = j
    BY <1>2, <1>4 DEF Distinct
  <2> QED
    BY <1>2, <2>1, <2>2, <2>3 DEF Distinct
<1> QED
  BY <1>1, <1>2, <1>3, <1>4

LEMMA FinishOwners ==
  ASSUME Types, Owners, phase \in {"rows", "team"}, NEW plate, NEW other,
         NEW iterations \in Nat, Working = {plate, other}, plate # other, plate \in Nat,
         Finish(plate, iterations, other), Len(holds') = Len(holds), input' = input
  PROVE  Owners' /\ Finished
<1> DEFINE result == [plate |-> plate, iterations |-> iterations]
<1>1. /\ result \in Results /\ result.plate = plate
      /\ results \in Seq(Results) /\ returned \in Seq(Results)
      /\ returned' = Append(returned, result)
      /\ results' = IF input.version = "omp" THEN results ELSE Append(results, result)
      /\ phase' = IF input.version = "omp" THEN "send" ELSE "next"
  BY DEF Finish, Types, Results
<1> HIDE DEF result
<1>2. /\ plate \notin Owned /\ other \notin Owned /\ live = Owned \union {plate, other}
      /\ {plate, other} \subseteq 1 .. Len(holds) /\ ~ misused
      /\ plate \notin Returned /\ plate \notin Stored
  BY DEF Owners, Ended, Owned
<1>3. /\ returned' \in Seq(Results) /\ Len(returned') = Len(returned) + 1
      /\ Returned' = Returned \union {plate}
      /\ \A i, j \in DOMAIN returned' : returned'[i].plate = returned'[j].plate => i = j
  <2>1. Distinct(returned) /\ Returned = PlatesOf(returned)
    BY DEF Owners, Distinct, Returned, PlatesOf
  <2>2. /\ returned' \in Seq(Results) /\ Len(returned') = Len(returned) + 1
        /\ PlatesOf(returned') = PlatesOf(returned) \union {plate} /\ Distinct(returned')
    BY <1>1, <1>2, <2>1, OneMore
  <2> QED
    BY <2>1, <2>2 DEF Returned, PlatesOf, Distinct
<1>4. Finished
  BY <1>1, <1>3, AppendProperties DEF Finished
<1>5. /\ IF input.version = "omp" THEN Stored' \intersect Returned' = {} ELSE results' = returned'
      /\ Owned' = Owned \union {plate}
      /\ \A i, j \in DOMAIN results' : results'[i].plate = results'[j].plate => i = j
  <2>1. CASE input.version = "omp"
    <3>1. results' = results /\ Stored' = Stored
      BY <1>1, <2>1 DEF Stored
    <3> QED
      BY <1>2, <1>3, <2>1, <3>1 DEF Owners, Owned
  <2>2. CASE input.version # "omp"
    <3>1. results' = returned' /\ results = returned
      BY <1>1, <2>2 DEF Owners
    <3>2. Stored' = Returned' /\ Stored = Returned
      BY <3>1 DEF Stored, Returned
    <3> QED
      BY <1>3, <2>2, <3>1, <3>2 DEF Owned
  <2> QED
    BY <2>1, <2>2
<1>6. live' = Owned' /\ ~ misused' /\ phase' \in {"send", "next"}
  BY <1>1, <1>2, <1>5 DEF Finish, FreeAndReserve
<1>7. Owned' \subseteq 1 .. Len(holds') /\ Working' = {}
  BY <1>2, <1>5, <1>6 DEF Owners, Working
<1> QED
  BY <1>3, <1>4, <1>5, <1>6, <1>7 DEF Owners, Ended

(* A plate is written over.                                                *)
LEMMA HoldsExcept ==
  ASSUME Types, job \in 1 .. JobsCount, NEW p \in 1 .. Len(holds), NEW i \in Nat,
         holds' = [holds EXCEPT ![p] = Content(i)]
  PROVE  holds' \in Seq(Held) /\ Len(holds') = Len(holds)
BY ContentHeld, ExceptSeq DEF Types

(* A row changes nothing of this.                                          *)
LEMMA SameMemory ==
  ASSUME Types, Phases, Owners,
         UNCHANGED <<input, phase, job, memory, handles, iteration, stored>>
  PROVE  Types' /\ Phases' /\ Owners'
<1>1. Types'
  BY SameOwned DEF Types, memory, handles
<1>2. Phases'
  BY SameOwned DEF Phases, memory, handles, JobsCount
<1>3. Owners'
  BY SameOwned DEF Owners, memory, handles, Ended, Working
<1> QED
  BY <1>1, <1>2, <1>3

LEMMA SerialPInv == ASSUME PInv, SerialTop \/ SerialRow \/ SerialDecide PROVE PInv'
<1>1. Types /\ Phases /\ Owners
  BY DEF PInv
<1>2. CASE SerialTop
  <2>1. \A i \in Nat : Content(i) \in Held
    BY <1>1, <1>2, ContentHeld DEF Phases, SerialTop
  <2>2. holds' \in Seq(Held) /\ Len(holds') = Len(holds) + 1 /\ Len(holds) \in Nat
    BY <1>1, <1>2, <2>1, AppendProperties, LenProperties DEF Types, SerialTop
  <2>3. live = Owned \union {source, target} /\ Owned \intersect {source, target} = {}
        /\ {source, target} \subseteq 1 .. Len(holds)
    BY <1>1, <1>2 DEF SerialTop, Owners, Ended, Working
  <2>4. source' = target /\ target' = Len(holds) + 1 /\ phase' = "rows"
        /\ Owned' = Owned /\ UNCHANGED stored /\ job' = job /\ input' = input
        /\ given' = given
    BY <1>2, SameOwned DEF SerialTop, Fresh
  <2>5. live' = (live \ ToFree) \union {target'} /\ (misused' <=> misused)
    BY <1>2, <2>3, <2>4 DEF SerialTop, FreeAndReserve, Fresh, ToFree
  <2>6. iteration' \in Nat
    BY <1>1, <1>2 DEF SerialTop, lockstep, NextIteration, Types
  <2>7. Working' = {target, target'} /\ live' = Owned \union {target, target'}
    BY <1>1, <2>2, <2>3, <2>4, <2>5 DEF Working, ToFree, Owners
  <2>8. Owners'
    BY <1>1, <2>2, <2>3, <2>4, <2>5, <2>7, SameOwned DEF Owners, Ended
  <2>9. Types' /\ Phases'
    BY <1>1, <1>2, <2>2, <2>3, <2>4, <2>6, SameOwned DEF Types, Phases, SerialTop, JobsCount
  <2> QED
    BY <2>8, <2>9 DEF PInv
<1>3. CASE SerialRow
  <2>1. UNCHANGED <<input, phase, job, memory, handles, iteration, stored>>
    BY <1>3 DEF SerialRow, ComputeRow
  <2> QED
    BY <1>1, <2>1, SameMemory DEF PInv
<1>4. CASE SerialDecide
  <2>1. job \in 1 .. JobsCount /\ Working = {source, target} /\ source # target
        /\ {source, target} \subseteq 1 .. Len(holds)
    BY <1>1, <1>4 DEF Phases, SerialDecide, Owners, Ended, Working
  <2>2. holds' \in Seq(Held) /\ Len(holds') = Len(holds)
    BY <1>1, <1>4, <2>1, HoldsExcept DEF SerialDecide, Types
  <2>3. CASE calm
    <3>1. Owners' /\ Finished
      BY <1>1, <1>4, <2>1, <2>2, <2>3, FinishOwners DEF SerialDecide, Types
    <3>2. Types' /\ Phases'
      BY <1>1, <1>4, <2>1, <2>2, <3>1 DEF Types, Phases, SerialDecide, handles, JobsCount, Finished
    <3> QED
      BY <3>1, <3>2 DEF PInv
  <2>4. CASE ~ calm
    <3>1. UNCHANGED <<input, job, live, misused, handles, stored, iteration>> /\ phase' = "top"
      BY <1>4, <2>4 DEF SerialDecide
    <3>2. Types' /\ Phases'
      BY <1>1, <1>4, <2>1, <2>2, <3>1, SameOwned
         DEF Types, Phases, SerialDecide, handles, JobsCount
    <3>3. Working' = Working /\ phase = "rows"
      BY <1>4, <3>1 DEF SerialDecide, handles, Working
    <3>4. Owners'
      BY <1>1, <2>2, <3>1, <3>3, SameOwned DEF Owners, Ended
    <3> QED
      BY <3>2, <3>4 DEF PInv
  <2> QED
    BY <2>3, <2>4
<1> QED
  BY <1>2, <1>3, <1>4

LEMMA OmpPInv == ASSUME PInv, OmpRow \/ OmpDecide PROVE PInv'
<1>1. Types /\ Phases /\ Owners
  BY DEF PInv
<1>2. CASE OmpRow
  <2>1. UNCHANGED <<input, phase, job, memory, handles, iteration, stored>>
    BY <1>2 DEF OmpRow, ComputeRow
  <2> QED
    BY <1>1, <2>1, SameMemory DEF PInv
<1>3. CASE OmpDecide
  <2>1. job \in 1 .. JobsCount /\ Working = {source, target} /\ source # target
        /\ {source, target} \subseteq 1 .. Len(holds) /\ {source, target} = {given, given + 1}
        /\ phase = "rows" /\ job' = job /\ input' = input
    BY <1>1, <1>3 DEF Phases, OmpDecide, Owners, Ended, Working
  <2>2. holds' \in Seq(Held) /\ Len(holds') = Len(holds)
    BY <1>1, <1>3, <2>1, HoldsExcept DEF OmpDecide, Types
  <2>3. CASE calm
    <3>1. Owners' /\ Finished
      <4>1. Finish(given, iteration, given + 1) /\ Working = {given, given + 1}
        BY <1>3, <2>1, <2>3 DEF OmpDecide
      <4>2. given \in Nat /\ given # given + 1 /\ iteration \in Nat
        BY <1>1 DEF Types
      <4> QED
        BY <1>1, <2>1, <2>2, <4>1, <4>2, FinishOwners
    <3>2. Types' /\ Phases'
      BY <1>1, <1>3, <2>1, <2>2, <2>3, <3>1
         DEF Types, Phases, OmpDecide, handles, JobsCount, Finished
    <3> QED
      BY <3>1, <3>2 DEF PInv
  <2>4. CASE ~ calm
    <3>1. /\ UNCHANGED <<phase, given, live, misused, stored>>
          /\ source' = target /\ target' = source /\ iteration' = iteration + 1
      BY <1>3, <2>4 DEF OmpDecide, NextIteration
    <3>2. Types' /\ Phases'
      <4>1. Types'
        BY <1>1, <2>1, <2>2, <3>1, SameOwned DEF Types
      <4>2. {source', target'} = {given', given' + 1} /\ JobsCount' = JobsCount
        BY <2>1, <3>1 DEF JobsCount
      <4>3. Phases'
        BY <1>1, <2>1, <3>1, <4>2, SameOwned DEF Phases
      <4> QED
        BY <4>1, <4>3
    <3>3. Working' = Working
      BY <2>1, <3>1 DEF Working
    <3>4. Owners'
      BY <1>1, <2>1, <2>2, <3>1, <3>3, SameOwned DEF Owners, Ended
    <3> QED
      BY <3>2, <3>4 DEF PInv
  <2> QED
    BY <2>3, <2>4
<1> QED
  BY <1>2, <1>3

LEMMA TeamPInv == ASSUME PInv, TeamSimulate PROVE PInv'
<1>1. Types /\ Phases /\ Owners
  BY DEF PInv
<1> DEFINE computedLast(n) == IF input.threads = 0 THEN 0 ELSE IF n % 2 = 1 THEN n ELSE n - 1
<1>2. PICK n \in IF input.threads = 0 THEN {1} ELSE 3 .. MaxIterations + 2 :
        /\ iteration' = n
        /\ holds' = [holds EXCEPT ![given] = Content(computedLast(n))]
        /\ Finish(given, n, given + 1)
  BY DEF TeamSimulate
<1>3. n \in Nat /\ computedLast(n) \in Nat /\ given \in Nat /\ given # given + 1
  BY <1>1, HeatJobsAssumption DEF Types
<1>4. job \in 1 .. JobsCount /\ Working = {given, given + 1}
      /\ {given, given + 1} \subseteq 1 .. Len(holds)
  BY <1>1 DEF Phases, TeamSimulate, Owners, Ended, Working
<1>5. holds' \in Seq(Held) /\ Len(holds') = Len(holds)
  <2> HIDE DEF computedLast
  <2> QED
    BY <1>1, <1>2, <1>3, <1>4, HoldsExcept
<1>6. Owners' /\ Finished
  BY <1>1, <1>2, <1>3, <1>4, <1>5, FinishOwners DEF TeamSimulate, Types
<1>7. Types' /\ Phases'
  BY <1>1, <1>2, <1>3, <1>4, <1>5, <1>6
     DEF Types, Phases, TeamSimulate, handles, JobsCount, Finished
<1> QED
  BY <1>6, <1>7 DEF PInv

(* The worker keeps its plate, and the result gets a new one.              *)
LEMMA SendPInv == ASSUME PInv, SendResult PROVE PInv'
<1>1. Types /\ Phases /\ Owners
  BY DEF PInv
<1>2. /\ phase = "send" /\ phase' = "next" /\ input.version = "omp" /\ job \in 1 .. JobsCount
      /\ Len(returned) = job
      /\ UNCHANGED <<input, job, misused, handles, lockstep, returned>>
  BY <1>1 DEF SendResult, Phases
<1>3. PICK upper \in UpperHalves :
        results' = Append(results, [plate |-> Fresh,
                                    iterations |-> upper * Word + (returned[job].iterations % Word)])
  BY DEF SendResult
<1>4. job \in DOMAIN returned /\ returned[job] \in Results /\ job \in Nat
  <2>1. job \in 1 .. Len(returned)
    BY <1>1, <1>2 DEF Types
  <2> QED
    BY <1>1, <2>1, ElementOfSeq, LenProperties DEF Types
<1>5. /\ live = Owned /\ Returned \subseteq 1 .. Len(holds) /\ Stored \subseteq 1 .. Len(holds)
      /\ returned[job].plate \in Returned
  BY <1>1, <1>2, <1>4 DEF Owners, Ended, Working, Owned, Returned
<1>6. holds' \in Seq(Held) /\ Len(holds') = Len(holds) + 1 /\ Len(holds) \in Nat
  <2>1. holds[returned[job].plate] \in Held /\ Len(holds) \in Nat
    BY <1>1, <1>5, ElementOfSeq, LenProperties DEF Types
  <2> QED
    BY <1>1, <2>1, AppendProperties DEF Types, SendResult
<1> DEFINE received == upper * Word + (returned[job].iterations % Word)
           result == [plate |-> Fresh, iterations |-> received]
<1>7. result \in Results /\ result.plate = Len(holds) + 1
  <2>1. upper \in Nat /\ Word \in Nat \ {0} /\ returned[job].iterations \in Nat
    BY <1>4, HeatJobsAssumption DEF Results
  <2>2. upper * Word \in Nat /\ returned[job].iterations % Word \in Nat
    BY <2>1
  <2>3. received \in Nat
    BY <2>2
  <2> HIDE DEF received
  <2> QED
    BY <1>6, <2>3 DEF Fresh, Results
<1>8. results \in Seq(Results) /\ results' = Append(results, result)
  BY <1>1, <1>3 DEF Types
<1> HIDE DEF result
<1>9. /\ results' \in Seq(Results) /\ Stored' = Stored \union {Len(holds) + 1}
      /\ \A i, j \in DOMAIN results' : results'[i].plate = results'[j].plate => i = j
  <2>1. Len(holds) + 1 \notin Stored
    BY <1>5, <1>6
  <2>2. Distinct(results) /\ Stored = PlatesOf(results)
    BY <1>1 DEF Owners, Distinct, Stored, PlatesOf
  <2>3. /\ results' \in Seq(Results) /\ Distinct(results')
        /\ PlatesOf(results') = PlatesOf(results) \union {result.plate}
    <3>1. result.plate \notin PlatesOf(results)
      BY <1>7, <2>1, <2>2
    <3> QED
      BY <1>7, <1>8, <2>2, <3>1, OneMore
  <2>4. Stored' = PlatesOf(results')
    BY DEF Stored, PlatesOf
  <2>5. Stored' = Stored \union {Len(holds) + 1}
    BY <1>7, <2>2, <2>3, <2>4
  <2> QED
    BY <2>3, <2>5 DEF Distinct
<1>10. Returned' = Returned /\ returned' = returned
  BY <1>2 DEF Returned
<1>11. Owned' = Owned \union {Len(holds) + 1} /\ live' = Owned'
  BY <1>2, <1>5, <1>9, <1>10 DEF Owned, SendResult, Fresh
<1>12. Stored' \intersect Returned' = {}
  <2>1. Stored \intersect Returned = {}
    BY <1>1, <1>2 DEF Owners
  <2>2. Len(holds) + 1 \notin Returned
    BY <1>5, <1>6
  <2> QED
    BY <1>9, <1>10, <2>1, <2>2
<1>13. Owners'
  <2>1. Working' = {} /\ Owned' \subseteq 1 .. Len(holds')
    BY <1>2, <1>5, <1>6, <1>11 DEF Working, Owned
  <2> QED
    BY <1>1, <1>2, <1>9, <1>10, <1>11, <1>12, <2>1 DEF Owners, Ended
<1>14. Types' /\ Phases'
  BY <1>1, <1>2, <1>6, <1>9, <1>10 DEF Types, Phases, JobsCount, handles, lockstep
<1> QED
  BY <1>13, <1>14 DEF PInv

(* Between jobs, and the report: the results own what is left.             *)
LEMMA RestPInv == ASSUME PInv, NextJob \/ LastJob \/ OutputStep PROVE PInv'
<1>1. Types /\ Phases /\ Owners
  BY DEF PInv
<1>2. CASE NextJob \/ LastJob \/ OpenReport \/ WriteJobResult \/ WritePlate
  <2>1. UNCHANGED <<input, memory, handles, stored>>
    BY <1>2 DEF NextJob, LastJob, OpenReport, WriteJobResult, WritePlate, Stop
  <2>2. phase \in {"next", "report", "line", "file"}
        /\ phase' \in {"plate", "report", "line", "file", "free", "failed", "crashed"}
    BY <1>2 DEF NextJob, LastJob, OpenReport, WriteJobResult, WritePlate, Stop
  <2>3. /\ job' \in Nat /\ iteration' \in Nat
        /\ phase' = "plate" => job' \in 1 .. JobsCount /\ Len(returned) = job' - 1
    <3>1. JobsCount \in Int
      BY <1>1, LenProperties DEF Types, JobsCount
    <3>2. CASE NextJob
      BY <1>1, <3>1, <3>2 DEF NextJob, Phases
    <3>3. CASE LastJob \/ OpenReport
      BY <1>1, <3>3 DEF LastJob, OpenReport, Stop, lockstep, Types
    <3>4. CASE WriteJobResult \/ WritePlate
      BY <1>1, <3>4 DEF WriteJobResult, WritePlate, Stop, lockstep, Types
    <3> QED
      BY <1>2, <3>2, <3>3, <3>4
  <2>4. Types' /\ Phases'
    BY <1>1, <2>1, <2>2, <2>3, SameOwned DEF Types, Phases, memory, handles, JobsCount
  <2>5. Working' = {} /\ Working = {}
    BY <2>2 DEF Working
  <2>6. Owners'
    BY <1>1, <2>1, <2>2, <2>5, SameOwned DEF Owners, Ended, memory
  <2> QED
    BY <2>4, <2>6 DEF PInv
<1>3. CASE FreeResults
  <2>1. live = Owned
    BY <1>1, <1>3 DEF FreeResults, Owners, Ended, Working
  <2>2. live' = Owned \ Stored /\ (misused' <=> misused)
    BY <1>3, <2>1 DEF FreeResults, FreeAndReserve, Owned, Stored
  <2>3. live' = IF input.version = "omp" THEN Returned ELSE {}
    <3>1. CASE input.version = "omp"
      BY <1>1, <2>2, <3>1 DEF Owners, Owned
    <3>2. CASE input.version # "omp"
      <4>1. Stored = Returned
        BY <1>1, <3>2 DEF Owners, Stored, Returned
      <4> QED
        BY <2>2, <3>2, <4>1 DEF Owned
    <3> QED
      BY <3>1, <3>2
  <2>4. UNCHANGED <<input, job, holds, handles, lockstep, stored>> /\ phase' = "exit"
    BY <1>3 DEF FreeResults
  <2>5. Types' /\ Phases' /\ Owners'
    BY <1>1, <2>2, <2>3, <2>4, SameOwned
       DEF Types, Phases, Owners, JobsCount, Ended, lockstep, handles
  <2> QED
    BY <2>5 DEF PInv
<1> QED
  BY <1>2, <1>3 DEF OutputStep

LEMMA NextPInv == PInv /\ [Next]_vars => PInv'
<1>1. ASSUME PInv, Next, ~ Done PROVE PInv'
  BY <1>1, InputPInv, SerialPInv, OmpPInv, SendPInv, TeamPInv, RestPInv
     DEF Next, SimulateStep
<1>2. ASSUME PInv, UNCHANGED vars PROVE PInv'
  BY <1>2, SameMemory DEF vars, PInv, lockstep
<1> QED
  BY <1>1, <1>2 DEF Next, Done

LEMMA PlatesInvariant == Spec => []PInv
BY InitPInv, NextPInv, PTL DEF Spec

-----------------------------------------------------------------------------
(* Each job in lockstep.                                                   *)

(* A job starts afresh, its loop goes on while a row of a complete         *)
(* iteration moves, and it is calm exactly while no row has moved.         *)
LoopInv ==
  /\ input.rows \in [Plates -> 0 .. MaxRows]
  /\ phase \in {"arguments", "jobs", "plate"} =>
       iteration = 1 /\ computed = {} /\ calm = TRUE /\ status = "running" /\ changes = {}
  /\ phase \in {"top", "rows"} =>
       /\ status = "running" /\ iteration > 0 /\ calm \in BOOLEAN /\ changes \subseteq Changes
       /\ calm <=> changes \intersect Moving = {}
  /\ phase = "top" /\ source # target => computed = Rows /\ ~ calm
  /\ phase \in {"send", "next"} => status = "balanced"

LEMMA InitLoop == Init => LoopInv
<1> SUFFICES ASSUME Init PROVE LoopInv
  OBVIOUS
<1>1. input.rows \in [Plates -> 0 .. MaxRows]
  BY DEF Init, Inputs
<1> QED BY <1>1 DEF Init, LoopInv

(* The rows of the plate being computed.                                   *)
LEMMA RowsBounded ==
  ASSUME PInv, LoopInv, phase \in {"top", "rows"}
  PROVE  \E n \in 0 .. MaxRows : Rows = 1 .. n
<1>1. job \in 1 .. Len(input.lines)
  BY LenProperties DEF PInv, Types, Phases, JobsCount
<1>2. input.lines[job] \in Plates
  BY <1>1, ElementOfSeq DEF PInv, Types
<1>3. input.rows[input.lines[job]] \in 0 .. MaxRows
  BY <1>2 DEF LoopInv
<1> QED BY <1>3 DEF Rows

(* What a step does to the loop.                                           *)
LoopStep ==
  /\ \/ UNCHANGED lockstep
     \/ phase \in {"top", "rows"} /\ \E n \in 0 .. MaxRows : Rows = 1 .. n /\ Lockstep(n)!Next
     \/ status = "balanced" /\ Lockstep(0)!Init'
     \/ phase = "team"
  /\ phase = "rows" /\ phase' \in {"send", "next"} => changes \intersect Moving = {}
  /\ phase \in {"top", "rows"} /\ iteration' # iteration => changes \intersect Moving # {}

LEMMA RowLoop ==
  ASSUME PInv, LoopInv, SerialRow \/ OmpRow
  PROVE  LoopInv' /\ LoopStep
<1>1. phase = "rows" /\ UNCHANGED <<input, phase, job, memory, handles, iteration, status>>
      /\ Moving' = Moving /\ Rows' = Rows
  BY DEF SerialRow, OmpRow, ComputeRow, Moving, Rows
<1>2. PICK row \in Rows, change \in Changes : ComputeRow(row, change, Moving)
  BY DEF SerialRow, OmpRow, Moving, OmpMoving
<1>3. /\ row \notin computed /\ computed' = computed \union {row}
      /\ calm' = (calm /\ change \notin Moving) /\ changes' = changes \union {change}
  BY <1>2 DEF ComputeRow
<1>4. LoopInv'
  BY <1>1, <1>2, <1>3 DEF LoopInv
<1>5. PICK n \in 0 .. MaxRows : Rows = 1 .. n
  BY <1>1, RowsBounded
<1>6. Lockstep(n)!FinishPart(row)
  BY <1>1, <1>3 DEF LoopInv, Lockstep!FinishPart
<1>7. Lockstep(n)!Next
  BY <1>2, <1>5, <1>6 DEF Lockstep!Next
<1> QED BY <1>1, <1>4, <1>5, <1>7 DEF LoopStep, LoopInv

(* The end of an iteration, or of the simulation.                          *)
LEMMA DecideLoop ==
  ASSUME PInv, LoopInv, SerialDecide \/ OmpDecide
  PROVE  LoopInv' /\ LoopStep
<1>1. phase = "rows" /\ computed = Rows /\ input' = input /\ job' = job /\ Rows' = Rows
      /\ Moving' = Moving
  BY DEF SerialDecide, OmpDecide, Rows, Moving
<1>2. PICK n \in 0 .. MaxRows : Rows = 1 .. n
  BY <1>1, RowsBounded
<1>3. status = "running" /\ iteration > 0 /\ iteration \in Nat /\ calm \in BOOLEAN
      /\ changes \subseteq Changes /\ (calm <=> changes \intersect Moving = {})
  BY <1>1 DEF LoopInv, PInv, Types
<1>4. CASE calm
  <2>1. /\ status' = "balanced" /\ phase' \in {"send", "next"}
        /\ UNCHANGED <<iteration, computed, calm>>
    BY <1>4 DEF SerialDecide, OmpDecide, Finish
  <2>2. Lockstep(n)!DeclareBalanced
    BY <1>1, <1>2, <1>3, <1>4, <2>1 DEF Lockstep!DeclareBalanced, Lockstep!Balanced
  <2>3. Lockstep(n)!Next
    BY <2>2 DEF Lockstep!Next
  <2>4. LoopInv'
    BY <1>1, <2>1 DEF LoopInv
  <2> QED BY <1>1, <1>2, <1>3, <1>4, <2>1, <2>3, <2>4 DEF LoopStep
<1>5. CASE ~ calm /\ SerialDecide
  <2>1. phase' = "top" /\ UNCHANGED <<iteration, computed, calm, status, changes>>
    BY <1>5 DEF SerialDecide
  <2>2. LoopInv'
    BY <1>1, <1>3, <1>5, <2>1 DEF LoopInv
  <2> QED BY <1>3, <2>1, <2>2 DEF LoopStep, lockstep
<1>6. CASE ~ calm /\ OmpDecide
  <2>1. phase' = phase /\ NextIteration
    BY <1>6 DEF OmpDecide
  <2>2. Lockstep(n)!NextIteration
    BY <1>1, <1>2, <1>3, <1>6, <2>1 DEF NextIteration, Lockstep!NextIteration, Lockstep!Balanced
  <2>3. Lockstep(n)!Next
    BY <2>2 DEF Lockstep!Next
  <2>4. LoopInv'
    BY <1>1, <1>3, <2>1 DEF LoopInv, NextIteration
  <2>5. changes \intersect Moving # {} /\ phase' = "rows"
    BY <1>1, <1>3, <1>6, <2>1
  <2> QED BY <1>1, <1>2, <2>3, <2>4, <2>5 DEF LoopStep
<1> QED BY <1>3, <1>4, <1>5, <1>6

(* The first pass of the serial loop goes to its first iteration, the      *)
(* others to the next.                                                     *)
LEMMA TopLoop ==
  ASSUME PInv, LoopInv, SerialTop
  PROVE  LoopInv' /\ LoopStep
<1>1. phase = "top" /\ phase' = "rows" /\ input' = input /\ Moving' = Moving
      /\ IF source = target THEN UNCHANGED <<lockstep, changes>> ELSE NextIteration
  BY DEF SerialTop, Moving
<1>2. status = "running" /\ iteration > 0 /\ iteration \in Nat /\ calm \in BOOLEAN
      /\ changes \subseteq Changes /\ (calm <=> changes \intersect Moving = {})
  BY <1>1 DEF LoopInv, PInv, Types
<1>3. CASE source = target
  BY <1>1, <1>2, <1>3 DEF LoopInv, LoopStep, lockstep
<1>4. CASE source # target
  <2>1. PICK n \in 0 .. MaxRows : Rows = 1 .. n
    BY <1>1, RowsBounded
  <2>2. computed = Rows /\ ~ calm
    BY <1>1, <1>4 DEF LoopInv
  <2>3. Lockstep(n)!NextIteration
    BY <1>1, <1>2, <1>4, <2>1, <2>2 DEF NextIteration, Lockstep!NextIteration, Lockstep!Balanced
  <2>4. Lockstep(n)!Next
    BY <2>3 DEF Lockstep!Next
  <2>5. LoopInv'
    BY <1>1, <1>2, <1>4 DEF LoopInv, NextIteration
  <2>6. changes \intersect Moving # {}
    BY <1>2, <2>2
  <2> QED BY <1>1, <2>1, <2>4, <2>5, <2>6 DEF LoopStep
<1> QED BY <1>3, <1>4

(* Outside the loops.                                                      *)
LEMMA RestLoop ==
  ASSUME PInv, LoopInv,
         InputStep \/ SendResult \/ TeamSimulate \/ NextJob \/ LastJob \/ OutputStep
           \/ UNCHANGED vars
  PROVE  LoopInv' /\ LoopStep
<1>1. input' = input /\ Moving' = Moving
  BY DEF InputStep, SerialArguments, TeamArguments, ReadJobData, ReadSerialPlate, ReadPlate,
     PlateMissing, Stop, SendResult, TeamSimulate, NextJob, LastJob, OutputStep, OpenReport, WriteJobResult,
     WritePlate, FreeResults, Moving, vars
<1>2. CASE InputStep
  <2>1. /\ phase \in {"arguments", "jobs", "plate"} /\ UNCHANGED <<lockstep, changes>>
        /\ phase' \notin {"send", "next"} /\ (phase' = "top" => source' = target')
    BY <1>2 DEF InputStep, SerialArguments, TeamArguments, ReadJobData, ReadSerialPlate, ReadPlate,
       PlateMissing, Stop
  <2>2. iteration = 1 /\ computed = {} /\ calm = TRUE /\ status = "running" /\ changes = {}
    BY <2>1 DEF LoopInv
  <2>3. iteration' = 1 /\ computed' = {} /\ calm' = TRUE /\ status' = "running" /\ changes' = {}
    BY <2>1, <2>2 DEF lockstep
  <2>4. input'.rows \in [Plates -> 0 .. MaxRows]
    BY <1>1 DEF LoopInv
  <2>5. LoopInv'
    BY <2>1, <2>3, <2>4 DEF LoopInv
  <2> QED BY <2>1, <2>5 DEF LoopStep, lockstep
<1>3. CASE SendResult \/ TeamSimulate
  <2>1. CASE SendResult
    BY <1>1, <2>1 DEF SendResult, lockstep, LoopInv, LoopStep
  <2>2. CASE TeamSimulate
    <3>1. phase = "team" /\ phase' \in {"send", "next"} /\ status' = "balanced"
      BY <2>2 DEF TeamSimulate, Finish
    <3> QED BY <1>1, <3>1 DEF LoopInv, LoopStep
  <2> QED BY <1>3, <2>1, <2>2
<1>4. CASE NextJob
  <2>1. Lockstep(0)!Init' /\ status = "balanced"
    BY <1>4 DEF NextJob, Lockstep!Init, LoopInv
  <2> QED BY <1>1, <1>4, <2>1 DEF NextJob, LoopInv, LoopStep
<1>5. CASE LastJob \/ OutputStep
  <2>1. phase \in {"next", "report", "line", "file", "free"} /\ UNCHANGED lockstep
        /\ phase' \in {"report", "line", "file", "free", "exit", "failed", "crashed"}
    BY <1>5 DEF LastJob, OutputStep, OpenReport, WriteJobResult, WritePlate, FreeResults, Stop
  <2> QED BY <1>1, <2>1 DEF LoopInv, LoopStep, lockstep
<1>6. CASE UNCHANGED vars
  <2>1. UNCHANGED <<phase, job, source, target, lockstep, changes>>
    BY <1>6 DEF vars, handles
  <2>2. Rows' = Rows
    BY <1>1, <2>1 DEF Rows
  <2> QED BY <1>1, <2>1, <2>2 DEF LoopInv, LoopStep, lockstep
<1> QED BY <1>2, <1>3, <1>4, <1>5, <1>6

LEMMA NextLoop ==
  ASSUME PInv, LoopInv, [Next]_vars
  PROVE  LoopInv' /\ LoopStep
BY RowLoop, DecideLoop, TopLoop, RestLoop DEF Next, SimulateStep, Done

LEMMA LoopInvariant == Spec => []LoopInv
<1>1. PInv /\ LoopInv /\ [Next]_vars => LoopInv'
  BY NextLoop
<1> QED BY <1>1, InitLoop, PlatesInvariant, PTL DEF Spec

(* Each job is a simulation in lockstep from its first iteration on,       *)
(* whatever the job before left behind, for every plate and every number   *)
(* of rows, and it stops with the first iteration in which no row moves:   *)
(* with OpenMP, changes; in the serial version, rises.                     *)
THEOREM JobsInLockstep == Spec => EachJobLockstep
<1>1. PInv /\ LoopInv /\ [Next]_vars => [LoopStep]_vars
  BY NextLoop
<1>2. Spec => [][LoopStep]_vars
  BY <1>1, PlatesInvariant, LoopInvariant, PTL DEF Spec
<1> QED BY <1>2, PTL DEF EachJobLockstep, LoopStep

-----------------------------------------------------------------------------
(* The report.                                                             *)

(* The loop with OpenMP swaps its plates: the plate given is written in    *)
(* the odd iterations and keeps the one before in the even ones.           *)
SwapInv ==
  phase = "rows" /\ input.version = "omp" =>
    /\ iteration > 0
    /\ iteration % 2 = 1 => target = given
    /\ iteration % 2 = 0 => target = given + 1 /\ holds[given] = Content(iteration - 1)

(* What the plates of some results hold.                                   *)
PlatesHold(all) == \A k \in DOMAIN all : holds[all[k].plate] = FileContent(k)

(* Each job done has been returned, its plate holds what was computed, and *)
(* its result has a plate that holds the same and the iterations, or the   *)
(* half of them that a message carries.                                    *)
ResultsInv ==
  /\ input.lines = <<>> => input.terminated = TRUE
  /\ input.terminated \in BOOLEAN /\ input.duration \in Nat
  /\ phase \in {"report", "line", "file", "free", "exit"} => Len(returned) = JobsCount
  /\ Len(results) = IF phase = "send" THEN Len(returned) - 1 ELSE Len(returned)
  /\ PlatesHold(returned) /\ PlatesHold(results)
  /\ input.version = "omp" =>
       \A k \in DOMAIN results : \E upper \in UpperHalves :
         results[k].iterations = upper * Word + (returned[k].iterations % Word)

LEMMA InitResults == Init => SwapInv /\ ResultsInv
<1> SUFFICES ASSUME Init PROVE SwapInv /\ ResultsInv
  OBVIOUS
<1>1. input \in Inputs /\ Relevant(input)
  BY DEF Init
<1>2. input.terminated \in BOOLEAN /\ input.duration \in Nat
  BY <1>1, HeatJobsAssumption DEF Inputs
<1>3. input.lines = <<>> => input.terminated = TRUE
  BY <1>1, <1>2 DEF Relevant
<1> QED BY <1>2, <1>3 DEF Init, SwapInv, ResultsInv, PlatesHold

(* The plates of the results are not written any more.                     *)
LEMMA ResultsKept ==
  ASSUME PInv, ResultsInv, phase \notin Ended, UNCHANGED <<input, stored>>,
         \A p \in 1 .. Len(holds) : p \notin Working => holds'[p] = holds[p]
  PROVE  PlatesHold(returned)' /\ PlatesHold(results)'
<1>1. \A k : FileContent(k)' = FileContent(k)
  BY SameOwned DEF FileContent
<1>2. \A p \in Owned : holds'[p] = holds[p]
  BY DEF PInv, Owners
<1>3. /\ \A k \in DOMAIN returned : returned[k].plate \in Owned
      /\ \A k \in DOMAIN results : results[k].plate \in Owned
  BY DEF Owned, Stored, Returned
<1> QED BY <1>1, <1>2, <1>3, SameOwned DEF ResultsInv, PlatesHold

(* A job that ends adds the plate it keeps.                                *)
LEMMA FinishResults ==
  ASSUME PInv, ResultsInv, phase \in {"rows", "team"}, input' = input, NEW p, NEW q, NEW n \in Nat,
         p \in Nat, Finish(p, n, q), job' = job,
         \A r \in 1 .. Len(holds) : r \notin Working => holds'[r] = holds[r],
         holds'[p] = [plate |-> input.lines[job],
                      iteration |-> IF input.version = "team" /\ input.threads = 0 THEN 0
                                    ELSE IF input.version = "serial" \/ n % 2 = 1 THEN n ELSE n - 1]
  PROVE  ResultsInv' /\ phase' \in {"send", "next"}
<1> DEFINE result == [plate |-> p, iterations |-> n]
<1>1. /\ returned \in Seq(Results) /\ result \in Results /\ returned' = Append(returned, result)
      /\ results' = IF input.version = "omp" THEN results ELSE Append(results, result)
      /\ phase' = IF input.version = "omp" THEN "send" ELSE "next"
  BY DEF PInv, Types, Finish, Results
<1>2. /\ DOMAIN returned = 1 .. Len(returned) /\ DOMAIN returned' = 1 .. Len(returned) + 1
      /\ Len(returned) \in Nat /\ Len(returned') = Len(returned) + 1
      /\ \A k \in 1 .. Len(returned) : returned'[k] = returned[k]
      /\ returned'[Len(returned) + 1] = result
  BY <1>1, AppendProperties, LenProperties
<1>3. Len(returned) = job - 1 /\ job \in Nat /\ Len(results) = Len(returned)
  BY DEF PInv, Phases, Types, ResultsInv
<1>4. \A r \in Owned : holds'[r] = holds[r]
  BY DEF PInv, Owners, Ended
<1>5. \A k \in 1 .. Len(returned) : FileContent(k)' = FileContent(k)
  BY <1>2 DEF FileContent
<1>6. PlatesHold(returned)'
  <2>1. ASSUME NEW k \in 1 .. Len(returned) PROVE holds'[returned'[k].plate] = FileContent(k)'
    <3>1. returned[k].plate \in Owned /\ holds[returned[k].plate] = FileContent(k)
      BY <1>2 DEF Owned, Returned, ResultsInv, PlatesHold
    <3> QED BY <1>2, <1>4, <1>5, <3>1
  <2>2. holds'[returned'[job].plate] = FileContent(job)'
    <3>1. returned'[job] = result
      BY <1>2, <1>3
    <3> QED BY <3>1 DEF FileContent
  <2>3. \A k \in 1 .. Len(returned) + 1 : holds'[returned'[k].plate] = FileContent(k)'
    BY <1>2, <1>3, <2>1, <2>2
  <2> QED BY <1>2, <2>3 DEF PlatesHold
<1>7. CASE input.version = "omp"
  <2>1. results' = results /\ phase' = "send" /\ DOMAIN results = 1 .. Len(returned)
    BY <1>1, <1>3, <1>7, LenProperties DEF PInv, Types
  <2>2. PlatesHold(results)'
    <3>1. ASSUME NEW k \in 1 .. Len(returned) PROVE holds'[results'[k].plate] = FileContent(k)'
      <4>1. results[k].plate \in Owned /\ holds[results[k].plate] = FileContent(k)
        BY <2>1 DEF Owned, Stored, ResultsInv, PlatesHold
      <4> QED BY <1>4, <1>5, <2>1, <4>1
    <3> QED BY <2>1, <3>1 DEF PlatesHold
  <2>3. \A k \in DOMAIN results' : \E upper \in UpperHalves :
          results'[k].iterations = upper * Word + (returned'[k].iterations % Word)
    BY <1>2, <1>7, <2>1 DEF ResultsInv
  <2> QED BY <1>2, <1>3, <1>6, <2>1, <2>2, <2>3 DEF ResultsInv
<1>8. CASE input.version # "omp"
  <2>1. results' = returned' /\ phase' = "next"
    BY <1>1, <1>8 DEF PInv, Owners
  <2>2. PlatesHold(results)'
    BY <1>6, <2>1 DEF PlatesHold
  <2> QED BY <1>2, <1>3, <1>6, <1>8, <2>1, <2>2 DEF ResultsInv
<1> QED BY <1>7, <1>8

(* Its message takes the plate's contents and the iterations it can carry. *)
LEMMA SendResults ==
  ASSUME PInv, ResultsInv, SendResult
  PROVE  SwapInv' /\ ResultsInv'
<1>1. /\ phase = "send" /\ phase' = "next" /\ UNCHANGED <<input, job, returned>>
      /\ holds' = Append(holds, holds[returned[job].plate])
  BY DEF SendResult
<1>2. PICK upper \in UpperHalves :
        results' = Append(results, [plate |-> Fresh,
                                    iterations |-> upper * Word + (returned[job].iterations % Word)])
  BY DEF SendResult
<1>3. /\ Len(returned) = job /\ Len(results) = job - 1 /\ job \in 1 .. JobsCount
      /\ results \in Seq(Results) /\ returned \in Seq(Results) /\ results' \in Seq(Results)
      /\ job \in Nat /\ DOMAIN returned = 1 .. job
  BY <1>1, SendPInv, LenProperties DEF PInv, Phases, Types, ResultsInv
<1>4. /\ Len(results') = job /\ DOMAIN results' = 1 .. job
      /\ \A k \in 1 .. job - 1 : results'[k] = results[k]
      /\ results'[job].plate = Fresh
      /\ results'[job].iterations = upper * Word + (returned[job].iterations % Word)
  <2> DEFINE result == [plate |-> Fresh,
                        iterations |-> upper * Word + (returned[job].iterations % Word)]
  <2>1. /\ Len(results') = Len(results) + 1 /\ DOMAIN results' = 1 .. Len(results')
        /\ \A k \in 1 .. Len(results) : results'[k] = results[k]
        /\ results'[Len(results) + 1] = result
    <3>1. \A k \in 1 .. Len(results) + 1 : k \in 1 .. Len(results) \/ k = Len(results) + 1
      BY <1>3
    <3>2. results' = Append(results, result) /\ Len(results) \in Nat
      BY <1>2, <1>3, LenProperties
    <3> HIDE DEF result
    <3> QED BY <1>3, <3>1, <3>2, LenProperties
  <2> QED BY <1>3, <2>1
<1>5. /\ \A r \in 1 .. Len(holds) : holds'[r] = holds[r]
      /\ holds'[Fresh] = holds[returned[job].plate]
  <2>1. holds \in Seq(Held) /\ Len(holds) \in Nat
    BY LenProperties DEF PInv, Types
  <2> QED BY <1>1, <2>1, LenProperties DEF Fresh
<1>6. \A k : FileContent(k)' = FileContent(k)
  BY <1>1 DEF FileContent
<1>7. Owned \subseteq 1 .. Len(holds)
  BY DEF PInv, Owners
<1>8. PlatesHold(returned)'
  <2>1. \A k \in DOMAIN returned : returned[k].plate \in Owned
    BY DEF Owned, Returned
  <2> QED BY <1>1, <1>5, <1>6, <1>7, <2>1 DEF ResultsInv, PlatesHold
<1>9. PlatesHold(results)'
  <2>1. ASSUME NEW k \in 1 .. job - 1 PROVE holds'[results'[k].plate] = FileContent(k)'
    <3>1. k \in DOMAIN results
      BY <1>3, LenProperties
    <3>2. results[k].plate \in Owned /\ holds[results[k].plate] = FileContent(k)
      BY <3>1 DEF Owned, Stored, ResultsInv, PlatesHold
    <3> QED BY <1>4, <1>5, <1>6, <1>7, <3>2
  <2>2. ASSUME NEW k, k = job PROVE holds'[results'[k].plate] = FileContent(k)'
    <3>1. job \in DOMAIN returned /\ holds[returned[k].plate] = FileContent(k)
      BY <1>3, <2>2 DEF ResultsInv, PlatesHold
    <3>2. FileContent(k)' = FileContent(k)
      BY <1>6
    <3> QED BY <1>4, <1>5, <2>2, <3>1, <3>2
  <2>3. \A k \in 1 .. job : k \in 1 .. job - 1 \/ k = job
    BY <1>3
  <2>4. \A k \in DOMAIN results' : holds'[results'[k].plate] = FileContent(k)'
    BY <1>4, <2>1, <2>2, <2>3
  <2> QED BY <2>4 DEF PlatesHold
<1>10. \A k \in DOMAIN results' : \E half \in UpperHalves :
         results'[k].iterations = half * Word + (returned'[k].iterations % Word)
  <2>1. ASSUME NEW k \in 1 .. job - 1
        PROVE  \E half \in UpperHalves :
                 results[k].iterations = half * Word + (returned[k].iterations % Word)
    <3>1. k \in DOMAIN results /\ input.version = "omp"
      BY <1>1, <1>3, LenProperties DEF PInv, Phases
    <3> QED BY <3>1 DEF ResultsInv
  <2> QED BY <1>1, <1>3, <1>4, <2>1
<1> QED BY <1>1, <1>3, <1>4, <1>8, <1>9, <1>10 DEF SwapInv, ResultsInv

(* A file without lines ends, so that there is no job too few.             *)
LEMMA JobsCounted == ASSUME PInv, ResultsInv PROVE JobsCount \in Nat
<1>1. input.lines \in Seq(Plates) /\ Len(input.lines) \in Nat
  BY LenProperties DEF PInv, Types
<1>2. input.lines # <<>> => Len(input.lines) > 0
  BY <1>1, EmptySeq, LenProperties
<1> QED BY <1>1, <1>2 DEF JobsCount, ResultsInv

LEMMA InputResults ==
  ASSUME PInv, LoopInv, ResultsInv, InputStep
  PROVE  SwapInv' /\ ResultsInv'
<1>1. input' = input /\ UNCHANGED stored /\ job' = job /\ phase \notin Ended /\ Working = {}
      /\ JobsCount' = JobsCount /\ results' = results /\ returned' = returned /\ phase # "send"
  BY DEF InputStep, SerialArguments, TeamArguments, ReadJobData, ReadSerialPlate, ReadPlate,
     PlateMissing, Stop, Ended, Working, JobsCount, stored
<1>2. CASE SerialArguments \/ TeamArguments \/ ReadJobData \/ PlateMissing
  <2>1. UNCHANGED holds /\ phase' # "rows"
    BY <1>2 DEF SerialArguments, TeamArguments, ReadJobData, PlateMissing, Stop, memory
  <2>2. PlatesHold(returned)' /\ PlatesHold(results)'
    BY <1>1, <2>1, ResultsKept
  <2>3. CASE ReadJobData
    <3>1. job = 1 /\ returned = <<>> /\ Len(returned) = 0
      BY <2>3 DEF PInv, Phases, ReadJobData
    <3>2. JobsCount \in Nat /\ phase' \in {"failed", "plate", "report"}
          /\ (phase' = "report" => ~ JobsCount > 0)
      BY <2>3, JobsCounted DEF ReadJobData, Stop
    <3>3. phase' \in {"report", "line", "file", "free", "exit"} => Len(returned') = JobsCount'
      BY <1>1, <3>1, <3>2
    <3> QED BY <1>1, <2>1, <2>2, <3>1, <3>2, <3>3 DEF SwapInv, ResultsInv
  <2>4. CASE ~ ReadJobData
    <3>1. phase' \in {"jobs", "failed", "crashed"}
      BY <1>2, <2>4 DEF SerialArguments, TeamArguments, PlateMissing, Stop
    <3> QED BY <1>1, <2>1, <2>2, <3>1 DEF SwapInv, ResultsInv
  <2> QED BY <2>3, <2>4
<1>3. CASE ReadSerialPlate \/ ReadPlate
  <2>1. holds \in Seq(Held) /\ \A i \in Nat : Content(i) \in Held
    BY <1>3, ContentHeld DEF PInv, Types, Phases, ReadSerialPlate, ReadPlate
  <2>2. \A p \in 1 .. Len(holds) : holds'[p] = holds[p]
    <3>1. CASE ReadSerialPlate
      BY <2>1, <3>1, AppendProperties DEF ReadSerialPlate
    <3>2. CASE ReadPlate
      <4>1. <<Content(0), Content(0)>> \in Seq(Held)
        BY <2>1
      <4> QED BY <2>1, <3>2, <4>1, ConcatProperties DEF ReadPlate
    <3> QED BY <1>3, <3>1, <3>2
  <2>3. PlatesHold(returned)' /\ PlatesHold(results)'
    BY <1>1, <2>2, ResultsKept
  <2>4. phase = "plate" /\ phase' \in {"top", "rows", "team"} /\ iteration' = 1
        /\ (phase' = "rows" => target' = given')
    BY <1>3 DEF ReadSerialPlate, ReadPlate, LoopInv, lockstep
  <2>5. SwapInv'
    BY <2>4 DEF SwapInv
  <2> QED BY <1>1, <2>3, <2>4, <2>5 DEF ResultsInv
<1> QED BY <1>2, <1>3 DEF InputStep

LEMMA SerialResults ==
  ASSUME PInv, LoopInv, ResultsInv, SerialTop \/ SerialRow \/ SerialDecide
  PROVE  SwapInv' /\ ResultsInv'
<1>1. input' = input /\ job' = job /\ phase \in {"top", "rows"} /\ Working = {source, target}
      /\ phase \notin Ended /\ input.version = "serial" /\ phase' \in {"top", "rows", "next"}
  BY DEF SerialTop, SerialRow, SerialDecide, ComputeRow, Finish, Working, Ended, PInv, Phases
<1>2. SwapInv' /\ holds \in Seq(Held) /\ \A i \in Nat : Content(i) \in Held
  BY <1>1, ContentHeld DEF SwapInv, PInv, Types, Phases
<1>3. CASE SerialTop \/ SerialRow
  <2>1. UNCHANGED stored /\ phase' # "next" /\ results' = results /\ returned' = returned
    BY <1>1, <1>3 DEF SerialTop, SerialRow, ComputeRow, stored
  <2>2. \A p \in 1 .. Len(holds) : holds'[p] = holds[p]
    BY <1>2, <1>3, AppendProperties DEF SerialTop, SerialRow, ComputeRow, memory
  <2>3. PlatesHold(returned)' /\ PlatesHold(results)'
    BY <1>1, <2>1, <2>2, ResultsKept
  <2> QED BY <1>1, <1>2, <2>1, <2>3 DEF ResultsInv
<1>4. CASE SerialDecide
  <2>1. phase = "rows" /\ target \in 1 .. Len(holds) /\ target \in Nat /\ iteration \in Nat
    BY <1>1, <1>4 DEF SerialDecide, PInv, Owners, Types
  <2>2. holds' = [holds EXCEPT ![target] = Content(iteration)]
    BY <1>4 DEF SerialDecide
  <2>3. \A p \in 1 .. Len(holds) : p \notin Working => holds'[p] = holds[p]
    BY <1>1, <1>2, <2>2, LenProperties
  <2>4. holds'[target] = Content(iteration)
    BY <1>2, <2>1, <2>2, LenProperties
  <2>5. CASE calm
    <3>1. Finish(target, iteration, source)
      BY <1>4, <2>5 DEF SerialDecide
    <3>2. holds'[target] =
            [plate |-> input.lines[job],
             iteration |-> IF input.version = "team" /\ input.threads = 0 THEN 0
                           ELSE IF input.version = "serial" \/ iteration % 2 = 1
                           THEN iteration ELSE iteration - 1]
      BY <1>1, <2>4 DEF Content
    <3>3. ResultsInv'
      BY <1>1, <2>1, <2>3, <3>1, <3>2, FinishResults
    <3> QED BY <1>2, <3>3
  <2>6. CASE ~ calm
    <3>1. UNCHANGED stored /\ phase' = "top" /\ results' = results /\ returned' = returned
      BY <1>4, <2>6 DEF SerialDecide, stored
    <3>2. PlatesHold(returned)' /\ PlatesHold(results)'
      BY <1>1, <2>3, <3>1, ResultsKept
    <3> QED BY <1>1, <1>2, <2>1, <3>1, <3>2 DEF ResultsInv
  <2> QED BY <2>5, <2>6
<1> QED BY <1>3, <1>4

LEMMA OmpResults ==
  ASSUME PInv, LoopInv, SwapInv, ResultsInv, OmpRow \/ OmpDecide
  PROVE  SwapInv' /\ ResultsInv'
<1>1. /\ input' = input /\ job' = job /\ phase = "rows" /\ Working = {source, target}
      /\ phase \notin Ended /\ input.version = "omp" /\ phase' \in {"rows", "send"}
      /\ {source, target} = {given, given + 1} /\ source # target
  BY DEF OmpRow, OmpDecide, ComputeRow, Finish, Working, Ended, PInv, Phases
<1>2. /\ holds \in Seq(Held) /\ \A i \in Nat : Content(i) \in Held
      /\ given \in 1 .. Len(holds) /\ target \in 1 .. Len(holds)
      /\ given \in Nat /\ source \in Nat /\ target \in Nat /\ iteration \in Nat
  BY <1>1, ContentHeld DEF PInv, Types, Phases, Owners
<1>3. CASE OmpRow
  <2>1. /\ UNCHANGED <<memory, handles, iteration, phase, stored>>
        /\ results' = results /\ returned' = returned
    BY <1>3 DEF OmpRow, ComputeRow, stored
  <2>2. PlatesHold(returned)' /\ PlatesHold(results)'
    BY <1>1, <2>1, ResultsKept DEF memory
  <2>3. SwapInv'
    BY <1>1, <2>1 DEF SwapInv, memory, handles, Content
  <2> QED BY <1>1, <2>1, <2>2, <2>3 DEF ResultsInv
<1>4. CASE OmpDecide
  <2>1. holds' = [holds EXCEPT ![target] = Content(iteration)]
    BY <1>4 DEF OmpDecide
  <2>2. /\ \A p \in 1 .. Len(holds) : p \notin Working => holds'[p] = holds[p]
        /\ holds'[target] = Content(iteration)
        /\ given # target => holds'[given] = holds[given]
    BY <1>1, <1>2, <2>1, LenProperties
  <2>3. /\ iteration > 0
        /\ iteration % 2 = 1 => target = given
        /\ iteration % 2 = 0 => target = given + 1 /\ holds[given] = Content(iteration - 1)
        /\ iteration % 2 \in {0, 1}
    BY <1>1, <1>2 DEF SwapInv
  <2>4. CASE calm
    <3>1. Finish(given, iteration, given + 1) /\ phase' = "send"
      BY <1>1, <1>4, <2>4 DEF OmpDecide, Finish
    <3>2. holds'[given] = Content(IF iteration % 2 = 1 THEN iteration ELSE iteration - 1)
      <4>1. CASE iteration % 2 = 1
        BY <2>2, <2>3, <4>1
      <4>2. CASE iteration % 2 = 0
        BY <1>2, <2>2, <2>3, <4>2
      <4> QED BY <2>3, <4>1, <4>2
    <3>3. holds'[given] =
            [plate |-> input.lines[job],
             iteration |-> IF input.version = "team" /\ input.threads = 0 THEN 0
                           ELSE IF input.version = "serial" \/ iteration % 2 = 1
                           THEN iteration ELSE iteration - 1]
      BY <1>1, <3>2 DEF Content
    <3>4. ResultsInv'
      BY <1>1, <1>2, <2>2, <3>1, <3>3, FinishResults
    <3> QED BY <3>1, <3>4 DEF SwapInv
  <2>5. CASE ~ calm
    <3>1. /\ UNCHANGED stored /\ results' = results /\ returned' = returned
          /\ phase' = "rows" /\ given' = given /\ iteration' = iteration + 1
          /\ source' = target /\ target' = source
      BY <1>1, <1>4, <2>5 DEF OmpDecide, NextIteration, stored
    <3>2. PlatesHold(returned)' /\ PlatesHold(results)'
      BY <1>1, <2>2, <3>1, ResultsKept
    <3>3. CASE iteration % 2 = 1
      <4>1. (iteration + 1) % 2 = 0 /\ target = given /\ source = given + 1
            /\ (iteration + 1) - 1 = iteration
        BY <1>1, <1>2, <2>3, <3>3
      <4>2. holds'[given] = Content((iteration + 1) - 1)
        BY <2>2, <4>1
      <4>3. SwapInv'
        <5>1. iteration' - 1 = iteration
          BY <1>2, <3>1
        <5>2. holds'[given'] = Content(iteration)
          BY <3>1, <4>1, <4>2
        <5>3. iteration' % 2 = 0 /\ target' = given' + 1 /\ iteration' > 0
          BY <1>2, <2>3, <3>1, <4>1
        <5>4. [plate |-> input'.lines[job'], iteration |-> iteration' - 1] = Content(iteration)
          BY <1>1, <5>1 DEF Content
        <5> QED BY <5>2, <5>3, <5>4 DEF SwapInv, Content
      <4>4. ResultsInv'
        BY <1>1, <1>2, <3>1, <3>2 DEF ResultsInv
      <4> QED BY <4>3, <4>4
    <3>4. CASE iteration % 2 = 0
      <4>1. (iteration + 1) % 2 = 1 /\ source = given
        <5>1. (iteration + 1) % 2 = 1
          BY <1>2, <3>4
        <5>2. target = given + 1 /\ source # target /\ source \in {given, given + 1}
          BY <1>1, <1>2, <2>3, <3>4
        <5> QED BY <5>1, <5>2
      <4>2. SwapInv'
        <5>1. iteration' % 2 = 1 /\ iteration' % 2 # 0 /\ target' = given' /\ iteration' > 0
          BY <1>2, <2>3, <3>1, <4>1
        <5> QED BY <5>1 DEF SwapInv
      <4>3. ResultsInv'
        BY <1>1, <1>2, <3>1, <3>2 DEF ResultsInv
      <4> QED BY <4>2, <4>3
    <3> QED BY <2>3, <3>3, <3>4
  <2> QED BY <2>4, <2>5
<1> QED BY <1>3, <1>4

LEMMA TeamResults ==
  ASSUME PInv, ResultsInv, TeamSimulate
  PROVE  SwapInv' /\ ResultsInv'
<1>1. PICK n \in IF input.threads = 0 THEN {1} ELSE 3 .. MaxIterations + 2 :
        /\ holds' = [holds EXCEPT ![given] =
                       Content(IF input.threads = 0 THEN 0 ELSE IF n % 2 = 1 THEN n ELSE n - 1)]
        /\ Finish(given, n, given + 1)
  BY DEF TeamSimulate
<1>2. /\ input' = input /\ job' = job /\ phase = "team" /\ phase' \in {"send", "next"}
      /\ Working = {given, given + 1} /\ phase \notin Ended
  BY <1>1 DEF TeamSimulate, Finish, Working, Ended
<1>3. holds \in Seq(Held) /\ given \in 1 .. Len(holds) /\ given \in Nat /\ n \in Nat
  BY <1>1, <1>2, HeatJobsAssumption DEF PInv, Types, Owners
<1>4. /\ \A p \in 1 .. Len(holds) : p \notin Working => holds'[p] = holds[p]
      /\ holds'[given] = Content(IF input.threads = 0 THEN 0 ELSE IF n % 2 = 1 THEN n ELSE n - 1)
  BY <1>1, <1>2, <1>3, LenProperties
<1>5. holds'[given] =
        [plate |-> input.lines[job],
         iteration |-> IF input.version = "team" /\ input.threads = 0 THEN 0
                       ELSE IF input.version = "serial" \/ n % 2 = 1 THEN n ELSE n - 1]
  BY <1>2, <1>4 DEF Content, PInv, Phases
<1>6. ResultsInv'
  BY <1>1, <1>2, <1>3, <1>4, <1>5, FinishResults
<1> QED BY <1>2, <1>6 DEF SwapInv

(* The plates are not touched any more.                                    *)
LEMMA RestResults ==
  ASSUME PInv, ResultsInv, NextJob \/ LastJob \/ OutputStep
  PROVE  SwapInv' /\ ResultsInv'
<1>1. /\ UNCHANGED <<input, holds, stored>> /\ results' = results /\ returned' = returned
      /\ phase \notin Ended \union {"send"} /\ JobsCount' = JobsCount
      /\ phase' \notin {"top", "rows", "team", "send", "next"}
  BY DEF NextJob, LastJob, OutputStep, OpenReport, WriteJobResult, WritePlate, FreeResults, Stop,
     memory, Ended, JobsCount, stored
<1>2. PlatesHold(returned)' /\ PlatesHold(results)'
  BY <1>1, ResultsKept
<1>3. SwapInv'
  BY <1>1 DEF SwapInv
<1>4. CASE NextJob
  BY <1>1, <1>2, <1>3, <1>4 DEF NextJob, ResultsInv, PInv, Types
<1>5. CASE LastJob
  BY <1>1, <1>2, <1>3, <1>5 DEF LastJob, Stop, ResultsInv, PInv, Phases
<1>6. CASE OutputStep
  <2>1. phase' # "plate" /\ phase \in {"report", "line", "file", "free"}
    BY <1>6 DEF OutputStep, OpenReport, WriteJobResult, WritePlate, FreeResults, Stop
  <2> QED BY <1>1, <1>2, <1>3, <2>1 DEF ResultsInv
<1> QED BY <1>4, <1>5, <1>6

LEMMA NextResults ==
  ASSUME PInv, LoopInv, SwapInv, ResultsInv, [Next]_vars
  PROVE  SwapInv' /\ ResultsInv'
<1>1. CASE UNCHANGED vars
  BY <1>1, SameOwned DEF vars, memory, handles, lockstep, SwapInv, ResultsInv, Content, PlatesHold,
     FileContent, JobsCount
<1> QED
  BY <1>1, InputResults, SerialResults, OmpResults, SendResults, TeamResults, RestResults
     DEF Next, SimulateStep, Done

LEMMA ResultsInvariant == Spec => [](SwapInv /\ ResultsInv)
<1>1. PInv /\ LoopInv /\ SwapInv /\ ResultsInv /\ [Next]_vars => (SwapInv /\ ResultsInv)'
  BY NextResults
<1> QED BY <1>1, InitResults, PlatesInvariant, LoopInvariant, PTL DEF Spec

(* Whatever the jobs and however long their simulations, no plate is freed *)
(* twice or used when freed, and a run that ends well leaves none or, with *)
(* OpenMP, one for each job, in the memory of the workers.                 *)
THEOREM PlatesAreOwned == Spec => []PlatesOwned
<1>1. PInv /\ ResultsInv => PlatesOwned
  <2> SUFFICES ASSUME PInv, ResultsInv PROVE PlatesOwned
    OBVIOUS
  <2>1. phase = "rows" => Working = {source, target} /\ phase \notin Ended
    BY DEF Working, Ended
  <2>2. phase \in {"plate", "send", "next", "report", "line", "file", "free"} =>
          Working = {} /\ phase \notin Ended
    BY DEF Working, Ended
  <2>3. phase = "exit" => DOMAIN returned = 1 .. JobsCount
    BY LenProperties DEF PInv, Types, ResultsInv
  <2> QED
    BY <2>1, <2>2, <2>3 DEF PInv, Owners, Phases, PlatesOwned, Owned
<1> QED
  BY <1>1, PlatesInvariant, ResultsInvariant, PTL

(* The line of job k, and how many files have been written.                *)
Line(k) ==
  [plate |-> input.lines[k], iterations |-> results[k].iterations,
   time  |-> FormatTime(results[k].iterations * input.duration)]

Written == IF phase = "file" THEN job - 1 ELSE Len(report)

(* No job after k, of the first n, has a file of the same name.            *)
Latest(k, n) == \A j \in 1 .. n : FileName(j) = FileName(k) => j <= k

Reporting == {"line", "file", "free", "exit"}

(* The report has the lines of the jobs so far, and the directory the      *)
(* files of those before the one at hand; a file written over has what     *)
(* the last job of its name left.                                          *)
ReportInv ==
  /\ phase \in {"line", "file"} => job \in 1 .. JobsCount
  /\ phase = "line" => Len(report) = job - 1
  /\ phase = "file" => Len(report) = job
  /\ phase \in {"free", "exit"} => Len(report) = JobsCount
  /\ phase \in Reporting =>
       /\ report \in Seq({Line(k) : k \in 1 .. JobsCount})
       /\ \A k \in 1 .. Len(report) : report[k] = Line(k)
       /\ DOMAIN files = {FileName(k) : k \in 1 .. Written}
       /\ \A k \in 1 .. Written : Latest(k, Written) => files[FileName(k)] = FileContent(k)
  /\ phase \notin Reporting \union Ended => report = <<>> /\ DOMAIN files = {}

LEMMA InitReport == Init => ReportInv
BY DEF Init, ReportInv, Reporting

LEMMA OutputReport ==
  ASSUME PInv, ResultsInv, ReportInv, OutputStep
  PROVE  ReportInv'
<1> DEFINE Lines == {Line(k) : k \in 1 .. JobsCount}
<1>1. /\ UNCHANGED <<input, holds, stored>> /\ JobsCount' = JobsCount /\ JobsCount \in Nat
      /\ Lines' = Lines /\ job \in Nat
      /\ \A k : Line(k)' = Line(k) /\ FileName(k)' = FileName(k)
                /\ FileContent(k)' = FileContent(k)
                /\ \A n : Latest(k, n)' = Latest(k, n)
  <2>1. UNCHANGED <<input, holds, stored>>
    BY DEF OutputStep, OpenReport, WriteJobResult, WritePlate, FreeResults, Stop, memory, stored
  <2>2. JobsCount' = JobsCount /\ JobsCount \in Nat /\ job \in Nat
    BY <2>1, JobsCounted DEF JobsCount, PInv, Types
  <2>3. \A k : Line(k)' = Line(k) /\ FileName(k)' = FileName(k)
               /\ FileContent(k)' = FileContent(k)
                /\ \A n : Latest(k, n)' = Latest(k, n)
    BY <2>1, SameOwned DEF Line, FileName, FileContent, Latest
  <2>4. Lines' = Lines
    BY <2>1, <2>2, SameOwned DEF Line
  <2> QED BY <2>1, <2>2, <2>3, <2>4
<1> HIDE DEF Lines
<1>2. CASE phase' \in {"failed", "crashed"}
  BY <1>2 DEF ReportInv, Reporting, Ended
<1>3. CASE OpenReport /\ phase' \notin {"failed", "crashed"}
  <2>1. /\ phase = "report" /\ UNCHANGED <<report, files>> /\ job' = 1
        /\ phase' = IF JobsCount = 0 THEN "free" ELSE "line"
    BY <1>3 DEF OpenReport, Stop, output
  <2>2. report = <<>> /\ DOMAIN files = {} /\ Len(report) = 0
    BY <2>1 DEF ReportInv, Reporting, Ended
  <2>3. Written' = 0
    BY <2>1, <2>2 DEF Written
  <2>4. report' \in Seq(Lines')
    BY <2>1, <2>2
  <2>5. DOMAIN files' = {FileName(k)' : k \in 1 .. Written'}
    BY <2>1, <2>2, <2>3
  <2> QED BY <1>1, <2>1, <2>2, <2>3, <2>4, <2>5 DEF ReportInv, Reporting, Lines
<1>4. CASE WriteJobResult
  <2>1. /\ phase = "line" /\ phase' = "file" /\ UNCHANGED <<job, files>>
        /\ report' = Append(report, Line(job)) /\ job \in 1 .. JobsCount /\ Len(report) = job - 1
        /\ report \in Seq(Lines) /\ \A k \in 1 .. Len(report) : report[k] = Line(k)
    BY <1>4 DEF WriteJobResult, Line, ReportInv, Reporting, Lines
  <2>2. Line(job) \in Lines
    BY <2>1 DEF Lines
  <2>3. /\ report' \in Seq(Lines) /\ Len(report') = job
        /\ \A k \in 1 .. job : report'[k] = Line(k)
    BY <1>1, <2>1, <2>2, AppendProperties, LenProperties
  <2>4. Written' = Written /\ Written = job - 1
    BY <2>1 DEF Written
  <2>5. \A k \in 1 .. Written' :
          Latest(k, Written)' => files'[FileName(k)'] = FileContent(k)'
    BY <1>1, <2>1, <2>4 DEF ReportInv, Reporting
  <2>6. DOMAIN files' = {FileName(k)' : k \in 1 .. Written'}
    BY <1>1, <2>1, <2>4 DEF ReportInv, Reporting
  <2> QED BY <1>1, <2>1, <2>3, <2>5, <2>6 DEF ReportInv, Reporting, Lines
<1>5. CASE WritePlate /\ phase' \notin {"failed", "crashed"}
  <2>1. /\ phase = "file" /\ report' = report /\ job' = job + 1
        /\ phase' = IF job = JobsCount THEN "free" ELSE "line"
        /\ files' = [name \in DOMAIN files \union {FileName(job)} |->
                       IF name = FileName(job) THEN holds[results[job].plate] ELSE files[name]]
    BY <1>5 DEF WritePlate, Stop
  <2>2. /\ job \in 1 .. JobsCount /\ Len(report) = job /\ Written = job - 1
        /\ DOMAIN files = {FileName(k) : k \in 1 .. job - 1}
        /\ \A k \in 1 .. job - 1 : Latest(k, job - 1) => files[FileName(k)] = FileContent(k)
    BY <2>1 DEF ReportInv, Reporting, Written
  <2>3. Written' = job
    BY <2>1, <2>2 DEF Written
  <2>4. holds[results[job].plate] = FileContent(job)
    <3>1. job \in DOMAIN results
      BY <1>1, <2>1, <2>2, LenProperties DEF ResultsInv, PInv, Types
    <3> QED BY <3>1 DEF ResultsInv, PlatesHold
  <2>6. ASSUME NEW k \in 1 .. job, Latest(k, job)
        PROVE  files'[FileName(k)] = FileContent(k)
    <3>1. CASE k = job
      BY <2>1, <2>4, <3>1
    <3>2. CASE k # job
      <4>1. k \in 1 .. job - 1 /\ FileName(k) # FileName(job) /\ Latest(k, job - 1)
        BY <1>1, <2>2, <2>6, <3>2 DEF Latest
      <4> QED BY <2>1, <2>2, <4>1
    <3> QED BY <3>1, <3>2
  <2>7. DOMAIN files' = {FileName(k) : k \in 1 .. job}
    <3>1. 1 .. job = (1 .. job - 1) \union {job}
      BY <1>1, <2>2
    <3>2. {FileName(k) : k \in 1 .. job} = {FileName(k) : k \in 1 .. job - 1} \union {FileName(job)}
      BY <3>1, Zenon
    <3> QED BY <2>1, <2>2, <3>2
  <2>8. DOMAIN files' = {FileName(k)' : k \in 1 .. Written'}
    BY <1>1, <2>3, <2>7
  <2>9. \A k \in 1 .. Written' :
          Latest(k, Written)' => files'[FileName(k)'] = FileContent(k)'
    BY <1>1, <2>3, <2>6
  <2>10. /\ phase' \in {"line", "file"} => job' \in 1 .. JobsCount'
         /\ phase' = "line" => Len(report') = job' - 1
         /\ phase' \in {"free", "exit"} => Len(report') = JobsCount'
         /\ phase' \in {"free", "line"}
    BY <1>1, <2>1, <2>2
  <2>11. /\ report' \in Seq(Lines') /\ \A k \in 1 .. Len(report') : report'[k] = Line(k)'
    BY <1>1, <2>1 DEF ReportInv, Reporting, Lines
  <2> QED BY <2>8, <2>9, <2>10, <2>11 DEF ReportInv, Reporting, Lines
<1>6. CASE FreeResults
  <2>1. phase = "free" /\ phase' = "exit" /\ UNCHANGED <<job, report, files>>
    BY <1>6 DEF FreeResults, output
  <2>2. Written' = Written
    BY <2>1 DEF Written
  <2>3. DOMAIN files' = {FileName(k)' : k \in 1 .. Written'}
    BY <1>1, <2>1, <2>2 DEF ReportInv, Reporting
  <2>4. \A k \in 1 .. Written' :
          Latest(k, Written)' => files'[FileName(k)'] = FileContent(k)'
    BY <1>1, <2>1, <2>2 DEF ReportInv, Reporting
  <2> QED BY <1>1, <2>1, <2>3, <2>4 DEF ReportInv, Reporting, Lines
<1> QED BY <1>2, <1>3, <1>4, <1>5, <1>6 DEF OutputStep, WriteJobResult, FreeResults

LEMMA NextReport ==
  ASSUME PInv, ResultsInv, ReportInv, [Next]_vars
  PROVE  ReportInv'
<1>1. CASE UNCHANGED vars
  BY <1>1 DEF vars, memory, output, ReportInv, Reporting, Ended, Line, FileName, Written,
     FileContent, JobsCount, Latest, Stored, Returned, Owned, stored
<1>2. CASE InputStep \/ SimulateStep
  <2>1. UNCHANGED <<report, files>> /\ phase \notin Reporting \union Ended
        /\ phase' \notin Reporting
    <3>1. CASE InputStep
      BY <3>1 DEF InputStep, SerialArguments, TeamArguments, ReadJobData, ReadSerialPlate,
         ReadPlate, PlateMissing, Stop, output, Reporting, Ended
    <3>2. CASE SimulateStep
      BY <3>2 DEF SimulateStep, SerialTop, SerialRow, SerialDecide, OmpRow, OmpDecide,
         SendResult, TeamSimulate, NextJob, LastJob, ComputeRow, Finish, Stop, output, Reporting, Ended
    <3> QED BY <1>2, <3>1, <3>2
  <2> QED BY <2>1 DEF ReportInv, Reporting
<1> QED BY <1>1, <1>2, OutputReport DEF Next, Done

LEMMA ReportInvariant == Spec => []ReportInv
<1>1. PInv /\ ResultsInv /\ ReportInv /\ [Next]_vars => ReportInv'
  BY NextReport
<1> QED BY <1>1, InitReport, PlatesInvariant, ResultsInvariant, PTL DEF Spec

(* A run that ends well has reported every job that ends in a newline, in  *)
(* order, with the iterations of its simulation (of which OpenMP's message *)
(* carries half of the bytes), with a time that is exact while it fits,    *)
(* and with a file that holds the plate and the iteration the version      *)
(* keeps, of the last job with that name and those iterations; whatever    *)
(* the jobs and however long they take.                                    *)
THEOREM ReportsAreFaithful == Spec => []ReportFaithful
<1>1. PInv /\ ResultsInv /\ ReportInv => ReportFaithful
  <2> SUFFICES ASSUME PInv, ResultsInv, ReportInv, phase = "exit"
               PROVE  ReportFaithful
    BY DEF ReportFaithful
  <2>1. /\ input.lines \in Seq(Plates) /\ Len(input.lines) \in Nat
        /\ DOMAIN input.lines = 1 .. Len(input.lines) /\ JobsCount \in Nat
        /\ DOMAIN results = 1 .. JobsCount /\ input.duration \in Nat
        /\ results \in Seq(Results)
    BY JobsCounted, LenProperties DEF PInv, Types, ResultsInv
  <2>2. /\ report \in Seq({Line(k) : k \in 1 .. JobsCount}) /\ Len(report) = JobsCount
        /\ \A k \in 1 .. JobsCount : report[k] = Line(k)
        /\ DOMAIN files = {FileName(k) : k \in 1 .. JobsCount}
        /\ \A k \in 1 .. JobsCount :
             Latest(k, JobsCount) => files[FileName(k)] = FileContent(k)
    BY DEF ReportInv, Reporting, Written
  <2>3. DOMAIN report = 1 .. JobsCount
    BY <2>2, LenProperties
  <2>4. DOMAIN report = {k \in DOMAIN input.lines : k < Len(input.lines) \/ input.terminated}
    BY <2>1, <2>3 DEF JobsCount, ResultsInv
  <2>5. DOMAIN files = {FileName(k) : k \in DOMAIN report}
    BY <2>2, <2>3
  <2>6. ASSUME NEW k \in DOMAIN report
        PROVE  LET n == report[k].iterations
               IN  /\ report[k].plate = input.lines[k]
                   /\ IF input.version = "omp"
                      THEN \E upper \in UpperHalves :
                             n = upper * Word + (returned[k].iterations % Word)
                      ELSE n = returned[k].iterations
                   /\ TimeFits(n * input.duration) =>
                        TimeExact(n * input.duration, report[k].time)
                   /\ (\A j \in DOMAIN report : FileName(j) = FileName(k) => j <= k) =>
                        files[FileName(k)] = FileContent(k)
    <3> DEFINE n == report[k].iterations
    <3>1. /\ k \in 1 .. JobsCount /\ k \in DOMAIN results /\ report[k].plate = input.lines[k]
          /\ n = results[k].iterations /\ report[k].time = FormatTime(n * input.duration)
      BY <2>1, <2>2, <2>3 DEF Line
    <3>2. n \in Nat
      <4>1. k \in 1 .. Len(results)
        BY <2>1, <3>1, LenProperties
      <4>2. results[k] \in Results
        BY <2>1, <4>1, ElementOfSeq
      <4> QED BY <3>1, <4>2 DEF Results
    <3>3. TimeFits(n * input.duration) => TimeExact(n * input.duration, report[k].time)
      <4>1. n * input.duration \in Nat
        BY <2>1, <3>2
      <4> QED BY <3>1, <4>1, TimesAreExact
    <3>4. IF input.version = "omp"
          THEN \E upper \in UpperHalves : n = upper * Word + (returned[k].iterations % Word)
          ELSE n = returned[k].iterations
      BY <3>1 DEF ResultsInv, PInv, Owners
    <3>5. (\A j \in DOMAIN report : FileName(j) = FileName(k) => j <= k) =>
            files[FileName(k)] = FileContent(k)
      BY <2>2, <2>3, <3>1 DEF Latest
    <3> QED BY <3>1, <3>3, <3>4, <3>5
  <2> QED BY <2>4, <2>5, <2>6, Zenon DEF ReportFaithful
<1> QED BY <1>1, PlatesInvariant, ResultsInvariant, ReportInvariant, PTL
=============================================================================
