----------------------------- MODULE ReportTime -----------------------------
(***************************************************************************)
(* The simulated time of the report, format_time() of the homeworks: the   *)
(* seconds are cut into years of 365 days, months of 30 days, days, hours, *)
(* minutes and seconds.  The parts are ints and the time is a time_t; a    *)
(* product of ints that does not fit wraps around in the builds.           *)
(***************************************************************************)
EXTENDS Integers

CONSTANT IntMax    (* the greatest int, 2^31 - 1 in the builds             *)

Minute == 60
Hour   == 60 * Minute
Day    == 24 * Hour
Month  == 30 * Day
Year   == 365 * Day

ASSUME IntMaxAssumption == IntMax \in Nat /\ IntMax >= Year

(* A number as an int keeps it.                                            *)
Wrapped(x) == ((x + IntMax + 1) % (2 * (IntMax + 1))) - (IntMax + 1)

(* How many units there are, and what is left without them.                *)
Units(seconds, unit) == Wrapped(seconds \div unit)
Left(seconds, unit)  == seconds - Wrapped(Units(seconds, unit) * unit)

(* Mutant of FormatTime: the days are taken out of the whole time.         *)
FormatForgetful(seconds) ==
  LET inYear == seconds % Year
      inDay  == seconds % Day
      inHour == inDay % Hour
  IN  [years |-> seconds \div Year, months |-> inYear \div Month, days |-> inYear \div Day,
       hours |-> inDay \div Hour, minutes |-> inHour \div Minute, secs |-> inHour % Minute]

FormatTime(seconds) ==
  LET inYear   == Left(seconds, Year)
      inMonth  == Left(inYear, Month)
      inDay    == Left(inMonth, Day)
      inHour   == Left(inDay, Hour)
      inMinute == Left(inHour, Minute)
  IN  [years   |-> Units(seconds, Year),
       months  |-> Units(inYear, Month),
       days    |-> Units(inMonth, Day),
       hours   |-> Units(inDay, Hour),
       minutes |-> Units(inHour, Minute),
       secs    |-> Wrapped(inMinute)]

-----------------------------------------------------------------------------
Recompose(time) ==
  time.years * Year + time.months * Month + time.days * Day
    + time.hours * Hour + time.minutes * Minute + time.secs

(* The years of the time fit into an int when counted in seconds: in the   *)
(* builds, while there are fewer than 69 of them.                          *)
TimeFits(seconds) == (seconds \div Year) * Year <= IntMax

(* The fields are the seconds again, each below the next unit, except that *)
(* a year has a thirteenth month, number 12, of five days.                 *)
TimeExact(seconds, time) ==
  /\ Recompose(time) = seconds
  /\ time.months \in 0 .. 12 /\ time.days \in 0 .. 29
  /\ time.months = 12 => time.days < 5
  /\ time.hours \in 0 .. 23 /\ time.minutes \in 0 .. 59 /\ time.secs \in 0 .. 59
=============================================================================
