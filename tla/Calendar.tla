------------------------------- MODULE Calendar -------------------------------
(***************************************************************************)
(* The calendar of the artifacts: every timestamp the daemon writes goes   *)
(* through civil_from_unix (davit/src/util.rs), and `dv stop` reads one    *)
(* back with parse_iso_secs (davit/src/client.rs) to say how long the      *)
(* command has been running.                                               *)
(*                                                                         *)
(* A time is a day since 1970-01-01 and a second of that day, the two      *)
(* halves both functions compute separately. The state machine is the      *)
(* civil calendar itself, counted day by day.                              *)
(***************************************************************************)
EXTENDS Integers

CONSTANTS
  LastDay,   \* bound: the last day counted
  Moments,   \* the seconds of a day that are tried
  MaxAge     \* bound: days between a command's dispatch and the stop

ASSUME LastDayIsDay == LastDay \in Nat
ASSUME MomentsAreSeconds == \A s \in Moments : s \in Nat /\ s < 86400
ASSUME MaxAgeIsDays == MaxAge \in Nat

VARIABLES
  day,                \* days since the epoch
  year, month, date   \* the civil date of that day

calendar == <<day, year, month, date>>

Leap(y) == y % 4 = 0 /\ (y % 100 # 0 \/ y % 400 = 0)

MonthLength(y, m) ==
  CASE m = 2 -> IF Leap(y) THEN 29 ELSE 28
    [] m \in {4, 6, 9, 11} -> 30
    [] OTHER -> 31

Epoch == day = 0 /\ year = 1970 /\ month = 1 /\ date = 1

NextDate ==
  /\ date < MonthLength(year, month)
  /\ date' = date + 1
  /\ UNCHANGED <<year, month>>

NextMonth ==
  /\ date = MonthLength(year, month)
  /\ month < 12
  /\ date' = 1
  /\ month' = month + 1
  /\ UNCHANGED year

NextYear ==
  /\ date = MonthLength(year, month)
  /\ month = 12
  /\ date' = 1
  /\ month' = 1
  /\ year' = year + 1

NextDay ==
  /\ day < LastDay
  /\ day' = day + 1
  /\ NextDate \/ NextMonth \/ NextYear

-----------------------------------------------------------------------------
(* Plausible bugs, to see that a property notices each of them. *)

YearOfEraNoCentury(doe) == (doe - doe \div 1460) \div 365
-----------------------------------------------------------------------------
(* Years begin in March: a leap day is the last day of its year.           *)
YearOfEra(doe) ==
  (doe - doe \div 1460 + doe \div 36524 - doe \div 146096) \div 365

(* civil_from_unix. *)
CivilFromUnix(days, rem) ==
  LET z == days + 719468
      doe == z % 146097
      yoe == YearOfEra(doe)
      doy == doe - (365 * yoe + yoe \div 4 - yoe \div 100)
      mp == (5 * doy + 2) \div 153
      m == IF mp < 10 THEN mp + 3 ELSE mp - 9
      y == yoe + (z \div 146097) * 400
  IN  [y |-> IF m <= 2 THEN y + 1 ELSE y,
       mo |-> m,
       d |-> doy - (153 * mp + 2) \div 5 + 1,
       h |-> rem \div 3600,
       mi |-> (rem % 3600) \div 60,
       s |-> rem % 60]

(* The month counted from March. *)
ShiftedMonth(mo) == IF mo > 2 THEN mo - 3 ELSE mo + 9

(* parse_iso_secs, on the fields of the text. *)
ParseIsoSecs(t) ==
  LET y == IF t.mo <= 2 THEN t.y - 1 ELSE t.y
      era == y \div 400
      yoe == y - era * 400
      doy == (153 * ShiftedMonth(t.mo) + 2) \div 5 + t.d - 1
      doe == yoe * 365 + yoe \div 4 - yoe \div 100 + doy
  IN  [days |-> era * 146097 + doe - 719468,
       rem |-> t.h * 3600 + t.mi * 60 + t.s]

(* human_duration: hours, minutes and seconds as they are printed. *)
HumanDuration(secs) ==
  IF secs >= 3600
    THEN <<secs \div 3600, (secs % 3600) \div 60, secs % 60>>
    ELSE <<0, secs \div 60, secs % 60>>

(* elapsed_since, d days and some seconds after the time the text says;    *)
(* saturating_sub.                                                         *)
ElapsedSince(t, days, rem) ==
  LET start == ParseIsoSecs(t)
      secs == (days - start.days) * 86400 + rem - start.rem
  IN  HumanDuration(IF secs < 0 THEN 0 ELSE secs)

-----------------------------------------------------------------------------
DateIsCivil(rem) ==
  LET t == CivilFromUnix(day, rem)
  IN  /\ <<t.y, t.mo, t.d>> = <<year, month, date>>
      /\ t.h \in 0..23 /\ t.mi \in 0..59 /\ t.s \in 0..59

ParseInverts(rem) ==
  ParseIsoSecs(CivilFromUnix(day, rem)) = [days |-> day, rem |-> rem]

ElapsedIsExact(then, now, age) ==
  LET shown == ElapsedSince(CivilFromUnix(day, then), day + age, now)
      secs == age * 86400 + now - then
  IN  /\ shown[1] * 3600 + shown[2] * 60 + shown[3] = (IF secs < 0 THEN 0 ELSE secs)
      /\ shown[2] < 60 /\ shown[3] < 60

(* The date civil_from_unix computes from a count of days is the date the  *)
(* calendar reaches in that many days; parse_iso_secs, its "inverse", gets *)
(* back the time a text was written for; and the running time in a refusal *)
(* of `dv stop` is the time since the dispatch, across midnights and ends  *)
(* of months and years, zero when the clock went back.                     *)
TimesAreExact ==
  \A then \in Moments :
    /\ DateIsCivil(then) /\ ParseInverts(then)
    /\ \A now \in Moments, age \in 0..MaxAge : ElapsedIsExact(then, now, age)

=============================================================================
