----------------------------- MODULE Timestamps -----------------------------
(***************************************************************************)
(* The instants of go/abstraction/logging/rec.go: what a reader accepts    *)
(* (rfc3339-wide), what a writer emits (six fractional digits, UTC), and   *)
(* the conversion between them by carrying minutes, days and months.  A    *)
(* timestamp is a record of its numbers: zone is "Z", "+" or "-", oh and   *)
(* om its hours and minutes, frac the digits after the dot, and spelled    *)
(* says whether separators and digit counts are those of the grammar.      *)
(***************************************************************************)
EXTENDS Integers, Sequences

NoTime == [spelled |-> FALSE, y |-> 0, m |-> 0, d |-> 0, h |-> 0, mi |-> 0,
           s |-> 0, frac |-> <<>>, zone |-> "Z", oh |-> 0, om |-> 0]

lexicalTimestamp(t) == t.spelled /\ Len(t.frac) <= 9

JulianDays(y, m) ==
  CASE m = 2 -> IF y % 4 = 0 THEN 29 ELSE 28
    [] m \in {4, 6, 9, 11} -> 30
    [] OTHER -> 31
timestampDays(y, m) ==
  CASE m = 2 -> IF y % 4 = 0 /\ (y % 100 # 0 \/ y % 400 = 0) THEN 29 ELSE 28
    [] m \in {4, 6, 9, 11} -> 30
    [] OTHER -> 31

InRange(t) ==
  /\ t.m \in 1 .. 12 /\ t.d >= 1 /\ t.d <= timestampDays(t.y, t.m)
  /\ t.h <= 23 /\ t.mi <= 59 /\ t.s <= 59
  /\ t.zone # "Z" => t.oh <= 23 /\ t.om <= 59

(* Minutes of the day in UTC, which may lie in the day before or after.    *)
UTCMinutes(t) ==
  LET local == t.h * 60 + t.mi
      off   == t.oh * 60 + t.om
  IN CASE t.zone = "+" -> local - off
       [] t.zone = "-" -> local + off
       [] OTHER        -> local

(* The day before the first, and after the last, of a month.               *)
Date(y, m, d) == [y |-> y, m |-> m, d |-> d]
CarryDown(c) ==
  LET y == IF c.m = 1 THEN c.y - 1 ELSE c.y
      m == IF c.m = 1 THEN 12 ELSE c.m - 1
  IN IF c.d = 0 THEN Date(y, m, timestampDays(y, m)) ELSE c
CarryUp(c) ==
  IF c.d > timestampDays(c.y, c.m)
  THEN Date(IF c.m = 12 THEN c.y + 1 ELSE c.y, IF c.m = 12 THEN 1 ELSE c.m + 1, 1)
  ELSE c

normalizedTimestamp(t) ==
  LET total  == UTCMinutes(t)
      over   == CASE total < 0 -> -1 [] total >= 1440 -> 1 [] OTHER -> 0
      minute == total - over * 1440
      c      == CarryUp(CarryDown(Date(t.y, t.m, t.d + over)))
  IN IF ~lexicalTimestamp(t) \/ ~InRange(t) \/ c.y \notin 0 .. 9999 THEN NoTime
     ELSE [spelled |-> TRUE, y |-> c.y, m |-> c.m, d |-> c.d,
           h |-> minute \div 60, mi |-> minute % 60, s |-> t.s,
           frac |-> [k \in 1 .. 6 |-> IF k <= Len(t.frac) THEN t.frac[k] ELSE 0],
           zone |-> "Z", oh |-> 0, om |-> 0]

WideTimestamp(t) == normalizedTimestamp(t) # NoTime
MicrosTimestamp(t) == WideTimestamp(t) /\ normalizedTimestamp(t) = t

-----------------------------------------------------------------------------
(* Reference definitions, independent of the carrying above.               *)

(* An instant as the number of its day, counted from 0000-01-01, the       *)
(* minute of that day in UTC, the second and its first six digits.         *)
LeapYear(y) == y % 4 = 0 /\ (y % 100 = 0 => y % 400 = 0)
DaysBefore(m) == <<0, 31, 59, 90, 120, 151, 181, 212, 243, 273, 304, 334, 365>>[m]
DayNumber(y, m, d) ==
  365 * y + ((y + 3) \div 4) - ((y + 99) \div 100) + ((y + 399) \div 400)
    + DaysBefore(m) + (IF m > 2 /\ LeapYear(y) THEN 1 ELSE 0) + d - 1
Instant(t) ==
  LET sign == CASE t.zone = "+" -> -1 [] t.zone = "-" -> 1 [] OTHER -> 0
      min  == (t.h + sign * t.oh) * 60 + t.mi + sign * t.om
  IN <<DayNumber(t.y, t.m, t.d) + (min \div 1440), min % 1440, t.s,
       [k \in 1 .. 6 |-> IF k <= Len(t.frac) THEN t.frac[k] ELSE 0]>>
ValidTime(t) ==
  /\ t.spelled /\ Len(t.frac) <= 9
  /\ t.m \in 1 .. 12 /\ t.h \in 0 .. 23 /\ t.mi \in 0 .. 59 /\ t.s \in 0 .. 59
  /\ t.oh \in 0 .. 23 /\ t.om \in 0 .. 59
  /\ t.d \in 1 .. DaysBefore(t.m + 1) - DaysBefore(t.m)
               + (IF t.m = 2 /\ LeapYear(t.y) THEN 1 ELSE 0)
  /\ Instant(t)[1] \in 0 .. DayNumber(9999, 12, 31)
=============================================================================
