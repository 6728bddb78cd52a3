----------------------------- MODULE FilterPeriods -----------------------------
(***************************************************************************)
(* The buttons that fill the dates of the filter with a period             *)
(* (filterPeriods in static/js/app.js).  A date is [y, m, d] with months   *)
(* counted from 1.                                                         *)
(***************************************************************************)
EXTENDS Integers

Periods == {"this-month", "last-month", "last-30-days", "this-year", "last-year"}

DateOf(y, m, d) == [y |-> y, m |-> m, d |-> d]

-----------------------------------------------------------------------------
(* The calendar, as the standard of JavaScript has it.                     *)

IsLeap(y) == y % 4 = 0 /\ (y % 100 # 0 \/ y % 400 = 0)

DaysIn(y, m) ==
    CASE m \in {4, 6, 9, 11} -> 30
      [] m = 2 -> IF IsLeap(y) THEN 29 ELSE 28
      [] OTHER -> 31

(* new Date(year, month, day): months from 0, any integers; what is too    *)
(* much or too little carries to months and years.                         *)
RECURSIVE Carried(_, _, _)
Carried(y, m, d) ==
    IF m > 12 THEN Carried(y + 1, m - 12, d)
    ELSE IF m < 1 THEN Carried(y - 1, m + 12, d)
    ELSE IF d < 1 THEN LET before == IF m = 1 THEN DateOf(y - 1, 12, 0) ELSE DateOf(y, m - 1, 0)
                       IN  Carried(before.y, before.m, d + DaysIn(before.y, before.m))
    ELSE IF d > DaysIn(y, m) THEN Carried(y, m + 1, d - DaysIn(y, m))
    ELSE DateOf(y, m, d)

NewDate(year, month, day) == Carried(year, month + 1, day)

-----------------------------------------------------------------------------
PeriodOf(period, today) ==
    LET year  == today.y
        month == today.m - 1
    IN  CASE period = "this-month"   -> <<NewDate(year, month, 1), NewDate(year, month + 1, 0)>>
          [] period = "last-month"   -> <<NewDate(year, month - 1, 1), NewDate(year, month, 0)>>
          [] period = "last-30-days" -> <<NewDate(year, month, today.d - 29), today>>
          [] period = "this-year"    -> <<NewDate(year, 0, 1), NewDate(year, 11, 31)>>
          [] period = "last-year"    -> <<NewDate(year - 1, 0, 1), NewDate(year - 1, 11, 31)>>

-----------------------------------------------------------------------------
(* The same periods as first and last day, counted from a day long ago.    *)

Day(y, m, d) ==
    365 * y + ((y - 1) \div 4) - ((y - 1) \div 100) + ((y - 1) \div 400)
    + <<0, 31, 59, 90, 120, 151, 181, 212, 243, 273, 304, 334>>[m]
    + (IF m > 2 /\ IsLeap(y) THEN 1 ELSE 0) + d

FirstOfMonth(n) == Day(n \div 12, (n % 12) + 1, 1)

DaysOf(period, today) ==
    LET year  == 12 * today.y
        month == year + today.m - 1
        day   == Day(today.y, today.m, today.d)
    IN  CASE period = "this-month"   -> <<FirstOfMonth(month), FirstOfMonth(month + 1) - 1>>
          [] period = "last-month"   -> <<FirstOfMonth(month - 1), FirstOfMonth(month) - 1>>
          [] period = "last-30-days" -> <<day - 29, day>>
          [] period = "this-year"    -> <<FirstOfMonth(year), FirstOfMonth(year + 12) - 1>>
          [] period = "last-year"    -> <<FirstOfMonth(year - 12), FirstOfMonth(year) - 1>>
=============================================================================
