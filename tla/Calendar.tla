------------------------------- MODULE Calendar -------------------------------
(***************************************************************************)
(* Dates and their numbers, as time.Date and Time.AddDate of Go compute    *)
(* them: a month or a day outside its range is carried over to the next    *)
(* one.  Years are counted so that every fourth one is a leap year.        *)
(***************************************************************************)
EXTENDS Integers

Leap(y) == y % 4 = 0

MonthLength(y, m) ==
    CASE m = 2 -> IF Leap(y) THEN 29 ELSE 28
      [] m \in {4, 6, 9, 11} -> 30
      [] OTHER -> 31

(* The number of days before the first of month m of year y. *)
DaysBefore(y, m) ==
    LET before[k \in 1..12] ==
            IF k = 1 THEN (365 * y) + ((y + 3) \div 4) ELSE before[k - 1] + MonthLength(y, k - 1)
    IN  before[m]

(* time.Date(y, m, d): months are carried to years, then days are counted. *)
DayNumber(y, m, d) == DaysBefore(y + ((m - 1) \div 12), ((m - 1) % 12) + 1) + d - 1

(* The number of the day t.AddDate(years, months, days), t being a date.   *)
AddDate(t, years, months, days) == DayNumber(t.year + years, t.month + months, t.day + days)

NumberOf(t) == DayNumber(t.year, t.month, t.day)

DateAfter(t) ==
    IF t.day < MonthLength(t.year, t.month) THEN [t EXCEPT !.day = @ + 1]
    ELSE IF t.month < 12 THEN [t EXCEPT !.month = @ + 1, !.day = 1]
    ELSE [year |-> t.year + 1, month |-> 1, day |-> 1]
=============================================================================
