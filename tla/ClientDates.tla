------------------------------ MODULE ClientDates ------------------------------
(***************************************************************************)
(* Dates, times and periods as users type and see them, and as they are    *)
(* stored (service/www/3/exodus/scripts: DATE(), TIME(), DATE_TIME() of    *)
(* client.js, ADDCENT(), CENTURY(), PERIOD_OF_YEAR(), YEAR_PERIOD() and    *)
(* YEARPERIOD() of exodus.js).                                             *)
(*                                                                         *)
(* A text is a sequence of characters: the digits, and Sep, that stands    *)
(* for whatever separates numbers in it.  Names of months and blanks are   *)
(* left out.                                                               *)
(***************************************************************************)
EXTENDS SequencesExt, FiniteSetsExt, Integers

CONSTANTS
  ThisYear, ThisMonth     \* of new Date()

ASSUME DatesAssumption == ThisYear \in 1950..2049 /\ ThisMonth \in 1..12

Sep == 10
Invalid == -100000       \* null, for numbers
InvalidText == <<-1>>    \* null, for texts
NotStored == -200000     \* '', of which nothing is stored
CenturyYear == 50        \* gcenturyyear

IsDigits(t) == t # << >> /\ \A i \in DOMAIN t : t[i] \in 0..9

\* parseInt(text, 10), of a text of digits.
Number(t) == FoldLeft(LAMBDA n, c : 10 * n + c, 0, t)

\* The w last digits of n, with leading zeros.
Padded(n, w) == [i \in 1..w |-> (n \div 10^(w - i)) % 10]
Numeral(n) == Padded(n, CHOOSE w \in 1..6 : n < 10^w /\ (w = 1 \/ n >= 10^(w - 1)))

\* text.split(sep) and array.join(sep)
Split(t) ==
  FoldLeft(LAMBDA fs, c : IF c = Sep THEN Append(fs, << >>)
                          ELSE [fs EXCEPT ![Len(fs)] = Append(@, c)],
           << << >> >>, t)
Join(fs) == FoldLeft(LAMBDA t, f : t \o <<Sep>> \o f, fs[1], Tail(fs))

-----------------------------------------------------------------------------
(* Years: two digits and four.                                             *)

\* CENTURY() with mode 2, for one year: the year 50 is of this century.
Century(type, year) ==
  LET y == IF Len(year) = 1 THEN <<0>> \o year ELSE year
      cent == IF Number(SubSeq(y, 1, 2)) <= CenturyYear THEN <<2, 0>> ELSE <<1, 9>>
      out == IF Len(y) < 4 THEN cent \o y ELSE year
  IN IF year = << >> THEN << >>
     ELSE IF ~IsDigits(year) THEN InvalidText
     ELSE IF type = "ICONV" THEN SubSeq(out, 3, Min({4, Len(out)})) ELSE out

\* ADDCENT(), for one year: "nothing in nothing out".
AddCent(type, year) ==
  LET y == IF Len(year) = 1 THEN <<0>> \o year ELSE year
      cent == IF Number(SubSeq(y, 1, 2)) < CenturyYear THEN <<2, 0>> ELSE <<1, 9>>
      out == IF Len(y) < 4 THEN cent \o y ELSE y
  IN IF year = << >> THEN << >>
     ELSE IF ~IsDigits(year) THEN InvalidText
     ELSE IF type = "ICONV" THEN SubSeq(out, 3, Min({4, Len(out)})) ELSE out

-----------------------------------------------------------------------------
(* Date.UTC() and the getters of a Date, in days with 31/12/1967 as day 0. *)

Leap(y) == y % 4 = 0 /\ (y % 100 # 0 \/ y % 400 = 0)
DaysBeforeYear(y) ==
  LET z == y - 1 IN 365 * z + z \div 4 - z \div 100 + z \div 400
DaysBefore == <<0, 31, 59, 90, 120, 151, 181, 212, 243, 273, 304, 334>>
DaysBeforeMonth(y, m) == DaysBefore[m] + IF m > 2 /\ Leap(y) THEN 1 ELSE 0

\* Years below 100 are of the 20th century; months and days overflow.
DayNumber(year, month, day) ==
  LET y0 == IF year < 100 THEN 1900 + year ELSE year
      y == y0 + (month - 1) \div 12
      m == ((month - 1) % 12) + 1
  IN DaysBeforeYear(y) + DaysBeforeMonth(y, m) + day - DaysBeforeYear(1968)

Civil(n) ==
  LET guess == 1968 + (400 * n) \div 146097
      abs == n + DaysBeforeYear(1968)
      y == CHOOSE x \in (guess - 1)..(guess + 1) :
             DaysBeforeYear(x) < abs /\ abs <= DaysBeforeYear(x + 1)
      m == Max({k \in 1..12 : DaysBeforeMonth(y, k) < abs - DaysBeforeYear(y)})
  IN [year |-> y, month |-> m, day |-> abs - DaysBeforeYear(y) - DaysBeforeMonth(y, m)]

-----------------------------------------------------------------------------
(* DATE()                                                                  *)

\* setdateformat(): the places of day, month and year.
Format ==
  {[day |-> 1, month |-> 2, year |-> 3], [day |-> 2, month |-> 1, year |-> 3],
   [day |-> 3, month |-> 2, year |-> 1]}

InPlaces(f, d, m, y) ==
  [i \in 1..3 |-> CASE i = f.day -> d [] i = f.month -> m [] i = f.year -> y]

\* Texts of digits alone: ddmm, ddmmyy or ddmmyyyy.
Grouped(t) ==
  LET n == Len(t) IN
  IF n = 4 /\ IsDigits(t) THEN SubSeq(t, 1, 2) \o <<Sep>> \o SubSeq(t, 3, 4)
  ELSE IF \/ n >= 6 /\ IsDigits(SubSeq(t, 1, 6))
          \/ n >= 8 /\ IsDigits(SubSeq(t, n - 7, n))
       THEN SubSeq(t, 1, 2) \o <<Sep>> \o SubSeq(t, 3, 4) \o <<Sep>> \o SubSeq(t, 5, n)
  ELSE t

\* The three parts in their places, as far as they were typed.
Parts(f, t) ==
  LET v == Split(Grouped(t)) IN
  IF Len(v) = 1 THEN InPlaces(f, v[1], << >>, << >>)
  ELSE IF Len(v) = 2 THEN Append(v, << >>)
  ELSE SubSeq(v, 1, 3)

\* Variant: days and months that overflow are those of later months and years.
RealAny(n, day, month) == TRUE

\* "check that the oconv matches the iconv"
Real(n, day, month) == Civil(n).day = day /\ Civil(n).month = month

\* DATE('ICONV') of a text that is not empty: "default to current month", "default
\* to current year", "limit 1/1/1900 to 31/12/2099".
DateIn(f, t) ==
  LET v == Parts(f, t)
      month == IF v[f.month] = << >> THEN ThisMonth ELSE Number(v[f.month])
      year == IF v[f.year] = << >> THEN ThisYear
              ELSE Number(AddCent("OCONV", v[f.year]))
      day == Number(v[f.day])
      n == DayNumber(year, month, day)
  IN IF Len(t) = 5 /\ IsDigits(t) THEN Number(t)
     ELSE IF Len(v[f.day]) \notin 1..2 THEN Invalid
     ELSE IF n \notin -24835..48213 THEN Invalid
     ELSE IF Real(n, day, month) THEN n ELSE Invalid

\* DATE('OCONV')
DateOut(f, n) ==
  LET c == Civil(n)
  IN Join(InPlaces(f, Numeral(c.day), Numeral(c.month), Numeral(c.year)))

\* DATE('OCONV', n, 'DOW'): % is the remainder, with the sign of n - 1.
Remainder(n, k) == IF n >= 0 THEN n % k ELSE -((-n) % k)
DayOfWeek(n) == Remainder(n - 1, 7) + 1

-----------------------------------------------------------------------------
(* TIME() and DATE_TIME()                                                  *)

InRange(x) == x[1] <= 47 /\ x[2] <= 59 /\ x[3] <= 59

\* TIME('ICONV'): hhmm, hhmmss, h:m or h:m:s, "allow up to two days eg 47:59";
\* "blank in .. blank out".  A point is a separator, no decimal point.
TimeIn(t) ==
  LET n == Len(t)
      colons == IF IsDigits(t) /\ n = 4 THEN SubSeq(t, 1, 2) \o <<Sep>> \o SubSeq(t, 3, 4)
                ELSE IF IsDigits(t) /\ n = 6
                THEN SubSeq(t, 1, 2) \o <<Sep>> \o SubSeq(t, 3, 4) \o <<Sep>> \o SubSeq(t, 5, 6)
                ELSE t
      parts == Split(colons)
      v == IF Len(parts) = 1 THEN Append(parts, <<0, 0>>)
           ELSE IF parts[2] = << >> THEN [parts EXCEPT ![2] = <<0, 0>>] ELSE parts
      x == [i \in 1..3 |-> IF i \in DOMAIN v THEN Number(v[i]) ELSE 0]
  IN IF t = << >> THEN NotStored
     ELSE IF Len(v) > 3 \/ \E i \in DOMAIN v : Len(v[i]) \notin 1..2 THEN Invalid
     ELSE IF ~InRange(x) THEN Invalid
     ELSE 3600 * x[1] + 60 * x[2] + x[3]

\* TIME('OCONV'): hours and minutes.  Blank comes out of 0, too: 0 == ''.
TimeOut(n) ==
  IF n = 0 THEN << >>
  ELSE Padded(n \div 3600, 2) \o <<Sep>> \o Padded((n \div 60) % 60, 2)

\* What is stored of a number that was converted, in an element that was empty
\* and has a field of its own: 0 == '', so that gds.setx() finds no change, and
\* obj2rev() nothing to store.
Stored(n) == IF n = 0 THEN NotStored ELSE n

\* DATE_TIME('OCONV'): day and second of the server, shifted by the zone.
DateTimeOut(day, second, zone) ==
  LET s == second + zone IN
  IF s < 0 THEN [day |-> day - 1, second |-> s + 86400]
  ELSE IF s > 86400 THEN [day |-> day - 1, second |-> s + 86400]
  ELSE [day |-> day, second |-> s]

-----------------------------------------------------------------------------
(* Periods: month/year as typed and shown.                                 *)

\* A period is one or two numbers.  The leading zero of a month is trimmed.
MonthOf(v) == IF v[1] # << >> /\ v[1][1] = 0 THEN Tail(v[1]) ELSE v[1]
IsMonth(m) == IsDigits(m) /\ Number(m) \in 1..12 /\ m = Numeral(Number(m))
YearOf(v, year) == IF Len(v) = 1 \/ v[2] = << >> THEN year ELSE v[2]

\* ('00' + month).exodusright(2)
TwoDigits(n) == Padded(n, 2)

\* PERIOD_OF_YEAR(): two digits of the year are stored, four are shown.  "mode
\* can be the current period", or else is the old value of the element.
PeriodOfYear(type, t, mode) ==
  LET v == Split(t)
      default == IF mode = << >> THEN Numeral(ThisYear) ELSE Split(mode)[2]
  IN IF Len(v) > 2 \/ ~IsMonth(MonthOf(v)) THEN InvalidText
     ELSE Join(<<MonthOf(v), AddCent(type, YearOf(v, default))>>)

\* YEAR_PERIOD() with mode 4: 12/2009 is stored as 2009.12, and with another
\* mode as 09.12.
YearDotPeriodIn(mode4, t) ==
  LET v == Split(t)
      type == IF mode4 THEN "OCONV" ELSE "ICONV"
  IN IF Len(v) > 2 \/ ~IsMonth(MonthOf(v)) THEN InvalidText
     ELSE Join(<<AddCent(type, YearOf(v, Numeral(ThisYear))),
                 TwoDigits(Number(MonthOf(v)))>>)

YearDotPeriodOut(t) ==
  LET v == Split(t)
  IN Join(<<Numeral(Number(v[2])), AddCent("OCONV", v[1])>>)

\* YEARPERIOD(): 12/09 is stored as 0912.
YearPeriodIn(t) ==
  LET v == Split(t) IN
  IF Len(v) > 2 \/ ~IsMonth(MonthOf(v)) THEN InvalidText
  ELSE AddCent("ICONV", IF Len(v) = 1 THEN Numeral(ThisYear) ELSE v[2])
       \o TwoDigits(Number(MonthOf(v)))

YearPeriodOut(t) ==
  Join(<<Numeral(Number(SubSeq(t, 3, Len(t)))), AddCent("OCONV", SubSeq(t, 1, 2))>>)
=============================================================================
