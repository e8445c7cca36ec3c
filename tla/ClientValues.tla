----------------------------- MODULE ClientValues -----------------------------
(***************************************************************************)
(* The values that a page converts: dates, times, periods, numbers and     *)
(* records go out to the user or to a form and come back to the database.  *)
(* Each step converts one of them.  Days and months are converted one      *)
(* after the other, from the first of the range to the last.               *)
(***************************************************************************)
EXTENDS ClientNumbers, ClientRecords

CONSTANTS
  FirstDay, LastDay,        \* the days that are converted
  FirstMonth, LastMonth,    \* and the months, 12 * year + month - 1
  TypedDates,               \* [day, month, year: texts, digits: BOOLEAN]
  TypedTimes,               \* [hour, minute, second: texts, digits: BOOLEAN]
  TypedNumbers,             \* [format, options, minus, groups, point, separated]
  StoredRecords,            \* records as they come from the database
  EnteredRows,              \* [single, group1], as the user leaves a form
  Amounts,                  \* sequences of [unit, amount], in the order of units
  Tables                    \* sequences of rows

ASSUME ValuesAssumption ==
  /\ FirstDay \in -24835..48213 /\ LastDay \in FirstDay..48213
  /\ FirstMonth \in Nat /\ LastMonth \in Nat

VARIABLE input

Nothing == [kind |-> "nothing"]
Day(n) == [kind |-> "day", day |-> n]
Month(n) == [kind |-> "month", month |-> n]

Init == input = Nothing

\* exodusoconv(day, '[DATE]') of a calendar, a list or a form.
ShowDay ==
  \/ input = Nothing /\ input' = Day(FirstDay)
  \/ /\ input.kind = "day" /\ input.day < LastDay
     /\ input' = Day(input.day + 1)

\* A time of day of the two that TIME() allows, in seconds.
ShowTime ==
  \/ input = Nothing /\ input' = [kind |-> "time", time |-> 0]
  \/ /\ input.kind = "time" /\ input.time < 2 * 86400 - 60
     /\ input' = [input EXCEPT !.time = @ + 60]

\* exodusiconv(text, conversion) of what is typed in an element.
TypeDate == input = Nothing /\ \E t \in TypedDates : input' = [kind |-> "date", typed |-> t]
TypeNumber == input = Nothing /\ \E t \in TypedNumbers : input' = [kind |-> "number", typed |-> t]
TypeTime == input = Nothing /\ \E t \in TypedTimes : input' = [kind |-> "typed time", typed |-> t]

TypePeriod ==
  \/ input = Nothing /\ input' = Month(FirstMonth)
  \/ /\ input.kind = "month" /\ input.month < LastMonth
     /\ input' = Month(input.month + 1)

\* A record is read into a form and written back as it is, or with the rows
\* that the user leaves there.
OpenRecord ==
  input = Nothing /\ \E rev \in StoredRecords : input' = [kind |-> "record", rev |-> rev]
EditRecord ==
  /\ input.kind = "record"
  /\ \E data \in EnteredRows : input' = [kind |-> "rows", rev |-> input.rev, data |-> data]

\* Amounts of two rows are added for a total, and a table is turned.
AddAmounts ==
  input = Nothing /\ \E a, b \in Amounts : input' = [kind |-> "amounts", a |-> a, b |-> b]
TurnTable ==
  input = Nothing /\ \E t \in Tables : input' = [kind |-> "table", rows |-> t]

Next ==
  \/ ShowDay \/ ShowTime \/ TypeDate \/ TypeTime \/ TypeNumber \/ TypePeriod
  \/ OpenRecord \/ EditRecord \/ AddAmounts \/ TurnTable

Spec == Init /\ [][Next]_input

-----------------------------------------------------------------------------
(* Dates and times                                                         *)

\* The day that is shown, in each of the three formats, is stored as the same day
\* when the user types it in another element (DATE() both ways): but for day 0,
\* 31/12/1967, of which nothing is stored.
DatesRoundTrip ==
  input.kind = "day" =>
    \A f \in Format : Stored(DateIn(f, DateOut(f, input.day))) = Stored(input.day)

\* Day after day the weekday of DATE(,'DOW') is the next one, from the first
\* day of 1968.
WeekdaysFollow ==
  input.kind = "day" /\ input.day >= 2
    => DayOfWeek(input.day) = (DayOfWeek(input.day - 1) % 7) + 1

MonthLength(month, year) ==
  IF month = 2 THEN (IF Leap(year) THEN 29 ELSE 28)
  ELSE IF month \in {4, 6, 9, 11} THEN 30 ELSE 31

\* What is meant by the text: no month is this one, no year is this one, and
\* two digits of a year are of 1950 to 2049.
MeantMonth(t) == IF t.month = << >> THEN ThisMonth ELSE Number(t.month)
MeantYear(t) ==
  IF t.year = << >> THEN ThisYear
  ELSE IF Len(t.year) > 2 THEN Number(t.year)
  ELSE Number(t.year) + IF Number(t.year) < CenturyYear THEN 2000 ELSE 1900

TypedText(f, t) ==
  LET parts == SelectSeq(InPlaces(f, t.day, t.month, t.year), LAMBDA p : p # << >>)
  IN IF t.digits THEN FlattenSeq(parts) ELSE Join(parts)

IsCalendarDay(t) ==
  /\ MeantMonth(t) \in 1..12 /\ MeantYear(t) \in 1900..2099
  /\ Number(t.day) \in 1..MonthLength(MeantMonth(t), MeantYear(t))

\* A typed date is stored as the day of the calendar that it names or is
\* refused, never moved to another day, and no date of 1900 to 2099 is refused
\* (DATE('ICONV') with ADDCENT(), "the above algorithm allows dom <=99 and is
\* calculated into next months").  Of 31/12/1967 nothing is stored.  The format
\* with the year in front takes only all three parts with separators, see
\* ListedDatesTaken.
TypedDateIsMeant ==
  input.kind = "date" =>
    \A f \in Format :
      f.year = 3 \/ (input.typed.year # << >> /\ ~input.typed.digits)
      => LET n == Stored(DateIn(f, TypedText(f, input.typed)))
             meant == [year |-> MeantYear(input.typed), month |-> MeantMonth(input.typed),
                       day |-> Number(input.typed.day)]
         IN IF ~IsCalendarDay(input.typed) THEN n = Invalid
            ELSE IF meant = Civil(0) THEN n = NotStored
            ELSE n \notin {Invalid, NotStored} /\ Civil(n) = meant

\* "Valid date formats are" ... "y/m/d, yymmdd or yyyymmdd", "or just d, m/d,
\* mmdd" (invaliddatemsg(), exodus.js).
ListedDatesTaken ==
  input.kind = "date" /\ IsCalendarDay(input.typed)
    => \A f \in Format : DateIn(f, TypedText(f, input.typed)) # Invalid

\* The time that is shown is stored as the same minute when it is typed in
\* another element, up to 47:59 (TIME() both ways, "allow 24:00 and 25:00 etc"):
\* but for time 0, of which nothing is shown nor stored.
TimesRoundTrip ==
  input.kind = "time" => Stored(TimeIn(TimeOut(input.time))) = Stored(input.time)

TimeText(t) ==
  LET parts == SelectSeq(<<t.hour, t.minute, t.second>>, LAMBDA p : p # << >>)
  IN IF t.digits THEN FlattenSeq(parts) ELSE Join(parts)

\* "e.g. 12:45, 1245 12.75, 00:00, 23:59, 11:59:59, 24:00, 25:00 etc."
ListedTimes ==
  {[hour |-> h, minute |-> m, second |-> << >>, digits |-> FALSE] :
     <<h, m>> \in {<<<<1, 2>>, <<4, 5>>>>, <<<<1, 2>>, <<7, 5>>>>, <<<<0, 0>>, <<0, 0>>>>,
                   <<<<2, 3>>, <<5, 9>>>>, <<<<2, 4>>, <<0, 0>>>>, <<<<2, 5>>, <<0, 0>>>>}}
  \cup
  {[hour |-> <<1, 2>>, minute |-> <<4, 5>>, second |-> << >>, digits |-> TRUE],
   [hour |-> <<1, 1>>, minute |-> <<5, 9>>, second |-> <<5, 9>>, digits |-> FALSE]}

\* A time that the message of TIME() lists is one that is stored.  It does not
\* hold: of 00:00 nothing is stored, and 12.75 is refused like 12:75.
ListedTimesStored ==
  input.kind = "typed time" /\ input.typed \in ListedTimes
    => Stored(TimeIn(TimeText(input.typed))) \notin {Invalid, NotStored}

\* A typed time is stored as the seconds of its hours, minutes and seconds, or
\* refused when one of these is out of range, whichever way it is typed and
\* separated.  Of 00:00 nothing is stored.
TypedTimeIsMeant ==
  input.kind = "typed time" =>
    LET t == input.typed
        part == [p \in {"hour", "minute", "second"} |-> Number(t[p])]
        seconds == 3600 * part["hour"] + 60 * part["minute"] + part["second"]
    IN Stored(TimeIn(TimeText(t))) =
         IF part["hour"] > 47 \/ part["minute"] > 59 \/ part["second"] > 59 THEN Invalid
         ELSE IF seconds = 0 THEN NotStored ELSE seconds

-----------------------------------------------------------------------------
(* Periods                                                                 *)

PeriodText(n) == Join(<<Numeral((n % 12) + 1), Numeral(n \div 12)>>)

\* Order of texts, as the database sorts them.
TextLess(s, t) ==
  \E i \in DOMAIN t :
    /\ \A k \in 1..(i - 1) : k \in DOMAIN s /\ s[k] = t[k]
    /\ i \in DOMAIN s => s[i] < t[i]

\* A month is stored before the next one in the order of texts, and shown as it
\* was typed (YEAR_PERIOD() with mode 4: 2009.12 <-> 12/2009).
PeriodsInOrder ==
  input.kind = "month" =>
    LET text == PeriodText(input.month)
        Stored4(n) == YearDotPeriodIn(TRUE, PeriodText(n))
    IN /\ YearDotPeriodOut(Stored4(input.month)) = text
       /\ TextLess(Stored4(input.month), Stored4(input.month + 1))

\* A month of 1950 to 2049 is shown as it was typed though its year is stored
\* in two digits (YEARPERIOD(), YEAR_PERIOD() and PERIOD_OF_YEAR(), over
\* ADDCENT()), and a year that is not typed is that of the last period.
PeriodsRoundTrip ==
  input.kind = "month" =>
    LET text == PeriodText(input.month)
        month == Numeral((input.month % 12) + 1)
    IN /\ YearPeriodOut(YearPeriodIn(text)) = text
       /\ YearDotPeriodOut(YearDotPeriodIn(FALSE, text)) = text
       /\ PeriodOfYear("OCONV", PeriodOfYear("ICONV", text, << >>), << >>) = text
       /\ PeriodOfYear("ICONV", month, text) = PeriodOfYear("ICONV", text, << >>)

\* Dates, times and periods: what is typed is stored as what it means or is
\* refused, what is stored is shown and typed again as the same, and the order
\* of days and months is kept: but for 31/12/1967 and 00:00, which are taken
\* and not stored.
DatesKept == DatesRoundTrip /\ TypedDateIsMeant /\ WeekdaysFollow
TimesKept == TimesRoundTrip /\ TypedTimeIsMeant
PeriodsKept == PeriodsInOrder /\ PeriodsRoundTrip
CalendarKept == DatesKept /\ TimesKept /\ PeriodsKept

\* ADDCENT() and CENTURY() show the same year for two digits.
CenturiesAgree ==
  input.kind = "month" =>
    LET year == Padded(input.month \div 12, 2)
    IN Century("OCONV", year) = AddCent("OCONV", year)

-----------------------------------------------------------------------------
(* Numbers                                                                 *)

\* The text of a number in its format: groups of digits, and the digits after
\* the decimal point in thousandths.
ThousandsSign(format) == IF format = "MC" THEN Point ELSE Comma
DecimalSign(format) == IF format = "MC" THEN Comma ELSE Point

TypedNumber(t) ==
  LET sign == IF t.separated THEN <<ThousandsSign(t.format)>> ELSE << >>
      whole == FoldLeft(LAMBDA s, g : s \o sign \o g, t.groups[1], Tail(t.groups))
  IN (IF t.minus THEN <<Minus>> ELSE << >>) \o whole
     \o (IF t.point = << >> THEN << >> ELSE <<DecimalSign(t.format)>> \o t.point)

NumberMeant(t) ==
  LET abs == 1000 * Number(FlattenSeq(t.groups)) + Number(t.point \o [i \in 1..(3 - Len(t.point)) |-> 0])
  IN IF t.minus THEN -abs ELSE abs

IsMeant(t) ==
  LET stored == NumberIn(t.format, t.options, TypedNumber(t))
      meant == NumberMeant(t)
      off == IF stored = InvalidText THEN 0 ELSE Thousandths(stored) - meant
      unit == IF t.options.decimals = {} THEN 1 ELSE 10^(3 - Max(t.options.decimals))
  IN IF stored = InvalidText
     THEN \/ t.options.positive /\ meant < 0
          \/ \E m \in t.options.min : meant < m
          \/ \E m \in t.options.max : meant > m
     ELSE 2 * off \in (-unit)..unit

\* A number typed with or without thousands separators is stored as the number
\* that it is, rounded to its decimals, or refused for being out of its limits
\* (NUMBER('ICONV'), for "numbers like 999,999,999.99").
TypedNumberIsMeant ==
  input.kind = "number" /\ input.typed.format = "MD" => IsMeant(input.typed)

\* "support input of numbers like 999,999,999.99 or 999.999.999,99": the same in
\* either format (client.js, clientfunctions_getglobals()).
EitherFormatIsMeant == input.kind = "number" => IsMeant(input.typed)

\* What is stored of a number, shown and typed again, is stored as the same
\* (NUMBER() both ways).
NumbersRoundTrip ==
  input.kind = "number" =>
    LET t == input.typed
        stored == NumberIn(t.format, t.options, TypedNumber(t))
    IN stored # InvalidText
         => NumberIn(t.format, t.options, NumberOut(t.options, stored)) = stored

\* Numbers: both.
NumbersKept == TypedNumberIsMeant /\ NumbersRoundTrip

\* "max 14 digits before decimal point otherwise too big to be represented
\* without exponential" (exodusnum()).
LargeNumbersRefused ==
  input.kind = "number" /\ Len(FlattenSeq(input.typed.groups)) > MaxDigits
    => NumberIn(input.typed.format, input.typed.options, TypedNumber(input.typed)) = InvalidText

-----------------------------------------------------------------------------
(* Records                                                                 *)

\* Words of a value beyond the dictionary's "will be lost on update".
KnownWords(fn) ==
  LET its == {it \in Items(0) \cup Items(1) : it.field = fn}
  IN IF \E it \in its : it.word = 0 THEN {}
     ELSE UNION {it.word..(it.word + it.nwords - 1) : it \in its}

Kept(rev) ==
  [fn \in DOMAIN rev |->
     IF ~InDict(fn) \/ KnownWords(fn) = {} THEN rev[fn]
     ELSE [v \in DOMAIN rev[fn] |->
             Field(rev[fn][v], 1, Max(KnownWords(fn)), Blank)]]

\* Trailing blank words do not count: a*b and a*b* are the same value.
Words(rev) ==
  [fn \in DOMAIN rev |-> [v \in DOMAIN rev[fn] |-> TrimR(rev[fn][v], Blank)]]
SameRecord(r, s) == Trimmed(Words(r)) = Trimmed(Words(s))

\* A record that is opened and saved unchanged is stored as it was, the fields
\* that the dictionary does not have with it ("That means that any fields not
\* in the dictionary will not be lost", obj2rev()).
RecordRoundTrip ==
  input.kind = "record"
    => SameRecord(Obj2Rev(input.rev, Rev2Obj(input.rev)), Kept(input.rev))

BlankRow == [name \in {it.name : it \in Items(1)} |-> EmptyField]
WithoutBlankRows(data) ==
  LET full == {n \in DOMAIN data.group1 : data.group1[n] # BlankRow}
  IN [data EXCEPT !.group1 = IF full = {} THEN <<BlankRow>> ELSE SubSeq(@, 1, Max(full))]

\* Rows that are saved are the rows that the next form opens with, each text in
\* its row and in its item, but for blank rows at the end: with no other row it
\* opens with a blank one, nothing of the rows that were deleted (obj2rev(),
\* then rev2obj()).
RowsRoundTrip ==
  input.kind = "rows"
    => Rev2Obj(Obj2Rev(input.rev, input.data)) = WithoutBlankRows(input.data)

-----------------------------------------------------------------------------
(* Amounts and tables                                                      *)

Total(a, unit) ==
  FoldLeft(LAMBDA n, x : IF x.unit = unit THEN n + x.amount ELSE n, 0, a)

\* The total of each unit is the sum of its amounts and every unit is there
\* once, in order (exodusaddunits(), "b must be ascii alphabetic order").
UnitsAdded ==
  input.kind = "amounts" =>
    LET sum == AddUnits(input.a, input.b)
        units == {x.unit : x \in ToSet(input.a) \cup ToSet(input.b)}
    IN /\ \A u \in units : Total(sum, u) = Total(input.a, u) + Total(input.b, u)
       /\ \A i, j \in DOMAIN sum : i < j => sum[i].unit < sum[j].unit

CellOf(rows, i, j) == IF j \in DOMAIN rows[i] THEN rows[i][j] ELSE Blank
TurnedRight(rows) ==
  Invert(rows) = [j \in 1..Longest(rows, Len(rows)) |->
                    [i \in DOMAIN rows |-> CellOf(rows, i, j)]]

\* A table whose first row is a longest one is turned, and its shorter rows
\* filled (exodusinvert(): "if first element of array has the maximum number of
\* subelements then no need to go back afterwards").
TablesTurned ==
  input.kind = "table" /\ Len(input.rows[1]) = Longest(input.rows, Len(input.rows))
    => TurnedRight(input.rows)

\* Records, rows, amounts and tables: nothing of what they are made of is lost,
\* doubled or out of its place when they are taken apart and put together.
RecordsKept == RecordRoundTrip /\ RowsRoundTrip /\ UnitsAdded /\ TablesTurned

\* "go back and fill any missing elements": of any table.
EveryTableTurned == input.kind = "table" => TurnedRight(input.rows)
=============================================================================
