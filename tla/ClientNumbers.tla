----------------------------- MODULE ClientNumbers -----------------------------
(***************************************************************************)
(* Numbers as users type and see them, and as they are stored              *)
(* (service/www/3/exodus/scripts/exodus.js, NUMBER() with exodusnum() and  *)
(* exodusround()).                                                         *)
(*                                                                         *)
(* A text is a sequence of digits and signs, a number is a count of        *)
(* thousandths, and no text has more than three decimals.  The halves that *)
(* Math.round() cannot see in binary fractions are left out, and so are    *)
(* plus signs and numbers so large that they are printed with an exponent. *)
(***************************************************************************)
EXTENDS ClientDates

CONSTANT MaxDigits      \* 14, of each part of a number

ASSUME NumbersAssumption == MaxDigits \in Nat \ {0}

Point == 11
Comma == 12
Minus == 13

\* gbasefmt: "MDn0, or MCn0, where ... D/C means , or . for thousand sep".
BaseFormat == {"MD", "MC"}

\* The options of [NUMBER,...]: decimals, {} for those of the value; Z; and
\* POSITIVE or a minimum, and a maximum, {} for none.
NumberOptions ==
  [decimals : SUBSET (0..3), nozero : BOOLEAN, positive : BOOLEAN,
   min : SUBSET Int, max : SUBSET Int]

Unsigned(t) == IF t # << >> /\ t[1] = Minus THEN Tail(t) ELSE t

\* The parts before and after the first point.
PointAt(t) == IF \E i \in DOMAIN t : t[i] = Point
              THEN Min({i \in DOMAIN t : t[i] = Point}) ELSE Len(t) + 1
Whole(t) == SubSeq(t, 1, PointAt(t) - 1)
Decimals(t) == SubSeq(t, PointAt(t) + 1, Len(t))

\* exodusnum(): '' or 1 to 14 digits before a point and any after, or any before
\* and 1 to 14 after; without a point that is any number of digits.
IsNumeric(t) ==
  LET u == Unsigned(t)
      whole == Whole(u)
      decimals == Decimals(u)
  IN \/ t = << >>
     \/ /\ \A i \in DOMAIN whole : whole[i] \in 0..9
        /\ \A i \in DOMAIN decimals : decimals[i] \in 0..9
        /\ \/ Len(whole) \in 1..MaxDigits
           \/ Len(decimals) \in 1..MaxDigits
           \/ PointAt(u) > Len(u) /\ Len(whole) > 0

\* exodusnumber(), in thousandths.
Thousandths(t) ==
  LET u == Unsigned(t)
      n == 1000 * Number(Whole(u))
           + FoldLeft(LAMBDA sum, i : sum + Decimals(u)[i] * 10^(3 - i), 0,
                      [i \in 1..Len(Decimals(u)) |-> i])
  IN IF u # t THEN -n ELSE n

\* exodusround(): halves go away from zero.
Rounded(n, decimals) ==
  LET unit == 10^(3 - decimals)
      abs == IF n < 0 THEN -n ELSE n
      r == ((abs + unit \div 2) \div unit) * unit
  IN IF n < 0 THEN -r ELSE r

\* "format to N decimal places"
NumberText(n, decimals) ==
  LET abs == IF n < 0 THEN -n ELSE n
      sign == IF n < 0 THEN <<Minus>> ELSE << >>
      fraction == (abs % 1000) \div 10^(3 - decimals)
  IN sign \o Numeral(abs \div 1000)
     \o (IF decimals = 0 THEN << >> ELSE <<Point>> \o Padded(fraction, decimals))

\* Variant: texts are taken as they are.
CleanedNot(format, t) == t

\* "accept comma as decimal point": thousands separators of a format that is not
\* MC, commas, are deleted.
Cleaned(format, t) ==
  IF format = "MC" THEN t ELSE SelectSeq(t, LAMBDA c : c # Comma)

Digits(t) == SelectSeq(t, LAMBDA c : c \in 0..9 \cup {Point})
DecimalsOf(p, t) ==
  IF p.decimals # {} THEN CHOOSE d \in p.decimals : TRUE ELSE Len(Decimals(Digits(t)))

\* NUMBER() of a text that is numeric, both ways.
Formatted(p, t) ==
  LET decimals == DecimalsOf(p, t)
      n == Rounded(Thousandths(t), decimals)
  IN IF p.nozero /\ n = 0 THEN << >> ELSE NumberText(n, decimals)

\* NUMBER('ICONV')
NumberIn(format, p, t) ==
  LET clean == Cleaned(format, t)
      n == Rounded(Thousandths(clean), DecimalsOf(p, clean))
  IN IF t = << >> THEN << >>
     ELSE IF ~IsNumeric(clean) THEN InvalidText
     ELSE IF p.positive /\ n < 0 THEN InvalidText
     ELSE IF (\E m \in p.min : n < m) \/ (\E m \in p.max : n > m) THEN InvalidText
     ELSE Formatted(p, clean)

\* NUMBER('OCONV')
NumberOut(p, t) ==
  IF t = << >> THEN << >> ELSE IF ~IsNumeric(t) THEN InvalidText ELSE Formatted(p, t)
=============================================================================
