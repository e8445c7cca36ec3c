----------------------------- MODULE ClientRecords -----------------------------
(***************************************************************************)
(* How the pages convert a stored record into the object that a form edits *)
(* and back (service/www/3/exodus/scripts/db.js rev2obj() and obj2rev(),   *)
(* with the functions on dynamic arrays of exodus.js), and how amounts     *)
(* with units are added.                                                   *)
(*                                                                         *)
(* A stored record is fields, separated by fm, of values, separated by vm. *)
(* A value is words, separated by "*".  Here it is a sequence of sequences *)
(* of sequences, as split() returns it: the empty text is <<<<Blank>>>>,   *)
(* one word that is empty.                                                 *)
(***************************************************************************)
EXTENDS SequencesExt, FiniteSetsExt, Integers

CONSTANTS
  Dict      \* the items of the dictionary, a sequence of DictItem

\* An item is a column of group 0, whose rows are the one row of the form, or
\* of group 1, a table.  word = 0: the whole value.
DictItem == [name : STRING, field : Nat \ {0}, group : 0..1, word : Nat, nwords : Nat]

ASSUME RecordsAssumption ==
  \A i \in DOMAIN Dict : Dict[i] \in DictItem

\* Words are numbers.
Blank == 0
EmptyValue == <<Blank>>
EmptyField == <<EmptyValue>>

\* The number of fields that the dictionary knows: the last of them.
NFields == Max({Dict[i].field : i \in DOMAIN Dict})
Items(g) == {Dict[i] : i \in {k \in DOMAIN Dict : Dict[k].group = g}}
InDict(fn) == \E i \in DOMAIN Dict : Dict[i].field = fn

\* exodustrimr(): the string has no trailing separators.
TrimR(s, empty) ==
  LET full == {i \in DOMAIN s : s[i] # empty}
  IN IF full = {} THEN <<empty>> ELSE SubSeq(s, 1, Max(full))

\* exodusfield(sep, start, length), for start > 0.
Field(s, start, length, empty) ==
  IF start > Len(s) THEN <<empty>>
  ELSE SubSeq(s, start, Min({start + length - 1, Len(s)}))

\* exodusfieldstore(sep, start, length, insertstring, true).  The string is
\* filled up to where it is stored; an insertion of more or fewer parts than
\* length overwrites as many as it has.
FieldStore(s, start, length, ins, empty) ==
  IF ins = <<empty>> /\ start > Len(s) THEN s
  ELSE LET filled == IF length > Len(ins) THEN Len(s) ELSE start - 1 + length
           end == start - 1 + Len(ins)
       IN [i \in 1..Max({Len(s), filled, end}) |->
             IF i \in start..end THEN ins[i - start + 1]
             ELSE IF i \in DOMAIN s THEN s[i] ELSE empty]

-----------------------------------------------------------------------------
(* rev2obj()                                                               *)

\* Fields that the record does not have are blank.
FieldOf(rev, fn) == IF fn \in DOMAIN rev THEN rev[fn] ELSE EmptyField

\* The rows of the table: as many as its longest column has values.
NRows(rev) == Max({0} \cup {Len(FieldOf(rev, it.field)) : it \in Items(1)})

\* The text of an item in row n.  A field of group 0 is taken whole, with all
\* its values, unless the item is a word of it.
Text(rev, it, n) ==
  LET field == FieldOf(rev, it.field)
      value == IF it.group = 0 THEN field[1]
               ELSE IF n \in DOMAIN field THEN field[n] ELSE EmptyValue
  IN IF it.word > 0 THEN <<Field(value, it.word, it.nwords, Blank)>>
     ELSE IF it.group = 0 THEN field ELSE <<value>>

Row(rev, g, n) ==
  [name \in {it.name : it \in Items(g)} |->
     Text(rev, CHOOSE it \in Items(g) : it.name = name, n)]

Rev2Obj(rev) ==
  [single |-> Row(rev, 0, 1),
   group1 |-> [n \in 1..NRows(rev) |-> Row(rev, 1, n)]]

-----------------------------------------------------------------------------
(* obj2rev()                                                               *)

\* Variant: a field keeps its values until it is written.
ClearedNot(rev) == [fn \in 1..Max({Len(rev), NFields}) |-> FieldOf(rev, fn)]

\* The fields are taken from the record as it was read; those in the
\* dictionary are cleared.
Cleared(rev) ==
  [fn \in 1..Max({Len(rev), NFields}) |->
     IF InDict(fn) THEN EmptyField ELSE FieldOf(rev, fn)]

\* "if first time for the current fieldn then prepare empty multivalue array"
Prepared(rev, it, rows) ==
  IF rows = << >> THEN rev
  ELSE [rev EXCEPT ![it.field] = [n \in DOMAIN rows |-> EmptyValue]]

\* A value is a text without values of its own, but that of a single field.
StoreText(rev, it, n, text) ==
  IF text = EmptyField /\ it.word = 0 THEN rev
  ELSE IF it.group = 0 /\ it.word = 0 THEN [rev EXCEPT ![it.field] = text]
  ELSE LET old == IF n \in DOMAIN rev[it.field] THEN rev[it.field][n] ELSE EmptyValue
           new == IF it.word = 0 THEN text[1]
                  ELSE FieldStore(old, it.word, it.nwords, text[1], Blank)
       IN [rev EXCEPT ![it.field] =
             [i \in 1..Max({Len(@), n}) |->
                IF i = n THEN new ELSE IF i \in DOMAIN @ THEN @[i] ELSE EmptyValue]]

\* The first item of a field in the group prepares it.
First(i) == \A k \in 1..(i - 1) : Dict[k].field # Dict[i].field

StoreItem(rev, i, rows) ==
  LET it == Dict[i]
      start == IF First(i) THEN Prepared(rev, it, rows) ELSE rev
  IN FoldLeft(LAMBDA r, n : StoreText(r, it, n, rows[n][it.name]),
              start, [n \in DOMAIN rows |-> n])

RowsOf(data, g) == IF g = 0 THEN <<data.single>> ELSE data.group1

\* Trailing blank values and fields are not stored.  Fields beyond those of the
\* dictionary stay as they were.
Trimmed(rev) ==
  TrimR([fn \in DOMAIN rev |-> IF fn > NFields THEN rev[fn] ELSE TrimR(rev[fn], EmptyValue)],
        EmptyField)

Obj2Rev(rev, data) ==
  Trimmed(FoldLeft(LAMBDA r, i : StoreItem(r, i, RowsOf(data, Dict[i].group)),
                   Cleared(rev), [i \in DOMAIN Dict |-> i]))

-----------------------------------------------------------------------------
(* exodusinvert(): the columns of a table of rows.                         *)

NoCell == -1     \* an element that is not there

\* Rows that are shorter are filled while the longest so far is known; "go
\* back and fill any missing elements" then reads and writes the cell on the
\* other side of the diagonal.
Longest(rows, i) == Max({Len(rows[k]) : k \in 1..i})

Turned(rows) ==
  [j \in 1..Longest(rows, Len(rows)) |->
     [i \in DOMAIN rows |->
        IF j > Longest(rows, i) THEN NoCell
        ELSE IF j \in DOMAIN rows[i] THEN rows[i][j] ELSE Blank]]

\* A column ends where the last row was that had it.
Height(column) == Max({0} \cup {i \in DOMAIN column : column[i] # NoCell})

Refill(columns, i) ==
  LET h == Height(columns[i]) IN
  IF h >= Len(columns) THEN columns
  ELSE FoldLeft(LAMBDA c, j :
                  LET cell == IF j \in 1..Height(c[i]) THEN c[i][j] ELSE NoCell
                  IN [c EXCEPT ![j] = [k \in 1..Max({Len(@), i}) |->
                        IF k = i THEN (IF cell = NoCell THEN Blank ELSE cell)
                        ELSE IF k \in DOMAIN @ THEN @[k] ELSE NoCell]],
                columns, [k \in 1..(Len(columns) - h + 1) |-> h - 1 + k])

Invert(rows) ==
  LET columns == Turned(rows) IN
  IF Len(columns) = Len(rows[1]) THEN columns
  ELSE FoldLeft(Refill, columns, [i \in DOMAIN columns |-> i])

-----------------------------------------------------------------------------
(* exodusaddunits(): amounts with units, as 200STG]300YEN.                 *)

\* Where unit is in b, or belongs: b is in the order of the units.
PlaceOf(b, unit) ==
  LET at == {i \in DOMAIN b : b[i].unit >= unit}
  IN IF at = {} THEN Len(b) + 1 ELSE Min(at)

AddUnit(b, a) ==
  LET i == PlaceOf(b, a.unit) IN
  IF i \in DOMAIN b /\ b[i].unit = a.unit
  THEN [b EXCEPT ![i].amount = @ + a.amount]
  ELSE InsertAt(b, i, a)

AddUnits(a, b) ==
  IF a = << >> THEN b ELSE IF b = << >> THEN a
  ELSE FoldLeft(AddUnit, b, a)
=============================================================================
