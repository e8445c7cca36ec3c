------------------------------ MODULE FormRows ------------------------------
(***************************************************************************)
(* The rows of a table on a form: what the user does to them with the      *)
(* keyboard, the buttons, popups, the clipboard, sorting and filtering     *)
(* (service/www/3/exodus/scripts/dbform.js, gds.js, client.js).  The       *)
(* program keeps each row twice, as a data row of gds.data.group1 and as a *)
(* TR on the screen, and the value under the cursor a third time, in       *)
(* gpreviousvalue: a handler has to keep the three together.               *)
(*                                                                         *)
(* The table has two columns of a kind that forms have:                    *)
(*   code     the first input column: required, unique, checked on file    *)
(*   amount   never less than the one in a row above (exodussequence 'A');  *)
(*            a total outside the table depends on it                       *)
(* The document is open, locked and has its key (see FormDocument).  A     *)
(* handler runs to its end before the next event; where it puts the focus  *)
(* (focuson() and its timer) is an event of its own, Focus.                *)
(***************************************************************************)
EXTENDS SequencesExt, Integers, FiniteSets

CONSTANTS
  Codes,       \* values of code: 0 is blank
  OnFile,      \* those that the file check finds
  Amounts,     \* values of amount: 0 is blank
  MaxRows,     \* bound: rows of the table
  MaxFiltered, \* bound: rows of a table some of which have been hidden
  MaxPasted,   \* bound: lines pasted at once
  Kinds,       \* the exceptional events (Kind) that are let happen
  MaxKinds,    \* bound: kinds of them for one record
  Records      \* the rows that stored records may have

\* A TR of the HTML table is named by its place when a handler ends, and by
\* any free name in between.
NoTr == 0
Tr == 1..(MaxRows + 1)

Col == {"code", "amount"}

\* What may have happened to the rows, that a property has to except.
Kind == {"sorted", "filtered", "replaced", "undone", "adopted"}

ASSUME RowsAssumption ==
  /\ MaxRows \in Nat \ {0} /\ MaxFiltered \in Nat /\ MaxPasted \in Nat
  /\ Kinds \subseteq Kind /\ MaxKinds \in Nat
  /\ Codes \subseteq Nat /\ Amounts \subseteq Nat
  /\ OnFile \subseteq Codes \ {0} /\ 0 \in Codes /\ 0 \in Amounts

\* exodusunique: no two rows have the same code.
UniqueCodes(rows) ==
  \A i, j \in DOMAIN rows : rows[i].code = rows[j].code /\ rows[i].code # 0 => i = j

\* exodussequence: the amounts ascend.
Ascending(rows) ==
  \A i, j \in DOMAIN rows :
    i < j /\ rows[j].amount # 0 => rows[i].amount <= rows[j].amount

\* exodusrequired: a row with an amount has its code.
Complete(rows) == \A i \in DOMAIN rows : rows[i].amount # 0 => rows[i].code # 0

\* A record that is opened was filled by such a form.
ASSUME RecordsAssumption ==
  \A rows \in Records :
    /\ rows \in Seq([code : Codes, amount : Amounts]) /\ Len(rows) \in 1..MaxRows
    /\ UniqueCodes(rows) /\ Ascending(rows) /\ Complete(rows)

VARIABLES
  form,        \* the table and the globals of the form
  past         \* what has happened since the record was loaded

vars == <<form, past>>

BlankRow == [code |-> 0, amount |-> 0]
NewData(tr) == [code |-> 0, amount |-> 0, tr |-> tr]
NewScreen(tr, hidden) == [code |-> 0, amount |-> 0, tr |-> tr, hidden |-> hidden]
Nowhere == [tr |-> NoTr, col |-> "code", old |-> 0]

Value(col) == IF col = "code" THEN Codes ELSE Amounts

\* data    gds.data.group1: the cells, and the TR their elements are in
\* screen  the TRs of the table: what they show, and style.display = 'none'
\* cur     gpreviouselement and gpreviousvalue
\* first   gelementthatjustcalledsetchangesmade (old is not used)
\* dirty   gchangesmade
DataRow == [code : Codes, amount : Amounts, tr : Tr]
ScreenRow == [code : Codes, amount : Amounts, tr : Tr, hidden : BOOLEAN]
Position == [tr : {NoTr} \cup Tr, col : Col, old : Codes \cup Amounts]
Form == [data : Seq(DataRow), screen : Seq(ScreenRow), cur : Position,
         first : Position, dirty : BOOLEAN, total : Nat]

TypeOK ==
  /\ form \in Form /\ Len(form.screen) \in 1..MaxRows
  /\ IsInjective([i \in DOMAIN form.screen |-> form.screen[i].tr])
  /\ \A p \in {form.cur, form.first} :
       p.tr = NoTr \/ \E i \in DOMAIN form.screen : form.screen[i].tr = p.tr
  /\ form.cur.old \in Value(form.cur.col)
  /\ past \in [touched : BOOLEAN, kinds : SUBSET Kind]

-----------------------------------------------------------------------------
(* Cells and rows.                                                         *)

NewTr(f) == CHOOSE t \in Tr : \A i \in DOMAIN f.screen : f.screen[i].tr # t

\* getrecn(): the number of the row that a TR is.
RowOf(f, tr) == CHOOSE i \in DOMAIN f.screen : f.screen[i].tr = tr

\* getvalue() and setvalue(): what the screen has.
Shown(f, tr, col) == f.screen[RowOf(f, tr)][col]
Show(f, tr, col, v) == [f EXCEPT !.screen[RowOf(f, tr)][col] = v]

\* exodusenabledandvisible(), of an element of a row.
Visible(f, tr) == ~f.screen[RowOf(f, tr)].hidden

Total(data) == FoldLeft(LAMBDA sum, row : sum + row.amount, 0, data)

\* calcfields(): the calculated field.
CalcFields(f) == [f EXCEPT !.total = Total(f.data)]

\* gds.setx(): data row i, and the element that it is bound to.
SetX(f, i, col, v) ==
  Show([f EXCEPT !.data[i][col] = v], f.data[i].tr, col, v)

\* setgpreviouselement()
SetPrevious(f, tr, col) ==
  [f EXCEPT !.cur = [tr |-> tr, col |-> col, old |-> Shown(f, tr, col)]]

\* Variant: the new TR goes to the end of the table.
InsertRowAppending(f, i) ==
  LET tr == NewTr(f)
  IN [f EXCEPT !.data = InsertAt(@, i, NewData(tr)),
               !.screen = Append(@, NewScreen(tr, f.screen[1].hidden))]

\* gds.insertrow(), gds.addrow(): the new TR is a clone of the first one,
\* with its style, and is blanked and bound to a new data row.
InsertRow(f, i) ==
  LET tr == NewTr(f)
  IN [f EXCEPT !.data = InsertAt(@, i, NewData(tr)),
               !.screen = InsertAt(@, i, NewScreen(tr, f.screen[1].hidden))]

\* An element that is no longer in the table is never met again.
Forget(f) ==
  LET Kept(p) == IF \E i \in DOMAIN f.screen : f.screen[i].tr = p.tr
                 THEN p ELSE Nowhere
  IN [f EXCEPT !.cur = Kept(@), !.first = Kept(@)]

\* gds.deleterow(): the first and only row is blanked instead.
RemoveRow(f, i) ==
  IF Len(f.data) = 1
  THEN [f EXCEPT !.data[1] = NewData(@.tr),
                 !.screen[1] = NewScreen(@.tr, @.hidden)]
  ELSE Forget([f EXCEPT !.data = RemoveAt(@, i), !.screen = RemoveAt(@, i)])

\* One more row for each of the given ones.
AddRows(f, rows) ==
  FoldLeft(LAMBDA g, row : InsertRow(g, Len(g.data) + 1), f, rows)

\* gds.load(), bindgroup(): the first TR is kept, with its style; the others
\* are removed, and made again for the new rows.
Bind(f, rows) ==
  LET one == [f EXCEPT !.data = SubSeq(@, 1, 1), !.screen = SubSeq(@, 1, 1)]
      all == AddRows(one, Tail(rows))
      Filled(row, i) == [row EXCEPT !.code = rows[i].code, !.amount = rows[i].amount]
  IN Forget([all EXCEPT !.data = [i \in DOMAIN rows |-> Filled(@[i], i)],
                        !.screen = [i \in DOMAIN rows |-> Filled(@[i], i)]])

\* gds.rebind(): new rows are added, changed cells are set, excess rows go.
SetCell(rows, g, i, col) ==
  IF rows[i][col] = g.data[i][col] THEN g ELSE SetX(g, i, col, rows[i][col])
SetRow(rows, g, i) == SetCell(rows, SetCell(rows, g, i, "code"), i, "amount")
SetRows(rows, f) ==
  FoldLeft(LAMBDA g, i : SetRow(rows, g, i), f, [i \in DOMAIN rows |-> i])

Rebind(f, rows) ==
  LET all == AddRows(f, SubSeq(rows, Len(f.data) + 1, Len(rows)))
      set == SetRows(rows, all)
  IN Forget([set EXCEPT !.data = SubSeq(@, 1, Len(rows)),
                        !.screen = SubSeq(@, 1, Len(rows))])

-----------------------------------------------------------------------------
(* validateupdate(): the value under the cursor goes into the record, or   *)
(* the event is refused.                                                   *)

Changed(f) == f.cur.tr # NoTr /\ Shown(f, f.cur.tr, f.cur.col) # f.cur.old

\* checkrequired(): the code of the row, which comes before its amount, is
\* required when it can be seen.
CheckRequired(f) ==
  \/ f.cur.col = "code"
  \/ Shown(f, f.cur.tr, "code") # 0
  \/ ~Visible(f, f.cur.tr)

\* Variant: only the lines above are compared.
UniqueAbove(f, i, v) == \A j \in 1..(i - 1) : f.data[j].code # v

\* gds.getall() with the own value blanked holds the value nowhere.
Unique(f, i, v) == \A j \in DOMAIN f.data \ {i} : f.data[j].code # v

\* Rows j and i have nothing but blank amounts between them.
Neighbours(f, j, i) ==
  \A k \in DOMAIN f.data :
    (j < k /\ k < i) \/ (i < k /\ k < j) => f.data[k].amount = 0

\* getpreviousrow() and getnextrow(), that skip blanks.
InOrder(f, i, v) ==
  \A j \in DOMAIN f.data \ {i} :
    Neighbours(f, j, i) /\ f.data[j].amount # 0
      => IF j < i THEN f.data[j].amount <= v ELSE v <= f.data[j].amount

\* onbeforeupdate(), validate()
Valid(f) ==
  LET tr == f.cur.tr
      i == RowOf(f, tr)
      v == Shown(f, tr, f.cur.col)
  IN IF f.cur.col = "code"
     THEN IF v = 0 THEN ~Visible(f, tr) ELSE v \in OnFile /\ Unique(f, i, v)
     ELSE v = 0 \/ InOrder(f, i, v)

\* The value goes into the record: setx(), setchangesmade(), calcfields() of
\* what depends on the column.
Updated(f) ==
  LET tr == f.cur.tr
      v == Shown(f, tr, f.cur.col)
      g == [SetX(f, RowOf(f, tr), f.cur.col, v) EXCEPT
              !.first = Nowhere, !.dirty = TRUE, !.cur.old = v]
  IN IF f.cur.col = "amount" THEN CalcFields(g) ELSE g

\* Does validateupdate() return true, and the form that it leaves.
ValidateOk(f) == Changed(f) => CheckRequired(f) /\ Valid(f)

ValidateUpdate(f) ==
  IF ~Changed(f) THEN f
  ELSE IF ~CheckRequired(f) THEN Show(f, f.cur.tr, f.cur.col, f.cur.old)
  ELSE IF ~Valid(f) THEN f
  ELSE Updated(f)

-----------------------------------------------------------------------------
(* Handlers end by leaving a form.                                         *)

\* The filled rows, whatever their order.
Content(data) ==
  {<<data[i].code, data[i].amount>> : i \in DOMAIN data} \ {<<0, 0>>}

Touched(f) == past.touched \/ Content(f.data) # Content(form.data)

\* TRs are named by their place.
Named(f) ==
  LET Name(p) == IF p.tr = NoTr THEN p ELSE [p EXCEPT !.tr = RowOf(f, p.tr)]
  IN IF \A i \in DOMAIN f.screen : f.screen[i].tr = i THEN f
     ELSE [f EXCEPT !.data = [i \in DOMAIN @ |-> Name(@[i])],
                    !.screen = [i \in DOMAIN @ |-> Name(@[i])],
                    !.cur = Name(@), !.first = Name(@)]

Fits(f, kinds) == "filtered" \in kinds => Len(f.data) <= MaxFiltered

Leaves(f) ==
  /\ Fits(f, past.kinds)
  /\ form' = Named(f) /\ past' = [past EXCEPT !.touched = Touched(f)]

\* ... and something of these kinds has happened.
LeavesAs(kinds, f) ==
  /\ kinds \subseteq Kinds /\ Cardinality(past.kinds \cup kinds) <= MaxKinds
  /\ Fits(f, past.kinds \cup kinds)
  /\ form' = Named(f)
  /\ past' = [touched |-> Touched(f), kinds |-> past.kinds \cup kinds]

\* A handler that begins with validateupdate(), and then leaves Then(f).
Validating(Then(_)) ==
  Leaves(IF ValidateOk(form) THEN Then(ValidateUpdate(form))
                             ELSE ValidateUpdate(form))

-----------------------------------------------------------------------------
(* Loading and saving the record.                                          *)

Unhurt == [touched |-> FALSE, kinds |-> {}]

\* cleardoc() and opendoc2(), as far as the rows go.
Loaded(f, rows) ==
  [CalcFields(Bind(f, rows)) EXCEPT
     !.cur = Nowhere, !.first = Nowhere, !.dirty = FALSE]

\* The page as it is drawn: one row, which is blank.
Page ==
  [data |-> << [code |-> 0, amount |-> 0, tr |-> 1] >>,
   screen |-> << [code |-> 0, amount |-> 0, tr |-> 1, hidden |-> FALSE] >>,
   cur |-> Nowhere, first |-> Nowhere, dirty |-> FALSE, total |-> 0]

Init ==
  \E rows \in Records :
    form = Named(Loaded(Page, rows)) /\ past = Unhurt

\* The user closes the document, which is saved or whose edits are given up,
\* and opens another one.  Nothing shows hidden rows again.
Load ==
  \E rows \in Records :
    /\ form' = Named(Loaded(form, rows))
    /\ past' = [Unhurt EXCEPT !.kinds = past.kinds \cap {"filtered"}]

\* validateall(): a row that is not the last has something in it, and a row
\* that has something has its code, if the element can be seen.
ValidateAll(f) ==
  \A i \in DOMAIN f.data :
    LET row == f.data[i] IN
    \/ row.code # 0
    \/ row.amount # 0 /\ ~Visible(f, row.tr)
    \/ row.amount = 0 /\ i = Len(f.data)

\* The server returns the rows, perhaps without a last one that is blank.
Returned(data) ==
  LET rows == [i \in DOMAIN data |-> [code |-> data[i].code, amount |-> data[i].amount]]
  IN {rows} \cup (IF Len(rows) > 1 /\ Last(rows) = BlankRow THEN {Front(rows)} ELSE {})

\* writedoc(), with the new data merged into the screen.
Written(f, rows) ==
  LET g == CalcFields(Rebind(f, rows))
      h == IF g.cur.tr = NoTr THEN g ELSE SetPrevious(g, g.cur.tr, g.cur.col)
  IN [h EXCEPT !.dirty = FALSE, !.first = Nowhere]

\* saverecord_onclick(), savedoc()
Save ==
  LET f == ValidateUpdate(form) IN
  IF ValidateOk(form) /\ ValidateAll(f)
  THEN \E rows \in Returned(f.data) :
         /\ form' = Named(Written(f, rows))
         /\ past' = [past EXCEPT !.touched = FALSE, !.kinds = @ \ {"undone"}]
  ELSE Leaves(f)

-----------------------------------------------------------------------------
(* Typing and moving about.                                                *)

\* form_oninput(): the user changes what the current element shows.
Type ==
  /\ form.cur.tr # NoTr /\ Visible(form, form.cur.tr)
  /\ \E v \in Value(form.cur.col) :
       LET f == Show(form, form.cur.tr, form.cur.col, v)
           who == [form.cur EXCEPT !.old = 0]
       IN /\ f # form
          /\ Leaves(IF form.dirty THEN f
                    ELSE [f EXCEPT !.dirty = TRUE, !.first = who])

\* Alt+Y: the value of the row above, that setvalue() puts there.
CopyAbove ==
  /\ form.cur.tr # NoTr /\ RowOf(form, form.cur.tr) > 1
  /\ LET i == RowOf(form, form.cur.tr)
         col == form.cur.col
         above == {j \in 1..(i - 1) : form.screen[j][col] # 0}
         v == IF above = {} THEN 0
              ELSE form.screen[CHOOSE j \in above : \A k \in above : k <= j][col]
     IN Leaves(Show(form, form.cur.tr, col, v))

\* Escape: the change under the cursor is undone, and gchangesmade with it
\* when this element set it.
Escape ==
  /\ form.cur.tr # NoTr /\ Changed(form)
  /\ LET f == Show(form, form.cur.tr, form.cur.col, form.cur.old)
         own == form.first.tr = form.cur.tr /\ form.first.col = form.cur.col
     IN IF own
        THEN LeavesAs({"undone"}, [f EXCEPT !.dirty = FALSE, !.first = Nowhere])
        ELSE Leaves(f)

\* document_onfocus() of an element outside the table.
LeftTable(f) ==
  IF ValidateOk(f) THEN [ValidateUpdate(f) EXCEPT !.cur = Nowhere]
                   ELSE ValidateUpdate(f)

\* document_onfocus() of a cell.
Focused(tr, col) == Validating(LAMBDA f : SetPrevious(f, tr, col))

Focus ==
  \/ \E i \in DOMAIN form.screen, col \in Col :
       /\ form.screen[i].tr # form.cur.tr \/ col # form.cur.col
       /\ ~form.screen[i].hidden
       /\ Focused(form.screen[i].tr, col)
  \/ form.cur.tr # NoTr /\ Leaves(LeftTable(form))

\* focusdirection(): tab goes from cell to cell over the rows that show, and
\* then out of the table.
Follows(f, i, col, j, next) ==
  \/ i = j /\ col = "code" /\ next = "amount"
  \/ i < j /\ col = "amount" /\ next = "code"
     /\ \A k \in (i + 1)..(j - 1) : f.screen[k].hidden

\* document_onkeydown2(): Tab, or Shift+Tab, that is not on the last cell.
Tab ==
  /\ form.cur.tr # NoTr /\ Visible(form, form.cur.tr)
  /\ LET i == RowOf(form, form.cur.tr) IN
     \E j \in DOMAIN form.screen, col \in Col :
       /\ ~form.screen[j].hidden
       /\ Follows(form, i, form.cur.col, j, col) \/ Follows(form, j, col, i, form.cur.col)
       /\ Focused(form.screen[j].tr, col)

\* Up passes over hidden rows, Down stays where the next row is hidden.
UpOrDown ==
  /\ form.cur.tr # NoTr
  /\ LET i == RowOf(form, form.cur.tr)
         up == {j \in 1..(i - 1) : ~form.screen[j].hidden}
     IN \E j \in DOMAIN form.screen :
          /\ ~form.screen[j].hidden
          /\ j = i + 1 \/ (j \in up /\ \A k \in up : k <= j)
          /\ Focused(form.screen[j].tr, form.cur.col)

-----------------------------------------------------------------------------
(* Rows come and go.                                                       *)

\* form_insertrow() with append: no more than gds.addrow().
Appended(f) == InsertRow(f, Len(f.data) + 1)

\* Tab or Enter on the last cell of a row that has its code, and Down on its
\* first cell.
AppendRow ==
  /\ form.cur.tr # NoTr /\ Len(form.data) < MaxRows
  /\ RowOf(form, form.cur.tr) = Len(form.data)
  /\ form.cur.col = "amount" => Shown(form, form.cur.tr, "code") # 0
  /\ Validating(Appended)

\* Where form_insertrow() puts the row: after the last of many; before or
\* after, as the user answers, a single or the last but one; or before.
Places(n, i) ==
  IF n > 1 /\ i = n THEN {i + 1}
  ELSE IF n = 1 \/ i = n - 1 THEN {i, i + 1} ELSE {i}

\* The rows after j that are hidden show again.
Expanded(f, j) ==
  [f EXCEPT !.screen = [k \in DOMAIN @ |->
     IF k > j /\ \A m \in (j + 1)..k : @[m].hidden
     THEN [@[k] EXCEPT !.hidden = FALSE] ELSE @[k]]]

Inserted(f, j) == [InsertRow(f, j) EXCEPT !.dirty = TRUE]

\* form_insertrow(): if the following row is hidden, hidden rows are shown
\* instead.
InsertOrExpand ==
  \E i \in DOMAIN form.screen :
    /\ ~form.screen[i].hidden
    /\ \E j \in Places(Len(form.screen), i) :
         IF j < Len(form.screen) /\ form.screen[j + 1].hidden
         THEN Validating(LAMBDA f : Expanded(f, j))
         ELSE Len(form.data) < MaxRows /\ Validating(LAMBDA f : Inserted(f, j))

\* Variant: the total is left alone.
DeletedOnly(f, i, col) ==
  LET g == [RemoveRow([f EXCEPT !.cur = Nowhere], i) EXCEPT !.dirty = TRUE]
      j == IF i > Len(g.data) THEN Len(g.data) ELSE i
  IN SetPrevious(g, g.screen[j].tr, col)

\* Variant: a deleted row is not a change.
DeletedQuietly(f, i, col) ==
  LET g == RemoveRow([f EXCEPT !.cur = Nowhere], i)
      j == IF i > Len(g.data) THEN Len(g.data) ELSE i
  IN CalcFields(SetPrevious(g, g.screen[j].tr, col))

\* form_deleterow(), once committed.  The element that called
\* setchangesmade() is not forgotten.
Deleted(f, i, col) ==
  LET g == [RemoveRow([f EXCEPT !.cur = Nowhere], i) EXCEPT !.dirty = TRUE]
      j == IF i > Len(g.data) THEN Len(g.data) ELSE i
  IN CalcFields(SetPrevious(g, g.screen[j].tr, col))

\* form_deleterow(): what is under the cursor need not be valid if its row
\* goes.  The button is in no column, the key is pressed in one.
DeleteRow ==
  \E i \in DOMAIN form.screen, col \in {"code", form.cur.col} :
    /\ ~form.screen[i].hidden
    /\ col = "code" \/ form.cur.tr = form.screen[i].tr
    /\ IF form.cur.tr = form.screen[i].tr
       THEN Leaves(Deleted(form, i, col))
       ELSE Validating(LAMBDA f : Deleted(f, i, col))

-----------------------------------------------------------------------------
(* Many values at once.                                                    *)

\* insertallrows(): the rows after row i are deleted, a blank one is left,
\* and the values go into row i and the next ones as if they were typed.
RefillRow(codes, i, g, n) ==
  LET h == IF n > 1 /\ n < Len(codes) THEN InsertRow(g, i + n - 1) ELSE g
      tr == h.screen[i + n - 1].tr
      old == h.data[i + n - 1].code
  IN IF old = codes[n] THEN h
     ELSE ValidateUpdate(
            Show([h EXCEPT !.cur = [tr |-> tr, col |-> "code", old |-> old]],
                 tr, "code", codes[n]))
RefillRows(codes, i, f) ==
  FoldLeft(LAMBDA g, n : RefillRow(codes, i, g, n), f, [n \in DOMAIN codes |-> n])

Refilled(f, i, codes) ==
  LET cut == InsertRow(f, i + 1)
      base == Forget([cut EXCEPT !.data = SubSeq(@, 1, i + 1),
                                 !.screen = SubSeq(@, 1, i + 1)])
  IN [RefillRows(codes, i, base) EXCEPT !.cur = f.cur]

\* The codes that no row above row i has.
AddFresh(f, i, new, c) ==
  IF \E j \in 1..(i - 1) : f.data[j].code = c THEN new ELSE Append(new, c)
Fresh(f, i, codes) == FoldLeft(LAMBDA new, c : AddFresh(f, i, new, c), <<>>, codes)

\* exoduspopup(), once setgpreviouselement() is called: the codes that the user
\* picks (none: the popup is cancelled), but for those of rows above.  One is
\* typed for the user, more replace the row and all rows below it, and the
\* focus goes to the field after the table.
Picked(g, tr, codes) ==
  LET i == RowOf(g, tr)
      new == Fresh(g, i, codes)
  IN IF codes = <<>> THEN g
     ELSE IF Len(codes) = 1 THEN ValidateUpdate(Show(g, tr, "code", codes[1]))
     ELSE IF new = <<>> THEN g
     ELSE LeftTable([Refilled(g, i, new) EXCEPT !.dirty = TRUE])

\* The value under the cursor is validated first if it is that of another
\* element; that of this element becomes gpreviousvalue as it is.
Popup ==
  \E i \in DOMAIN form.screen,
     codes \in UNION {[1..n -> OnFile] : n \in 0..2} :
    LET tr == form.screen[i].tr
        here == form.cur.tr = tr /\ form.cur.col = "code"
        f == IF here THEN form ELSE ValidateUpdate(form)
        left == IF here \/ ValidateOk(form)
                THEN Picked(SetPrevious(f, tr, "code"), tr, codes) ELSE f
    IN /\ ~form.screen[i].hidden /\ IsInjective(codes)
       /\ Len(codes) > 1 => i < MaxRows
       /\ LeavesAs((IF here /\ Changed(form) THEN {"adopted"} ELSE {})
                     \cup (IF Len(codes) > 1 THEN {"replaced"} ELSE {}), left)

\* form_onpaste_generic_importdata(): a row is inserted for each line, and its
\* cells are filled as if they were typed, until one of them is refused.
PasteCell(s, tr, col, v) ==
  IF ~s.ok THEN s
  ELSE LET g == Show(SetPrevious(s.form, tr, col), tr, col, v)
       IN [ok |-> ValidateOk(g), form |-> ValidateUpdate(g)]

PasteLine(lines, i, s, n) ==
  IF ~s.ok THEN s
  ELSE LET g == InsertRow(s.form, i + n - 1)
           tr == g.screen[i + n - 1].tr
       IN PasteCell(PasteCell([ok |-> TRUE, form |-> g], tr, "code", lines[n].code),
                    tr, "amount", lines[n].amount)

PasteLines(lines, i, f) ==
  FoldLeft(LAMBDA s, n : PasteLine(lines, i, s, n),
           [ok |-> TRUE, form |-> f], [n \in DOMAIN lines |-> n])

Pasted(f, lines) == PasteLines(lines, RowOf(f, f.cur.tr), f).form

\* form_onpaste_generic(): lines of the clipboard, in the first column.  The
\* codes are not looked up before, as the first column of the clipboard.
Paste ==
  \E lines \in UNION {[1..n -> [code : Codes, amount : Amounts]] : n \in 1..MaxPasted} :
    /\ form.cur.tr # NoTr /\ form.cur.col = "code" /\ Visible(form, form.cur.tr)
    /\ Len(form.data) + Len(lines) <= MaxRows
    /\ Validating(LAMBDA f : CalcFields(Pasted(f, lines)))

-----------------------------------------------------------------------------
(* Sorting and filtering, which leave the cursor where it is.              *)

\* sorttable(): data rows and TRs in the given order, the TRs by swapping.
SwapRow(f, order, rows, n) ==
  LET k == CHOOSE k \in DOMAIN rows : rows[k] = f.screen[order[n]]
  IN IF n = order[n] THEN rows
     ELSE [rows EXCEPT ![n] = rows[k], ![k] = rows[n]]

SwapRows(f, order) ==
  FoldLeft(LAMBDA rows, n : SwapRow(f, order, rows, n),
           f.screen, [n \in DOMAIN f.screen |-> n])

Sorted(f, order) ==
  [f EXCEPT !.data = [n \in DOMAIN @ |-> @[order[n]]], !.screen = SwapRows(f, order)]

\* By value and, for the same value, as they were: the other way round when
\* descending.
Before(f, col, a, b) ==
  \/ f.data[a][col] < f.data[b][col]
  \/ f.data[a][col] = f.data[b][col] /\ a < b

SortOrder(f, col, descending) ==
  LET up == CHOOSE order \in [DOMAIN f.data -> DOMAIN f.data] :
              \A m, n \in DOMAIN f.data : m < n => Before(f, col, order[m], order[n])
  IN IF descending THEN Reverse(up) ELSE up

Sort ==
  \E col \in Col, descending \in BOOLEAN :
    LeavesAs({"sorted"}, Sorted(form, SortOrder(form, col, descending)))

\* form_filter(): rows stay that have in a column the value of the row that was
\* double clicked, or what a pattern of the form does not filter out, or that
\* have the text typed above the table in any element, or the first rows.  Rows
\* that do not match are hidden, if any row matches, and everything is
\* calculated again.
Matches ==
  {{i \in DOMAIN form.data : form.data[i][col] \in values} :
     col \in Col, values \in SUBSET (Codes \cup Amounts)}
  \cup
  {{i \in DOMAIN form.screen : v \in {form.screen[i][col] : col \in Col}} :
     v \in (Codes \cup Amounts) \ {0}}
  \cup {1..n : n \in DOMAIN form.screen}

Filter ==
  \E match \in Matches :
    LET shown == {i \in DOMAIN form.screen : ~form.screen[i].hidden} IN
    /\ shown \cap match # {} /\ shown \ match # {}
    /\ LeavesAs({"filtered"},
         CalcFields([form EXCEPT !.screen = [i \in DOMAIN @ |->
           IF i \in match THEN @[i] ELSE [@[i] EXCEPT !.hidden = TRUE]]]))

\* form_filter('unfilter')
ShowAll ==
  /\ \E i \in DOMAIN form.screen : form.screen[i].hidden
  /\ Leaves(CalcFields([form EXCEPT !.screen = [i \in DOMAIN @ |->
       [@[i] EXCEPT !.hidden = FALSE]]]))

-----------------------------------------------------------------------------
Next ==
  \/ Load \/ Save
  \/ Type \/ CopyAbove \/ Escape
  \/ Focus \/ Tab \/ UpOrDown
  \/ AppendRow \/ InsertOrExpand \/ DeleteRow
  \/ Popup \/ Paste
  \/ Sort \/ Filter \/ ShowAll

Spec == Init /\ [][Next]_vars

-----------------------------------------------------------------------------
(* What the table promises, whatever the order of the events.              *)

\* Each data row is bound to the TR at its place.  validateupdate() finds the
\* data row by the place of the TR (getrecn()) and shows the result through
\* the binding: where the two differ, one row is edited and another changes.
RowsAligned ==
  /\ Len(form.data) = Len(form.screen)
  /\ \A i \in DOMAIN form.data : form.data[i].tr = form.screen[i].tr

\* What the screen shows is in the record, but for the value under the cursor:
\* what the user sees is what will be saved.
ShowsRecord ==
  /\ RowsAligned
  /\ \A i \in DOMAIN form.data, col \in Col :
       \/ form.screen[i][col] = form.data[i][col]
       \/ form.cur.tr = form.screen[i].tr /\ form.cur.col = col

\* The same, as long as no popup was opened over a value that was being typed.
ShownIsStored == RowsAligned /\ ("adopted" \in past.kinds \/ ShowsRecord)

\* The rules of the dictionary that validate() applies to a value hold for the
\* rows, in whatever order they were filled, moved and deleted: but for the
\* sequence when the user has sorted, as sorttable() does not validate, and for
\* what is required when rows have been hidden or a popup was opened over a value
\* that was being typed.
RowsValid ==
  /\ UniqueCodes(form.data)
  /\ "sorted" \in past.kinds \/ Ascending(form.data)
  /\ {"filtered", "adopted"} \cap past.kinds # {} \/ Complete(form.data)

\* The total on the screen is that of the rows, unless a popup has replaced
\* rows.
TotalIsCurrent == "replaced" \in past.kinds \/ form.total = Total(form.data)

\* A record whose rows were changed is known to be changed (gchangesmade), so
\* that closing it asks to save it, unless Escape has taken that back.
ChangesNoted == past.touched => form.dirty \/ "undone" \in past.kinds

-----------------------------------------------------------------------------
(* What comments in the code say, and what does not hold.                  *)

\* "remember this element so pressing escape can cancel gchangesmade ...
\* removed in onfocus" (form_oninput()): Escape takes back no other changes.
\* The element is not forgotten when its row is blanked by form_deleterow().
ChangesAlwaysNoted == past.touched => form.dirty

\* "resolve any data entry issues first", "validateupdate previous field"
\* (exoduspopup()): what was typed into the field of the popup is not
\* validated, it is taken for the value that is already stored.
ShownAlwaysStored == ShowsRecord

\* "recalculate any dependents" (insertallrows2()): those of the column that
\* was filled, but not of the columns whose rows went.
TotalAlwaysCurrent == form.total = Total(form.data)

\* exodusrequired: a save leaves no row that has an amount and no code.  An
\* element in a hidden row is not required, and filtering does not validate.
SavedRowsComplete ==
  [][past.touched /\ ~past'.touched =>
       Complete(form'.data)]_vars

\* "original row order is preserved for duplicate sorted items" (sorttable()):
\* not so when the order is reversed.
SortIsStable ==
  \A col \in Col, d \in BOOLEAN :
    LET f == Sorted(form, SortOrder(form, col, d))
    IN \A i, j \in DOMAIN form.data :
         i < j /\ form.data[i][col] = form.data[j][col]
           => RowOf(f, form.data[i].tr) < RowOf(f, form.data[j].tr)

\* Tab or Down on the last row adds a row that the user can go on in: not so
\* when the first row, that it is a clone of, is hidden.
AppendedRowShows ==
  Len(form.data) < MaxRows => ~Last(Appended(form).screen).hidden
=============================================================================
