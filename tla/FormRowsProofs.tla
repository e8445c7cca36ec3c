-------------------------- MODULE FormRowsProofs --------------------------
(***************************************************************************)
(* Proofs about the rows of a form (FormRows), for any number of rows, any *)
(* values and any order of the events.                                     *)
(*                                                                         *)
(* None of the properties is inductive.  IInv is: the form is Good, which  *)
(* is Whole (each data row has a TR of its own at its place, and the       *)
(* cursor is nowhere or on a row) and keeps its Promises, each unless past *)
(* has the kind of event that breaks it:                                   *)
(*   Rules        UniqueCodes, Ascending, Complete                         *)
(*   NoneHidden   without a filter, every row shows, so that what is       *)
(*                required is looked for in every row (exodusrequired is   *)
(*                checked for enabled and visible elements only)           *)
(*   Shows, OldIsStored   the screen differs from the record under the     *)
(*                cursor only, and there gpreviousvalue is what is stored: *)
(*                a value that equals it needs no validation, and Escape   *)
(*                puts back what the record has                            *)
(*   the total is that of the rows                                         *)
(* A form is Ready when it is Good and nothing waits to be validated: that *)
(* is what validateupdate() leaves when it returns true, and what the rest *)
(* of each handler relies on.                                              *)
(*                                                                         *)
(* Loops of the code are folds over sequences in the model.  What a fold   *)
(* returns is proved through its trace, the sequence of the results of     *)
(* its steps (FoldTrace), and properties of a trace by induction up to its *)
(* length (UpTo), which rests on the least number of a set (LeastNumber).  *)
(*                                                                         *)
(* Assumed of the constants: RowsAssumption and RecordsAssumption, by which *)
(* the records that are opened keep the rules themselves.                  *)
(***************************************************************************)
EXTENDS FormRows, SequenceTheorems, FiniteSetTheorems, WellFoundedInduction, TLAPS

-----------------------------------------------------------------------------
(* Induction over the natural numbers.  The library states it for any      *)
(* predicate, here it is stated for any set, which the least number that    *)
(* is not in the set refutes.                                              *)

LEMMA LeastNumber ==
  ASSUME NEW T, T \subseteq Nat, T # {}
  PROVE  \E n \in T : \A m \in T : n <= m
  <1> DEFINE R == OpToRel(<, Nat)
  <1>1. IsWellFoundedOn(R, Nat)
    BY NatLessThanWellFounded
  <1>2. \E x \in T : \A y \in T : <<y, x>> \notin R
    BY <1>1, WFMin
  <1>3. \A x, y \in Nat : <<y, x>> \notin R => x <= y
    BY DEF OpToRel
  <1> QED
    BY <1>2, <1>3

LEMMA UpTo ==
  ASSUME NEW n \in Nat, NEW B, 0 \in B, \A k \in 0..(n - 1) : k \in B => k + 1 \in B
  PROVE  0..n \subseteq B
  <1> DEFINE T == (0..n) \ B
  <1>1. SUFFICES ASSUME T # {} PROVE FALSE
    OBVIOUS
  <1>2. T \subseteq Nat
    OBVIOUS
  <1> HIDE DEF T
  <1>3. PICK t \in T : \A u \in T : t <= u
    BY LeastNumber, <1>1, <1>2
  <1> USE DEF T
  <1>4. t # 0
    OBVIOUS
  <1>5. t - 1 \in 0..(n - 1) /\ t - 1 \in B
    BY <1>3, <1>4
  <1> QED
    BY <1>5

LEMMA IntervalMax ==
  ASSUME NEW n \in Nat, NEW s, s \subseteq 1..n, s # {}
  PROVE  Max(s) \in s /\ \A k \in s : k <= Max(s)
  <1> DEFINE T == {n - k : k \in s}
  <1>1. T \subseteq Nat
    OBVIOUS
  <1>2. T # {}
    OBVIOUS
  <1>3. PICK t \in T : \A u \in T : t <= u
    BY <1>1, <1>2, LeastNumber
  <1>4. PICK m \in s : t = n - m
    OBVIOUS
  <1>5. \A k \in s : m >= k
    BY <1>3, <1>4
  <1> QED
    BY <1>5 DEF Max

-----------------------------------------------------------------------------
(* Folds.  What a fold of the model does with one more element of its       *)
(* sequence is StepOf(c), for a c that names the fold and has its context.   *)

StepOf(c, s, x) ==
  CASE c.of = "total"  -> s + x.amount
    [] c.of = "rows"   -> InsertRow(s, Len(s.data) + 1)
    [] c.of = "cells"  -> SetRow(c.rows, s, x)
    [] c.of = "refill" -> RefillRow(c.codes, c.i, s, x)
    [] c.of = "fresh"  -> AddFresh(c.f, c.i, s, x)
    [] c.of = "lines"  -> PasteLine(c.lines, c.i, s, x)
    [] c.of = "swaps"  -> SwapRow(c.f, c.order, s, x)

\* it is the function of the sets of elements that such a fold is defined by, and
\* g what the fold goes through, element by element.
Folds(c, base, seq, it) ==
  it = [s \in SUBSET DOMAIN seq |->
          IF s = {} THEN base ELSE StepOf(c, it[s \ {Max(s)}], seq[Max(s)])]

Steps(c, base, seq, n, g) ==
  g[0] = base /\ \A k \in 1..n : g[k] = StepOf(c, g[k - 1], seq[k])

\* The function that a fold is defined by exists: each number of elements has one
\* that is right for the sets of that many first elements.
LEMMA FoldExists ==
  ASSUME NEW c, NEW base, NEW seq, NEW n \in Nat, DOMAIN seq = 1..n
  PROVE  \E it : Folds(c, base, seq, it)
  <1> DEFINE S == DOMAIN seq
             After(it, s) == IF s = {} THEN base
                             ELSE StepOf(c, it[s \ {Max(s)}], seq[Max(s)])
             RightTo(it, k) == \A s \in SUBSET (1..k) : it[s] = After(it, s)
             B == {k \in 0..n : \E it : it = [s \in SUBSET S |-> it[s]] /\ RightTo(it, k)}
  <1>1. 0 \in B
    <2> DEFINE it0 == [s \in SUBSET S |-> base]
    <2>1. it0 = [s \in SUBSET S |-> it0[s]]
      OBVIOUS
    <2>2. RightTo(it0, 0)
      <3>1. SUBSET (1..0) = {{}}
        OBVIOUS
      <3> QED
        BY <3>1
    <2> HIDE DEF it0, RightTo
    <2> QED
      BY <2>1, <2>2
  <1>2. ASSUME NEW k \in 0..(n - 1), k \in B PROVE k + 1 \in B
    <2>1. PICK it : it = [s \in SUBSET S |-> it[s]] /\ RightTo(it, k)
      BY <1>2
    <2> DEFINE it2 == [s \in SUBSET S |-> After(it, s)]
    <2>2. ASSUME NEW s \in SUBSET (1..(k + 1)) PROVE it2[s] = After(it2, s)
      <3>1. s \in SUBSET S
        BY <2>2
      <3>2. CASE s = {}
        BY <3>1, <3>2
      <3>3. CASE s # {}
        <4>1. PICK m : m = Max(s)
          OBVIOUS
        <4>2. m \in s /\ \A j \in s : j <= m
          <5>1. k + 1 \in Nat
            OBVIOUS
          <5> QED
            BY <5>1, IntervalMax, <3>3, <2>2, <4>1
        <4>3. s \ {m} \in SUBSET (1..k)
          <5> HIDE DEF After
          <5>1. SUFFICES ASSUME NEW j \in s, j # m PROVE j \in 1..k
            OBVIOUS
          <5>2. j \in 1..(k + 1) /\ m \in 1..(k + 1) /\ j <= m
            BY <4>2, <2>2
          <5> QED
            BY <5>1, <5>2
        <4>4. it[s \ {m}] = After(it, s \ {m})
          BY <4>3, <2>1
        <4> HIDE DEF After
        <4>5. it2[s \ {m}] = it[s \ {m}]
          BY <4>4, <3>1
        <4> QED
          BY <4>1, <4>5, <3>1 DEF After
      <3> QED
        BY <3>2, <3>3
    <2>3. RightTo(it2, k + 1)
      BY <2>2
    <2>4. it2 = [s \in SUBSET S |-> it2[s]]
      OBVIOUS
    <2> HIDE DEF RightTo, After, it2
    <2> QED
      BY <2>3, <2>4
  <1>3. n \in B
    <2>1. n \in 0..n
      OBVIOUS
    <2> HIDE DEF B
    <2>2. 0..n \subseteq B
      BY <1>1, <1>2, UpTo
    <2> QED
      BY <2>1, <2>2
  <1>4. PICK it : it = [s \in SUBSET S |-> it[s]] /\ RightTo(it, n)
    BY <1>3
  <1> HIDE DEF After
  <1>5. it = [s \in SUBSET S |-> After(it, s)]
    BY <1>4
  <1> QED
    BY <1>5 DEF After, Folds

\* Its values for the first elements are what the fold goes through.
LEMMA FoldTrace ==
  ASSUME NEW c, NEW base, NEW seq, NEW n \in Nat, DOMAIN seq = 1..n,
         NEW it, Folds(c, base, seq, it)
  PROVE  \E g : Steps(c, base, seq, n, g) /\ g[n] = it[DOMAIN seq]
  <1> DEFINE g == [k \in 0..n |-> it[1..k]]
  <1>1. g[0] = base
    <2>1. 1..0 = {}
      OBVIOUS
    <2> QED
      BY <2>1 DEF Folds
  <1>2. ASSUME NEW k \in 1..n PROVE g[k] = StepOf(c, g[k - 1], seq[k])
    <2>1. Max(1..k) \in 1..k /\ \A j \in 1..k : j <= Max(1..k)
      <3>1. k \in Nat /\ k \in 1..k
        OBVIOUS
      <3>2. 1..k \subseteq 1..k /\ 1..k # {}
        BY <3>1
      <3> QED
        BY <3>1, <3>2, IntervalMax
    <2>2. Max(1..k) = k
      BY <2>1
    <2>3. (1..k) \ {k} = 1..(k - 1)
      OBVIOUS
    <2>4. 1..k # {} /\ 1..k \in SUBSET DOMAIN seq
      <3>1. 1..k \subseteq 1..n
        OBVIOUS
      <3>2. k \in 1..k
        OBVIOUS
      <3> QED
        BY <3>1, <3>2
    <2>5. it[1..k] = StepOf(c, it[(1..k) \ {Max(1..k)}], seq[Max(1..k)])
      BY <2>4 DEF Folds
    <2>6. it[1..k] = StepOf(c, it[1..(k - 1)], seq[k])
      BY <2>2, <2>3, <2>5
    <2>7. k \in 0..n /\ k - 1 \in 0..n
      OBVIOUS
    <2> QED
      BY <2>6, <2>7
  <1>3. g[n] = it[DOMAIN seq]
    OBVIOUS
  <1> HIDE DEF g
  <1> QED
    BY <1>1, <1>2, <1>3 DEF Steps

\* The rows that gds.load() and gds.rebind() add.
AddRowsSteps(f, rows, n, g) ==
  /\ g[0] = f
  /\ \A k \in 1..n : g[k] = InsertRow(g[k - 1], Len(g[k - 1].data) + 1)
  /\ AddRows(f, rows) = g[n]

LEMMA AddRowsTrace ==
  ASSUME NEW f, NEW rows, NEW n \in Nat, DOMAIN rows = 1..n
  PROVE  \E g : AddRowsSteps(f, rows, n, g)
  <1> DEFINE c == [of |-> "rows"]
             Def(it) == it = [s \in SUBSET DOMAIN rows |->
               IF s = {} THEN f
               ELSE InsertRow(it[s \ {Max(s)}], Len(it[s \ {Max(s)}].data) + 1)]
             it0 == CHOOSE it : Def(it)
  <1>1. \A s, x : StepOf(c, s, x) = InsertRow(s, Len(s.data) + 1)
    BY DEF StepOf
  <1>2. DOMAIN rows = 1..n
    OBVIOUS
  <1>3. AddRows(f, rows) = it0[DOMAIN rows]
    BY DEF AddRows, FoldLeft, MapThenFoldSet
  <1> HIDE DEF c
  <1>4. \A it : Folds(c, f, rows, it) <=> Def(it)
    BY <1>1 DEF Folds
  <1>5. \E it : Folds(c, f, rows, it)
    BY <1>2, FoldExists
  <1>6. Def(it0)
    <2> HIDE DEF Def
    <2> QED
      BY <1>4, <1>5
  <1> HIDE DEF it0, Def
  <1>7. Folds(c, f, rows, it0)
    BY <1>4, <1>6
  <1>8. PICK g : Steps(c, f, rows, n, g) /\ g[n] = it0[DOMAIN rows]
    BY <1>2, <1>7, FoldTrace
  <1> QED
    BY <1>1, <1>3, <1>8 DEF Steps, AddRowsSteps

\* The sum that is a total.
LEMMA TotalTrace ==
  ASSUME NEW data, NEW n \in Nat, DOMAIN data = 1..n
  PROVE  \E g : /\ g[0] = 0
                /\ \A k \in 1..n : g[k] = g[k - 1] + data[k].amount
                /\ Total(data) = g[n]
  <1> DEFINE c == [of |-> "total"]
             Def(it) == it = [s \in SUBSET DOMAIN data |->
               IF s = {} THEN 0
               ELSE it[s \ {Max(s)}] + data[Max(s)].amount]
             it0 == CHOOSE it : Def(it)
  <1>1. \A s, x : StepOf(c, s, x) = s + x.amount
    BY DEF StepOf
  <1>2. DOMAIN data = 1..n
    OBVIOUS
  <1>3. Total(data) = it0[DOMAIN data]
    BY DEF Total, FoldLeft, MapThenFoldSet
  <1> HIDE DEF c
  <1>4. \A it : Folds(c, 0, data, it) <=> Def(it)
    BY <1>1 DEF Folds
  <1>5. \E it : Folds(c, 0, data, it)
    BY <1>2, FoldExists
  <1>6. Def(it0)
    <2> HIDE DEF Def
    <2> QED
      BY <1>4, <1>5
  <1> HIDE DEF it0, Def
  <1>7. Folds(c, 0, data, it0)
    BY <1>4, <1>6
  <1>8. PICK g : Steps(c, 0, data, n, g) /\ g[n] = it0[DOMAIN data]
    BY <1>2, <1>7, FoldTrace
  <1> QED
    BY <1>1, <1>3, <1>8 DEF Steps

\* The codes of a popup that no row above has.
FreshSteps(f, i, codes, n, g) ==
  /\ g[0] = <<>>
  /\ \A k \in 1..n : g[k] = AddFresh(f, i, g[k - 1], codes[k])
  /\ Fresh(f, i, codes) = g[n]

LEMMA FreshTrace ==
  ASSUME NEW f, NEW i, NEW codes, NEW n \in Nat, DOMAIN codes = 1..n
  PROVE  \E g : FreshSteps(f, i, codes, n, g)
  <1> DEFINE c == [of |-> "fresh", f |-> f, i |-> i]
             Def(it) == it = [s \in SUBSET DOMAIN codes |->
               IF s = {} THEN <<>>
               ELSE AddFresh(f, i, it[s \ {Max(s)}], codes[Max(s)])]
             it0 == CHOOSE it : Def(it)
  <1>1. \A s, x : StepOf(c, s, x) = AddFresh(f, i, s, x)
    BY DEF StepOf
  <1>2. DOMAIN codes = 1..n
    OBVIOUS
  <1>3. Fresh(f, i, codes) = it0[DOMAIN codes]
    BY DEF Fresh, FoldLeft, MapThenFoldSet
  <1> HIDE DEF c
  <1>4. \A it : Folds(c, <<>>, codes, it) <=> Def(it)
    BY <1>1 DEF Folds
  <1>5. \E it : Folds(c, <<>>, codes, it)
    BY <1>2, FoldExists
  <1>6. Def(it0)
    <2> HIDE DEF Def
    <2> QED
      BY <1>4, <1>5
  <1> HIDE DEF it0, Def
  <1>7. Folds(c, <<>>, codes, it0)
    BY <1>4, <1>6
  <1>8. PICK g : Steps(c, <<>>, codes, n, g) /\ g[n] = it0[DOMAIN codes]
    BY <1>2, <1>7, FoldTrace
  <1> QED
    BY <1>1, <1>3, <1>8 DEF Steps, FreshSteps

\* The rows that gds.rebind() sets.
SetRowsSteps(rows, f, n, g) ==
  /\ g[0] = f
  /\ \A k \in 1..n : g[k] = SetRow(rows, g[k - 1], k)
  /\ SetRows(rows, f) = g[n]

LEMMA SetRowsTrace ==
  ASSUME NEW rows, NEW f, NEW n \in Nat, DOMAIN rows = 1..n
  PROVE  \E g : SetRowsSteps(rows, f, n, g)
  <1> DEFINE c == [of |-> "cells", rows |-> rows]
             seq == [k \in DOMAIN rows |-> k]
             Def(it) == it = [s \in SUBSET DOMAIN seq |->
               IF s = {} THEN f
               ELSE SetRow(rows, it[s \ {Max(s)}], seq[Max(s)])]
             it0 == CHOOSE it : Def(it)
  <1>1. \A s, x : StepOf(c, s, x) = SetRow(rows, s, x)
    BY DEF StepOf
  <1>2. DOMAIN seq = 1..n /\ \A k \in 1..n : seq[k] = k
    OBVIOUS
  <1>3. SetRows(rows, f) = it0[DOMAIN seq]
    BY DEF SetRows, FoldLeft, MapThenFoldSet
  <1> HIDE DEF c, seq
  <1>4. \A it : Folds(c, f, seq, it) <=> Def(it)
    BY <1>1 DEF Folds
  <1>5. \E it : Folds(c, f, seq, it)
    BY <1>2, FoldExists
  <1>6. Def(it0)
    <2> HIDE DEF Def
    <2> QED
      BY <1>4, <1>5
  <1> HIDE DEF it0, Def
  <1>7. Folds(c, f, seq, it0)
    BY <1>4, <1>6
  <1>8. PICK g : Steps(c, f, seq, n, g) /\ g[n] = it0[DOMAIN seq]
    BY <1>2, <1>7, FoldTrace
  <1> QED
    BY <1>1, <1>2, <1>3, <1>8 DEF Steps, SetRowsSteps

\* The rows that insertallrows() fills.
RefillSteps(codes, i, f, n, g) ==
  /\ g[0] = f
  /\ \A k \in 1..n : g[k] = RefillRow(codes, i, g[k - 1], k)
  /\ RefillRows(codes, i, f) = g[n]

LEMMA RefillTrace ==
  ASSUME NEW codes, NEW i, NEW f, NEW n \in Nat, DOMAIN codes = 1..n
  PROVE  \E g : RefillSteps(codes, i, f, n, g)
  <1> DEFINE c == [of |-> "refill", codes |-> codes, i |-> i]
             seq == [k \in DOMAIN codes |-> k]
             Def(it) == it = [s \in SUBSET DOMAIN seq |->
               IF s = {} THEN f
               ELSE RefillRow(codes, i, it[s \ {Max(s)}], seq[Max(s)])]
             it0 == CHOOSE it : Def(it)
  <1>1. \A s, x : StepOf(c, s, x) = RefillRow(codes, i, s, x)
    BY DEF StepOf
  <1>2. DOMAIN seq = 1..n /\ \A k \in 1..n : seq[k] = k
    OBVIOUS
  <1>3. RefillRows(codes, i, f) = it0[DOMAIN seq]
    BY DEF RefillRows, FoldLeft, MapThenFoldSet
  <1> HIDE DEF c, seq
  <1>4. \A it : Folds(c, f, seq, it) <=> Def(it)
    BY <1>1 DEF Folds
  <1>5. \E it : Folds(c, f, seq, it)
    BY <1>2, FoldExists
  <1>6. Def(it0)
    <2> HIDE DEF Def
    <2> QED
      BY <1>4, <1>5
  <1> HIDE DEF it0, Def
  <1>7. Folds(c, f, seq, it0)
    BY <1>4, <1>6
  <1>8. PICK g : Steps(c, f, seq, n, g) /\ g[n] = it0[DOMAIN seq]
    BY <1>2, <1>7, FoldTrace
  <1> QED
    BY <1>1, <1>2, <1>3, <1>8 DEF Steps, RefillSteps

\* The lines of the clipboard.
LEMMA PasteTrace ==
  ASSUME NEW lines, NEW i, NEW f, NEW n \in Nat, DOMAIN lines = 1..n
  PROVE  \E g : /\ g[0] = [ok |-> TRUE, form |-> f]
                /\ \A k \in 1..n : g[k] = PasteLine(lines, i, g[k - 1], k)
                /\ PasteLines(lines, i, f) = g[n]
  <1> DEFINE c == [of |-> "lines", lines |-> lines, i |-> i]
             base == [ok |-> TRUE, form |-> f]
             seq == [k \in DOMAIN lines |-> k]
             Def(it) == it = [s \in SUBSET DOMAIN seq |->
               IF s = {} THEN base
               ELSE PasteLine(lines, i, it[s \ {Max(s)}], seq[Max(s)])]
             it0 == CHOOSE it : Def(it)
  <1>1. \A s, x : StepOf(c, s, x) = PasteLine(lines, i, s, x)
    BY DEF StepOf
  <1>2. DOMAIN seq = 1..n /\ \A k \in 1..n : seq[k] = k
    OBVIOUS
  <1>3. PasteLines(lines, i, f) = it0[DOMAIN seq]
    BY DEF PasteLines, FoldLeft, MapThenFoldSet
  <1> HIDE DEF c, seq, base
  <1>4. \A it : Folds(c, base, seq, it) <=> Def(it)
    BY <1>1 DEF Folds
  <1>5. \E it : Folds(c, base, seq, it)
    BY <1>2, FoldExists
  <1>6. Def(it0)
    <2> HIDE DEF Def
    <2> QED
      BY <1>4, <1>5
  <1> HIDE DEF it0, Def
  <1>7. Folds(c, base, seq, it0)
    BY <1>4, <1>6
  <1>8. PICK g : Steps(c, base, seq, n, g) /\ g[n] = it0[DOMAIN seq]
    BY <1>2, <1>7, FoldTrace
  <1> QED
    BY <1>1, <1>2, <1>3, <1>8 DEF Steps, base

\* The TRs that sorttable() swaps.
SwapSteps(f, order, n, g) ==
  /\ g[0] = f.screen
  /\ \A k \in 1..n : g[k] = SwapRow(f, order, g[k - 1], k)
  /\ SwapRows(f, order) = g[n]

LEMMA SwapTrace ==
  ASSUME NEW f, NEW order, NEW n \in Nat, DOMAIN f.screen = 1..n
  PROVE  \E g : SwapSteps(f, order, n, g)
  <1> DEFINE c == [of |-> "swaps", f |-> f, order |-> order]
             seq == [k \in DOMAIN f.screen |-> k]
             Def(it) == it = [s \in SUBSET DOMAIN seq |->
               IF s = {} THEN f.screen
               ELSE SwapRow(f, order, it[s \ {Max(s)}], seq[Max(s)])]
             it0 == CHOOSE it : Def(it)
  <1>1. \A s, x : StepOf(c, s, x) = SwapRow(f, order, s, x)
    BY DEF StepOf
  <1>2. DOMAIN seq = 1..n /\ \A k \in 1..n : seq[k] = k
    OBVIOUS
  <1>3. SwapRows(f, order) = it0[DOMAIN seq]
    BY DEF SwapRows, FoldLeft, MapThenFoldSet
  <1> HIDE DEF c, seq
  <1>4. \A it : Folds(c, f.screen, seq, it) <=> Def(it)
    BY <1>1 DEF Folds
  <1>5. \E it : Folds(c, f.screen, seq, it)
    BY <1>2, FoldExists
  <1>6. Def(it0)
    <2> HIDE DEF Def
    <2> QED
      BY <1>4, <1>5
  <1> HIDE DEF it0, Def
  <1>7. Folds(c, f.screen, seq, it0)
    BY <1>4, <1>6
  <1>8. PICK g : Steps(c, f.screen, seq, n, g) /\ g[n] = it0[DOMAIN seq]
    BY <1>2, <1>7, FoldTrace
  <1> QED
    BY <1>1, <1>2, <1>3, <1>8 DEF Steps, SwapSteps

-----------------------------------------------------------------------------
(* Sequences.                                                              *)

LEMMA ListSeq ==
  ASSUME NEW S, NEW n \in Nat, NEW s \in [1..n -> S]
  PROVE  s \in Seq(S) /\ Len(s) = n
  BY SeqDef, LenProperties

WithOne(s, t, i, e) ==
  /\ Len(t) = Len(s) + 1
  /\ \A k \in 1..(Len(s) + 1) :
       t[k] = IF k < i THEN s[k] ELSE IF k = i THEN e ELSE s[k - 1]

LEMMA Inserted1 ==
  ASSUME NEW S, NEW s \in Seq(S), NEW i \in 1..(Len(s) + 1), NEW e \in S
  PROVE  InsertAt(s, i, e) \in Seq(S) /\ WithOne(s, InsertAt(s, i, e), i, e)
  <1> DEFINE a == SubSeq(s, 1, i - 1)
             b == <<e>>
             c == SubSeq(s, i, Len(s))
  <1>1. Len(s) \in Nat /\ \A k \in 1..Len(s) : s[k] \in S
    BY LenProperties, ElementOfSeq
  <1>2. /\ a \in Seq(S) /\ Len(a) = i - 1
        /\ \A k \in 1..(i - 1) : a[k] = s[k]
    <2>1. 1 \in Int /\ i - 1 \in Int /\ \A k \in 1..(i - 1) : s[k] \in S
      BY <1>1
    <2>2. /\ a \in Seq(S) /\ Len(a) = IF 1 <= i - 1 THEN (i - 1) - 1 + 1 ELSE 0
          /\ \A k \in 1..((i - 1) - 1 + 1) : a[k] = s[1 + k - 1]
      BY <2>1, SubSeqProperties
    <2> HIDE DEF a
    <2> QED
      BY <1>1, <2>2
  <1>3. /\ c \in Seq(S) /\ Len(c) = Len(s) - i + 1
        /\ \A k \in 1..(Len(s) - i + 1) : c[k] = s[i + k - 1]
    <2>1. Len(s) \in Int /\ i \in Int /\ \A k \in i..Len(s) : s[k] \in S
      BY <1>1
    <2>2. /\ c \in Seq(S) /\ Len(c) = IF i <= Len(s) THEN Len(s) - i + 1 ELSE 0
          /\ \A k \in 1..(Len(s) - i + 1) : c[k] = s[i + k - 1]
      BY <2>1, SubSeqProperties
    <2> HIDE DEF c
    <2> QED
      BY <1>1, <2>2
  <1>4. b \in Seq(S) /\ Len(b) = 1 /\ b[1] = e
    OBVIOUS
  <1>5. InsertAt(s, i, e) = (a \o b) \o c
    BY DEF InsertAt
  <1> HIDE DEF a, b, c
  <1>6. /\ a \o b \in Seq(S) /\ Len(a \o b) = i
        /\ \A k \in 1..i : (a \o b)[k] = IF k <= i - 1 THEN a[k] ELSE b[k - (i - 1)]
    <2>1. Len(a) + Len(b) = i
      BY <1>1, <1>2, <1>4
    <2>2. /\ a \o b \in Seq(S) /\ Len(a \o b) = Len(a) + Len(b)
          /\ \A k \in 1..(Len(a) + Len(b)) :
               (a \o b)[k] = IF k <= Len(a) THEN a[k] ELSE b[k - Len(a)]
      BY <1>2, <1>4, ConcatProperties
    <2>3. Len(a) = i - 1
      BY <1>2
    <2> QED
      BY <2>1, <2>2, <2>3
  <1>7. /\ (a \o b) \o c \in Seq(S) /\ Len((a \o b) \o c) = Len(s) + 1
        /\ \A k \in 1..(Len(s) + 1) :
             ((a \o b) \o c)[k] = IF k <= i THEN (a \o b)[k] ELSE c[k - i]
    <2>1. Len(a \o b) + Len(c) = Len(s) + 1
      BY <1>1, <1>3, <1>6
    <2> QED
      BY <1>3, <1>6, <2>1, ConcatProperties
  <1>8. ASSUME NEW k \in 1..(Len(s) + 1)
        PROVE  ((a \o b) \o c)[k] =
                 IF k < i THEN s[k] ELSE IF k = i THEN e ELSE s[k - 1]
    <2>1. CASE k < i
      <3>1. k \in 1..i /\ k <= i - 1 /\ k \in 1..(i - 1) /\ k <= i
        BY <1>1, <2>1
      <3>2. ((a \o b) \o c)[k] = (a \o b)[k]
        BY <1>7, <3>1
      <3>3. (a \o b)[k] = a[k]
        BY <1>6, <3>1
      <3> QED
        BY <1>2, <2>1, <3>1, <3>2, <3>3
    <2>2. CASE k = i
      <3>1. k \in 1..i /\ ~(k <= i - 1) /\ k <= i /\ k - (i - 1) = 1
        BY <1>1, <2>2
      <3>2. ((a \o b) \o c)[k] = (a \o b)[k]
        BY <1>7, <3>1
      <3>3. (a \o b)[k] = b[1]
        BY <1>6, <3>1
      <3> QED
        BY <1>4, <2>2, <3>1, <3>2, <3>3
    <2>3. CASE k > i
      <3>1. k - i \in 1..(Len(s) - i + 1) /\ i + (k - i) - 1 = k - 1 /\ ~(k <= i)
        BY <1>1, <2>3
      <3>2. ((a \o b) \o c)[k] = c[k - i]
        BY <1>7, <3>1
      <3>3. c[k - i] = s[k - 1]
        BY <1>3, <3>1
      <3> QED
        BY <2>3, <3>1, <3>2, <3>3
    <2>4. k \in Int /\ i \in Int
      BY <1>1
    <2>5. k < i \/ k = i \/ k > i
      BY <2>4
    <2> QED
      BY <2>1, <2>2, <2>3, <2>5
  <1> QED
    BY <1>5, <1>7, <1>8 DEF WithOne

WithoutOne(s, t, i) ==
  /\ Len(t) = Len(s) - 1
  /\ \A k \in 1..(Len(s) - 1) : t[k] = IF k < i THEN s[k] ELSE s[k + 1]

LEMMA Removed1 ==
  ASSUME NEW S, NEW s \in Seq(S), NEW i \in 1..Len(s)
  PROVE  RemoveAt(s, i) \in Seq(S) /\ WithoutOne(s, RemoveAt(s, i), i)
  <1> DEFINE a == SubSeq(s, 1, i - 1)
             c == SubSeq(s, i + 1, Len(s))
  <1>1. Len(s) \in Nat /\ \A k \in 1..Len(s) : s[k] \in S
    BY LenProperties, ElementOfSeq
  <1>2. /\ a \in Seq(S) /\ Len(a) = i - 1
        /\ \A k \in 1..(i - 1) : a[k] = s[k]
    <2>1. 1 \in Int /\ i - 1 \in Int /\ \A k \in 1..(i - 1) : s[k] \in S
      BY <1>1
    <2>2. /\ a \in Seq(S) /\ Len(a) = IF 1 <= i - 1 THEN (i - 1) - 1 + 1 ELSE 0
          /\ \A k \in 1..((i - 1) - 1 + 1) : a[k] = s[1 + k - 1]
      BY <2>1, SubSeqProperties
    <2> HIDE DEF a
    <2> QED
      BY <1>1, <2>2
  <1>3. /\ c \in Seq(S) /\ Len(c) = Len(s) - i
        /\ \A k \in 1..(Len(s) - i) : c[k] = s[i + k]
    <2>1. Len(s) \in Int /\ i + 1 \in Int /\ \A k \in (i + 1)..Len(s) : s[k] \in S
      BY <1>1
    <2>2. /\ c \in Seq(S) /\ Len(c) = IF i + 1 <= Len(s) THEN Len(s) - (i + 1) + 1 ELSE 0
          /\ \A k \in 1..(Len(s) - (i + 1) + 1) : c[k] = s[(i + 1) + k - 1]
      BY <2>1, SubSeqProperties
    <2> HIDE DEF c
    <2> QED
      BY <1>1, <2>2
  <1>4. RemoveAt(s, i) = a \o c
    BY DEF RemoveAt
  <1> HIDE DEF a, c
  <1>5. /\ a \o c \in Seq(S) /\ Len(a \o c) = Len(s) - 1
        /\ \A k \in 1..(Len(s) - 1) :
             (a \o c)[k] = IF k <= i - 1 THEN a[k] ELSE c[k - (i - 1)]
    <2>1. Len(a) + Len(c) = Len(s) - 1 /\ Len(a) = i - 1
      BY <1>1, <1>2, <1>3
    <2>2. /\ a \o c \in Seq(S) /\ Len(a \o c) = Len(a) + Len(c)
          /\ \A k \in 1..(Len(a) + Len(c)) :
               (a \o c)[k] = IF k <= Len(a) THEN a[k] ELSE c[k - Len(a)]
      BY <1>2, <1>3, ConcatProperties
    <2> QED
      BY <2>1, <2>2
  <1>6. ASSUME NEW k \in 1..(Len(s) - 1)
        PROVE  (a \o c)[k] = IF k < i THEN s[k] ELSE s[k + 1]
    <2>1. CASE k < i
      <3>1. k <= i - 1 /\ k \in 1..(i - 1)
        BY <1>1, <2>1
      <3> QED
        BY <1>2, <1>5, <2>1, <3>1
    <2>2. CASE k >= i
      <3>1. /\ k - (i - 1) \in 1..(Len(s) - i) /\ i + (k - (i - 1)) = k + 1
            /\ ~(k <= i - 1) /\ ~(k < i)
        BY <1>1, <2>2
      <3>2. (a \o c)[k] = c[k - (i - 1)]
        BY <1>5, <3>1
      <3>3. c[k - (i - 1)] = s[k + 1]
        BY <1>3, <3>1
      <3> QED
        BY <3>1, <3>2, <3>3
    <2>3. k < i \/ k >= i
      BY <1>1
    <2> QED
      BY <2>1, <2>2, <2>3
  <1> QED
    BY <1>4, <1>5, <1>6 DEF WithoutOne

LEMMA Prefix ==
  ASSUME NEW S, NEW s \in Seq(S), NEW n \in 0..Len(s)
  PROVE  /\ SubSeq(s, 1, n) \in Seq(S) /\ Len(SubSeq(s, 1, n)) = n
         /\ \A k \in 1..n : SubSeq(s, 1, n)[k] = s[k]
  <1>1. Len(s) \in Nat /\ \A k \in 1..Len(s) : s[k] \in S
    BY LenProperties, ElementOfSeq
  <1>2. 1 \in Int /\ n \in Int /\ \A k \in 1..n : s[k] \in S
    BY <1>1
  <1>3. /\ SubSeq(s, 1, n) \in Seq(S) /\ Len(SubSeq(s, 1, n)) = IF 1 <= n THEN n - 1 + 1 ELSE 0
        /\ \A k \in 1..(n - 1 + 1) : SubSeq(s, 1, n)[k] = s[1 + k - 1]
    BY <1>2, SubSeqProperties
  <1> QED
    BY <1>1, <1>3

-----------------------------------------------------------------------------
(* Totals.                                                                 *)

\* A total is the last of the sums of the first rows.
Sums(rows, n, g) == g[0] = 0 /\ \A k \in 1..n : g[k] = g[k - 1] + rows[k].amount

LEMMA TotalIs ==
  ASSUME NEW rows, NEW n \in Nat, DOMAIN rows = 1..n
  PROVE  \E g : Sums(rows, n, g) /\ Total(rows) = g[n]
  BY TotalTrace DEF Sums

\* Sums are determined by the amounts, and those of natural numbers.
LEMMA SumsNat ==
  ASSUME NEW rows, NEW n \in Nat, \A k \in 1..n : rows[k].amount \in Nat,
         NEW g, Sums(rows, n, g)
  PROVE  \A k \in 0..n : g[k] \in Nat
  <1> DEFINE B == {k \in 0..n : g[k] \in Nat}
  <1>1. 0 \in B
    BY DEF Sums
  <1>2. ASSUME NEW k \in 0..(n - 1), k \in B PROVE k + 1 \in B
    <2>1. k + 1 \in 1..n /\ (k + 1) - 1 = k
      OBVIOUS
    <2>2. g[k + 1] = g[k] + rows[k + 1].amount
      BY <2>1 DEF Sums
    <2>3. g[k] \in Nat /\ rows[k + 1].amount \in Nat
      BY <1>2, <2>1
    <2> QED
      BY <2>1, <2>2, <2>3
  <1> HIDE DEF B
  <1>3. 0..n \subseteq B
    BY <1>1, <1>2, UpTo
  <1> QED
    BY <1>3 DEF B

LEMMA SumsAgree ==
  ASSUME NEW rows, NEW others, NEW n \in Nat,
         \A k \in 1..n : rows[k].amount = others[k].amount,
         NEW g, Sums(rows, n, g), NEW h, Sums(others, n, h)
  PROVE  \A k \in 0..n : g[k] = h[k]
  <1> DEFINE B == {k \in 0..n : g[k] = h[k]}
  <1>1. 0 \in B
    BY DEF Sums
  <1>2. ASSUME NEW k \in 0..(n - 1), k \in B PROVE k + 1 \in B
    <2>1. k + 1 \in 1..n /\ (k + 1) - 1 = k
      OBVIOUS
    <2> QED
      BY <1>2, <2>1 DEF Sums
  <1> HIDE DEF B
  <1>3. 0..n \subseteq B
    BY <1>1, <1>2, UpTo
  <1> QED
    BY <1>3 DEF B

LEMMA TotalNat ==
  ASSUME NEW rows, NEW n \in Nat, DOMAIN rows = 1..n, \A k \in 1..n : rows[k].amount \in Nat
  PROVE  Total(rows) \in Nat
  <1>1. PICK g : Sums(rows, n, g) /\ Total(rows) = g[n]
    BY TotalIs
  <1>2. n \in 0..n
    OBVIOUS
  <1> QED
    BY <1>1, <1>2, SumsNat

LEMMA TotalSame ==
  ASSUME NEW rows, NEW others, NEW n \in Nat, DOMAIN rows = 1..n, DOMAIN others = 1..n,
         \A k \in 1..n : rows[k].amount = others[k].amount
  PROVE  Total(rows) = Total(others)
  <1>1. PICK g : Sums(rows, n, g) /\ Total(rows) = g[n]
    BY TotalIs
  <1>2. PICK h : Sums(others, n, h) /\ Total(others) = h[n]
    BY TotalIs
  <1>3. n \in 0..n
    OBVIOUS
  <1> QED
    BY <1>1, <1>2, <1>3, SumsAgree

\* One more row, anywhere, adds its amount.
OneMore(rows, more, n, i) ==
  /\ n \in Nat /\ DOMAIN rows = 1..n /\ DOMAIN more = 1..(n + 1) /\ i \in 1..(n + 1)
  /\ \A k \in 1..n : rows[k].amount \in Nat
  /\ \A k \in 1..(n + 1) : more[k].amount \in Nat
  /\ \A k \in 1..n : k < i => more[k].amount = rows[k].amount
  /\ \A k \in 1..n : k >= i => more[k + 1].amount = rows[k].amount

LEMMA TotalOneMore ==
  ASSUME NEW rows, NEW more, NEW n, NEW i, OneMore(rows, more, n, i)
  PROVE  Total(more) = Total(rows) + more[i].amount
  <1> USE DEF OneMore
  <1>1. PICK g : Sums(rows, n, g) /\ Total(rows) = g[n]
    BY TotalIs
  <1>2. n + 1 \in Nat
    OBVIOUS
  <1>3. PICK h : Sums(more, n + 1, h) /\ Total(more) = h[n + 1]
    BY TotalIs, <1>2
  <1>4. \A k \in 0..n : g[k] \in Nat
    BY <1>1, SumsNat
  <1>5. \A k \in 0..(n + 1) : h[k] \in Nat
    BY <1>2, <1>3, SumsNat
  <1> DEFINE B == {k \in 0..(n + 1) :
                     h[k] = IF k < i THEN g[k] ELSE g[k - 1] + more[i].amount}
  <1>6. 0 \in B
    BY <1>1, <1>3 DEF Sums
  <1>7. ASSUME NEW k \in 0..((n + 1) - 1), k \in B PROVE k + 1 \in B
    <2>1. k \in 0..n /\ k + 1 \in 1..(n + 1) /\ (k + 1) - 1 = k
      OBVIOUS
    <2>2. h[k + 1] = h[k] + more[k + 1].amount
      BY <1>3, <2>1 DEF Sums
    <2>3. h[k] = IF k < i THEN g[k] ELSE g[k - 1] + more[i].amount
      BY <1>7
    <2>4. CASE k + 1 < i
      <3>1. k + 1 \in 1..n
        BY <2>1, <2>4
      <3>2. g[k + 1] = g[k] + rows[k + 1].amount
        BY <1>1, <2>1, <3>1 DEF Sums
      <3>3. h[k + 1] = g[k + 1]
        BY <2>2, <2>3, <2>4, <3>1, <3>2
      <3> QED
        BY <2>1, <2>4, <3>3
    <2>5. CASE k + 1 = i
      <3>1. h[k + 1] = g[k] + more[i].amount
        BY <2>1, <2>2, <2>3, <2>5
      <3> QED
        BY <2>1, <2>5, <3>1
    <2>6. CASE k + 1 > i
      <3>1. k \in 1..n /\ k >= i
        BY <2>1, <2>6
      <3>2. g[k] = g[k - 1] + rows[k].amount
        BY <1>1, <3>1 DEF Sums
      <3>3. more[k + 1].amount = rows[k].amount
        BY <3>1
      <3>4. g[k - 1] \in Nat /\ g[k] \in Nat /\ rows[k].amount \in Nat /\ more[i].amount \in Nat
        BY <1>4, <3>1
      <3>5. h[k + 1] = g[k] + more[i].amount
        BY <2>2, <2>3, <3>1, <3>2, <3>3, <3>4
      <3> QED
        BY <2>1, <2>6, <3>5
    <2> QED
      BY <2>1, <2>4, <2>5, <2>6
  <1> HIDE DEF B
  <1>8. 0..(n + 1) \subseteq B
    BY <1>2, <1>6, <1>7, UpTo
  <1>9. n + 1 \in B
    BY <1>8
  <1>10. h[n + 1] = g[(n + 1) - 1] + more[i].amount
    BY <1>9 DEF B
  <1> QED
    BY <1>1, <1>3, <1>10
-----------------------------------------------------------------------------
(* The rules of the rows.                                                  *)

\* Each row of more is blank, or is what row p[k] of rows is.
From(rows, more, p) ==
  \A k \in DOMAIN more :
    \/ more[k].code = 0 /\ more[k].amount = 0
    \/ /\ p[k] \in DOMAIN rows
       /\ more[k].code = rows[p[k]].code /\ more[k].amount = rows[p[k]].amount

\* Rows that come from different rows obey the rules that those obey.
LEMMA FromUnique ==
  ASSUME NEW rows, NEW more, NEW p, From(rows, more, p),
         \A j, k \in DOMAIN more : p[j] = p[k] => j = k, UniqueCodes(rows)
  PROVE  UniqueCodes(more)
  <1>1. SUFFICES ASSUME NEW i \in DOMAIN more, NEW j \in DOMAIN more,
                        more[i].code = more[j].code, more[i].code # 0
                 PROVE  i = j
    BY DEF UniqueCodes
  <1>2. /\ p[i] \in DOMAIN rows /\ more[i].code = rows[p[i]].code
        /\ p[j] \in DOMAIN rows /\ more[j].code = rows[p[j]].code
    BY <1>1 DEF From
  <1>3. p[i] = p[j]
    BY <1>1, <1>2 DEF UniqueCodes
  <1> QED
    BY <1>3

LEMMA FromComplete ==
  ASSUME NEW rows, NEW more, NEW p, From(rows, more, p), Complete(rows)
  PROVE  Complete(more)
  BY DEF From, Complete

LEMMA FromAscending ==
  ASSUME NEW rows, NEW more, NEW p, From(rows, more, p),
         \A k \in DOMAIN more : more[k].amount \in Nat,
         \A j, k \in DOMAIN more : j < k => p[j] < p[k] \/ more[j].amount = 0 \/ more[k].amount = 0,
         Ascending(rows)
  PROVE  Ascending(more)
  <1>1. SUFFICES ASSUME NEW i \in DOMAIN more, NEW j \in DOMAIN more,
                        i < j, more[j].amount # 0
                 PROVE  more[i].amount <= more[j].amount
    BY DEF Ascending
  <1>2. CASE more[i].amount = 0
    BY <1>2
  <1>3. CASE more[i].amount # 0
    <2>1. /\ p[i] \in DOMAIN rows /\ more[i].amount = rows[p[i]].amount
          /\ p[j] \in DOMAIN rows /\ more[j].amount = rows[p[j]].amount
      BY <1>1, <1>3 DEF From
    <2>2. p[i] < p[j]
      BY <1>1, <1>3
    <2> QED
      BY <1>1, <2>1, <2>2 DEF Ascending
  <1> QED
    BY <1>2, <1>3

LEMMA FromContent ==
  ASSUME NEW rows, NEW more, NEW p, From(rows, more, p)
  PROVE  Content(more) \subseteq Content(rows)
  <1>1. SUFFICES ASSUME NEW k \in DOMAIN more, <<more[k].code, more[k].amount>> # <<0, 0>>
                 PROVE  <<more[k].code, more[k].amount>> \in Content(rows)
    BY DEF Content
  <1>2. /\ p[k] \in DOMAIN rows
        /\ more[k].code = rows[p[k]].code /\ more[k].amount = rows[p[k]].amount
    BY <1>1 DEF From
  <1>3. <<rows[p[k]].code, rows[p[k]].amount>> \in Content(rows)
    BY <1>1, <1>2 DEF Content
  <1> QED
    BY <1>2, <1>3

\* Rows with the same cells.
SameCells(rows, others) ==
  /\ DOMAIN others = DOMAIN rows
  /\ \A k \in DOMAIN rows : others[k].code = rows[k].code /\ others[k].amount = rows[k].amount

LEMMA SameCellsRules ==
  ASSUME NEW rows, NEW others, SameCells(rows, others)
  PROVE  /\ UniqueCodes(rows) => UniqueCodes(others)
         /\ Ascending(rows) => Ascending(others)
         /\ Complete(rows) => Complete(others)
         /\ Content(others) = Content(rows)
  <1>1. UniqueCodes(rows) => UniqueCodes(others)
    BY DEF SameCells, UniqueCodes
  <1>2. Ascending(rows) => Ascending(others)
    BY DEF SameCells, Ascending
  <1>3. Complete(rows) => Complete(others)
    BY DEF SameCells, Complete
  <1>4. Content(others) = Content(rows)
    BY DEF SameCells, Content
  <1> QED
    BY <1>1, <1>2, <1>3, <1>4

\* Row i has another code.
CodeSet(rows, others, n, i) ==
  /\ n \in Nat /\ DOMAIN rows = 1..n /\ DOMAIN others = 1..n /\ i \in 1..n
  /\ \A k \in 1..n : others[k].amount = rows[k].amount
  /\ \A k \in (1..n) \ {i} : others[k].code = rows[k].code

LEMMA CodeSetRules ==
  ASSUME NEW rows, NEW others, NEW n, NEW i, CodeSet(rows, others, n, i)
  PROVE  /\ Ascending(rows) => Ascending(others)
         /\ Complete(rows) /\ others[i].code # 0 => Complete(others)
         /\ /\ UniqueCodes(rows)
            /\ others[i].code = 0 \/ \A k \in (1..n) \ {i} : rows[k].code # others[i].code
            => UniqueCodes(others)
  <1>1. Ascending(rows) => Ascending(others)
    BY DEF Ascending, CodeSet
  <1>2. Complete(rows) /\ others[i].code # 0 => Complete(others)
    <2>1. SUFFICES ASSUME Complete(rows), others[i].code # 0,
                          NEW k \in 1..n, others[k].amount # 0
                   PROVE  others[k].code # 0
      BY DEF Complete, CodeSet
    <2> QED
      BY <2>1 DEF Complete, CodeSet
  <1>3. /\ UniqueCodes(rows)
        /\ others[i].code = 0 \/ \A k \in (1..n) \ {i} : rows[k].code # others[i].code
        => UniqueCodes(others)
    <2>1. SUFFICES ASSUME UniqueCodes(rows),
                          \/ others[i].code = 0
                          \/ \A k \in (1..n) \ {i} : rows[k].code # others[i].code,
                          NEW a \in 1..n, NEW b \in 1..n,
                          others[a].code = others[b].code, others[a].code # 0
                   PROVE  a = b
      BY DEF UniqueCodes, CodeSet
    <2>2. CASE a # i /\ b # i
      BY <2>1, <2>2 DEF UniqueCodes, CodeSet
    <2>3. CASE a = i /\ b # i
      BY <2>1, <2>3 DEF CodeSet
    <2>4. CASE a # i /\ b = i
      BY <2>1, <2>4 DEF CodeSet
    <2> QED
      BY <2>2, <2>3, <2>4
  <1> QED
    BY <1>1, <1>2, <1>3

\* An amount between those of the nearest rows that have one: as the amounts
\* ascend, it is between those of all rows.
AmountsOf(f, n) ==
  n \in Nat /\ DOMAIN f.data = 1..n /\ \A k \in 1..n : f.data[k].amount \in Nat

LEMMA AmountInOrder ==
  ASSUME NEW f, NEW n, AmountsOf(f, n), Ascending(f.data),
         NEW i \in 1..n, NEW v \in Nat, v = 0 \/ InOrder(f, i, v)
  PROVE  /\ v # 0 => \A j \in 1..(i - 1) : f.data[j].amount <= v
         /\ \A j \in (i + 1)..n : f.data[j].amount # 0 => v <= f.data[j].amount
  <1> USE DEF AmountsOf
  <1>1. ASSUME v # 0, NEW j \in 1..(i - 1) PROVE f.data[j].amount <= v
    <2>1. CASE f.data[j].amount = 0
      BY <2>1
    <2>2. CASE f.data[j].amount # 0
      <3> DEFINE T == {k \in 1..n : j <= k /\ k < i /\ f.data[k].amount # 0}
      <3>1. j \in 1..n /\ j <= j /\ j < i
        OBVIOUS
      <3>2. T \subseteq 1..n /\ T # {}
        BY <2>2, <3>1
      <3>3. PICK m : m = Max(T)
        OBVIOUS
      <3> HIDE DEF T
      <3>4. m \in T /\ \A k \in T : k <= m
        BY <3>2, <3>3, IntervalMax
      <3>5. m \in 1..n /\ j <= m /\ m < i /\ f.data[m].amount # 0
        BY <3>4 DEF T
      <3>6. Neighbours(f, m, i)
        <4>1. SUFFICES ASSUME NEW k \in 1..n, (m < k /\ k < i) \/ (i < k /\ k < m),
                              f.data[k].amount # 0
                       PROVE  FALSE
          BY DEF Neighbours
        <4>2. k \in T
          BY <3>1, <3>5, <4>1 DEF T
        <4> QED
          BY <3>4, <3>5, <4>1, <4>2
      <3>7. f.data[m].amount <= v
        BY <1>1, <3>5, <3>6 DEF InOrder
      <3>8. f.data[j].amount <= f.data[m].amount
        BY <3>1, <3>5 DEF Ascending
      <3> QED
        BY <3>1, <3>5, <3>7, <3>8
    <2> QED
      BY <2>1, <2>2
  <1>2. ASSUME NEW j \in (i + 1)..n, f.data[j].amount # 0 PROVE v <= f.data[j].amount
    <2>1. CASE v = 0
      BY <2>1
    <2>2. CASE v # 0
      <3> DEFINE T == {k \in 1..n : i < k /\ k <= j /\ f.data[k].amount # 0}
      <3>1. j \in 1..n /\ j <= j /\ i < j
        OBVIOUS
      <3>2. T \subseteq Nat /\ T # {}
        BY <1>2, <3>1
      <3> HIDE DEF T
      <3>3. PICK m \in T : \A k \in T : m <= k
        BY <3>2, LeastNumber
      <3>4. m \in 1..n /\ m <= j /\ i < m /\ f.data[m].amount # 0
        BY <3>3 DEF T
      <3>5. Neighbours(f, m, i)
        <4>1. SUFFICES ASSUME NEW k \in 1..n, (m < k /\ k < i) \/ (i < k /\ k < m),
                              f.data[k].amount # 0
                       PROVE  FALSE
          BY DEF Neighbours
        <4>2. k \in T
          BY <3>1, <3>4, <4>1 DEF T
        <4> QED
          BY <3>3, <3>4, <4>1, <4>2
      <3>6. v <= f.data[m].amount
        BY <2>2, <3>4, <3>5 DEF InOrder
      <3>7. f.data[m].amount <= f.data[j].amount
        BY <1>2, <3>1, <3>4 DEF Ascending
      <3> QED
        BY <3>1, <3>4, <3>6, <3>7
    <2> QED
      BY <2>1, <2>2
  <1> QED
    BY <1>1, <1>2

\* Row i has another amount.
AmountSet(rows, others, n, i) ==
  /\ n \in Nat /\ DOMAIN rows = 1..n /\ DOMAIN others = 1..n /\ i \in 1..n
  /\ \A k \in 1..n : rows[k].amount \in Nat /\ others[k].amount \in Nat
  /\ \A k \in (1..n) \ {i} : others[k].amount = rows[k].amount
  /\ others[i].amount # 0 => \A j \in 1..(i - 1) : rows[j].amount <= others[i].amount
  /\ \A j \in (i + 1)..n : rows[j].amount # 0 => others[i].amount <= rows[j].amount

LEMMA AmountSetRules ==
  ASSUME NEW rows, NEW others, NEW n, NEW i, AmountSet(rows, others, n, i), Ascending(rows)
  PROVE  Ascending(others)
  <1>1. SUFFICES ASSUME NEW a \in 1..n, NEW b \in 1..n, a < b, others[b].amount # 0
                 PROVE  others[a].amount <= others[b].amount
    BY DEF Ascending, AmountSet
  <1>2. CASE a # i /\ b # i
    BY <1>1, <1>2 DEF Ascending, AmountSet
  <1>3. CASE b = i
    <2>1. a \in 1..(i - 1) /\ a # i
      BY <1>1, <1>3 DEF AmountSet
    <2> QED
      BY <1>1, <1>3, <2>1 DEF AmountSet
  <1>4. CASE a = i
    <2>1. b \in (i + 1)..n /\ b # i
      BY <1>1, <1>4 DEF AmountSet
    <2> QED
      BY <1>1, <1>4, <2>1 DEF AmountSet
  <1> QED
    BY <1>2, <1>3, <1>4
-----------------------------------------------------------------------------
(* Forms whose rows are in step.                                           *)

\* A handler may have one row more for a while.
Sound(f) ==
  /\ f \in Form /\ Len(f.screen) = Len(f.data) /\ Len(f.data) \in 1..(MaxRows + 1)
  /\ \A i \in 1..Len(f.data) : f.data[i].tr = f.screen[i].tr
  /\ \A i, j \in 1..Len(f.data) : f.screen[i].tr = f.screen[j].tr => i = j

OnScreen(f, tr) == \E i \in 1..Len(f.data) : f.screen[i].tr = tr

Whole(f) ==
  /\ Sound(f)
  /\ f.cur.tr = NoTr \/ OnScreen(f, f.cur.tr)
  /\ f.first.tr = NoTr \/ OnScreen(f, f.first.tr)
  /\ f.cur.old \in Value(f.cur.col)

\* The same rows, whatever is in their cells.
SameRows(f, g) ==
  /\ Len(g.data) = Len(f.data) /\ Len(g.screen) = Len(f.screen)
  /\ \A k \in 1..Len(f.data) : /\ g.data[k].tr = f.data[k].tr
                               /\ g.screen[k].tr = f.screen[k].tr
                               /\ g.screen[k].hidden = f.screen[k].hidden

LEMMA SoundFacts ==
  ASSUME NEW f, Sound(f)
  PROVE  /\ Len(f.data) \in Nat /\ Len(f.data) \in 1..(MaxRows + 1) /\ Len(f.screen) = Len(f.data)
         /\ DOMAIN f.data = 1..Len(f.data) /\ DOMAIN f.screen = 1..Len(f.data)
         /\ \A k \in 1..Len(f.data) :
              /\ f.data[k] \in DataRow /\ f.screen[k] \in ScreenRow
              /\ f.data[k].code \in Codes /\ f.data[k].amount \in Amounts
              /\ f.data[k].code \in Nat /\ f.data[k].amount \in Nat
              /\ f.screen[k].code \in Codes /\ f.screen[k].amount \in Amounts
              /\ f.screen[k].code \in Nat /\ f.screen[k].amount \in Nat
              /\ f.data[k].tr = f.screen[k].tr /\ f.screen[k].tr \in Tr
              /\ f.screen[k].hidden \in BOOLEAN
  <1>1. f.data \in Seq(DataRow) /\ f.screen \in Seq(ScreenRow)
    BY DEF Sound, Form
  <1>2. MaxRows + 1 \in Nat
    BY RowsAssumption
  <1>3. /\ Len(f.data) \in Nat /\ Len(f.data) \in 1..(MaxRows + 1) /\ Len(f.screen) = Len(f.data)
        /\ DOMAIN f.data = 1..Len(f.data) /\ DOMAIN f.screen = 1..Len(f.data)
    BY <1>1, <1>2, LenProperties DEF Sound
  <1>4. ASSUME NEW k \in 1..Len(f.data)
        PROVE  f.data[k] \in DataRow /\ f.screen[k] \in ScreenRow
    BY <1>1, <1>3, ElementOfSeq
  <1>5. ASSUME NEW k \in 1..Len(f.data)
        PROVE  /\ f.data[k].code \in Codes /\ f.data[k].amount \in Amounts
               /\ f.screen[k].code \in Codes /\ f.screen[k].amount \in Amounts
               /\ f.data[k].tr = f.screen[k].tr /\ f.screen[k].tr \in Tr
               /\ f.screen[k].hidden \in BOOLEAN
    BY <1>4 DEF DataRow, ScreenRow, Sound
  <1> QED
    BY <1>3, <1>4, <1>5, RowsAssumption

LEMMA RowOfIs ==
  ASSUME NEW f, Sound(f), NEW i \in 1..Len(f.data)
  PROVE  RowOf(f, f.screen[i].tr) = i /\ RowOf(f, f.data[i].tr) = i
  <1>1. /\ DOMAIN f.screen = 1..Len(f.data) /\ f.data[i].tr = f.screen[i].tr
    BY SoundFacts
  <1>2. \A j \in DOMAIN f.screen : f.screen[j].tr = f.screen[i].tr => j = i
    BY <1>1 DEF Sound
  <1> QED
    BY <1>1, <1>2 DEF RowOf

LEMMA RowOfOnScreen ==
  ASSUME NEW f, Sound(f), NEW tr, OnScreen(f, tr)
  PROVE  /\ RowOf(f, tr) \in 1..Len(f.data) /\ f.screen[RowOf(f, tr)].tr = tr
         /\ f.data[RowOf(f, tr)].tr = tr /\ tr \in Tr /\ tr # NoTr
  <1>1. PICK i \in 1..Len(f.data) : f.screen[i].tr = tr
    BY DEF OnScreen
  <1>2. RowOf(f, tr) = i
    BY <1>1, RowOfIs
  <1>3. f.data[i].tr = tr /\ tr \in Tr
    BY <1>1, SoundFacts
  <1>4. NoTr \notin Tr
    BY DEF NoTr, Tr
  <1> QED
    BY <1>1, <1>2, <1>3, <1>4

LEMMA SameRowsSound ==
  ASSUME NEW f, Sound(f), NEW g, g \in Form, SameRows(f, g)
  PROVE  /\ Sound(g) /\ Len(g.data) = Len(f.data)
         /\ \A tr : OnScreen(g, tr) <=> OnScreen(f, tr)
         /\ \A tr : OnScreen(f, tr) => RowOf(g, tr) = RowOf(f, tr)
  <1>1. Len(g.screen) = Len(g.data) /\ Len(g.data) = Len(f.data)
    BY DEF Sound, SameRows
  <1>2. \A i \in 1..Len(f.data) : g.screen[i].tr = f.screen[i].tr /\ g.data[i].tr = f.screen[i].tr
    BY DEF Sound, SameRows
  <1>3. Sound(g)
    BY <1>1, <1>2 DEF Sound
  <1>4. ASSUME NEW tr PROVE OnScreen(g, tr) <=> OnScreen(f, tr)
    BY <1>1, <1>2 DEF OnScreen
  <1>5. ASSUME NEW tr, OnScreen(f, tr) PROVE RowOf(g, tr) = RowOf(f, tr)
    <2>1. /\ RowOf(f, tr) \in 1..Len(f.data) /\ f.screen[RowOf(f, tr)].tr = tr
      BY <1>5, RowOfOnScreen
    <2>2. RowOf(g, g.screen[RowOf(f, tr)].tr) = RowOf(f, tr)
      BY <1>1, <1>3, <2>1, RowOfIs
    <2> QED
      BY <1>2, <2>1, <2>2
  <1> QED
    BY <1>1, <1>3, <1>4, <1>5

\* One cell of the screen.
LEMMA ShowIs ==
  ASSUME NEW f, Sound(f), NEW i \in 1..Len(f.data), NEW col \in Col, NEW v \in Value(col),
         NEW g, g = Show(f, f.screen[i].tr, col, v)
  PROVE  /\ g \in Form /\ SameRows(f, g)
         /\ g.data = f.data /\ g.cur = f.cur /\ g.first = f.first
         /\ g.dirty = f.dirty /\ g.total = f.total
         /\ \A k \in 1..Len(f.data), c \in Col :
              g.screen[k][c] = IF k = i /\ c = col THEN v ELSE f.screen[k][c]
  <1>1. g = [f EXCEPT !.screen[i][col] = v]
    BY RowOfIs DEF Show
  <1>2. /\ f.screen \in Seq(ScreenRow) /\ DOMAIN f.screen = 1..Len(f.data) /\ f.data \in Seq(DataRow)
        /\ Len(f.data) \in Nat
    BY SoundFacts DEF Sound, Form
  <1> DEFINE row == [f.screen[i] EXCEPT ![col] = v]
             s == [f.screen EXCEPT ![i] = row]
  <1>3. row \in ScreenRow /\ row.tr = f.screen[i].tr /\ row.hidden = f.screen[i].hidden
        /\ \A c \in Col : row[c] = IF c = col THEN v ELSE f.screen[i][c]
    <2>1. f.screen[i] \in ScreenRow
      BY SoundFacts
    <2>2. CASE col = "code"
      BY <2>1, <2>2 DEF ScreenRow, Col, Value
    <2>3. CASE col = "amount"
      BY <2>1, <2>3 DEF ScreenRow, Col, Value
    <2> QED
      BY <2>2, <2>3 DEF Col
  <1> HIDE DEF row
  <1>4. s \in [1..Len(f.data) -> ScreenRow]
    BY <1>2, <1>3, SoundFacts
  <1>5. s \in Seq(ScreenRow) /\ Len(s) = Len(f.data)
    BY <1>2, <1>4, ListSeq
  <1>6. \A k \in 1..Len(f.data) : s[k] = IF k = i THEN row ELSE f.screen[k]
    BY <1>2
  <1>7. g = [f EXCEPT !.screen = s]
    BY <1>1 DEF row
  <1> HIDE DEF s
  <1>8. /\ g \in Form /\ g.screen = s /\ g.data = f.data /\ g.cur = f.cur /\ g.first = f.first
        /\ g.dirty = f.dirty /\ g.total = f.total
    BY <1>5, <1>7 DEF Form, Sound
  <1>9. Len(f.screen) = Len(f.data)
    BY SoundFacts
  <1>10. SameRows(f, g)
    BY <1>3, <1>5, <1>6, <1>8, <1>9 DEF SameRows
  <1>11. \A k \in 1..Len(f.data), c \in Col :
              g.screen[k][c] = IF k = i /\ c = col THEN v ELSE f.screen[k][c]
    BY <1>3, <1>6, <1>8
  <1> QED
    BY <1>8, <1>10, <1>11

\* One cell of both.
LEMMA SetXIs ==
  ASSUME NEW f, Sound(f), NEW i \in 1..Len(f.data), NEW col \in Col, NEW v \in Value(col),
         NEW g, g = SetX(f, i, col, v)
  PROVE  /\ g \in Form /\ SameRows(f, g) /\ Sound(g)
         /\ g.cur = f.cur /\ g.first = f.first
         /\ g.dirty = f.dirty /\ g.total = f.total
         /\ \A k \in 1..Len(f.data), c \in Col :
              /\ g.screen[k][c] = IF k = i /\ c = col THEN v ELSE f.screen[k][c]
              /\ g.data[k][c] = IF k = i /\ c = col THEN v ELSE f.data[k][c]
  <1>2. /\ f.screen \in Seq(ScreenRow) /\ DOMAIN f.data = 1..Len(f.data) /\ f.data \in Seq(DataRow)
        /\ Len(f.data) \in Nat /\ f.data[i].tr = f.screen[i].tr
    BY SoundFacts DEF Sound, Form
  <1> DEFINE row == [f.data[i] EXCEPT ![col] = v]
             d == [f.data EXCEPT ![i] = row]
             h == [f EXCEPT !.data = d]
  <1>3. row \in DataRow /\ row.tr = f.data[i].tr
        /\ \A c \in Col : row[c] = IF c = col THEN v ELSE f.data[i][c]
    <2>1. f.data[i] \in DataRow
      BY SoundFacts
    <2>2. CASE col = "code"
      BY <2>1, <2>2 DEF DataRow, Col, Value
    <2>3. CASE col = "amount"
      BY <2>1, <2>3 DEF DataRow, Col, Value
    <2> QED
      BY <2>2, <2>3 DEF Col
  <1>1. g = Show(h, f.screen[i].tr, col, v)
    BY <1>2 DEF SetX
  <1> HIDE DEF row
  <1>4. d \in [1..Len(f.data) -> DataRow]
    BY <1>2, <1>3, SoundFacts
  <1>5. d \in Seq(DataRow) /\ Len(d) = Len(f.data)
    BY <1>2, <1>4, ListSeq
  <1>6. \A k \in 1..Len(f.data) : d[k] = IF k = i THEN row ELSE f.data[k]
    BY <1>2
  <1> HIDE DEF d
  <1>7. /\ h \in Form /\ h.screen = f.screen /\ h.data = d /\ h.cur = f.cur /\ h.first = f.first
        /\ h.dirty = f.dirty /\ h.total = f.total
    BY <1>5 DEF Form, Sound
  <1> HIDE DEF h
  <1>8. Len(f.screen) = Len(f.data)
    BY SoundFacts
  <1>9. SameRows(f, h)
    BY <1>3, <1>5, <1>6, <1>7, <1>8 DEF SameRows
  <1>10. Sound(h)
    BY <1>7, <1>9, SameRowsSound
  <1>11. i \in 1..Len(h.data) /\ h.screen[i].tr = f.screen[i].tr
    BY <1>5, <1>7
  <1>12. /\ g \in Form /\ SameRows(h, g)
         /\ g.data = h.data /\ g.cur = h.cur /\ g.first = h.first
         /\ g.dirty = h.dirty /\ g.total = h.total
         /\ \A k \in 1..Len(h.data), c \in Col :
              g.screen[k][c] = IF k = i /\ c = col THEN v ELSE h.screen[k][c]
    BY <1>1, <1>10, <1>11, ShowIs
  <1>13. SameRows(f, g)
    BY <1>9, <1>12 DEF SameRows
  <1>14. Sound(g)
    BY <1>12, <1>13, SameRowsSound
  <1>15. ASSUME NEW k \in 1..Len(f.data), NEW c \in Col
         PROVE  /\ g.screen[k][c] = IF k = i /\ c = col THEN v ELSE f.screen[k][c]
                /\ g.data[k][c] = IF k = i /\ c = col THEN v ELSE f.data[k][c]
    <2>1. g.data[k] = d[k] /\ h.screen[k] = f.screen[k] /\ Len(h.data) = Len(f.data)
      BY <1>5, <1>7, <1>12
    <2>2. g.data[k][c] = IF k = i /\ c = col THEN v ELSE f.data[k][c]
      BY <1>3, <1>6, <2>1
    <2> QED
      BY <1>12, <2>1, <2>2
  <1> QED
    BY <1>7, <1>12, <1>13, <1>14, <1>15
-----------------------------------------------------------------------------
(* What forms promise when exceptional events of kinds k have happened.    *)

Shows(f) ==
  \A i \in 1..Len(f.data), col \in Col :
    f.screen[i][col] = f.data[i][col] \/ (f.cur.tr = f.screen[i].tr /\ f.cur.col = col)

\* No value waits to be validated.
AllShown(f) ==
  \A i \in 1..Len(f.data), col \in Col : f.screen[i][col] = f.data[i][col]

OldIsStored(f) ==
  \A i \in 1..Len(f.data) : f.cur.tr = f.screen[i].tr => f.cur.old = f.data[i][f.cur.col]

NoneHidden(f) == \A i \in 1..Len(f.data) : ~f.screen[i].hidden

\* The rules of the rows, which only their data has to do with.
Rules(rows, k) ==
  /\ UniqueCodes(rows)
  /\ "sorted" \in k \/ Ascending(rows)
  /\ {"filtered", "adopted"} \cap k # {} \/ Complete(rows)

Promises(f, k) ==
  /\ Rules(f.data, k)
  /\ "filtered" \in k \/ NoneHidden(f)
  /\ "adopted" \in k \/ (Shows(f) /\ OldIsStored(f))
  /\ "replaced" \in k \/ f.total = Total(f.data)

Good(f, k) == Whole(f) /\ Promises(f, k)

\* Good, and nothing waits to be validated.
Ready(f, k) == Good(f, k) /\ ("adopted" \in k \/ AllShown(f))

\* From f to g, changes are noted.
Notes(f, g) == g.dirty \/ (Content(g.data) = Content(f.data) /\ ~f.dirty)

LEMMA NotesTransitive ==
  ASSUME NEW f, NEW g, NEW h, Notes(f, g), Notes(g, h)
  PROVE  Notes(f, h)
  BY DEF Notes

LEMMA MoreKinds ==
  ASSUME NEW f, NEW k, NEW l, k \subseteq l, Good(f, k)
  PROVE  Good(f, l)
  BY DEF Good, Promises, Rules

LEMMA CurRow ==
  ASSUME NEW f, Whole(f), f.cur.tr # NoTr
  PROVE  /\ RowOf(f, f.cur.tr) \in 1..Len(f.data) /\ f.screen[RowOf(f, f.cur.tr)].tr = f.cur.tr
         /\ f.cur.col \in Col
         /\ Shown(f, f.cur.tr, f.cur.col) = f.screen[RowOf(f, f.cur.tr)][f.cur.col]
         /\ Shown(f, f.cur.tr, f.cur.col) \in Value(f.cur.col)
  <1>1. OnScreen(f, f.cur.tr)
    BY DEF Whole
  <1>2. /\ RowOf(f, f.cur.tr) \in 1..Len(f.data)
        /\ f.screen[RowOf(f, f.cur.tr)].tr = f.cur.tr
    BY <1>1, RowOfOnScreen DEF Whole
  <1>3. f.cur.col \in Col
    BY DEF Whole, Sound, Form, Position
  <1>4. /\ f.screen[RowOf(f, f.cur.tr)].code \in Codes
        /\ f.screen[RowOf(f, f.cur.tr)].amount \in Amounts
    BY <1>2, SoundFacts DEF Whole
  <1>5. f.screen[RowOf(f, f.cur.tr)][f.cur.col] \in Value(f.cur.col)
    BY <1>3, <1>4 DEF Col, Value
  <1> QED
    BY <1>2, <1>3, <1>5 DEF Shown

\* What is not under the cursor is shown as it is stored.
LEMMA ShownElsewhere ==
  ASSUME NEW f, Whole(f), Shows(f), f.cur.tr # NoTr,
         NEW k \in 1..Len(f.data), NEW c \in Col, k # RowOf(f, f.cur.tr) \/ c # f.cur.col
  PROVE  f.screen[k][c] = f.data[k][c]
  <1>1. CASE c # f.cur.col
    BY <1>1 DEF Shows
  <1>2. CASE k # RowOf(f, f.cur.tr)
    <2>1. RowOf(f, f.screen[k].tr) = k
      BY RowOfIs DEF Whole
    <2>2. f.cur.tr # f.screen[k].tr
      BY <1>2, <2>1
    <2> QED
      BY <2>2 DEF Shows
  <1> QED
    BY <1>1, <1>2

LEMMA NothingChanged ==
  ASSUME NEW f, Whole(f), Shows(f), OldIsStored(f), ~Changed(f)
  PROVE  AllShown(f)
  <1>1. CASE f.cur.tr = NoTr
    <2>1. \A i \in 1..Len(f.data) : f.screen[i].tr # NoTr
      BY SoundFacts DEF Whole, NoTr, Tr
    <2> QED
      BY <1>1, <2>1 DEF Shows, AllShown
  <1>2. CASE f.cur.tr # NoTr
    <2> DEFINE i == RowOf(f, f.cur.tr)
    <2>1. /\ i \in 1..Len(f.data) /\ f.screen[i].tr = f.cur.tr
          /\ Shown(f, f.cur.tr, f.cur.col) = f.screen[i][f.cur.col]
      BY <1>2, CurRow
    <2>2. f.screen[i][f.cur.col] = f.cur.old
      BY <1>2, <2>1 DEF Changed
    <2>3. f.data[i][f.cur.col] = f.cur.old
      BY <2>1 DEF OldIsStored
    <2>4. SUFFICES ASSUME NEW k \in 1..Len(f.data), NEW c \in Col
                   PROVE  f.screen[k][c] = f.data[k][c]
      BY DEF AllShown
    <2>5. CASE k = i /\ c = f.cur.col
      BY <2>2, <2>3, <2>5
    <2>6. CASE k # i \/ c # f.cur.col
      BY <1>2, <2>6, ShownElsewhere
    <2> QED
      BY <2>5, <2>6
  <1> QED
    BY <1>1, <1>2

LEMMA TotalOfForm ==
  ASSUME NEW f, Sound(f)
  PROVE  Total(f.data) \in Nat
  BY SoundFacts, TotalNat

\* The value under the cursor, v in row i, goes into the record.
Puts(f, g, i, v) ==
  /\ Whole(g) /\ SameRows(f, g) /\ i = RowOf(f, f.cur.tr) /\ v = f.screen[i][f.cur.col]
  /\ \A k \in 1..Len(f.data), c \in Col :
       /\ g.screen[k][c] = f.screen[k][c]
       /\ g.data[k][c] = IF k = i /\ c = f.cur.col THEN v ELSE f.data[k][c]
  /\ g.cur = [f.cur EXCEPT !.old = v] /\ g.dirty = TRUE
  /\ g.total = IF f.cur.col = "amount" THEN Total(g.data) ELSE f.total

LEMMA UpdatedPuts ==
  ASSUME NEW f, Whole(f), f.cur.tr # NoTr
  PROVE  \E i, v : Puts(f, Updated(f), i, v)
  <1> DEFINE i == RowOf(f, f.cur.tr)
             v == f.screen[i][f.cur.col]
  <1>1. /\ i \in 1..Len(f.data) /\ f.screen[i].tr = f.cur.tr /\ f.cur.col \in Col
        /\ Shown(f, f.cur.tr, f.cur.col) = v /\ v \in Value(f.cur.col)
    BY CurRow
  <1>14. i = RowOf(f, f.cur.tr)
    OBVIOUS
  <1> HIDE DEF i, v
  <1> DEFINE s == SetX(f, i, f.cur.col, v)
             g == [s EXCEPT !.first = Nowhere, !.dirty = TRUE, !.cur.old = v]
  <1>2. /\ s \in Form /\ SameRows(f, s) /\ Sound(s)
        /\ s.cur = f.cur /\ s.first = f.first /\ s.dirty = f.dirty /\ s.total = f.total
        /\ \A k \in 1..Len(f.data), c \in Col :
              /\ s.screen[k][c] = IF k = i /\ c = f.cur.col THEN v ELSE f.screen[k][c]
              /\ s.data[k][c] = IF k = i /\ c = f.cur.col THEN v ELSE f.data[k][c]
    <2>1. Sound(f)
      BY DEF Whole
    <2>2. PICK x : x = SetX(f, i, f.cur.col, v)
      OBVIOUS
    <2> HIDE DEF s
    <2>3. s = x
      BY <2>2 DEF s
    <2> QED
      BY <1>1, <2>1, <2>2, <2>3, SetXIs
  <1>3. Updated(f) = IF f.cur.col = "amount" THEN [g EXCEPT !.total = Total(g.data)] ELSE g
    BY <1>1, <1>14 DEF Updated, CalcFields
  <1> HIDE DEF s
  <1>4. Nowhere \in Position /\ [f.cur EXCEPT !.old = v] \in Position
    <2>1. Nowhere \in Position
      BY RowsAssumption DEF Nowhere, Position, Col
    <2>2. v \in Codes \cup Amounts
      BY <1>1 DEF Value
    <2>3. f.cur \in Position
      BY DEF Whole, Sound, Form
    <2> QED
      BY <2>1, <2>2, <2>3 DEF Position
  <1>5. /\ g \in Form /\ g.data = s.data /\ g.screen = s.screen /\ g.cur = [f.cur EXCEPT !.old = v]
        /\ g.first = Nowhere /\ g.dirty = TRUE /\ g.total = s.total
    BY <1>2, <1>4 DEF Form
  <1> HIDE DEF g
  <1>6. SameRows(f, g) /\ Sound(g)
    BY <1>2, <1>5, SameRowsSound DEF SameRows, Whole
  <1>7. Total(g.data) \in Nat
    BY <1>6, TotalOfForm
  <1> DEFINE h == Updated(f)
  <1>8. /\ h \in Form /\ h.data = s.data /\ h.screen = s.screen /\ h.cur = [f.cur EXCEPT !.old = v]
        /\ h.first = Nowhere /\ h.dirty = TRUE
        /\ h.total = IF f.cur.col = "amount" THEN Total(h.data) ELSE f.total
    BY <1>2, <1>3, <1>5, <1>7 DEF Form
  <1> HIDE DEF h
  <1>9. SameRows(f, h)
    BY <1>2, <1>8 DEF SameRows
  <1>10. Sound(h) /\ \A tr : OnScreen(h, tr) <=> OnScreen(f, tr)
    BY <1>8, <1>9, SameRowsSound DEF Whole
  <1>11. h.cur.tr = f.cur.tr /\ h.cur.col = f.cur.col /\ h.cur.old = v
    BY <1>8 DEF Whole, Sound, Form, Position
  <1>12. Whole(h)
    BY <1>1, <1>8, <1>10, <1>11 DEF Whole, Nowhere
  <1>13. \A k \in 1..Len(f.data), c \in Col :
           /\ h.screen[k][c] = f.screen[k][c]
           /\ h.data[k][c] = IF k = i /\ c = f.cur.col THEN v ELSE f.data[k][c]
    BY <1>2, <1>8 DEF v
  <1>15. Puts(f, h, i, v)
    BY <1>8, <1>9, <1>12, <1>13, <1>14 DEF v, Puts
  <1> QED
    BY <1>15 DEF h

\* ... and the rules hold.
LEMMA UpdatedRules ==
  ASSUME NEW f, NEW k, Good(f, k), Changed(f), CheckRequired(f), Valid(f)
  PROVE  Rules(Updated(f).data, k)
  <1> DEFINE g == Updated(f)
             n == Len(f.data)
  <1>1. Whole(f) /\ f.cur.tr # NoTr /\ Sound(f)
    BY DEF Good, Changed, Whole
  <1>11. PICK i, v : Puts(f, g, i, v)
    BY <1>1, UpdatedPuts
  <1>2. /\ i \in 1..n /\ f.screen[i].tr = f.cur.tr /\ f.cur.col \in Col
        /\ Shown(f, f.cur.tr, f.cur.col) = v /\ v \in Value(f.cur.col)
    BY <1>1, <1>11, CurRow DEF Puts
  <1> HIDE DEF g
  <1>3. /\ Whole(g) /\ SameRows(f, g) /\ i = RowOf(f, f.cur.tr)
        /\ v = f.screen[i][f.cur.col]
        /\ \A j \in 1..n, c \in Col :
              /\ g.screen[j][c] = f.screen[j][c]
              /\ g.data[j][c] = IF j = i /\ c = f.cur.col THEN v ELSE f.data[j][c]
        /\ g.cur = [f.cur EXCEPT !.old = v]
        /\ g.total = IF f.cur.col = "amount" THEN Total(g.data) ELSE f.total
    BY <1>11 DEF Puts
  <1>4. /\ n \in Nat /\ DOMAIN f.data = 1..n /\ DOMAIN g.data = 1..n
        /\ \A j \in 1..n : f.data[j].amount \in Nat /\ g.data[j].amount \in Nat
    <2>1. Len(g.data) = n /\ Sound(g)
      BY <1>3 DEF SameRows, Whole
    <2> QED
      BY <1>1, <2>1, SoundFacts
  <1>5. "code" \in Col /\ "amount" \in Col
    BY DEF Col
  <1>6. CASE f.cur.col = "code"
    <2>1. /\ \A j \in 1..n : g.data[j].amount = f.data[j].amount
          /\ \A j \in (1..n) \ {i} : g.data[j].code = f.data[j].code
          /\ g.data[i].code = v
      BY <1>2, <1>3, <1>5, <1>6
    <2>2. v = 0 => "filtered" \in k
      <3>1. SUFFICES ASSUME v = 0 PROVE f.screen[i].hidden
        BY <1>2 DEF Good, Promises, NoneHidden
      <3> QED
        BY <1>2, <1>3, <1>6, <3>1 DEF Valid, Visible
    <2>3. v # 0 => \A j \in (1..n) \ {i} : f.data[j].code # v
      BY <1>2, <1>3, <1>4, <1>6 DEF Valid, Unique
    <2> HIDE DEF n
    <2>4. /\ Ascending(f.data) => Ascending(g.data)
          /\ Complete(f.data) /\ v # 0 => Complete(g.data)
          /\ UniqueCodes(f.data) => UniqueCodes(g.data)
      <3>1. g.data[i].code = 0 \/ \A j \in (1..n) \ {i} : f.data[j].code # g.data[i].code
        BY <2>1, <2>3
      <3>2. g.data[i].code # 0 <=> v # 0
        BY <2>1
      <3>3. CodeSet(f.data, g.data, n, i)
        BY <1>2, <1>4, <2>1 DEF CodeSet
      <3> QED
        BY <3>1, <3>2, <3>3, CodeSetRules
    <2>5. "filtered" \in k => {"filtered", "adopted"} \cap k # {}
      OBVIOUS
    <2>6. /\ UniqueCodes(f.data) /\ ("sorted" \in k \/ Ascending(f.data))
          /\ {"filtered", "adopted"} \cap k # {} \/ Complete(f.data)
      BY DEF Good, Promises, Rules
    <2>7. {"filtered", "adopted"} \cap k # {} \/ Complete(g.data)
      BY <2>2, <2>4, <2>5, <2>6
    <2> QED
      BY <2>4, <2>6, <2>7 DEF Rules, g
  <1>7. CASE f.cur.col = "amount"
    <2>1. /\ \A j \in 1..n : g.data[j].code = f.data[j].code
          /\ \A j \in (1..n) \ {i} : g.data[j].amount = f.data[j].amount
          /\ g.data[i].amount = v
      BY <1>2, <1>3, <1>5, <1>7
    <2>2. v = 0 \/ InOrder(f, i, v)
      BY <1>2, <1>3, <1>7 DEF Valid
    <2>3. v \in Nat
      BY <1>2, <1>7, RowsAssumption DEF Value
    <2>4. ASSUME {"filtered", "adopted"} \cap k = {} PROVE f.data[i].code # 0
      <3>1. Shows(f) /\ NoneHidden(f)
        BY <2>4 DEF Good, Promises
      <3>2. f.screen[i].code # 0
        BY <1>2, <1>3, <1>7, <3>1 DEF CheckRequired, Visible, Shown, NoneHidden
      <3>3. f.screen[i].code = f.data[i].code
        BY <1>2, <1>5, <1>7, <3>1 DEF Shows
      <3> QED
        BY <3>2, <3>3
    <2> HIDE DEF n
    <2>5. Ascending(f.data) => Ascending(g.data)
      <3>1. SUFFICES ASSUME Ascending(f.data) PROVE Ascending(g.data)
        OBVIOUS
      <3>2. /\ v # 0 => \A j \in 1..(i - 1) : f.data[j].amount <= v
            /\ \A j \in (i + 1)..n : f.data[j].amount # 0 => v <= f.data[j].amount
        <4>1. i \in 1..n /\ AmountsOf(f, n)
          BY <1>2, <1>4 DEF AmountsOf
        <4> QED
          BY <2>2, <2>3, <3>1, <4>1, AmountInOrder
      <3>3. AmountSet(f.data, g.data, n, i)
        BY <1>2, <1>4, <2>1, <3>2 DEF AmountSet
      <3> QED
        BY <3>1, <3>3, AmountSetRules
    <2>6. UniqueCodes(f.data) => UniqueCodes(g.data)
      BY <1>4, <2>1 DEF UniqueCodes
    <2>7. {"filtered", "adopted"} \cap k # {} \/ Complete(g.data)
      <3>1. SUFFICES ASSUME {"filtered", "adopted"} \cap k = {}, NEW j \in 1..n,
                            g.data[j].amount # 0
                     PROVE  g.data[j].code # 0
        BY <1>4 DEF Complete
      <3>2. Complete(f.data)
        BY <3>1 DEF Good, Promises, Rules
      <3>3. CASE j = i
        BY <2>1, <2>4, <3>1, <3>3, <1>2
      <3>4. CASE j # i
        BY <1>4, <2>1, <3>1, <3>2, <3>4 DEF Complete
      <3> QED
        BY <3>3, <3>4
    <2>8. UniqueCodes(f.data) /\ ("sorted" \in k \/ Ascending(f.data))
      BY DEF Good, Promises, Rules
    <2> QED
      BY <2>5, <2>6, <2>7, <2>8 DEF Rules, g
  <1> QED
    BY <1>2, <1>6, <1>7 DEF Col

LEMMA UpdatedReady ==
  ASSUME NEW f, NEW k, Good(f, k), Changed(f), CheckRequired(f), Valid(f)
  PROVE  Ready(Updated(f), k)
  <1> DEFINE g == Updated(f)
             n == Len(f.data)
  <1>1. Whole(f) /\ f.cur.tr # NoTr /\ Sound(f)
    BY DEF Good, Changed, Whole
  <1>11. PICK i, v : Puts(f, g, i, v)
    BY <1>1, UpdatedPuts
  <1>2. /\ i \in 1..n /\ f.screen[i].tr = f.cur.tr /\ f.cur.col \in Col
        /\ Shown(f, f.cur.tr, f.cur.col) = v /\ v \in Value(f.cur.col)
    BY <1>1, <1>11, CurRow DEF Puts
  <1>4. Rules(g.data, k)
    BY UpdatedRules
  <1> HIDE DEF g
  <1>3. /\ Whole(g) /\ SameRows(f, g) /\ i = RowOf(f, f.cur.tr)
        /\ v = f.screen[i][f.cur.col]
        /\ \A j \in 1..n, c \in Col :
              /\ g.screen[j][c] = f.screen[j][c]
              /\ g.data[j][c] = IF j = i /\ c = f.cur.col THEN v ELSE f.data[j][c]
        /\ g.cur = [f.cur EXCEPT !.old = v]
        /\ g.total = IF f.cur.col = "amount" THEN Total(g.data) ELSE f.total
    BY <1>11 DEF Puts
  <1>5. Len(g.data) = n /\ g.cur.tr = f.cur.tr /\ g.cur.col = f.cur.col /\ g.cur.old = v
    BY <1>1, <1>3 DEF SameRows, Sound, Form, Position
  <1>6. NoneHidden(f) => NoneHidden(g)
    BY <1>3, <1>5 DEF NoneHidden, SameRows
  <1>7. ASSUME "adopted" \notin k PROVE AllShown(g)
    <2>1. Shows(f)
      BY <1>7 DEF Good, Promises
    <2>2. SUFFICES ASSUME NEW j \in 1..n, NEW c \in Col PROVE g.screen[j][c] = g.data[j][c]
      BY <1>5 DEF AllShown
    <2>3. CASE j = i /\ c = f.cur.col
      BY <1>3, <2>3
    <2>4. CASE j # i \/ c # f.cur.col
      <3>1. f.screen[j][c] = f.data[j][c]
        BY <1>1, <1>3, <2>1, <2>4, ShownElsewhere
      <3> QED
        BY <1>3, <2>4, <3>1
    <2> QED
      BY <2>3, <2>4
  <1>8. AllShown(g) => Shows(g)
    BY DEF AllShown, Shows
  <1>9. OldIsStored(g)
    <2>1. SUFFICES ASSUME NEW j \in 1..n, f.cur.tr = g.screen[j].tr
                   PROVE  v = g.data[j][f.cur.col]
      BY <1>5 DEF OldIsStored
    <2>2. f.screen[j].tr = f.screen[i].tr
      BY <1>2, <1>3, <2>1 DEF SameRows
    <2>3. j = i
      BY <1>1, <1>2, <2>2 DEF Sound
    <2> QED
      BY <1>2, <1>3, <2>3
  <1>10. "replaced" \in k \/ g.total = Total(g.data)
    <2>1. CASE f.cur.col = "amount"
      BY <1>3, <2>1
    <2>2. CASE f.cur.col = "code"
      <3>1. Total(g.data) = Total(f.data)
        <4>1. \A j \in 1..n : g.data[j].amount = f.data[j].amount
          BY <1>3, <2>2 DEF Col
        <4>2. n \in Nat /\ DOMAIN f.data = 1..n /\ DOMAIN g.data = 1..n
          BY <1>1, <1>3, <1>5, SoundFacts DEF Whole
        <4> QED
          BY <4>1, <4>2, TotalSame
      <3> QED
        BY <1>3, <2>2, <3>1 DEF Good, Promises
    <2> QED
      BY <1>2, <2>1, <2>2 DEF Col
  <1>12. "filtered" \in k \/ NoneHidden(g)
    BY <1>6 DEF Good, Promises
  <1>13. Promises(g, k)
    BY <1>4, <1>7, <1>8, <1>9, <1>10, <1>12 DEF Promises
  <1> QED
    BY <1>3, <1>7, <1>13 DEF Ready, Good, g

\* What the element under the cursor shows changes.
LEMMA ShowAtCursorGood ==
  ASSUME NEW f, NEW k, Good(f, k), f.cur.tr # NoTr, NEW v \in Value(f.cur.col)
  PROVE  LET g == Show(f, f.cur.tr, f.cur.col, v) IN
         /\ Good(g, k) /\ SameRows(f, g) /\ g.data = f.data /\ g.cur = f.cur
         /\ g.first = f.first /\ g.dirty = f.dirty /\ g.total = f.total
  <1> DEFINE i == RowOf(f, f.cur.tr)
             g == Show(f, f.cur.tr, f.cur.col, v)
  <1>1. Whole(f) /\ Sound(f)
    BY DEF Good, Whole
  <1>3. /\ i \in 1..Len(f.data) /\ f.screen[i].tr = f.cur.tr /\ f.cur.col \in Col
    BY <1>1, CurRow
  <1>4. /\ g \in Form /\ SameRows(f, g)
        /\ g.data = f.data /\ g.cur = f.cur /\ g.first = f.first
        /\ g.dirty = f.dirty /\ g.total = f.total
        /\ \A j \in 1..Len(f.data), c \in Col :
            g.screen[j][c] = IF j = i /\ c = f.cur.col THEN v ELSE f.screen[j][c]
    BY <1>1, <1>3, ShowIs
  <1> HIDE DEF g
  <1>5. Sound(g) /\ \A tr : OnScreen(g, tr) <=> OnScreen(f, tr)
    BY <1>1, <1>4, SameRowsSound
  <1>6. Whole(g)
    BY <1>1, <1>4, <1>5 DEF Whole
  <1>7. Shows(f) => Shows(g)
    <2>1. SUFFICES ASSUME Shows(f), NEW j \in 1..Len(f.data), NEW c \in Col
                   PROVE  g.screen[j][c] = f.data[j][c] \/ (f.cur.tr = g.screen[j].tr /\ f.cur.col = c)
      BY <1>4 DEF Shows
    <2>2. g.screen[j].tr = f.screen[j].tr
      BY <1>4 DEF SameRows
    <2>3. CASE j = i /\ c = f.cur.col
      BY <1>3, <2>2, <2>3
    <2>4. CASE j # i \/ c # f.cur.col
      BY <1>1, <1>4, <2>1, <2>4, ShownElsewhere
    <2> QED
      BY <2>3, <2>4
  <1>8. OldIsStored(f) => OldIsStored(g)
    BY <1>4 DEF OldIsStored, SameRows
  <1>9. NoneHidden(f) => NoneHidden(g)
    BY <1>4 DEF NoneHidden, SameRows
  <1>10. Promises(g, k)
    BY <1>4, <1>7, <1>8, <1>9 DEF Good, Promises
  <1> QED
    BY <1>4, <1>6, <1>10 DEF Good, g

\* validateupdate(): the value under the cursor goes into the record, or the
\* cursor stays.
LEMMA ValidateUpdateGood ==
  ASSUME NEW f, NEW k, Good(f, k)
  PROVE  /\ Good(ValidateUpdate(f), k) /\ SameRows(f, ValidateUpdate(f))
         /\ ValidateUpdate(f).cur.tr = f.cur.tr /\ ValidateUpdate(f).cur.col = f.cur.col
         /\ Notes(f, ValidateUpdate(f))
         /\ ValidateOk(f) => Ready(ValidateUpdate(f), k)
  <1> DEFINE g == ValidateUpdate(f)
  <1>1. Whole(f) /\ Sound(f)
    BY DEF Good, Whole
  <1>2. SameRows(f, f) /\ Notes(f, f)
    BY <1>1 DEF SameRows, Notes, Sound, Form
  <1>3. CASE ~Changed(f)
    <2>1. g = f
      BY <1>3 DEF ValidateUpdate
    <2>2. Ready(f, k)
      BY <1>1, <1>3, NothingChanged DEF Ready, Good, Promises
    <2> QED
      BY <1>2, <2>1, <2>2
  <1>4. CASE Changed(f) /\ ~CheckRequired(f)
    <2>1. g = Show(f, f.cur.tr, f.cur.col, f.cur.old) /\ ~ValidateOk(f)
      BY <1>4 DEF ValidateUpdate, ValidateOk
    <2>2. f.cur.tr # NoTr /\ f.cur.old \in Value(f.cur.col)
      BY <1>1, <1>4 DEF Changed, Whole
    <2>3. /\ Good(g, k) /\ SameRows(f, g) /\ g.data = f.data /\ g.cur = f.cur
          /\ g.dirty = f.dirty
      BY <2>1, <2>2, ShowAtCursorGood
    <2> HIDE DEF g
    <2>4. Notes(f, g)
      BY <1>1, <2>3 DEF Notes, Sound, Form
    <2> QED
      BY <2>1, <2>3, <2>4 DEF g
  <1>5. CASE Changed(f) /\ CheckRequired(f) /\ ~Valid(f)
    <2>1. g = f /\ ~ValidateOk(f)
      BY <1>5 DEF ValidateUpdate, ValidateOk
    <2> QED
      BY <1>2, <2>1
  <1>6. CASE Changed(f) /\ CheckRequired(f) /\ Valid(f)
    <2>1. g = Updated(f)
      BY <1>6 DEF ValidateUpdate
    <2>2. Ready(g, k)
      BY <1>6, <2>1, UpdatedReady
    <2>3. f.cur.tr # NoTr
      BY <1>6 DEF Changed
    <2>6. PICK i, v : Puts(f, Updated(f), i, v)
      BY <1>1, <2>3, UpdatedPuts
    <2>4. SameRows(f, g) /\ g.dirty = TRUE /\ g.cur = [f.cur EXCEPT !.old = v]
      BY <2>1, <2>6 DEF Puts
    <2>5. g.cur.tr = f.cur.tr /\ g.cur.col = f.cur.col
      BY <1>1, <2>4 DEF Sound, Form, Position
    <2> HIDE DEF g
    <2> QED
      BY <2>2, <2>4, <2>5 DEF Ready, Notes, g
  <1> QED
    BY <1>3, <1>4, <1>5, <1>6
-----------------------------------------------------------------------------
(* Handlers that change no data.                                           *)

\* The same data and cells, in the same rows.
SameTable(f, g) ==
  /\ SameRows(f, g) /\ g.data = f.data
  /\ \A i \in 1..Len(f.data), c \in Col : g.screen[i][c] = f.screen[i][c]

LEMMA SetPreviousReady ==
  ASSUME NEW f, NEW k, Ready(f, k), NEW tr, OnScreen(f, tr), NEW col \in Col
  PROVE  /\ Ready(SetPrevious(f, tr, col), k) /\ SameTable(f, SetPrevious(f, tr, col))
         /\ SetPrevious(f, tr, col).cur.tr = tr /\ SetPrevious(f, tr, col).cur.col = col
         /\ SetPrevious(f, tr, col).screen = f.screen
         /\ SetPrevious(f, tr, col).dirty = f.dirty
         /\ SetPrevious(f, tr, col).total = f.total
  <1> DEFINE i == RowOf(f, tr)
             c == [tr |-> tr, col |-> col, old |-> Shown(f, tr, col)]
             g == SetPrevious(f, tr, col)
  <1>1. Whole(f) /\ Sound(f)
    BY DEF Ready, Good, Whole
  <1>2. i \in 1..Len(f.data) /\ f.screen[i].tr = tr /\ tr \in Tr /\ tr # NoTr
    BY <1>1, RowOfOnScreen
  <1>3. Shown(f, tr, col) = f.screen[i][col] /\ Shown(f, tr, col) \in Value(col)
    <2>1. f.screen[i].code \in Codes /\ f.screen[i].amount \in Amounts
      BY <1>1, <1>2, SoundFacts
    <2> QED
      BY <2>1 DEF Shown, Col, Value
  <1>4. c \in Position
    BY <1>2, <1>3 DEF Position, Value
  <1>5. /\ g \in Form /\ g.data = f.data /\ g.screen = f.screen /\ g.cur = c
        /\ g.first = f.first /\ g.dirty = f.dirty /\ g.total = f.total
    BY <1>1, <1>4 DEF SetPrevious, Sound, Form
  <1> HIDE DEF g
  <1>6. c.tr = tr /\ c.col = col /\ c.old = f.screen[i][col] /\ c.old \in Value(col)
    BY <1>3
  <1> HIDE DEF c
  <1>7. SameTable(f, g)
    BY <1>5 DEF SameTable, SameRows
  <1>8. Sound(g) /\ \A x : OnScreen(g, x) <=> OnScreen(f, x)
    BY <1>1, <1>5, <1>7, SameRowsSound DEF SameTable
  <1>9. Whole(g)
    BY <1>1, <1>5, <1>6, <1>8 DEF Whole
  <1>10. AllShown(f) => AllShown(g) /\ Shows(g) /\ OldIsStored(g)
    <2>1. SUFFICES ASSUME AllShown(f) PROVE AllShown(g) /\ Shows(g) /\ OldIsStored(g)
      OBVIOUS
    <2>2. AllShown(g) /\ Shows(g)
      BY <1>5, <2>1 DEF AllShown, Shows
    <2>3. OldIsStored(g)
      <3>1. SUFFICES ASSUME NEW j \in 1..Len(f.data), tr = f.screen[j].tr
                     PROVE  f.screen[i][col] = f.data[j][col]
        BY <1>5, <1>6 DEF OldIsStored
      <3>2. j = i
        BY <1>1, <1>2, <3>1 DEF Sound
      <3> QED
        BY <1>2, <2>1, <3>2 DEF AllShown
    <2> QED
      BY <2>2, <2>3
  <1>11. NoneHidden(f) => NoneHidden(g)
    BY <1>5 DEF NoneHidden
  <1>12. Promises(g, k)
    BY <1>5, <1>10, <1>11 DEF Ready, Good, Promises
  <1>13. Ready(g, k)
    BY <1>9, <1>10, <1>12 DEF Ready, Good
  <1> QED
    BY <1>5, <1>6, <1>7, <1>13 DEF g

\* The cursor leaves the table.
LEMMA NowhereReady ==
  ASSUME NEW f, NEW k, Ready(f, k)
  PROVE  /\ Ready([f EXCEPT !.cur = Nowhere], k)
         /\ SameRows(f, [f EXCEPT !.cur = Nowhere])
         /\ [f EXCEPT !.cur = Nowhere].data = f.data
         /\ [f EXCEPT !.cur = Nowhere].dirty = f.dirty
  <1> DEFINE g == [f EXCEPT !.cur = Nowhere]
  <1>1. Whole(f) /\ Sound(f)
    BY DEF Ready, Good, Whole
  <1>2. Nowhere \in Position /\ Nowhere.tr = NoTr /\ Nowhere.old \in Value(Nowhere.col)
    BY RowsAssumption DEF Nowhere, Position, Col, Value
  <1>3. /\ g \in Form /\ g.data = f.data /\ g.screen = f.screen /\ g.cur = Nowhere
        /\ g.first = f.first /\ g.dirty = f.dirty /\ g.total = f.total
    BY <1>1, <1>2 DEF Sound, Form
  <1> HIDE DEF g
  <1>4. SameRows(f, g)
    BY <1>3 DEF SameRows
  <1>5. Sound(g) /\ \A x : OnScreen(g, x) <=> OnScreen(f, x)
    BY <1>1, <1>3, <1>4, SameRowsSound
  <1>6. Whole(g)
    BY <1>1, <1>2, <1>3, <1>5 DEF Whole
  <1>7. AllShown(f) => AllShown(g) /\ Shows(g)
    BY <1>3 DEF AllShown, Shows
  <1>8. OldIsStored(g)
    <2>1. \A j \in 1..Len(g.data) : g.screen[j].tr # NoTr
      BY <1>5, SoundFacts DEF NoTr, Tr
    <2> QED
      BY <1>2, <1>3, <2>1 DEF OldIsStored
  <1>9. NoneHidden(f) => NoneHidden(g)
    BY <1>3 DEF NoneHidden
  <1>10. Promises(g, k)
    BY <1>3, <1>7, <1>8, <1>9 DEF Ready, Good, Promises
  <1> QED
    BY <1>3, <1>4, <1>6, <1>7, <1>10 DEF Ready, Good, g

LEMMA LeftTableGood ==
  ASSUME NEW f, NEW k, Good(f, k)
  PROVE  /\ Good(LeftTable(f), k) /\ Notes(f, LeftTable(f))
         /\ Len(LeftTable(f).data) = Len(f.data)
  <1> DEFINE g == ValidateUpdate(f)
  <1>1. /\ Good(g, k) /\ SameRows(f, g) /\ Notes(f, g)
        /\ ValidateOk(f) => Ready(g, k)
    BY ValidateUpdateGood
  <1> HIDE DEF g
  <1>2. CASE ~ValidateOk(f)
    BY <1>1, <1>2 DEF LeftTable, SameRows, g
  <1>3. CASE ValidateOk(f)
    <2>1. LeftTable(f) = [g EXCEPT !.cur = Nowhere]
      BY <1>3 DEF LeftTable, g
    <2>2. /\ Ready(LeftTable(f), k) /\ LeftTable(f).data = g.data /\ LeftTable(f).dirty = g.dirty
      BY <1>1, <1>3, <2>1, NowhereReady
    <2> QED
      BY <1>1, <2>2 DEF Ready, Notes, SameRows
  <1> QED
    BY <1>2, <1>3

LEMMA CalcFieldsGood ==
  ASSUME NEW f, NEW k, Whole(f), Rules(f.data, k), "filtered" \in k \/ NoneHidden(f),
         "adopted" \in k \/ (Shows(f) /\ OldIsStored(f))
  PROVE  /\ Good(CalcFields(f), k)
         /\ CalcFields(f).data = f.data /\ CalcFields(f).screen = f.screen
         /\ CalcFields(f).cur = f.cur /\ CalcFields(f).first = f.first
         /\ CalcFields(f).dirty = f.dirty /\ CalcFields(f).total = Total(f.data)
  <1> DEFINE g == CalcFields(f)
  <1>1. Sound(f) /\ Total(f.data) \in Nat
    BY TotalOfForm DEF Whole
  <1>2. /\ g \in Form /\ g.data = f.data /\ g.screen = f.screen /\ g.cur = f.cur
        /\ g.first = f.first /\ g.dirty = f.dirty /\ g.total = Total(f.data)
    BY <1>1 DEF CalcFields, Sound, Form
  <1> HIDE DEF g
  <1>3. SameRows(f, g)
    BY <1>2 DEF SameRows
  <1>4. Sound(g) /\ \A x : OnScreen(g, x) <=> OnScreen(f, x)
    BY <1>1, <1>2, <1>3, SameRowsSound
  <1>5. Whole(g)
    BY <1>2, <1>4 DEF Whole
  <1>6. (Shows(f) => Shows(g)) /\ (OldIsStored(f) => OldIsStored(g)) /\ (NoneHidden(f) => NoneHidden(g))
    BY <1>2 DEF Shows, OldIsStored, NoneHidden
  <1>7. Promises(g, k)
    BY <1>2, <1>6 DEF Promises
  <1> QED
    BY <1>2, <1>5, <1>7 DEF Good, g

\* Other rows are hidden.
Restyles(f, s, g) ==
  /\ s \in [1..Len(f.data) -> ScreenRow] /\ g = [f EXCEPT !.screen = s]
  /\ \A i \in 1..Len(f.data) : /\ s[i].tr = f.screen[i].tr
                              /\ s[i].code = f.screen[i].code
                              /\ s[i].amount = f.screen[i].amount

LEMMA Restyled ==
  ASSUME NEW f, NEW k, NEW l, Good(f, k), k \subseteq l,
         NEW s, NEW g, Restyles(f, s, g), "filtered" \in l \/ NoneHidden(g)
  PROVE  /\ Good(g, l) /\ g.data = f.data /\ g.dirty = f.dirty
         /\ AllShown(f) => AllShown(g)
  <1> USE DEF Restyles
  <1>1. Whole(f) /\ Sound(f)
    BY DEF Good, Whole
  <1>2. /\ Len(f.data) \in Nat /\ Len(f.screen) = Len(f.data)
        /\ \A i \in 1..Len(f.data) : f.screen[i].tr = f.data[i].tr
    BY <1>1, SoundFacts
  <1>3. s \in Seq(ScreenRow) /\ Len(s) = Len(f.data)
    BY <1>2, ListSeq
  <1>4. /\ g \in Form /\ g.data = f.data /\ g.screen = s /\ g.cur = f.cur
        /\ g.first = f.first /\ g.dirty = f.dirty /\ g.total = f.total
    BY <1>1, <1>3 DEF Sound, Form
  <1>5. Sound(g)
    BY <1>1, <1>2, <1>3, <1>4 DEF Sound
  <1>6. \A x : OnScreen(f, x) => OnScreen(g, x)
    BY <1>4 DEF OnScreen
  <1>7. Whole(g)
    BY <1>1, <1>4, <1>5, <1>6 DEF Whole
  <1>8. \A i \in 1..Len(f.data), c \in Col : s[i][c] = f.screen[i][c]
    BY DEF Col
  <1>9. /\ Shows(f) => Shows(g)
        /\ OldIsStored(f) => OldIsStored(g)
        /\ AllShown(f) => AllShown(g)
    BY <1>4, <1>8 DEF Shows, OldIsStored, AllShown
  <1>10. Rules(f.data, l)
    BY DEF Good, Promises, Rules
  <1>11. Promises(g, l)
    BY <1>4, <1>9, <1>10 DEF Good, Promises
  <1> QED
    BY <1>4, <1>7, <1>9, <1>11 DEF Good
-----------------------------------------------------------------------------
(* A row comes.                                                            *)

\* A name is free: there are more than rows.
LEMMA NewTrFree ==
  ASSUME NEW f, Sound(f), Len(f.data) <= MaxRows
  PROVE  NewTr(f) \in Tr /\ ~OnScreen(f, NewTr(f))
  <1>1. /\ Len(f.data) \in Nat /\ DOMAIN f.screen = 1..Len(f.data)
        /\ \A i \in 1..Len(f.data) : f.screen[i].tr \in Tr
    BY SoundFacts
  <1>2. \E t \in Tr : \A i \in DOMAIN f.screen : f.screen[i].tr # t
    <2>1. SUFFICES ASSUME \A t \in Tr : OnScreen(f, t)
                   PROVE  FALSE
      BY <1>1 DEF OnScreen
    <2> DEFINE r == [t \in Tr |-> RowOf(f, t)]
    <2>2. r \in [Tr -> 1..Len(f.data)]
      BY <2>1, RowOfOnScreen
    <2>3. MaxRows \in Nat
      BY RowsAssumption
    <2>4. /\ IsFiniteSet(Tr) /\ Cardinality(Tr) = MaxRows + 1
          /\ IsFiniteSet(1..Len(f.data)) /\ Cardinality(1..Len(f.data)) = Len(f.data)
      <3>1. IsFiniteSet(Tr) /\ Cardinality(Tr) = MaxRows + 1
        <4>1. 1 \in Int /\ MaxRows + 1 \in Int /\ ~(1 > MaxRows + 1) /\ (MaxRows + 1) - 1 + 1 = MaxRows + 1
          BY <2>3
        <4> QED
          BY <4>1, FS_Interval DEF Tr
      <3>2. IsFiniteSet(1..Len(f.data)) /\ Cardinality(1..Len(f.data)) = Len(f.data)
        <4>1. 1 \in Int /\ Len(f.data) \in Int /\ Len(f.data) - 1 + 1 = Len(f.data)
              /\ ~(1 > Len(f.data))
          BY <1>1 DEF Sound
        <4> QED
          BY <4>1, FS_Interval
      <3> QED
        BY <3>1, <3>2
    <2>5. Cardinality(1..Len(f.data)) < Cardinality(Tr)
      BY <1>1, <2>3, <2>4
    <2> HIDE DEF r
    <2>6. PICK t, u \in Tr : t # u /\ r[t] = r[u]
      BY <2>2, <2>4, <2>5, FS_PigeonHole
    <2>7. RowOf(f, t) = RowOf(f, u)
      BY <2>6 DEF r
    <2>8. f.screen[RowOf(f, t)].tr = t /\ f.screen[RowOf(f, u)].tr = u
      BY <2>1, RowOfOnScreen
    <2> QED
      BY <2>6, <2>7, <2>8
  <1>3. /\ NewTr(f) \in Tr
        /\ \A i \in DOMAIN f.screen : f.screen[i].tr # NewTr(f)
    BY <1>2 DEF NewTr
  <1> QED
    BY <1>1, <1>3 DEF OnScreen

\* A blank row comes before row i.
Comes(f, h, i, tr) ==
  /\ Sound(h) /\ Len(h.data) = Len(f.data) + 1 /\ tr \in Tr /\ ~OnScreen(f, tr)
  /\ \A k \in 1..(Len(f.data) + 1) :
       h.data[k] = IF k < i THEN f.data[k] ELSE IF k = i THEN NewData(tr) ELSE f.data[k - 1]
  /\ \A k \in 1..(Len(f.data) + 1) :
       h.screen[k] = IF k < i THEN f.screen[k]
                     ELSE IF k = i THEN NewScreen(tr, f.screen[1].hidden) ELSE f.screen[k - 1]
  /\ h.cur = f.cur /\ h.first = f.first /\ h.dirty = f.dirty /\ h.total = f.total

LEMMA InsertRowComes ==
  ASSUME NEW f, Sound(f), Len(f.data) <= MaxRows, NEW i \in 1..(Len(f.data) + 1)
  PROVE  \E tr : Comes(f, InsertRow(f, i), i, tr)
  <1> DEFINE tr == NewTr(f)
             d == InsertAt(f.data, i, NewData(tr))
             s == InsertAt(f.screen, i, NewScreen(tr, f.screen[1].hidden))
             n == Len(f.data)
             h == InsertRow(f, i)
  <1>1. tr \in Tr /\ ~OnScreen(f, tr)
    BY NewTrFree
  <1>2. n \in Nat /\ n >= 1 /\ Len(f.screen) = n /\ f.screen[1].hidden \in BOOLEAN
    <2>1. n \in 1..(MaxRows + 1) /\ n \in Nat
      BY SoundFacts
    <2>2. 1 \in 1..n
      BY <2>1, RowsAssumption
    <2> QED
      BY <2>1, <2>2, SoundFacts
  <1> HIDE DEF tr
  <1>3. NewData(tr) \in DataRow /\ NewScreen(tr, f.screen[1].hidden) \in ScreenRow
    BY <1>1, <1>2, RowsAssumption DEF NewData, NewScreen, DataRow, ScreenRow
  <1>4. f.data \in Seq(DataRow) /\ f.screen \in Seq(ScreenRow)
    BY DEF Sound, Form
  <1>5. /\ d \in Seq(DataRow) /\ Len(d) = n + 1
        /\ \A k \in 1..(n + 1) :
             d[k] = IF k < i THEN f.data[k] ELSE IF k = i THEN NewData(tr) ELSE f.data[k - 1]
    <2>1. d \in Seq(DataRow) /\ WithOne(f.data, d, i, NewData(tr))
      BY <1>3, <1>4, Inserted1
    <2> HIDE DEF d
    <2> QED
      BY <2>1 DEF WithOne
  <1>6. /\ s \in Seq(ScreenRow) /\ Len(s) = n + 1
        /\ \A k \in 1..(n + 1) :
             s[k] = IF k < i THEN f.screen[k]
                    ELSE IF k = i THEN NewScreen(tr, f.screen[1].hidden) ELSE f.screen[k - 1]
    <2>1. i \in 1..(Len(f.screen) + 1)
      BY <1>2
    <2>2. s \in Seq(ScreenRow) /\ WithOne(f.screen, s, i, NewScreen(tr, f.screen[1].hidden))
      BY <1>3, <1>4, <2>1, Inserted1
    <2> HIDE DEF s
    <2> QED
      BY <1>2, <2>2 DEF WithOne
  <1>7. h = [f EXCEPT !.data = d, !.screen = s]
    BY DEF InsertRow, tr
  <1> HIDE DEF d, s, h
  <1>8. /\ h \in Form /\ h.data = d /\ h.screen = s
        /\ h.cur = f.cur /\ h.first = f.first /\ h.dirty = f.dirty /\ h.total = f.total
    BY <1>5, <1>6, <1>7 DEF Sound, Form
  <1>9. ASSUME NEW k \in 1..(n + 1)
        PROVE  /\ d[k].tr = s[k].tr
               /\ k = i => s[k].tr = tr
               /\ k < i => k \in 1..n /\ s[k].tr = f.screen[k].tr
               /\ k > i => k - 1 \in 1..n /\ s[k].tr = f.screen[k - 1].tr
    <2>1. CASE k = i
      <3>1. d[k] = NewData(tr) /\ s[k] = NewScreen(tr, f.screen[1].hidden)
        BY <1>5, <1>6, <2>1
      <3> QED
        BY <2>1, <3>1 DEF NewData, NewScreen
    <2>2. CASE k < i
      <3>1. k \in 1..n /\ d[k] = f.data[k] /\ s[k] = f.screen[k]
        BY <1>2, <1>5, <1>6, <2>2
      <3> QED
        BY <2>2, <3>1, SoundFacts
    <2>3. CASE k > i
      <3>1. k - 1 \in 1..n /\ d[k] = f.data[k - 1] /\ s[k] = f.screen[k - 1]
        BY <1>2, <1>5, <1>6, <2>3
      <3> QED
        BY <2>3, <3>1, SoundFacts
    <2> QED
      BY <1>2, <2>1, <2>2, <2>3
  <1>10. ASSUME NEW k \in 1..(n + 1), NEW l \in 1..(n + 1), s[k].tr = s[l].tr
         PROVE  k = l
    <2>1. \A j \in 1..n : f.screen[j].tr # tr
      BY <1>1 DEF OnScreen
    <2>2. \A a, b \in 1..n : f.screen[a].tr = f.screen[b].tr => a = b
      BY DEF Sound
    <2>3. i \in Int /\ k \in Int /\ l \in Int
      BY <1>2
    <2>4. CASE k = i
      BY <1>9, <1>10, <2>1, <2>3, <2>4
    <2>5. CASE k < i
      <3>1. k \in 1..n /\ s[k].tr = f.screen[k].tr
        BY <1>9, <2>5
      <3>2. CASE l = i
        BY <1>9, <1>10, <2>1, <3>1, <3>2
      <3>3. CASE l < i
        BY <1>9, <1>10, <2>2, <3>1, <3>3
      <3>4. CASE l > i
        <4>1. l - 1 \in 1..n /\ s[l].tr = f.screen[l - 1].tr
          BY <1>9, <3>4
        <4>2. k = l - 1
          BY <1>10, <2>2, <3>1, <4>1
        <4> QED
          BY <2>3, <2>5, <3>4, <4>2
      <3> QED
        BY <2>3, <3>2, <3>3, <3>4
    <2>6. CASE k > i
      <3>1. k - 1 \in 1..n /\ s[k].tr = f.screen[k - 1].tr
        BY <1>9, <2>6
      <3>2. CASE l = i
        BY <1>9, <1>10, <2>1, <3>1, <3>2
      <3>3. CASE l < i
        <4>1. l \in 1..n /\ s[l].tr = f.screen[l].tr
          BY <1>9, <3>3
        <4>2. l = k - 1
          BY <1>10, <2>2, <3>1, <4>1
        <4> QED
          BY <2>3, <2>6, <3>3, <4>2
      <3>4. CASE l > i
        <4>1. l - 1 \in 1..n /\ s[l].tr = f.screen[l - 1].tr
          BY <1>9, <3>4
        <4>2. k - 1 = l - 1
          BY <1>10, <2>2, <3>1, <4>1
        <4> QED
          BY <2>3, <4>2
      <3> QED
        BY <2>3, <3>2, <3>3, <3>4
    <2> QED
      BY <2>3, <2>4, <2>5, <2>6
  <1>11. n + 1 \in 1..(MaxRows + 1)
    BY <1>2, RowsAssumption
  <1>12. Sound(h)
    BY <1>5, <1>6, <1>8, <1>9, <1>10, <1>11 DEF Sound
  <1>13. Comes(f, h, i, tr)
    BY <1>1, <1>5, <1>6, <1>8, <1>12 DEF Comes
  <1> QED
    BY <1>13 DEF h

LEMMA ComesCells ==
  ASSUME NEW f, Sound(f), NEW i \in 1..(Len(f.data) + 1), NEW h, NEW tr, Comes(f, h, i, tr),
         NEW k \in 1..(Len(f.data) + 1)
  PROVE  /\ k < i => /\ k \in 1..Len(f.data)
                     /\ h.data[k] = f.data[k] /\ h.screen[k] = f.screen[k]
         /\ k > i => /\ k - 1 \in 1..Len(f.data)
                     /\ h.data[k] = f.data[k - 1] /\ h.screen[k] = f.screen[k - 1]
         /\ k = i => /\ h.data[k].code = 0 /\ h.data[k].amount = 0 /\ h.data[k].tr = tr
                     /\ h.screen[k].code = 0 /\ h.screen[k].amount = 0 /\ h.screen[k].tr = tr
                     /\ h.screen[k].hidden = f.screen[1].hidden
  <1>1. Len(f.data) \in Nat
    BY SoundFacts
  <1>2. CASE k < i
    BY <1>1, <1>2 DEF Comes
  <1>3. CASE k > i
    BY <1>1, <1>3 DEF Comes
  <1>4. CASE k = i
    <2>1. h.data[k] = NewData(tr) /\ h.screen[k] = NewScreen(tr, f.screen[1].hidden)
      BY <1>1, <1>4 DEF Comes
    <2> QED
      BY <1>4, <2>1 DEF NewData, NewScreen
  <1> QED
    BY <1>1, <1>2, <1>3, <1>4

LEMMA ComesOnScreen ==
  ASSUME NEW f, Sound(f), NEW i \in 1..(Len(f.data) + 1), NEW h, NEW tr, Comes(f, h, i, tr),
         NEW t, OnScreen(f, t)
  PROVE  OnScreen(h, t)
  <1>1. Len(f.data) \in Nat /\ Len(h.data) = Len(f.data) + 1
    BY SoundFacts DEF Comes
  <1>2. PICK k \in 1..Len(f.data) : f.screen[k].tr = t
    BY DEF OnScreen
  <1>3. CASE k < i
    <2>1. k \in 1..(Len(f.data) + 1)
      BY <1>1
    <2>2. h.screen[k] = f.screen[k]
      BY <1>3, <2>1, ComesCells
    <2> QED
      BY <1>1, <1>2, <2>1, <2>2 DEF OnScreen
  <1>4. CASE k >= i
    <2>1. k + 1 \in 1..(Len(f.data) + 1) /\ k + 1 > i /\ (k + 1) - 1 = k
      BY <1>1, <1>4
    <2>2. h.screen[k + 1] = f.screen[k]
      BY <2>1, ComesCells
    <2> QED
      BY <1>1, <1>2, <2>1, <2>2 DEF OnScreen
  <1> QED
    BY <1>1, <1>3, <1>4

LEMMA ComesRules ==
  ASSUME NEW f, Sound(f), NEW i \in 1..(Len(f.data) + 1), NEW h, NEW tr, Comes(f, h, i, tr)
  PROVE  /\ UniqueCodes(f.data) => UniqueCodes(h.data)
         /\ Ascending(f.data) => Ascending(h.data)
         /\ Complete(f.data) => Complete(h.data)
         /\ Content(h.data) = Content(f.data)
         /\ Total(h.data) = Total(f.data)
  <1> DEFINE n == Len(f.data)
             p == [k \in 1..(n + 1) |-> IF k < i THEN k ELSE IF k = i THEN 0 ELSE k - 1]
             q == [k \in 1..n |-> IF k < i THEN k ELSE k + 1]
  <1>1. /\ n \in Nat /\ DOMAIN f.data = 1..n /\ DOMAIN h.data = 1..(n + 1)
        /\ \A k \in 1..n : f.data[k].amount \in Nat
        /\ \A k \in 1..(n + 1) : h.data[k].amount \in Nat
    <2>1. Sound(h) /\ Len(h.data) = n + 1
      BY DEF Comes
    <2> QED
      BY <2>1, SoundFacts
  <1>2. ASSUME NEW k \in 1..(n + 1)
        PROVE  /\ k < i => k \in 1..n /\ p[k] = k /\ h.data[k] = f.data[k]
               /\ k > i => k - 1 \in 1..n /\ p[k] = k - 1 /\ h.data[k] = f.data[k - 1]
               /\ k = i => p[k] = 0 /\ h.data[k].code = 0 /\ h.data[k].amount = 0
    <2>1. p[k] = IF k < i THEN k ELSE IF k = i THEN 0 ELSE k - 1
      OBVIOUS
    <2> HIDE DEF p
    <2>2. /\ k < i => k \in 1..n /\ h.data[k] = f.data[k]
          /\ k > i => k - 1 \in 1..n /\ h.data[k] = f.data[k - 1]
          /\ k = i => h.data[k].code = 0 /\ h.data[k].amount = 0
      BY ComesCells
    <2>3. k \in Int /\ i \in Int
      BY <1>1
    <2> QED
      BY <2>1, <2>2, <2>3
  <1>3. ASSUME NEW k \in 1..n
        PROVE  /\ k < i => k \in 1..(n + 1) /\ q[k] = k /\ h.data[k] = f.data[k]
               /\ k >= i => k + 1 \in 1..(n + 1) /\ q[k] = k + 1 /\ h.data[k + 1] = f.data[k]
    <2>0. q[k] = IF k < i THEN k ELSE k + 1
      OBVIOUS
    <2>3. k \in Int /\ i \in Int
      BY <1>1
    <2> HIDE DEF p, q
    <2>1. CASE k < i
      <3>1. k \in 1..(n + 1)
        BY <1>1
      <3>2. h.data[k] = f.data[k]
        BY <1>2, <2>1, <3>1
      <3> QED
        BY <2>0, <2>1, <2>3, <3>1, <3>2
    <2>2. CASE k >= i
      <3>1. k + 1 \in 1..(n + 1) /\ k + 1 > i /\ (k + 1) - 1 = k
        BY <1>1, <2>2
      <3>2. h.data[k + 1] = f.data[k]
        BY <1>2, <3>1
      <3> QED
        BY <2>0, <2>2, <2>3, <3>1, <3>2
    <2> QED
      BY <2>1, <2>2, <2>3
  <1> HIDE DEF p, q, n
  <1>4. From(f.data, h.data, p)
    <2>1. SUFFICES ASSUME NEW k \in 1..(n + 1)
                   PROVE  \/ h.data[k].code = 0 /\ h.data[k].amount = 0
                          \/ /\ p[k] \in 1..n
                             /\ h.data[k].code = f.data[p[k]].code
                             /\ h.data[k].amount = f.data[p[k]].amount
      BY <1>1 DEF From
    <2>2. k < i \/ k = i \/ k > i
      BY <1>1
    <2> QED
      BY <1>2, <2>2
  <1>5. \A j, k \in DOMAIN h.data : p[j] = p[k] => j = k
    <2>1. SUFFICES ASSUME NEW j \in 1..(n + 1), NEW k \in 1..(n + 1), p[j] = p[k] PROVE j = k
      BY <1>1
    <2>2. \A m \in 1..(n + 1) : p[m] = IF m < i THEN m ELSE IF m = i THEN 0 ELSE m - 1
      BY <1>1 DEF p
    <2> QED
      BY <1>1, <2>1, <2>2
  <1>6. \A j, k \in DOMAIN h.data :
          j < k => p[j] < p[k] \/ h.data[j].amount = 0 \/ h.data[k].amount = 0
    <2>1. SUFFICES ASSUME NEW j \in 1..(n + 1), NEW k \in 1..(n + 1), j < k,
                          h.data[j].amount # 0, h.data[k].amount # 0
                   PROVE  p[j] < p[k]
      BY <1>1
    <2>2. j # i /\ k # i
      BY <1>2, <2>1
    <2>3. \A m \in 1..(n + 1) : p[m] = IF m < i THEN m ELSE IF m = i THEN 0 ELSE m - 1
      BY <1>1 DEF p
    <2> QED
      BY <1>1, <2>1, <2>2, <2>3
  <1>7. From(h.data, f.data, q)
    <2>1. SUFFICES ASSUME NEW k \in 1..n
                   PROVE  /\ q[k] \in 1..(n + 1)
                          /\ f.data[k].code = h.data[q[k]].code
                          /\ f.data[k].amount = h.data[q[k]].amount
      BY <1>1 DEF From
    <2>2. k < i \/ k >= i
      BY <1>1
    <2> QED
      BY <1>3, <2>2
  <1>8. Content(h.data) = Content(f.data)
    <2>1. Content(h.data) \subseteq Content(f.data)
      BY <1>4, FromContent
    <2>2. Content(f.data) \subseteq Content(h.data)
      BY <1>7, FromContent
    <2> QED
      BY <2>1, <2>2
  <1>9. Total(h.data) = Total(f.data)
    <2>1. i \in 1..(n + 1) /\ h.data[i].amount = 0
      BY <1>1, <1>2 DEF n
    <2>2. /\ \A k \in 1..n : k < i => h.data[k].amount = f.data[k].amount
          /\ \A k \in 1..n : k >= i => h.data[k + 1].amount = f.data[k].amount
      BY <1>3
    <2>5. OneMore(f.data, h.data, n, i)
      BY <1>1, <2>1, <2>2 DEF OneMore
    <2>3. Total(h.data) = Total(f.data) + h.data[i].amount
      BY <2>5, TotalOneMore
    <2>4. Total(f.data) \in Nat
      BY TotalOfForm
    <2> QED
      BY <2>1, <2>3, <2>4
  <1>10. UniqueCodes(f.data) => UniqueCodes(h.data)
    BY <1>4, <1>5, FromUnique
  <1>11. Complete(f.data) => Complete(h.data)
    BY <1>4, FromComplete
  <1>12. Ascending(f.data) => Ascending(h.data)
    <2>1. \A k \in DOMAIN h.data : h.data[k].amount \in Nat
      BY <1>1
    <2> QED
      BY <1>4, <1>6, <2>1, FromAscending
  <1> QED
    BY <1>8, <1>9, <1>10, <1>11, <1>12

LEMMA ComesGood ==
  ASSUME NEW f, NEW k, Good(f, k), NEW i \in 1..(Len(f.data) + 1),
         NEW h, NEW tr, Comes(f, h, i, tr)
  PROVE  /\ Good(h, k) /\ (AllShown(f) => AllShown(h))
         /\ Content(h.data) = Content(f.data)
  <1> DEFINE n == Len(f.data)
  <1>1. Whole(f) /\ Sound(f) /\ Sound(h) /\ Len(h.data) = n + 1 /\ n \in Nat
    BY SoundFacts DEF Good, Whole, Comes
  <1>2. h.cur = f.cur /\ h.first = f.first /\ h.dirty = f.dirty /\ h.total = f.total
    BY DEF Comes
  <1>3. Whole(h)
    BY <1>1, <1>2, ComesOnScreen DEF Whole
  <1>4. ASSUME NEW j \in 1..(n + 1)
        PROVE  /\ j < i => j \in 1..n /\ h.data[j] = f.data[j] /\ h.screen[j] = f.screen[j]
               /\ j > i => j - 1 \in 1..n /\ h.data[j] = f.data[j - 1] /\ h.screen[j] = f.screen[j - 1]
               /\ j = i => /\ \A c \in Col : h.data[j][c] = 0 /\ h.screen[j][c] = 0
                           /\ h.screen[j].tr = tr /\ h.screen[j].hidden = f.screen[1].hidden
    <2>1. /\ j < i => j \in 1..n /\ h.data[j] = f.data[j] /\ h.screen[j] = f.screen[j]
          /\ j > i => j - 1 \in 1..n /\ h.data[j] = f.data[j - 1] /\ h.screen[j] = f.screen[j - 1]
      BY <1>1, ComesCells
    <2>2. j = i => /\ h.data[j].code = 0 /\ h.data[j].amount = 0
                   /\ h.screen[j].code = 0 /\ h.screen[j].amount = 0
                   /\ h.screen[j].tr = tr /\ h.screen[j].hidden = f.screen[1].hidden
      BY <1>1, ComesCells
    <2> QED
      BY <2>1, <2>2 DEF Col
  <1>5. \A j \in 1..(n + 1) : j < i \/ j = i \/ j > i
    BY <1>1
  <1>6. ASSUME Shows(f) PROVE Shows(h)
    <2>1. SUFFICES ASSUME NEW j \in 1..(n + 1), NEW c \in Col
                   PROVE  h.screen[j][c] = h.data[j][c] \/ (f.cur.tr = h.screen[j].tr /\ f.cur.col = c)
      BY <1>1, <1>2 DEF Shows
    <2>2. CASE j < i
      <3>1. j \in 1..n /\ h.data[j] = f.data[j] /\ h.screen[j] = f.screen[j]
        BY <1>4, <2>2
      <3> QED
        BY <1>6, <3>1 DEF Shows
    <2>3. CASE j > i
      <3>1. j - 1 \in 1..n /\ h.data[j] = f.data[j - 1] /\ h.screen[j] = f.screen[j - 1]
        BY <1>4, <2>3
      <3> QED
        BY <1>6, <3>1 DEF Shows
    <2>4. CASE j = i
      BY <1>4, <2>4
    <2> QED
      BY <1>5, <2>2, <2>3, <2>4
  <1>7. ASSUME AllShown(f) PROVE AllShown(h)
    <2>1. SUFFICES ASSUME NEW j \in 1..(n + 1), NEW c \in Col
                   PROVE  h.screen[j][c] = h.data[j][c]
      BY <1>1, <1>2 DEF AllShown
    <2>2. CASE j < i
      <3>1. j \in 1..n /\ h.data[j] = f.data[j] /\ h.screen[j] = f.screen[j]
        BY <1>4, <2>2
      <3> QED
        BY <1>7, <3>1 DEF AllShown
    <2>3. CASE j > i
      <3>1. j - 1 \in 1..n /\ h.data[j] = f.data[j - 1] /\ h.screen[j] = f.screen[j - 1]
        BY <1>4, <2>3
      <3> QED
        BY <1>7, <3>1 DEF AllShown
    <2>4. CASE j = i
      BY <1>4, <2>4
    <2> QED
      BY <1>5, <2>2, <2>3, <2>4
  <1>8. ASSUME OldIsStored(f) PROVE OldIsStored(h)
    <2>1. SUFFICES ASSUME NEW j \in 1..(n + 1), f.cur.tr = h.screen[j].tr
                   PROVE  f.cur.old = h.data[j][f.cur.col]
      BY <1>1, <1>2 DEF OldIsStored
    <2>2. f.cur.tr # tr
      BY <1>1 DEF Whole, Comes, NoTr, Tr
    <2>3. CASE j < i
      <3>1. j \in 1..n /\ h.data[j] = f.data[j] /\ h.screen[j] = f.screen[j]
        BY <1>4, <2>3
      <3> QED
        BY <1>8, <2>1, <3>1 DEF OldIsStored
    <2>4. CASE j > i
      <3>1. j - 1 \in 1..n /\ h.data[j] = f.data[j - 1] /\ h.screen[j] = f.screen[j - 1]
        BY <1>4, <2>4
      <3> QED
        BY <1>8, <2>1, <3>1 DEF OldIsStored
    <2>5. CASE j = i
      BY <1>4, <2>1, <2>2, <2>5
    <2> QED
      BY <1>5, <2>3, <2>4, <2>5
  <1>9. ASSUME NoneHidden(f) PROVE NoneHidden(h)
    <2>1. SUFFICES ASSUME NEW j \in 1..(n + 1) PROVE ~h.screen[j].hidden
      BY <1>1 DEF NoneHidden
    <2>2. 1 \in 1..n
      BY <1>1 DEF Sound
    <2> QED
      BY <1>4, <1>5, <1>9, <2>2 DEF NoneHidden
  <1>10. /\ UniqueCodes(f.data) => UniqueCodes(h.data)
         /\ Ascending(f.data) => Ascending(h.data)
         /\ Complete(f.data) => Complete(h.data)
         /\ Content(h.data) = Content(f.data)
         /\ Total(h.data) = Total(f.data)
    BY <1>1, ComesRules
  <1>11. Rules(h.data, k)
    BY <1>10 DEF Good, Promises, Rules
  <1>12. Promises(h, k)
    BY <1>2, <1>6, <1>8, <1>9, <1>10, <1>11 DEF Good, Promises
  <1> QED
    BY <1>3, <1>7, <1>10, <1>12 DEF Good

LEMMA InsertRowReady ==
  ASSUME NEW f, NEW k, Ready(f, k), Len(f.data) <= MaxRows, NEW i \in 1..(Len(f.data) + 1)
  PROVE  /\ Ready(InsertRow(f, i), k)
         /\ Len(InsertRow(f, i).data) = Len(f.data) + 1
         /\ Content(InsertRow(f, i).data) = Content(f.data)
         /\ InsertRow(f, i).dirty = f.dirty
         /\ \E tr : Comes(f, InsertRow(f, i), i, tr)
  <1>1. Sound(f)
    BY DEF Ready, Good, Whole
  <1>2. PICK tr : Comes(f, InsertRow(f, i), i, tr)
    BY <1>1, InsertRowComes
  <1>3. /\ Good(InsertRow(f, i), k) /\ (AllShown(f) => AllShown(InsertRow(f, i)))
        /\ Content(InsertRow(f, i).data) = Content(f.data)
    BY <1>2, ComesGood DEF Ready
  <1>4. Len(InsertRow(f, i).data) = Len(f.data) + 1 /\ InsertRow(f, i).dirty = f.dirty
    BY <1>2 DEF Comes
  <1> QED
    BY <1>2, <1>3, <1>4 DEF Ready
-----------------------------------------------------------------------------
(* A row goes.                                                             *)

\* Elements that are no longer in the table are forgotten.
LEMMA ForgetWhole ==
  ASSUME NEW f, Sound(f), f.cur.old \in Value(f.cur.col)
  PROVE  /\ Whole(Forget(f)) /\ Forget(f).data = f.data /\ Forget(f).screen = f.screen
         /\ Forget(f).dirty = f.dirty /\ Forget(f).total = f.total
         /\ OnScreen(f, f.cur.tr) => Forget(f).cur = f.cur
         /\ ~OnScreen(f, f.cur.tr) => Forget(f).cur = Nowhere
  <1> DEFINE g == Forget(f)
             c == IF OnScreen(f, f.cur.tr) THEN f.cur ELSE Nowhere
             d == IF OnScreen(f, f.first.tr) THEN f.first ELSE Nowhere
  <1>1. DOMAIN f.screen = 1..Len(f.data) /\ f \in Form
    BY SoundFacts DEF Sound
  <1>2. g = [f EXCEPT !.cur = c, !.first = d]
    <2>1. \A p : (\E i \in DOMAIN f.screen : f.screen[i].tr = p.tr) <=> OnScreen(f, p.tr)
      BY <1>1 DEF OnScreen
    <2>2. f.cur = f.cur /\ f.first = f.first
      OBVIOUS
    <2> QED
      BY <2>1 DEF Forget
  <1>3. /\ Nowhere \in Position /\ Nowhere.tr = NoTr /\ Nowhere.old \in Value(Nowhere.col)
    BY RowsAssumption DEF Nowhere, Position, Col, Value
  <1>4. f.cur \in Position /\ f.first \in Position
    BY <1>1 DEF Form
  <1>5. c \in Position /\ d \in Position
    BY <1>3, <1>4
  <1>6. /\ c.tr = NoTr \/ OnScreen(f, c.tr)
        /\ d.tr = NoTr \/ OnScreen(f, d.tr)
        /\ c.old \in Value(c.col)
    BY <1>3
  <1>7. /\ OnScreen(f, f.cur.tr) => c = f.cur
        /\ ~OnScreen(f, f.cur.tr) => c = Nowhere
    OBVIOUS
  <1> HIDE DEF c, d, g
  <1>8. /\ g \in Form /\ g.data = f.data /\ g.screen = f.screen /\ g.cur = c
        /\ g.first = d /\ g.dirty = f.dirty /\ g.total = f.total
    BY <1>1, <1>2, <1>5 DEF Form
  <1>9. SameRows(f, g)
    BY <1>8 DEF SameRows
  <1>10. Sound(g) /\ \A x : OnScreen(g, x) <=> OnScreen(f, x)
    BY <1>8, <1>9, SameRowsSound
  <1>11. Whole(g)
    BY <1>6, <1>8, <1>10 DEF Whole
  <1> QED
    BY <1>7, <1>8, <1>11 DEF g

LEMMA ForgetShows ==
  ASSUME NEW f, Sound(f), f.cur.old \in Value(f.cur.col)
  PROVE  /\ Shows(f) => Shows(Forget(f))
         /\ AllShown(f) => AllShown(Forget(f))
         /\ OldIsStored(f) => OldIsStored(Forget(f))
         /\ NoneHidden(f) => NoneHidden(Forget(f))
  <1> DEFINE g == Forget(f)
  <1>1. /\ g.data = f.data /\ g.screen = f.screen
        /\ OnScreen(f, f.cur.tr) => g.cur = f.cur
        /\ ~OnScreen(f, f.cur.tr) => g.cur = Nowhere
    BY ForgetWhole
  <1> HIDE DEF g
  <1>2. \A i \in 1..Len(f.data) : f.screen[i].tr # NoTr
    BY SoundFacts DEF NoTr, Tr
  <1>3. ASSUME NEW i \in 1..Len(f.data)
        PROVE  /\ f.cur.tr = f.screen[i].tr => g.cur = f.cur
               /\ g.cur.tr = f.screen[i].tr => g.cur = f.cur
    <2>1. f.cur.tr = f.screen[i].tr => OnScreen(f, f.cur.tr)
      BY DEF OnScreen
    <2>2. Nowhere.tr # f.screen[i].tr
      BY <1>2 DEF Nowhere
    <2> QED
      BY <1>1, <2>1, <2>2
  <1>4. Shows(f) => Shows(g)
    BY <1>1, <1>3 DEF Shows
  <1>5. AllShown(f) => AllShown(g)
    BY <1>1 DEF AllShown
  <1>6. OldIsStored(f) => OldIsStored(g)
    BY <1>1, <1>3 DEF OldIsStored
  <1>7. NoneHidden(f) => NoneHidden(g)
    BY <1>1 DEF NoneHidden
  <1> QED
    BY <1>4, <1>5, <1>6, <1>7 DEF g

\* The cells of the other rows are shown as they are stored.
ShownBut(f, i) ==
  \A j \in 1..Len(f.data), c \in Col : j # i => f.screen[j][c] = f.data[j][c]

\* What RemoveRow promises of a form without a cursor.
Gone(f, g, k) ==
  /\ Whole(g) /\ Rules(g.data, k) /\ ("filtered" \in k \/ NoneHidden(g))
  /\ "adopted" \in k \/ AllShown(g)
  /\ Len(g.data) <= Len(f.data) /\ (f.cur = Nowhere => g.cur = Nowhere)

LEMMA OnlyRowGone ==
  ASSUME NEW f, NEW k, Whole(f), Rules(f.data, k), "filtered" \in k \/ NoneHidden(f),
         Len(f.data) = 1, NEW i \in 1..Len(f.data)
  PROVE  Gone(f, RemoveRow(f, i), k)
  <1> DEFINE d == [f.data EXCEPT ![1] = NewData(@.tr)]
             s == [f.screen EXCEPT ![1] = NewScreen(@.tr, @.hidden)]
             g == RemoveRow(f, i)
  <1>1. /\ Sound(f) /\ DOMAIN f.data = {1} /\ DOMAIN f.screen = {1}
        /\ f.data \in Seq(DataRow) /\ f.screen \in Seq(ScreenRow)
        /\ f.data[1] \in DataRow /\ f.screen[1] \in ScreenRow /\ f.data[1].tr = f.screen[1].tr
    <2>1. Sound(f)
      BY DEF Whole
    <2>2. 1 \in 1..Len(f.data) /\ 1..1 = {1}
      OBVIOUS
    <2> QED
      BY <2>1, <2>2, SoundFacts DEF Sound, Form
  <1>2. g = [f EXCEPT !.data = d, !.screen = s]
    BY DEF RemoveRow
  <1>3. /\ d[1] \in DataRow /\ d[1].code = 0 /\ d[1].amount = 0 /\ d[1].tr = f.data[1].tr
    BY <1>1, RowsAssumption DEF DataRow, NewData
  <1>4. /\ s[1] \in ScreenRow /\ s[1].code = 0 /\ s[1].amount = 0 /\ s[1].tr = f.screen[1].tr
        /\ s[1].hidden = f.screen[1].hidden
    BY <1>1, RowsAssumption DEF ScreenRow, NewScreen
  <1>16. DOMAIN f.data = 1..1 /\ DOMAIN f.screen = 1..1
    BY <1>1, SoundFacts
  <1>5. DOMAIN d = {1} /\ DOMAIN s = {1}
    BY <1>1
  <1>6. d \in Seq(DataRow) /\ Len(d) = 1
    <2>1. d \in [1..1 -> DataRow]
      <3>1. d = [m \in 1..1 |-> d[m]]
        BY <1>16
      <3>2. \A m \in 1..1 : m = 1
        OBVIOUS
      <3> HIDE DEF d
      <3>3. \A m \in 1..1 : d[m] \in DataRow
        BY <1>3, <3>2
      <3> QED
        BY <3>1, <3>3
    <2>2. PICK m \in Nat : m = 1
      OBVIOUS
    <2> HIDE DEF d
    <2> QED
      BY <2>1, <2>2, ListSeq
  <1>7. s \in Seq(ScreenRow) /\ Len(s) = 1
    <2>1. s \in [1..1 -> ScreenRow]
      <3>1. s = [m \in 1..1 |-> s[m]]
        BY <1>16
      <3>2. \A m \in 1..1 : m = 1
        OBVIOUS
      <3> HIDE DEF s
      <3>3. \A m \in 1..1 : s[m] \in ScreenRow
        BY <1>4, <3>2
      <3> QED
        BY <3>1, <3>3
    <2>2. PICK m \in Nat : m = 1
      OBVIOUS
    <2> HIDE DEF s
    <2> QED
      BY <2>1, <2>2, ListSeq
  <1> HIDE DEF d, s, g
  <1>8. /\ g \in Form /\ g.data = d /\ g.screen = s /\ g.cur = f.cur
        /\ g.first = f.first /\ g.dirty = f.dirty /\ g.total = f.total
    BY <1>1, <1>2, <1>6, <1>7 DEF Sound, Form
  <1>9. 1..1 = {1}
    OBVIOUS
  <1>10. SameRows(f, g)
    BY <1>1, <1>3, <1>4, <1>6, <1>7, <1>8, <1>9 DEF SameRows, Sound
  <1>11. Sound(g) /\ \A x : OnScreen(g, x) <=> OnScreen(f, x)
    BY <1>1, <1>8, <1>10, SameRowsSound
  <1>12. Whole(g)
    BY <1>8, <1>11 DEF Whole
  <1>13. AllShown(g)
    BY <1>3, <1>4, <1>6, <1>8, <1>9 DEF AllShown, Col
  <1>14. Rules(g.data, k)
    <2>1. UniqueCodes(d) /\ Ascending(d) /\ Complete(d)
      BY <1>3, <1>5 DEF UniqueCodes, Ascending, Complete
    <2> QED
      BY <1>8, <2>1 DEF Rules
  <1>15. "filtered" \in k \/ NoneHidden(g)
    BY <1>4, <1>6, <1>7, <1>8, <1>9 DEF NoneHidden
  <1>17. Len(g.data) <= Len(f.data)
    BY <1>6, <1>8
  <1>18. Gone(f, g, k)
    BY <1>8, <1>12, <1>13, <1>14, <1>15, <1>17 DEF Gone
  <1> QED
    BY <1>18 DEF g

LEMMA RowGone ==
  ASSUME NEW f, NEW k, Whole(f), Rules(f.data, k), "filtered" \in k \/ NoneHidden(f),
         Len(f.data) # 1, NEW i \in 1..Len(f.data),
         "adopted" \in k \/ ShownBut(f, i)
  PROVE  Gone(f, RemoveRow(f, i), k)
  <1> DEFINE d == RemoveAt(f.data, i)
             s == RemoveAt(f.screen, i)
             n == Len(f.data)
             h == [f EXCEPT !.data = d, !.screen = s]
             p == [j \in 1..(n - 1) |-> IF j < i THEN j ELSE j + 1]
  <1>1. /\ Sound(f) /\ n \in Nat /\ n > 1 /\ n <= MaxRows + 1 /\ Len(f.screen) = n /\ DOMAIN f.data = 1..n
        /\ f.data \in Seq(DataRow) /\ f.screen \in Seq(ScreenRow) /\ MaxRows \in Nat
    <2>1. Sound(f) /\ MaxRows \in Nat
      BY RowsAssumption DEF Whole
    <2>2. /\ n \in Nat /\ n \in 1..(MaxRows + 1) /\ Len(f.screen) = n /\ DOMAIN f.data = 1..n
      BY <2>1, SoundFacts
    <2>3. f.data \in Seq(DataRow) /\ f.screen \in Seq(ScreenRow)
      BY <2>1 DEF Sound, Form
    <2>5. \A m \in 1..(MaxRows + 1) : m # 1 => m > 1 /\ m <= MaxRows + 1
      BY <2>1
    <2>4. n > 1 /\ n <= MaxRows + 1
      BY <2>2, <2>5
    <2> QED
      BY <2>1, <2>2, <2>3, <2>4
  <1>2. d \in Seq(DataRow) /\ WithoutOne(f.data, d, i)
    BY <1>1, Removed1
  <1>3. s \in Seq(ScreenRow) /\ WithoutOne(f.screen, s, i)
    BY <1>1, Removed1
  <1>4. RemoveRow(f, i) = Forget(h)
    BY DEF RemoveRow
  <1>5. \A j \in 1..(n - 1) : p[j] = IF j < i THEN j ELSE j + 1
    OBVIOUS
  <1> HIDE DEF d, s, p, n
  <1>6. /\ h \in Form /\ h.data = d /\ h.screen = s /\ h.cur = f.cur
        /\ h.first = f.first /\ h.dirty = f.dirty /\ h.total = f.total
    BY <1>1, <1>2, <1>3 DEF Sound, Form
  <1>7. Len(d) = n - 1 /\ Len(s) = n - 1
    BY <1>1, <1>2, <1>3 DEF WithoutOne, n
  <1>8. ASSUME NEW j \in 1..(n - 1)
        PROVE  /\ p[j] \in 1..n /\ p[j] # i /\ d[j] = f.data[p[j]] /\ s[j] = f.screen[p[j]]
               /\ \A l \in 1..(n - 1) : (p[j] = p[l] => j = l) /\ (j < l => p[j] < p[l])
    <2>1. j \in 1..(Len(f.data) - 1) /\ j \in 1..(Len(f.screen) - 1)
      BY <1>1 DEF n
    <2>2. /\ d[j] = IF j < i THEN f.data[j] ELSE f.data[j + 1]
          /\ s[j] = IF j < i THEN f.screen[j] ELSE f.screen[j + 1]
      BY <1>2, <1>3, <2>1 DEF WithoutOne
    <2>3. i \in Int /\ j \in Int
      BY <1>1
    <2>4. p[j] \in 1..n /\ p[j] # i /\ d[j] = f.data[p[j]] /\ s[j] = f.screen[p[j]]
      BY <1>1, <1>5, <2>2, <2>3
    <2>5. \A l \in 1..(n - 1) : (p[j] = p[l] => j = l) /\ (j < l => p[j] < p[l])
      BY <1>1, <1>5, <2>3
    <2> QED
      BY <2>4, <2>5
  <1> HIDE DEF h
  <1>9. Sound(h)
    <2>1. \A j \in 1..(n - 1) : h.data[j].tr = h.screen[j].tr
      <3>1. \A m \in 1..n : f.data[m].tr = f.screen[m].tr
        BY <1>1, SoundFacts DEF n
      <3> QED
        BY <1>6, <1>8, <3>1
    <2>2. \A j, l \in 1..(n - 1) : h.screen[j].tr = h.screen[l].tr => j = l
      <3>1. SUFFICES ASSUME NEW j \in 1..(n - 1), NEW l \in 1..(n - 1), s[j].tr = s[l].tr
                     PROVE  j = l
        BY <1>6
      <3>2. f.screen[p[j]].tr = f.screen[p[l]].tr /\ p[j] \in 1..n /\ p[l] \in 1..n
        BY <1>8, <3>1
      <3>3. p[j] = p[l]
        BY <1>1, <3>2 DEF Sound, n
      <3> QED
        BY <1>8, <3>3
    <2>3. n - 1 \in 1..(MaxRows + 1)
      BY <1>1
    <2> QED
      BY <1>6, <1>7, <2>1, <2>2, <2>3 DEF Sound
  <1>10. h.cur.old \in Value(h.cur.col)
    BY <1>6 DEF Whole
  <1>11. /\ Whole(Forget(h)) /\ Forget(h).data = d
         /\ AllShown(h) => AllShown(Forget(h))
         /\ NoneHidden(h) => NoneHidden(Forget(h))
         /\ Forget(h).cur = h.cur \/ Forget(h).cur = Nowhere
    BY <1>6, <1>9, <1>10, ForgetWhole, ForgetShows
  <1>12. NoneHidden(f) => NoneHidden(h)
    BY <1>6, <1>7, <1>8 DEF NoneHidden, n
  <1>13. "adopted" \in k \/ AllShown(h)
    <2>1. SUFFICES ASSUME ShownBut(f, i), NEW j \in 1..(n - 1), NEW c \in Col
                   PROVE  s[j][c] = d[j][c]
      BY <1>6, <1>7 DEF AllShown
    <2>2. p[j] \in 1..n /\ p[j] # i /\ d[j] = f.data[p[j]] /\ s[j] = f.screen[p[j]]
      BY <1>8
    <2> QED
      BY <2>1, <2>2 DEF ShownBut, n
  <1>14. Rules(d, k)
    <2>1. DOMAIN d = 1..(n - 1) /\ \A j \in 1..(n - 1) : d[j].amount \in Nat
      BY <1>6, <1>7, <1>9, SoundFacts
    <2>2. From(f.data, d, p)
      BY <1>1, <1>8, <2>1 DEF From
    <2>3. UniqueCodes(f.data) => UniqueCodes(d)
      <3>1. \A j, l \in DOMAIN d : p[j] = p[l] => j = l
        BY <1>8, <2>1
      <3> QED
        BY <2>2, <3>1, FromUnique
    <2>4. Ascending(f.data) => Ascending(d)
      <3>1. \A j, l \in DOMAIN d : j < l => p[j] < p[l] \/ d[j].amount = 0 \/ d[l].amount = 0
        BY <1>8, <2>1
      <3>2. \A j \in DOMAIN d : d[j].amount \in Nat
        BY <2>1
      <3> QED
        BY <2>2, <3>1, <3>2, FromAscending
    <2>5. Complete(f.data) => Complete(d)
      BY <2>2, FromComplete
    <2> QED
      BY <2>3, <2>4, <2>5 DEF Rules
  <1>15. Len(d) <= Len(f.data)
    BY <1>1, <1>7 DEF n
  <1> QED
    BY <1>4, <1>6, <1>11, <1>12, <1>13, <1>14, <1>15 DEF Gone

\* form_deleterow() validates nothing: what the row shows goes with it.
LEMMA DeletedReady ==
  ASSUME NEW f, NEW k, Good(f, k), NEW i \in 1..Len(f.data), NEW col \in Col,
         "adopted" \in k \/ ShownBut(f, i)
  PROVE  /\ Ready(Deleted(f, i, col), k) /\ Deleted(f, i, col).dirty = TRUE
         /\ Len(Deleted(f, i, col).data) <= Len(f.data)
  <1> DEFINE c == [f EXCEPT !.cur = Nowhere]
             r == RemoveRow(c, i)
             g == [r EXCEPT !.dirty = TRUE]
             j == IF i > Len(g.data) THEN Len(g.data) ELSE i
             e == SetPrevious(g, g.screen[j].tr, col)
             l == k \cup {"replaced"}
  <1>1. Deleted(f, i, col) = CalcFields(e)
    BY DEF Deleted
  <1>2. Nowhere \in Position /\ Nowhere.tr = NoTr /\ Nowhere.old \in Value(Nowhere.col)
    BY RowsAssumption DEF Nowhere, Position, Col, Value
  <1>3. Whole(f) /\ Sound(f)
    BY DEF Good, Whole
  <1>4. /\ c \in Form /\ c.data = f.data /\ c.screen = f.screen /\ c.cur = Nowhere
        /\ c.first = f.first /\ c.dirty = f.dirty /\ c.total = f.total
    BY <1>2, <1>3 DEF Sound, Form
  <1> HIDE DEF c
  <1>5. Whole(c) /\ ("filtered" \in k \/ NoneHidden(c)) /\ ("adopted" \in k \/ ShownBut(c, i))
    <2>1. SameRows(f, c)
      BY <1>4 DEF SameRows
    <2>2. Sound(c) /\ \A x : OnScreen(c, x) <=> OnScreen(f, x)
      BY <1>3, <1>4, <2>1, SameRowsSound
    <2> QED
      BY <1>2, <1>3, <1>4, <2>2 DEF Whole, Good, Promises, NoneHidden, ShownBut
  <1>6. Gone(c, r, k)
    <2>1. Rules(c.data, k)
      BY <1>4 DEF Good, Promises
    <2> QED
      BY <1>4, <1>5, <2>1, OnlyRowGone, RowGone
  <1> HIDE DEF r
  <1>7. Sound(r) /\ r \in Form
    BY <1>6 DEF Gone, Whole, Sound
  <1>8. /\ g \in Form /\ g.data = r.data /\ g.screen = r.screen /\ g.cur = r.cur
        /\ g.first = r.first /\ g.dirty = TRUE /\ g.total = r.total
    BY <1>7 DEF Form
  <1> HIDE DEF g
  <1>9. SameRows(r, g)
    BY <1>8 DEF SameRows
  <1>10. Sound(g) /\ \A x : OnScreen(g, x) <=> OnScreen(r, x)
    BY <1>7, <1>8, <1>9, SameRowsSound
  <1>11. Whole(g)
    BY <1>6, <1>8, <1>10 DEF Gone, Whole
  <1>12. OldIsStored(g)
    <2>1. g.cur.tr = NoTr
      BY <1>4, <1>6, <1>8 DEF Gone, Nowhere
    <2>2. \A m \in 1..Len(g.data) : g.screen[m].tr # NoTr
      BY <1>10, SoundFacts DEF NoTr, Tr
    <2> QED
      BY <2>1, <2>2 DEF OldIsStored
  <1>13. Ready(g, l)
    <2>1. "adopted" \in k \/ AllShown(g)
      BY <1>6, <1>8 DEF Gone, AllShown
    <2>2. "filtered" \in k \/ NoneHidden(g)
      BY <1>6, <1>8 DEF Gone, NoneHidden
    <2>3. Rules(g.data, l)
      BY <1>6, <1>8 DEF Gone, Rules
    <2>4. "adopted" \in l \/ (Shows(g) /\ OldIsStored(g))
      BY <1>12, <2>1 DEF AllShown, Shows
    <2>5. Promises(g, l)
      BY <2>2, <2>3, <2>4 DEF Promises
    <2> QED
      BY <1>11, <2>1, <2>5 DEF Ready, Good
  <1>14. j \in 1..Len(g.data) /\ OnScreen(g, g.screen[j].tr)
    <2>1. Len(g.data) \in Nat /\ Len(g.data) \in 1..(MaxRows + 1)
      BY <1>10, SoundFacts
    <2>2. j \in 1..Len(g.data)
      BY <2>1
    <2> HIDE DEF j
    <2> QED
      BY <2>2 DEF OnScreen
  <1> HIDE DEF j
  <1>15. /\ Ready(e, l) /\ e.data = g.data /\ e.dirty = TRUE
    BY <1>8, <1>13, <1>14, SetPreviousReady DEF SameTable
  <1> HIDE DEF e
  <1>16. /\ Good(CalcFields(e), k)
         /\ CalcFields(e).data = e.data /\ CalcFields(e).screen = e.screen
         /\ CalcFields(e).dirty = e.dirty
    <2>1. Whole(e) /\ Rules(e.data, k)
      BY <1>6, <1>8, <1>15 DEF Gone, Ready, Good
    <2>2. "filtered" \in k \/ NoneHidden(e)
      BY <1>15 DEF Ready, Good, Promises
    <2>3. "adopted" \in k \/ (Shows(e) /\ OldIsStored(e))
      BY <1>15 DEF Ready, Good, Promises
    <2> QED
      BY <2>1, <2>2, <2>3, CalcFieldsGood
  <1>17. "adopted" \in k \/ AllShown(CalcFields(e))
    BY <1>15, <1>16 DEF Ready, AllShown
  <1>18. Len(CalcFields(e).data) <= Len(f.data)
    BY <1>4, <1>6, <1>8, <1>15, <1>16 DEF Gone
  <1> QED
    BY <1>1, <1>15, <1>16, <1>17, <1>18 DEF Ready
-----------------------------------------------------------------------------
(* How handlers end.                                                       *)

\* Names of TRs by their place.
LEMMA NamedGood ==
  ASSUME NEW f, NEW k, Good(f, k)
  PROVE  /\ Good(Named(f), k) /\ Len(Named(f).data) = Len(f.data)
         /\ Content(Named(f).data) = Content(f.data) /\ Named(f).dirty = f.dirty
  <1> DEFINE n == Len(f.data)
             Name(p) == IF p.tr = NoTr THEN p ELSE [p EXCEPT !.tr = RowOf(f, p.tr)]
             d == [i \in 1..n |-> Name(f.data[i])]
             s == [i \in 1..n |-> Name(f.screen[i])]
             g == Named(f)
  <1>1. Whole(f) /\ Sound(f)
    BY DEF Good, Whole
  <1>2. CASE \A i \in DOMAIN f.screen : f.screen[i].tr = i
    BY <1>2 DEF Named
  <1>3. CASE ~\A i \in DOMAIN f.screen : f.screen[i].tr = i
    <2>1. /\ n \in Nat /\ DOMAIN f.data = 1..n /\ DOMAIN f.screen = 1..n /\ n <= MaxRows + 1
          /\ Len(f.screen) = n /\ f \in Form /\ MaxRows \in Nat
      BY <1>1, SoundFacts, RowsAssumption DEF Sound
    <2>2. g = [f EXCEPT !.data = d, !.screen = s, !.cur = Name(f.cur), !.first = Name(f.first)]
      BY <1>3, <2>1 DEF Named
    <2>3. ASSUME NEW i \in 1..n
          PROVE  /\ d[i] \in DataRow /\ s[i] \in ScreenRow /\ d[i].tr = i /\ s[i].tr = i
                 /\ d[i].code = f.data[i].code /\ d[i].amount = f.data[i].amount
                 /\ s[i].code = f.screen[i].code /\ s[i].amount = f.screen[i].amount
                 /\ s[i].hidden = f.screen[i].hidden
      <3>1. /\ f.data[i] \in DataRow /\ f.screen[i] \in ScreenRow
            /\ f.data[i].tr = f.screen[i].tr /\ f.screen[i].tr \in Tr
        BY <1>1, SoundFacts
      <3>2. RowOf(f, f.screen[i].tr) = i /\ RowOf(f, f.data[i].tr) = i
        BY <1>1, RowOfIs
      <3>3. f.screen[i].tr # NoTr /\ i \in Tr
        BY <2>1, <3>1 DEF Tr, NoTr
      <3>4. d[i] = [f.data[i] EXCEPT !.tr = i] /\ s[i] = [f.screen[i] EXCEPT !.tr = i]
        BY <3>1, <3>2, <3>3
      <3> HIDE DEF d, s
      <3> QED
        BY <3>1, <3>3, <3>4 DEF DataRow, ScreenRow
    <2>4. d \in Seq(DataRow) /\ Len(d) = n /\ s \in Seq(ScreenRow) /\ Len(s) = n
      <3>1. d \in [1..n -> DataRow] /\ s \in [1..n -> ScreenRow]
        <4>1. d = [i \in 1..n |-> d[i]] /\ s = [i \in 1..n |-> s[i]]
          OBVIOUS
        <4> HIDE DEF d, s
        <4> QED
          BY <2>3, <4>1
      <3> HIDE DEF d, s
      <3> QED
        BY <2>1, <3>1, ListSeq
    <2> HIDE DEF d, s
    <2>5. ASSUME NEW p \in Position, p.tr = NoTr \/ OnScreen(f, p.tr)
          PROVE  /\ Name(p) \in Position /\ Name(p).col = p.col /\ Name(p).old = p.old
                 /\ p.tr = NoTr => Name(p).tr = NoTr
                 /\ p.tr # NoTr => Name(p).tr = RowOf(f, p.tr) /\ Name(p).tr \in 1..n
      <3>1. CASE p.tr = NoTr
        BY <3>1, <2>5
      <3>2. CASE p.tr # NoTr
        <4>1. RowOf(f, p.tr) \in 1..n /\ RowOf(f, p.tr) \in Tr
          BY <1>1, <2>1, <2>5, <3>2, RowOfOnScreen DEF Tr
        <4> QED
          BY <2>5, <3>2, <4>1 DEF Position
      <3> QED
        BY <3>1, <3>2
    <2>6. /\ f.cur \in Position /\ (f.cur.tr = NoTr \/ OnScreen(f, f.cur.tr))
          /\ f.first \in Position /\ (f.first.tr = NoTr \/ OnScreen(f, f.first.tr))
      BY <1>1, <2>1 DEF Whole, Form
    <2>7. /\ Name(f.cur) \in Position /\ Name(f.cur).col = f.cur.col /\ Name(f.cur).old = f.cur.old
          /\ f.cur.tr = NoTr => Name(f.cur).tr = NoTr
          /\ f.cur.tr # NoTr => Name(f.cur).tr = RowOf(f, f.cur.tr) /\ Name(f.cur).tr \in 1..n
      BY <2>5, <2>6
    <2>8. /\ Name(f.first) \in Position
          /\ f.first.tr = NoTr => Name(f.first).tr = NoTr
          /\ f.first.tr # NoTr => Name(f.first).tr \in 1..n
      BY <2>5, <2>6
    <2>9. PICK c : c = Name(f.cur)
      OBVIOUS
    <2>10. PICK e : e = Name(f.first)
      OBVIOUS
    <2> HIDE DEF Name, g
    <2>11. /\ g \in Form /\ g.data = d /\ g.screen = s /\ g.cur = c
           /\ g.first = e /\ g.dirty = f.dirty /\ g.total = f.total
      BY <2>1, <2>2, <2>4, <2>7, <2>8, <2>9, <2>10 DEF Form
    <2>12. Sound(g)
      BY <1>1, <2>3, <2>4, <2>11 DEF Sound
    <2>13. \A i \in 1..n : OnScreen(g, i)
      BY <2>3, <2>4, <2>11 DEF OnScreen
    <2>14. Whole(g)
      BY <1>1, <2>7, <2>8, <2>9, <2>10, <2>11, <2>12, <2>13 DEF Whole
    <2>15. \A i \in 1..n, x \in Col : d[i][x] = f.data[i][x] /\ s[i][x] = f.screen[i][x]
      BY <2>3 DEF Col
    <2>16. ASSUME NEW i \in 1..n PROVE f.cur.tr = f.screen[i].tr <=> c.tr = s[i].tr
      <3>1. RowOf(f, f.screen[i].tr) = i /\ s[i].tr = i
        BY <1>1, <2>3, RowOfIs
      <3>2. CASE f.cur.tr = NoTr
        <4>1. f.screen[i].tr # NoTr /\ i # NoTr
          BY <1>1, SoundFacts DEF Tr, NoTr
        <4> QED
          BY <2>7, <2>9, <3>1, <3>2, <4>1
      <3>3. CASE f.cur.tr # NoTr
        <4>1. c.tr = RowOf(f, f.cur.tr)
          BY <2>7, <2>9, <3>3
        <4>2. f.screen[RowOf(f, f.cur.tr)].tr = f.cur.tr
          BY <1>1, <3>3, CurRow
        <4> QED
          BY <3>1, <4>1, <4>2
      <3> QED
        BY <3>2, <3>3
    <2>17. c.col = f.cur.col /\ c.old = f.cur.old
      BY <2>7, <2>9
    <2>18. Shows(f) => Shows(g)
      BY <2>4, <2>11, <2>15, <2>16, <2>17 DEF Shows
    <2>19. OldIsStored(f) => OldIsStored(g)
      <3>1. f.cur.col \in Col
        BY <2>6 DEF Position
      <3> QED
        BY <2>4, <2>11, <2>15, <2>16, <2>17, <3>1 DEF OldIsStored
    <2>20. NoneHidden(f) => NoneHidden(g)
      BY <2>3, <2>4, <2>11 DEF NoneHidden
    <2>21. SameCells(f.data, d)
      <3>1. DOMAIN d = 1..n
        BY <2>11, <2>12, <2>4, SoundFacts
      <3> QED
        BY <2>1, <2>3, <3>1 DEF SameCells
    <2>22. /\ UniqueCodes(f.data) => UniqueCodes(d)
           /\ Ascending(f.data) => Ascending(d)
           /\ Complete(f.data) => Complete(d)
           /\ Content(d) = Content(f.data)
      BY <2>21, SameCellsRules
    <2>23. Total(d) = Total(f.data)
      <3>1. DOMAIN d = 1..n /\ \A i \in 1..n : d[i].amount = f.data[i].amount
        BY <2>1, <2>21 DEF SameCells
      <3> QED
        BY <2>1, <3>1, TotalSame
    <2>24. Rules(d, k)
      BY <2>22 DEF Good, Promises, Rules
    <2>25. Promises(g, k)
      BY <2>11, <2>18, <2>19, <2>20, <2>23, <2>24 DEF Good, Promises
    <2> QED
      BY <2>4, <2>11, <2>14, <2>22, <2>25 DEF Good, g
  <1> QED
    BY <1>2, <1>3

\* The inductive invariant.  Besides what the properties say, it needs that no
\* row is hidden unless rows have been filtered, as what is hidden is not
\* required, and that the value from before the change is that of the record.
IInv ==
  /\ Good(form, past.kinds) /\ Len(form.data) <= MaxRows
  /\ past \in [touched : BOOLEAN, kinds : SUBSET Kind]
  /\ ChangesNoted

LEMMA LeavesKeeps ==
  ASSUME IInv, NEW g, Good(g, past.kinds), Notes(form, g), Len(g.data) <= MaxRows, Leaves(g)
  PROVE  IInv'
  <1>1. /\ form' = Named(g) /\ past' = [past EXCEPT !.touched = Touched(g)]
    BY DEF Leaves
  <1>2. past \in [touched : BOOLEAN, kinds : SUBSET Kind]
    BY DEF IInv
  <1>3. Touched(g) \in BOOLEAN
    BY <1>2 DEF Touched
  <1>4. /\ past'.touched = Touched(g) /\ past'.kinds = past.kinds
        /\ past' \in [touched : BOOLEAN, kinds : SUBSET Kind]
    BY <1>1, <1>2, <1>3
  <1>5. /\ Good(form', past.kinds) /\ Len(form'.data) = Len(g.data)
        /\ Content(form'.data) = Content(g.data) /\ form'.dirty = g.dirty
    BY <1>1, NamedGood
  <1>6. ChangesNoted'
    BY <1>4, <1>5 DEF IInv, ChangesNoted, Touched, Notes
  <1> QED
    BY <1>4, <1>5, <1>6 DEF IInv

LEMMA LeavesAsKeeps ==
  ASSUME IInv, NEW kinds, NEW g, Good(g, past.kinds \cup kinds),
         Notes(form, g) \/ "undone" \in kinds, Len(g.data) <= MaxRows, LeavesAs(kinds, g)
  PROVE  IInv'
  <1>1. /\ form' = Named(g) /\ past' = [touched |-> Touched(g), kinds |-> past.kinds \cup kinds]
        /\ kinds \subseteq Kind
    BY RowsAssumption DEF LeavesAs
  <1>2. past \in [touched : BOOLEAN, kinds : SUBSET Kind]
    BY DEF IInv
  <1>3. Touched(g) \in BOOLEAN
    BY <1>2 DEF Touched
  <1>4. /\ past'.touched = Touched(g) /\ past'.kinds = past.kinds \cup kinds
        /\ past' \in [touched : BOOLEAN, kinds : SUBSET Kind]
    BY <1>1, <1>2, <1>3
  <1>5. /\ Good(form', past.kinds \cup kinds) /\ Len(form'.data) = Len(g.data)
        /\ Content(form'.data) = Content(g.data) /\ form'.dirty = g.dirty
    BY <1>1, NamedGood
  <1>6. ChangesNoted'
    BY <1>4, <1>5 DEF IInv, ChangesNoted, Touched, Notes
  <1> QED
    BY <1>4, <1>5, <1>6 DEF IInv
-----------------------------------------------------------------------------
(* Typing and moving about.                                                *)

LEMMA FormFacts ==
  ASSUME IInv
  PROVE  /\ Good(form, past.kinds) /\ Whole(form) /\ Sound(form) /\ form \in Form
         /\ form.dirty \in BOOLEAN /\ form.cur \in Position /\ form.cur.col \in Col
         /\ DOMAIN form.data = 1..Len(form.data) /\ DOMAIN form.screen = 1..Len(form.data)
         /\ Len(form.data) \in Nat /\ Len(form.data) >= 1 /\ Len(form.data) <= MaxRows
         /\ past.kinds \subseteq Kind
  <1>1. Good(form, past.kinds) /\ Whole(form) /\ Sound(form) /\ form \in Form
    BY DEF IInv, Good, Whole, Sound
  <1>2. form.dirty \in BOOLEAN /\ form.cur \in Position /\ form.cur.col \in Col
    BY <1>1 DEF Form, Position
  <1>3. /\ DOMAIN form.data = 1..Len(form.data) /\ DOMAIN form.screen = 1..Len(form.data)
        /\ Len(form.data) \in Nat /\ Len(form.data) >= 1
    BY <1>1, SoundFacts, RowsAssumption
  <1>4. Len(form.data) <= MaxRows /\ past.kinds \subseteq Kind
    BY DEF IInv
  <1> QED
    BY <1>1, <1>2, <1>3, <1>4

LEMMA SameDataNoted ==
  ASSUME NEW f, f.dirty \in BOOLEAN, NEW g, g.data = f.data, g.dirty = f.dirty
  PROVE  Notes(f, g)
  BY DEF Notes

\* Other fields do not matter to what a form promises.
Noted(f, b, p) == [f EXCEPT !.dirty = b, !.first = p]

LEMMA NotedGood ==
  ASSUME NEW f, NEW k, Good(f, k), NEW b \in BOOLEAN, NEW p \in Position,
         p.tr = NoTr \/ OnScreen(f, p.tr)
  PROVE  /\ Good(Noted(f, b, p), k) /\ Noted(f, b, p).data = f.data
         /\ Noted(f, b, p).dirty = b /\ (AllShown(f) => AllShown(Noted(f, b, p)))
  <1> DEFINE g == Noted(f, b, p)
  <1>1. Whole(f) /\ Sound(f)
    BY DEF Good, Whole
  <1>2. /\ g \in Form /\ g.data = f.data /\ g.screen = f.screen /\ g.cur = f.cur
        /\ g.first = p /\ g.dirty = b /\ g.total = f.total
    BY <1>1 DEF Sound, Form, Noted
  <1> HIDE DEF g
  <1>3. SameRows(f, g)
    BY <1>2 DEF SameRows
  <1>4. Sound(g) /\ \A x : OnScreen(g, x) <=> OnScreen(f, x)
    BY <1>1, <1>2, <1>3, SameRowsSound
  <1>5. Whole(g)
    BY <1>1, <1>2, <1>4 DEF Whole
  <1>6. /\ Shows(f) => Shows(g)
        /\ OldIsStored(f) => OldIsStored(g)
        /\ NoneHidden(f) => NoneHidden(g)
        /\ AllShown(f) => AllShown(g)
    BY <1>2 DEF Shows, OldIsStored, NoneHidden, AllShown
  <1>7. Promises(g, k)
    BY <1>2, <1>6 DEF Good, Promises
  <1> QED
    BY <1>2, <1>5, <1>6, <1>7 DEF Good, g

LEMMA TypeKeeps ==
  ASSUME IInv, Type
  PROVE  IInv'
  <1>1. PICK v \in Value(form.cur.col) :
          LET f == Show(form, form.cur.tr, form.cur.col, v)
              who == [form.cur EXCEPT !.old = 0]
          IN Leaves(IF form.dirty THEN f ELSE [f EXCEPT !.dirty = TRUE, !.first = who])
    BY DEF Type
  <1> DEFINE f == Show(form, form.cur.tr, form.cur.col, v)
             who == [form.cur EXCEPT !.old = 0]
  <1>2. form.cur.tr # NoTr
    BY DEF Type
  <1>3. /\ Good(f, past.kinds) /\ SameRows(form, f) /\ f.data = form.data /\ f.cur = form.cur
        /\ f.dirty = form.dirty
    BY <1>2, FormFacts, ShowAtCursorGood
  <1> HIDE DEF f
  <1>4. CASE form.dirty
    <2>1. Leaves(f)
      BY <1>1, <1>4 DEF f
    <2>2. Notes(form, f)
      BY <1>3, FormFacts, SameDataNoted
    <2> QED
      BY <1>3, <2>1, <2>2, FormFacts, LeavesKeeps
  <1>5. CASE ~form.dirty
    <2> DEFINE g == [f EXCEPT !.dirty = TRUE, !.first = who]
    <2>1. Leaves(g)
      BY <1>1, <1>5 DEF f
    <2>2. who \in Position /\ who.tr = form.cur.tr
      BY FormFacts, RowsAssumption DEF Position
    <2> HIDE DEF who
    <2>3. OnScreen(f, who.tr)
      <3>1. OnScreen(form, form.cur.tr)
        BY <1>2, FormFacts DEF Whole
      <3>2. f \in Form
        BY <1>3 DEF Good, Whole, Sound
      <3> QED
        BY <1>3, <2>2, <3>1, <3>2, FormFacts, SameRowsSound
    <2>4. Good(g, past.kinds) /\ g.data = form.data /\ g.dirty = TRUE
      <3>1. g = Noted(f, TRUE, who) /\ TRUE \in BOOLEAN
        BY DEF Noted
      <3> HIDE DEF g
      <3>2. Good(Noted(f, TRUE, who), past.kinds) /\ Noted(f, TRUE, who).data = f.data
            /\ Noted(f, TRUE, who).dirty = TRUE
        BY <1>3, <2>2, <2>3, <3>1, NotedGood
      <3> QED
        BY <1>3, <3>1, <3>2
    <2> HIDE DEF g
    <2> QED
      BY <2>1, <2>4, FormFacts, LeavesKeeps DEF Notes
  <1> QED
    BY <1>4, <1>5

LEMMA CopyAboveKeeps ==
  ASSUME IInv, CopyAbove
  PROVE  IInv'
  <1> DEFINE i == RowOf(form, form.cur.tr)
             col == form.cur.col
             above == {j \in 1..(i - 1) : form.screen[j][col] # 0}
             m == CHOOSE j \in above : \A k \in above : k <= j
             v == IF above = {} THEN 0 ELSE form.screen[m][col]
  <1>1. form.cur.tr # NoTr /\ Leaves(Show(form, form.cur.tr, col, v))
    BY DEF CopyAbove
  <1>2. i \in 1..Len(form.data) /\ col \in Col
    BY <1>1, CurRow, FormFacts
  <1>3. v \in Value(col)
    <2>1. CASE above = {}
      BY <2>1, RowsAssumption DEF Value
    <2>2. CASE above # {}
      <3>1. above \subseteq 1..Len(form.data)
        BY <1>2, FormFacts
      <3>2. Max(above) \in above /\ \A k \in above : k <= Max(above)
        BY <2>2, <3>1, FormFacts, IntervalMax
      <3> HIDE DEF above
      <3>3. m \in above
        BY <3>2
      <3>4. form.screen[m].code \in Codes /\ form.screen[m].amount \in Amounts
        BY <3>1, <3>3, FormFacts, SoundFacts
      <3> QED
        BY <1>2, <2>2, <3>4 DEF Col, Value
    <2> QED
      BY <2>1, <2>2
  <1> HIDE DEF v
  <1> DEFINE g == Show(form, form.cur.tr, col, v)
  <1>4. Good(g, past.kinds) /\ g.data = form.data /\ g.dirty = form.dirty
    BY <1>1, <1>3, FormFacts, ShowAtCursorGood
  <1>5. Leaves(g)
    BY <1>1
  <1> HIDE DEF g
  <1>6. Notes(form, g)
    BY <1>4, FormFacts, SameDataNoted
  <1> QED
    BY <1>4, <1>5, <1>6, FormFacts, LeavesKeeps

LEMMA EscapeKeeps ==
  ASSUME IInv, Escape
  PROVE  IInv'
  <1> DEFINE f == Show(form, form.cur.tr, form.cur.col, form.cur.old)
             own == form.first.tr = form.cur.tr /\ form.first.col = form.cur.col
             g == [f EXCEPT !.dirty = FALSE, !.first = Nowhere]
  <1>1. /\ form.cur.tr # NoTr
        /\ IF own THEN LeavesAs({"undone"}, g) ELSE Leaves(f)
    BY DEF Escape
  <1>2. form.cur.old \in Value(form.cur.col)
    BY FormFacts DEF Whole
  <1>3. Good(f, past.kinds) /\ f.data = form.data /\ f.dirty = form.dirty
    BY <1>1, <1>2, FormFacts, ShowAtCursorGood
  <1> HIDE DEF f, own
  <1>4. CASE own
    <2>1. Nowhere \in Position /\ Nowhere.tr = NoTr
      BY RowsAssumption DEF Nowhere, Position, Col
    <2>2. Good(g, past.kinds) /\ g.data = form.data
      <3>1. g = Noted(f, FALSE, Nowhere) /\ FALSE \in BOOLEAN
        BY DEF Noted
      <3> HIDE DEF g
      <3>2. Good(Noted(f, FALSE, Nowhere), past.kinds) /\ Noted(f, FALSE, Nowhere).data = f.data
        BY <1>3, <2>1, <3>1, NotedGood
      <3> QED
        BY <1>3, <3>1, <3>2
    <2>3. Good(g, past.kinds \cup {"undone"})
      BY <2>2, MoreKinds
    <2>4. LeavesAs({"undone"}, g)
      BY <1>1, <1>4
    <2> HIDE DEF g
    <2> QED
      BY <2>2, <2>3, <2>4, FormFacts, LeavesAsKeeps
  <1>5. CASE ~own
    <2>1. Notes(form, f)
      BY <1>3, FormFacts, SameDataNoted
    <2> QED
      BY <1>1, <1>3, <1>5, <2>1, FormFacts, LeavesKeeps
  <1> QED
    BY <1>4, <1>5

\* A handler that begins with validateupdate() and ends with form h.
LEMMA ValidatingKeeps ==
  ASSUME IInv, NEW h,
         ValidateOk(form) => /\ Good(h, past.kinds) /\ Notes(ValidateUpdate(form), h)
                             /\ Len(h.data) <= MaxRows,
         Leaves(IF ValidateOk(form) THEN h ELSE ValidateUpdate(form))
  PROVE  IInv'
  <1> DEFINE f == ValidateUpdate(form)
  <1>1. Good(f, past.kinds) /\ SameRows(form, f) /\ Notes(form, f)
    BY FormFacts, ValidateUpdateGood
  <1>2. Len(f.data) <= MaxRows
    BY <1>1, FormFacts DEF SameRows
  <1> HIDE DEF f
  <1>3. CASE ValidateOk(form)
    <2>1. Leaves(h) /\ Good(h, past.kinds) /\ Notes(f, h) /\ Len(h.data) <= MaxRows
      BY <1>3 DEF f
    <2>2. Notes(form, h)
      BY <1>1, <2>1, NotesTransitive
    <2> QED
      BY <2>1, <2>2, LeavesKeeps
  <1>4. CASE ~ValidateOk(form)
    <2>1. Leaves(f)
      BY <1>4 DEF f
    <2> QED
      BY <1>1, <1>2, <2>1, LeavesKeeps
  <1> QED
    BY <1>3, <1>4

LEMMA ValidatedReady ==
  ASSUME IInv, ValidateOk(form)
  PROVE  LET f == ValidateUpdate(form) IN
         /\ Ready(f, past.kinds) /\ SameRows(form, f) /\ Len(f.data) = Len(form.data)
         /\ f.cur.tr = form.cur.tr /\ f.cur.col = form.cur.col /\ f.dirty \in BOOLEAN
         /\ \A tr : OnScreen(form, tr) => OnScreen(f, tr)
  <1> DEFINE f == ValidateUpdate(form)
  <1>1. /\ Ready(f, past.kinds) /\ SameRows(form, f)
        /\ f.cur.tr = form.cur.tr /\ f.cur.col = form.cur.col
    BY FormFacts, ValidateUpdateGood
  <1> HIDE DEF f
  <1>2. f \in Form /\ f.dirty \in BOOLEAN
    BY <1>1 DEF Ready, Good, Whole, Sound, Form
  <1>3. \A tr : OnScreen(form, tr) => OnScreen(f, tr)
    BY <1>1, <1>2, FormFacts, SameRowsSound
  <1> QED
    BY <1>1, <1>2, <1>3 DEF SameRows, f

LEMMA FocusedKeeps ==
  ASSUME IInv, NEW tr, OnScreen(form, tr), NEW col \in Col, Focused(tr, col)
  PROVE  IInv'
  <1> DEFINE f == ValidateUpdate(form)
             h == SetPrevious(f, tr, col)
  <1>1. Leaves(IF ValidateOk(form) THEN h ELSE f)
    BY DEF Focused, Validating
  <1>2. ASSUME ValidateOk(form)
        PROVE  Good(h, past.kinds) /\ Notes(f, h) /\ Len(h.data) <= MaxRows
    <2>1. /\ Ready(f, past.kinds) /\ OnScreen(f, tr) /\ Len(f.data) = Len(form.data)
          /\ f.dirty \in BOOLEAN
      BY <1>2, ValidatedReady
    <2> HIDE DEF f
    <2>2. Ready(h, past.kinds) /\ h.data = f.data /\ h.dirty = f.dirty
      BY <2>1, SetPreviousReady DEF SameTable
    <2> HIDE DEF h
    <2>3. Notes(f, h)
      BY <2>1, <2>2, SameDataNoted
    <2> QED
      BY <2>1, <2>2, <2>3, FormFacts DEF Ready
  <1> HIDE DEF h
  <1> QED
    BY <1>1, <1>2, ValidatingKeeps

LEMMA FocusKeeps ==
  ASSUME IInv, Focus
  PROVE  IInv'
  <1>1. ASSUME NEW i \in DOMAIN form.screen, NEW col \in Col, Focused(form.screen[i].tr, col)
        PROVE  IInv'
    <2>1. OnScreen(form, form.screen[i].tr)
      BY FormFacts DEF OnScreen
    <2> QED
      BY <1>1, <2>1, FocusedKeeps
  <1>2. CASE Leaves(LeftTable(form))
    <2>1. /\ Good(LeftTable(form), past.kinds) /\ Notes(form, LeftTable(form))
          /\ Len(LeftTable(form).data) = Len(form.data)
      BY FormFacts, LeftTableGood
    <2> QED
      BY <1>2, <2>1, FormFacts, LeavesKeeps
  <1> QED
    BY <1>1, <1>2 DEF Focus

LEMMA TabKeeps ==
  ASSUME IInv, Tab
  PROVE  IInv'
  <1>1. PICK j \in DOMAIN form.screen, col \in Col : Focused(form.screen[j].tr, col)
    BY DEF Tab
  <1>2. OnScreen(form, form.screen[j].tr)
    BY FormFacts DEF OnScreen
  <1> QED
    BY <1>1, <1>2, FocusedKeeps

LEMMA UpOrDownKeeps ==
  ASSUME IInv, UpOrDown
  PROVE  IInv'
  <1>1. PICK j \in DOMAIN form.screen : Focused(form.screen[j].tr, form.cur.col)
    BY DEF UpOrDown
  <1>2. OnScreen(form, form.screen[j].tr)
    BY FormFacts DEF OnScreen
  <1> QED
    BY <1>1, <1>2, FormFacts, FocusedKeeps
-----------------------------------------------------------------------------
(* Rows come and go.                                                       *)

DirtyOf(f) == [f EXCEPT !.dirty = TRUE]

LEMMA DirtyGood ==
  ASSUME NEW f, NEW k, Good(f, k)
  PROVE  /\ Good(DirtyOf(f), k) /\ DirtyOf(f).data = f.data /\ DirtyOf(f).dirty = TRUE
         /\ (AllShown(f) => AllShown(DirtyOf(f)))
  <1>1. f \in Form /\ f.first \in Position /\ (f.first.tr = NoTr \/ OnScreen(f, f.first.tr))
    BY DEF Good, Whole, Sound, Form
  <1>2. TRUE \in BOOLEAN
    OBVIOUS
  <1>3. DirtyOf(f) = Noted(f, TRUE, f.first)
    BY <1>1 DEF DirtyOf, Noted, Form
  <1>4. /\ Good(Noted(f, TRUE, f.first), k) /\ Noted(f, TRUE, f.first).data = f.data
        /\ Noted(f, TRUE, f.first).dirty = TRUE
        /\ (AllShown(f) => AllShown(Noted(f, TRUE, f.first)))
    BY <1>1, <1>2, NotedGood
  <1> QED
    BY <1>3, <1>4

LEMMA AppendRowKeeps ==
  ASSUME IInv, AppendRow
  PROVE  IInv'
  <1> DEFINE f == ValidateUpdate(form)
             h == Appended(f)
  <1>1. Leaves(IF ValidateOk(form) THEN h ELSE f) /\ Len(form.data) < MaxRows
    BY DEF AppendRow, Validating
  <1>2. ASSUME ValidateOk(form)
        PROVE  Good(h, past.kinds) /\ Notes(f, h) /\ Len(h.data) <= MaxRows
    <2>1. Ready(f, past.kinds) /\ Len(f.data) = Len(form.data) /\ f.dirty \in BOOLEAN
      BY <1>2, ValidatedReady
    <2> HIDE DEF f
    <2>2. Len(f.data) <= MaxRows /\ Len(f.data) + 1 \in 1..(Len(f.data) + 1)
          /\ Len(f.data) + 1 <= MaxRows
      BY <1>1, <2>1, FormFacts, RowsAssumption
    <2>3. h = InsertRow(f, Len(f.data) + 1)
      BY DEF Appended
    <2> HIDE DEF h
    <2>4. PICK i : i = Len(f.data) + 1
      OBVIOUS
    <2>5. Ready(h, past.kinds) /\ Len(h.data) = Len(f.data) + 1 /\ Content(h.data) = Content(f.data)
          /\ h.dirty = f.dirty
      BY <2>1, <2>2, <2>3, <2>4, InsertRowReady
    <2>6. Notes(f, h)
      BY <2>1, <2>5 DEF Notes
    <2> QED
      BY <2>2, <2>5, <2>6 DEF Ready
  <1> HIDE DEF h
  <1> QED
    BY <1>1, <1>2, ValidatingKeeps

\* Hidden rows show again.
LEMMA ExpandedGood ==
  ASSUME NEW f, NEW k, Ready(f, k), NEW j
  PROVE  /\ Good(Expanded(f, j), k) /\ Expanded(f, j).data = f.data
         /\ Expanded(f, j).dirty = f.dirty
  <1> DEFINE n == Len(f.data)
             s == [m \in DOMAIN f.screen |->
                    IF m > j /\ \A l \in (j + 1)..m : f.screen[l].hidden
                    THEN [f.screen[m] EXCEPT !.hidden = FALSE] ELSE f.screen[m]]
             g == [f EXCEPT !.screen = s]
  <1>1. Good(f, k) /\ Sound(f)
    BY DEF Ready, Good, Whole
  <1>2. /\ DOMAIN f.screen = 1..n
        /\ \A m \in 1..n : f.screen[m] \in ScreenRow
    BY <1>1, SoundFacts
  <1>3. \A m \in 1..n : s[m] = f.screen[m] \/ s[m] = [f.screen[m] EXCEPT !.hidden = FALSE]
    BY <1>2
  <1>4. s = [m \in 1..n |-> s[m]]
    BY <1>2
  <1>5. g = Expanded(f, j)
    BY DEF Expanded
  <1> HIDE DEF s
  <1>6. \A m \in 1..n : /\ s[m] \in ScreenRow /\ s[m].tr = f.screen[m].tr
                        /\ s[m].code = f.screen[m].code /\ s[m].amount = f.screen[m].amount
                        /\ f.screen[m].hidden = FALSE => s[m].hidden = FALSE
    BY <1>2, <1>3 DEF ScreenRow
  <1>7. s \in [1..n -> ScreenRow]
    BY <1>4, <1>6
  <1>8. f \in Form
    BY <1>1 DEF Sound
  <1>9. "filtered" \in k \/ NoneHidden(g)
    <2>1. g.screen = s /\ g.data = f.data
      BY <1>8 DEF Form
    <2> HIDE DEF g
    <2>2. SUFFICES ASSUME NoneHidden(f), NEW m \in 1..n PROVE ~s[m].hidden
      BY <1>1, <2>1 DEF Good, Promises, NoneHidden
    <2>3. f.screen[m].hidden = FALSE
      BY <1>2, <2>2 DEF NoneHidden, ScreenRow
    <2> QED
      BY <1>6, <2>3
  <1>10. PICK x : x = g
    OBVIOUS
  <1>11. x = [f EXCEPT !.screen = s] /\ k \subseteq k
    BY <1>10
  <1> HIDE DEF g
  <1>12. Good(x, k) /\ x.data = f.data /\ x.dirty = f.dirty
    <2>1. "filtered" \in k \/ NoneHidden(x)
      BY <1>9, <1>10
    <2>2. Restyles(f, s, x)
      BY <1>6, <1>7, <1>11 DEF Restyles
    <2> QED
      BY <1>1, <1>11, <2>1, <2>2, Restyled
  <1> QED
    BY <1>5, <1>10, <1>12

LEMMA InsertOrExpandKeeps ==
  ASSUME IInv, InsertOrExpand
  PROVE  IInv'
  <1>1. PICK i \in DOMAIN form.screen :
          \E j \in Places(Len(form.screen), i) :
         IF j < Len(form.screen) /\ form.screen[j + 1].hidden
         THEN Validating(LAMBDA f : Expanded(f, j))
         ELSE Len(form.data) < MaxRows /\ Validating(LAMBDA f : Inserted(f, j))
    BY DEF InsertOrExpand
  <1>2. PICK j \in Places(Len(form.screen), i) :
         IF j < Len(form.screen) /\ form.screen[j + 1].hidden
         THEN Validating(LAMBDA f : Expanded(f, j))
         ELSE Len(form.data) < MaxRows /\ Validating(LAMBDA f : Inserted(f, j))
    BY <1>1
  <1>3. j \in 1..(Len(form.data) + 1)
    <2>1. Len(form.screen) = Len(form.data) /\ i \in 1..Len(form.data) /\ Len(form.data) \in Nat
      BY <1>1, FormFacts, SoundFacts
    <2> QED
      BY <2>1 DEF Places
  <1> DEFINE f == ValidateUpdate(form)
  <1>4. CASE j < Len(form.screen) /\ form.screen[j + 1].hidden
    <2> DEFINE h == Expanded(f, j)
    <2>1. Leaves(IF ValidateOk(form) THEN h ELSE f)
      BY <1>2, <1>4 DEF Validating
    <2>2. ASSUME ValidateOk(form)
          PROVE  Good(h, past.kinds) /\ Notes(f, h) /\ Len(h.data) <= MaxRows
      <3>1. Ready(f, past.kinds) /\ Len(f.data) = Len(form.data) /\ f.dirty \in BOOLEAN
        BY <2>2, ValidatedReady
      <3> HIDE DEF f
      <3>2. Good(h, past.kinds) /\ h.data = f.data /\ h.dirty = f.dirty
        BY <3>1, ExpandedGood
      <3> HIDE DEF h
      <3>3. Notes(f, h)
        BY <3>1, <3>2, SameDataNoted
      <3> QED
        BY <3>1, <3>2, <3>3, FormFacts
    <2> HIDE DEF h
    <2> QED
      BY <2>1, <2>2, ValidatingKeeps
  <1>5. CASE ~(j < Len(form.screen) /\ form.screen[j + 1].hidden)
    <2> DEFINE h == Inserted(f, j)
    <2>1. Leaves(IF ValidateOk(form) THEN h ELSE f) /\ Len(form.data) < MaxRows
      BY <1>2, <1>5 DEF Validating
    <2>2. ASSUME ValidateOk(form)
          PROVE  Good(h, past.kinds) /\ Notes(f, h) /\ Len(h.data) <= MaxRows
      <3>1. Ready(f, past.kinds) /\ Len(f.data) = Len(form.data)
        BY <2>2, ValidatedReady
      <3> HIDE DEF f
      <3>2. Len(f.data) <= MaxRows /\ j \in 1..(Len(f.data) + 1) /\ Len(f.data) + 1 <= MaxRows
        BY <1>3, <2>1, <3>1, FormFacts, RowsAssumption
      <3> DEFINE r == InsertRow(f, j)
      <3>3. Ready(r, past.kinds) /\ Len(r.data) = Len(f.data) + 1
        BY <3>1, <3>2, InsertRowReady
      <3>4. h = DirtyOf(r)
        BY DEF Inserted, DirtyOf
      <3> HIDE DEF r, h
      <3>5. Good(DirtyOf(r), past.kinds) /\ DirtyOf(r).data = r.data /\ DirtyOf(r).dirty = TRUE
        BY <3>3, DirtyGood DEF Ready
      <3> QED
        BY <3>2, <3>3, <3>4, <3>5 DEF Notes
    <2> HIDE DEF h
    <2> QED
      BY <2>1, <2>2, ValidatingKeeps
  <1> QED
    BY <1>4, <1>5

LEMMA ReadyShownBut ==
  ASSUME NEW f, AllShown(f), NEW i
  PROVE  ShownBut(f, i)
  BY DEF AllShown, ShownBut

LEMMA DeleteRowKeeps ==
  ASSUME IInv, DeleteRow
  PROVE  IInv'
  <1>1. PICK i \in DOMAIN form.screen, col \in {"code", form.cur.col} :
          IF form.cur.tr = form.screen[i].tr
          THEN Leaves(Deleted(form, i, col))
          ELSE Validating(LAMBDA f : Deleted(f, i, col))
    BY DEF DeleteRow
  <1>2. i \in 1..Len(form.data) /\ col \in Col
    BY <1>1, FormFacts DEF Col
  <1>3. CASE form.cur.tr = form.screen[i].tr
    <2>1. "adopted" \in past.kinds \/ ShownBut(form, i)
      <3>1. SUFFICES ASSUME Shows(form), NEW j \in 1..Len(form.data), NEW c \in Col, j # i
                     PROVE  form.screen[j][c] = form.data[j][c]
        BY FormFacts DEF Good, Promises, ShownBut
      <3>2. form.screen[j].tr # form.screen[i].tr
        BY <1>2, <3>1, FormFacts DEF Sound
      <3> QED
        BY <1>3, <3>1, <3>2 DEF Shows
    <2> DEFINE h == Deleted(form, i, col)
    <2>2. Ready(h, past.kinds) /\ h.dirty = TRUE /\ Len(h.data) <= Len(form.data)
      BY <1>2, <2>1, FormFacts, DeletedReady
    <2>3. Leaves(h)
      BY <1>1, <1>3
    <2> HIDE DEF h
    <2>4. Notes(form, h) /\ Good(h, past.kinds)
      BY <2>2 DEF Notes, Ready
    <2>5. Len(h.data) <= MaxRows
      <3>1. Len(h.data) \in Nat /\ Len(form.data) \in Nat /\ MaxRows \in Nat
        BY <2>4, FormFacts, SoundFacts, RowsAssumption DEF Good, Whole
      <3> QED
        BY <2>2, <3>1, FormFacts
    <2> QED
      BY <2>3, <2>4, <2>5, LeavesKeeps
  <1>4. CASE form.cur.tr # form.screen[i].tr
    <2> DEFINE f == ValidateUpdate(form)
               h == Deleted(f, i, col)
    <2>1. Leaves(IF ValidateOk(form) THEN h ELSE f)
      BY <1>1, <1>4 DEF Validating
    <2>2. ASSUME ValidateOk(form)
          PROVE  Good(h, past.kinds) /\ Notes(f, h) /\ Len(h.data) <= MaxRows
      <3>1. Ready(f, past.kinds) /\ Len(f.data) = Len(form.data)
        BY <2>2, ValidatedReady
      <3> HIDE DEF f
      <3>2. Good(f, past.kinds) /\ ("adopted" \in past.kinds \/ ShownBut(f, i))
            /\ i \in 1..Len(f.data)
        BY <1>2, <3>1, ReadyShownBut DEF Ready
      <3>3. Ready(h, past.kinds) /\ h.dirty = TRUE /\ Len(h.data) <= Len(f.data)
        BY <1>2, <3>2, DeletedReady
      <3> HIDE DEF h
      <3>4. Len(h.data) \in Nat /\ Len(f.data) \in Nat /\ MaxRows \in Nat
        BY <3>1, <3>3, SoundFacts, RowsAssumption DEF Ready, Good, Whole
      <3> QED
        BY <3>1, <3>3, <3>4, FormFacts DEF Ready, Notes
    <2> HIDE DEF h
    <2> QED
      BY <2>1, <2>2, ValidatingKeeps
  <1> QED
    BY <1>3, <1>4
-----------------------------------------------------------------------------
(* Filtering.                                                              *)

\* Rows are hidden, or all shown, and everything is calculated again.
LEMMA RestyledTotal ==
  ASSUME IInv, NEW l, past.kinds \subseteq l, NEW s, NEW g, Restyles(form, s, g),
         "filtered" \in l \/ NoneHidden(g)
  PROVE  Good(CalcFields(g), l) /\ Notes(form, CalcFields(g)) /\ Len(CalcFields(g).data) <= MaxRows
  <1>1. Good(g, l) /\ g.data = form.data /\ g.dirty = form.dirty
    BY FormFacts, Restyled
  <1>2. /\ Whole(g) /\ Rules(g.data, l) /\ ("filtered" \in l \/ NoneHidden(g))
        /\ ("adopted" \in l \/ (Shows(g) /\ OldIsStored(g)))
    BY <1>1 DEF Good, Promises
  <1>3. Good(CalcFields(g), l) /\ CalcFields(g).data = g.data /\ CalcFields(g).dirty = g.dirty
    BY <1>2, CalcFieldsGood
  <1>4. CalcFields(g).data = form.data /\ CalcFields(g).dirty = form.dirty
    BY <1>1, <1>3
  <1> QED
    BY <1>3, <1>4, FormFacts, SameDataNoted

LEMMA FilterKeeps ==
  ASSUME IInv, Filter
  PROVE  IInv'
  <1>1. PICK match \in Matches :
          LeavesAs({"filtered"},
            CalcFields([form EXCEPT !.screen = [i \in DOMAIN @ |->
              IF i \in match THEN @[i] ELSE [@[i] EXCEPT !.hidden = TRUE]]]))
    BY DEF Filter
  <1> DEFINE n == Len(form.data)
             s == [i \in DOMAIN form.screen |->
                    IF i \in match THEN form.screen[i]
                    ELSE [form.screen[i] EXCEPT !.hidden = TRUE]]
             g == [form EXCEPT !.screen = s]
             l == past.kinds \cup {"filtered"}
  <1>2. LeavesAs({"filtered"}, CalcFields(g))
    BY <1>1
  <1>3. \A i \in 1..n : form.screen[i] \in ScreenRow
    BY FormFacts, SoundFacts
  <1>4. s = [i \in 1..n |-> s[i]]
    BY FormFacts
  <1>5. \A i \in 1..n : s[i] = form.screen[i] \/ s[i] = [form.screen[i] EXCEPT !.hidden = TRUE]
    BY FormFacts
  <1> HIDE DEF s
  <1>6. \A i \in 1..n : /\ s[i] \in ScreenRow /\ s[i].tr = form.screen[i].tr
                        /\ s[i].code = form.screen[i].code /\ s[i].amount = form.screen[i].amount
    BY <1>3, <1>5 DEF ScreenRow
  <1>7. Restyles(form, s, g)
    BY <1>4, <1>6 DEF Restyles
  <1> HIDE DEF g
  <1>8. past.kinds \subseteq l /\ "filtered" \in l
    OBVIOUS
  <1> HIDE DEF l
  <1>9. Good(CalcFields(g), l) /\ Notes(form, CalcFields(g)) /\ Len(CalcFields(g).data) <= MaxRows
    BY <1>7, <1>8, RestyledTotal
  <1> QED
    BY <1>2, <1>9, LeavesAsKeeps DEF l

LEMMA ShowAllKeeps ==
  ASSUME IInv, ShowAll
  PROVE  IInv'
  <1> DEFINE n == Len(form.data)
             s == [i \in DOMAIN form.screen |-> [form.screen[i] EXCEPT !.hidden = FALSE]]
             g == [form EXCEPT !.screen = s]
  <1>1. Leaves(CalcFields(g))
    BY DEF ShowAll
  <1>2. \A i \in 1..n : form.screen[i] \in ScreenRow
    BY FormFacts, SoundFacts
  <1>3. s = [i \in 1..n |-> s[i]]
    BY FormFacts
  <1>4. \A i \in 1..n : s[i] = [form.screen[i] EXCEPT !.hidden = FALSE]
    BY FormFacts
  <1> HIDE DEF s
  <1>5. \A i \in 1..n : /\ s[i] \in ScreenRow /\ s[i].tr = form.screen[i].tr
                        /\ s[i].code = form.screen[i].code /\ s[i].amount = form.screen[i].amount
                        /\ ~s[i].hidden
    BY <1>2, <1>4 DEF ScreenRow
  <1>6. Restyles(form, s, g)
    BY <1>3, <1>5 DEF Restyles
  <1>7. g.screen = s /\ g.data = form.data
    BY FormFacts DEF Form
  <1> HIDE DEF g
  <1>8. NoneHidden(g)
    BY <1>5, <1>7 DEF NoneHidden
  <1>9. /\ Good(CalcFields(g), past.kinds) /\ Notes(form, CalcFields(g))
        /\ Len(CalcFields(g).data) <= MaxRows
    BY <1>6, <1>8, RestyledTotal
  <1> QED
    BY <1>1, <1>9, LeavesKeeps
-----------------------------------------------------------------------------
(* Pasting.                                                                *)

LEMMA SameRowsTransitive ==
  ASSUME NEW f, NEW g, NEW h, SameRows(f, g), SameRows(g, h)
  PROVE  SameRows(f, h)
  BY DEF SameRows

\* While cells are filled as if they were typed, none of them refused as yet.
Pasting(s, k) ==
  s.ok \in BOOLEAN /\ Good(s.form, k) /\ (s.ok => Ready(s.form, k))

LEMMA PasteCellGood ==
  ASSUME NEW s, NEW k, Pasting(s, k), NEW tr, OnScreen(s.form, tr), NEW col \in Col,
         NEW v \in Value(col)
  PROVE  LET r == PasteCell(s, tr, col, v) IN
         Pasting(r, k) /\ SameRows(s.form, r.form) /\ Notes(s.form, r.form)
  <1> DEFINE f == s.form
             r == PasteCell(s, tr, col, v)
             h == SetPrevious(f, tr, col)
             g == Show(h, tr, col, v)
  <1>1. Good(f, k) /\ Sound(f) /\ f.dirty \in BOOLEAN
    BY DEF Pasting, Good, Whole, Sound, Form
  <1>2. SameRows(f, f) /\ Notes(f, f)
    BY <1>1 DEF SameRows, Notes
  <1>3. CASE ~s.ok
    BY <1>2, <1>3 DEF PasteCell
  <1>4. CASE s.ok
    <2>1. Ready(f, k)
      BY <1>4 DEF Pasting
    <2>2. /\ r.ok = ValidateOk(g) /\ r.form = ValidateUpdate(g)
      BY <1>4 DEF PasteCell
    <2> HIDE DEF r
    <2> HIDE DEF f
    <2>8. OnScreen(f, tr)
      BY DEF f
    <2>3. /\ Ready(h, k) /\ SameTable(f, h) /\ h.cur.tr = tr /\ h.cur.col = col
          /\ h.dirty = f.dirty
      BY <2>1, <2>8, SetPreviousReady
    <2>4. tr # NoTr
      BY <1>1, <2>8, RowOfOnScreen
    <2>5. g = Show(h, h.cur.tr, h.cur.col, v)
      BY <2>3
    <2> HIDE DEF g, h
    <2>6. Good(g, k) /\ SameRows(h, g) /\ g.data = h.data /\ g.dirty = h.dirty
      BY <2>3, <2>4, <2>5, ShowAtCursorGood DEF Ready
    <2>7. /\ Good(r.form, k) /\ SameRows(g, r.form) /\ Notes(g, r.form)
          /\ r.ok => Ready(r.form, k)
      BY <2>2, <2>6, ValidateUpdateGood
    <2>9. SameRows(f, r.form)
      BY <2>3, <2>6, <2>7, SameRowsTransitive DEF SameTable
    <2>10. Notes(f, g)
      BY <1>1, <2>3, <2>6 DEF Notes, SameTable
    <2>11. Notes(f, r.form)
      BY <2>7, <2>10, NotesTransitive
    <2>12. r.ok \in BOOLEAN
      BY <2>2 DEF ValidateOk
    <2>13. Pasting(r, k)
      BY <2>7, <2>12 DEF Pasting
    <2> QED
      BY <2>9, <2>11, <2>13 DEF r, f
  <1> QED
    BY <1>3, <1>4 DEF Pasting

\* The first n lines have been pasted, from row i on.
PastedTo(f, s, k, n) ==
  /\ Pasting(s, k) /\ Notes(f, s.form) /\ Len(s.form.data) <= Len(f.data) + n
  /\ s.ok => Len(s.form.data) = Len(f.data) + n

LEMMA OneMoreThan ==
  ASSUME NEW a \in Nat, NEW b \in Nat, NEW c \in Nat, c <= a + b
  PROVE  c <= a + (b + 1) /\ (a + b) + 1 = a + (b + 1)
  OBVIOUS

LEMMA PasteLineGood ==
  ASSUME NEW f, Sound(f), NEW k, NEW i \in 1..Len(f.data), NEW lines, NEW n \in Nat,
         lines[n + 1] \in [code : Codes, amount : Amounts],
         Len(f.data) + n < MaxRows, NEW s, PastedTo(f, s, k, n)
  PROVE  PastedTo(f, PasteLine(lines, i, s, n + 1), k, n + 1)
  <1> DEFINE r == PasteLine(lines, i, s, n + 1)
  <1>1. Len(f.data) \in Nat /\ MaxRows \in Nat /\ Len(s.form.data) \in Nat /\ Sound(s.form)
    BY SoundFacts, RowsAssumption DEF PastedTo, Pasting, Good, Whole
  <1>2. CASE ~s.ok
    <2>1. r = s
      BY <1>2 DEF PasteLine
    <2> HIDE DEF r
    <2>2. Len(s.form.data) <= Len(f.data) + (n + 1)
      <3>1. Len(s.form.data) <= Len(f.data) + n
        BY DEF PastedTo
      <3> QED
        BY <1>1, <3>1, OneMoreThan
    <2> QED
      BY <1>2, <2>1, <2>2 DEF PastedTo, r
  <1>3. CASE s.ok
    <2>1. PICK j : j = i + (n + 1) - 1
      OBVIOUS
    <2> DEFINE g == InsertRow(s.form, j)
               tr == g.screen[j].tr
               t == [ok |-> TRUE, form |-> g]
               line == lines[n + 1]
               t1 == PasteCell(t, tr, "code", line.code)
               t2 == PasteCell(t1, tr, "amount", line.amount)
    <2>2. r = t2
      BY <1>3, <2>1 DEF PasteLine
    <2>3. Ready(s.form, k) /\ Len(s.form.data) = Len(f.data) + n
      BY <1>3 DEF PastedTo, Pasting
    <2>4. Len(s.form.data) <= MaxRows /\ j \in 1..(Len(s.form.data) + 1)
      BY <1>1, <2>1, <2>3
    <2>5. /\ Ready(g, k) /\ Len(g.data) = Len(s.form.data) + 1
          /\ Content(g.data) = Content(s.form.data) /\ g.dirty = s.form.dirty
      BY <2>3, <2>4, InsertRowReady
    <2>6. Notes(s.form, g)
      BY <1>1, <2>5 DEF Notes, Sound, Form
    <2>7. line.code \in Value("code") /\ line.amount \in Value("amount")
          /\ "code" \in Col /\ "amount" \in Col
      BY DEF Value, Col
    <2> HIDE DEF g, line, r
    <2>8. t.form = g /\ Pasting(t, k)
      BY <2>5 DEF Pasting, Ready
    <2>9. OnScreen(g, tr)
      BY <2>4, <2>5 DEF OnScreen
    <2> HIDE DEF t, tr
    <2>10. Pasting(t1, k) /\ SameRows(g, t1.form) /\ Notes(g, t1.form)
      <3>1. OnScreen(t.form, tr)
        BY <2>8, <2>9
      <3>2. Pasting(t1, k) /\ SameRows(t.form, t1.form) /\ Notes(t.form, t1.form)
        BY <2>7, <2>8, <3>1, PasteCellGood
      <3> QED
        BY <2>8, <3>2
    <2> HIDE DEF t1
    <2>11. OnScreen(t1.form, tr)
      <3>1. Sound(g) /\ t1.form \in Form
        BY <2>5, <2>10 DEF Ready, Pasting, Good, Whole, Sound
      <3> QED
        BY <2>9, <2>10, <3>1, SameRowsSound
    <2>12. Pasting(t2, k) /\ SameRows(t1.form, t2.form) /\ Notes(t1.form, t2.form)
      BY <2>7, <2>10, <2>11, PasteCellGood
    <2> HIDE DEF t2
    <2>13. Len(t2.form.data) = Len(f.data) + (n + 1)
      <3>1. Len(t2.form.data) = Len(g.data)
        BY <2>10, <2>12 DEF SameRows
      <3>2. (Len(f.data) + n) + 1 = Len(f.data) + (n + 1)
        <4>1. Len(s.form.data) <= Len(f.data) + n
          BY DEF PastedTo
        <4> QED
          BY <1>1, <4>1, OneMoreThan
      <3> QED
        BY <2>3, <2>5, <3>1, <3>2
    <2>14. Notes(f, t2.form)
      <3>1. Notes(f, s.form)
        BY DEF PastedTo
      <3> QED
        BY <2>6, <2>10, <2>12, <3>1, NotesTransitive
    <2>15. PastedTo(f, t2, k, n + 1)
      BY <1>1, <2>12, <2>13, <2>14 DEF PastedTo
    <2> QED
      BY <2>2, <2>15 DEF r
  <1>4. s.ok \in BOOLEAN
    BY DEF PastedTo, Pasting
  <1> QED
    BY <1>2, <1>3, <1>4

LEMMA PastedGood ==
  ASSUME NEW f, NEW k, Ready(f, k), f.cur.tr # NoTr, NEW n \in Nat,
         NEW lines \in [1..n -> [code : Codes, amount : Amounts]], Len(f.data) + n <= MaxRows
  PROVE  /\ Good(Pasted(f, lines), k) /\ Notes(f, Pasted(f, lines))
         /\ Len(Pasted(f, lines).data) <= MaxRows
  <1> DEFINE i == RowOf(f, f.cur.tr)
  <1>1. Sound(f) /\ i \in 1..Len(f.data) /\ Len(f.data) \in Nat /\ MaxRows \in Nat
        /\ f.dirty \in BOOLEAN
    <2>1. Whole(f) /\ Sound(f)
      BY DEF Ready, Good, Whole
    <2> QED
      BY <2>1, CurRow, SoundFacts, RowsAssumption DEF Sound, Form
  <1> HIDE DEF i
  <1>2. PICK g : /\ g[0] = [ok |-> TRUE, form |-> f]
                 /\ \A j \in 1..n : g[j] = PasteLine(lines, i, g[j - 1], j)
                 /\ PasteLines(lines, i, f) = g[n]
    <2>1. DOMAIN lines = 1..n
      OBVIOUS
    <2> QED
      BY <2>1, PasteTrace
  <1> DEFINE C == {m \in 0..n : PastedTo(f, g[m], k, m)}
  <1>3. 0 \in C
    <2>1. g[0].ok = TRUE /\ g[0].form = f
      BY <1>2
    <2>2. Notes(f, f) /\ Len(f.data) = Len(f.data) + 0
      BY <1>1 DEF Notes
    <2>3. PastedTo(f, g[0], k, 0)
      <3>1. Pasting(g[0], k)
        BY <2>1 DEF Pasting, Ready
      <3>2. Len(f.data) <= Len(f.data) + 0
        BY <1>1
      <3> QED
        BY <2>1, <2>2, <3>1, <3>2 DEF PastedTo
    <2> QED
      BY <2>3
  <1>4. ASSUME NEW m \in 0..(n - 1), m \in C PROVE m + 1 \in C
    <2>1. /\ m + 1 \in 1..n /\ (m + 1) - 1 = m /\ m \in Nat /\ m + 1 \in 0..n
          /\ Len(f.data) + m < MaxRows
      BY <1>1
    <2>2. PastedTo(f, g[m], k, m)
      BY <1>4
    <2>3. lines[m + 1] \in [code : Codes, amount : Amounts]
      BY <2>1
    <2>4. PastedTo(f, PasteLine(lines, i, g[m], m + 1), k, m + 1)
      BY <1>1, <2>1, <2>2, <2>3, PasteLineGood
    <2>5. g[m + 1] = PasteLine(lines, i, g[m], m + 1)
      BY <1>2, <2>1
    <2> QED
      BY <2>1, <2>4, <2>5
  <1> HIDE DEF C
  <1>5. 0..n \subseteq C
    BY <1>3, <1>4, UpTo
  <1>6. PastedTo(f, g[n], k, n)
    <2>1. n \in 0..n
      OBVIOUS
    <2> QED
      BY <1>5, <2>1 DEF C
  <1>7. Pasted(f, lines) = g[n].form
    BY <1>2 DEF Pasted, i
  <1>8. Good(g[n].form, k) /\ Notes(f, g[n].form) /\ Len(g[n].form.data) <= Len(f.data) + n
    BY <1>6 DEF PastedTo, Pasting
  <1>9. Len(g[n].form.data) \in Nat
    BY <1>8, SoundFacts DEF Good, Whole
  <1>10. Len(g[n].form.data) <= MaxRows
    BY <1>1, <1>8, <1>9
  <1> QED
    BY <1>7, <1>8, <1>10

LEMMA PasteKeeps ==
  ASSUME IInv, Paste
  PROVE  IInv'
  <1>1. PICK lines \in UNION {[1..n -> [code : Codes, amount : Amounts]] : n \in 1..MaxPasted} :
          /\ form.cur.tr # NoTr /\ Len(form.data) + Len(lines) <= MaxRows
          /\ Validating(LAMBDA f : CalcFields(Pasted(f, lines)))
    BY DEF Paste
  <1>2. PICK n \in 1..MaxPasted : lines \in [1..n -> [code : Codes, amount : Amounts]]
    OBVIOUS
  <1>3. n \in Nat /\ Len(lines) = n
    <2>1. n \in Nat
      BY RowsAssumption
    <2>2. PICK S : lines \in [1..n -> S]
      BY <1>2
    <2> QED
      BY <2>1, <2>2, ListSeq
  <1> DEFINE f == ValidateUpdate(form)
             h == CalcFields(Pasted(f, lines))
  <1>4. Leaves(IF ValidateOk(form) THEN h ELSE f)
    BY <1>1 DEF Validating
  <1>5. ASSUME ValidateOk(form)
        PROVE  Good(h, past.kinds) /\ Notes(f, h) /\ Len(h.data) <= MaxRows
    <2>1. Ready(f, past.kinds) /\ Len(f.data) = Len(form.data) /\ f.cur.tr = form.cur.tr
      BY <1>5, ValidatedReady
    <2> HIDE DEF f
    <2> DEFINE g == Pasted(f, lines)
    <2>2. Good(g, past.kinds) /\ Notes(f, g) /\ Len(g.data) <= MaxRows
      BY <1>1, <1>2, <1>3, <2>1, PastedGood
    <2> HIDE DEF g
    <2>3. /\ Whole(g) /\ Rules(g.data, past.kinds) /\ ("filtered" \in past.kinds \/ NoneHidden(g))
          /\ ("adopted" \in past.kinds \/ (Shows(g) /\ OldIsStored(g)))
      BY <2>2 DEF Good, Promises
    <2>4. h = CalcFields(g)
      BY DEF g
    <2> HIDE DEF h
    <2>5. Good(h, past.kinds) /\ h.data = g.data /\ h.dirty = g.dirty
      BY <2>3, <2>4, CalcFieldsGood
    <2> QED
      BY <2>2, <2>5 DEF Notes
  <1> HIDE DEF h
  <1> QED
    BY <1>4, <1>5, ValidatingKeeps
-----------------------------------------------------------------------------
(* The last rows go.                                                       *)

CutTo(f, m) ==
  Forget([f EXCEPT !.data = SubSeq(@, 1, m), !.screen = SubSeq(@, 1, m)])

\* g has the first m rows of f.
FirstRows(f, g, m) ==
  /\ Whole(g) /\ Len(g.data) = m
  /\ \A j \in 1..m : g.data[j] = f.data[j] /\ g.screen[j] = f.screen[j]
  /\ g.dirty = f.dirty /\ g.total = f.total
  /\ OnScreen(g, f.cur.tr) => g.cur = f.cur
  /\ ~OnScreen(g, f.cur.tr) => g.cur = Nowhere
  /\ Content(g.data) \subseteq Content(f.data)

CutKeeps(f, g) ==
  /\ Shows(f) => Shows(g)
  /\ AllShown(f) => AllShown(g)
  /\ OldIsStored(f) => OldIsStored(g)
  /\ NoneHidden(f) => NoneHidden(g)
  /\ \A k : Rules(f.data, k) => Rules(g.data, k)

LEMMA CutIs ==
  ASSUME NEW f, Sound(f), f.cur.old \in Value(f.cur.col), NEW m \in 1..Len(f.data)
  PROVE  FirstRows(f, CutTo(f, m), m) /\ CutKeeps(f, CutTo(f, m))
  <1> DEFINE n == Len(f.data)
             d == SubSeq(f.data, 1, m)
             s == SubSeq(f.screen, 1, m)
             h == [f EXCEPT !.data = d, !.screen = s]
             g == CutTo(f, m)
             p == [j \in 1..m |-> j]
  <1>1. /\ n \in Nat /\ n <= MaxRows + 1 /\ Len(f.screen) = n /\ DOMAIN f.data = 1..n
        /\ f.data \in Seq(DataRow) /\ f.screen \in Seq(ScreenRow) /\ MaxRows \in Nat
        /\ f \in Form
    BY SoundFacts, RowsAssumption DEF Sound, Form
  <1>2. m \in 0..Len(f.data) /\ m \in 0..Len(f.screen) /\ m \in 1..(MaxRows + 1) /\ m \in Nat
    BY <1>1
  <1>3. d \in Seq(DataRow) /\ Len(d) = m /\ \A j \in 1..m : d[j] = f.data[j]
    BY <1>1, <1>2, Prefix
  <1>4. s \in Seq(ScreenRow) /\ Len(s) = m /\ \A j \in 1..m : s[j] = f.screen[j]
    BY <1>1, <1>2, Prefix
  <1>5. g = Forget(h)
    BY DEF CutTo
  <1>6. \A j \in 1..m : j \in 1..n
    BY <1>1
  <1> HIDE DEF d, s, g
  <1>7. /\ h \in Form /\ h.data = d /\ h.screen = s /\ h.cur = f.cur
        /\ h.first = f.first /\ h.dirty = f.dirty /\ h.total = f.total
    BY <1>1, <1>3, <1>4 DEF Form
  <1> HIDE DEF h
  <1>8. Sound(h)
    <2>1. \A j \in 1..m : d[j].tr = s[j].tr
      BY <1>3, <1>4, <1>6, SoundFacts
    <2>2. \A j, l \in 1..m : s[j].tr = s[l].tr => j = l
      BY <1>4, <1>6 DEF Sound
    <2> QED
      BY <1>2, <1>3, <1>4, <1>7, <2>1, <2>2 DEF Sound
  <1>9. h.cur.old \in Value(h.cur.col)
    BY <1>7
  <1>10. /\ Whole(g) /\ g.data = h.data /\ g.screen = h.screen
         /\ g.dirty = h.dirty /\ g.total = h.total
         /\ OnScreen(h, h.cur.tr) => g.cur = h.cur
         /\ ~OnScreen(h, h.cur.tr) => g.cur = Nowhere
    BY <1>5, <1>8, <1>9, ForgetWhole
  <1>11. /\ Shows(h) => Shows(g)
         /\ AllShown(h) => AllShown(g)
         /\ OldIsStored(h) => OldIsStored(g)
         /\ NoneHidden(h) => NoneHidden(g)
    BY <1>5, <1>8, <1>9, ForgetShows
  <1>12. /\ Shows(f) => Shows(h)
         /\ AllShown(f) => AllShown(h)
         /\ OldIsStored(f) => OldIsStored(h)
         /\ NoneHidden(f) => NoneHidden(h)
    BY <1>3, <1>4, <1>6, <1>7 DEF Shows, AllShown, OldIsStored, NoneHidden
  <1>13. DOMAIN d = 1..m /\ \A j \in 1..m : d[j].amount \in Nat
    BY <1>3, <1>7, <1>8, SoundFacts
  <1>14. From(f.data, d, p) /\ \A j \in 1..m : p[j] = j
    BY <1>1, <1>3, <1>6, <1>13 DEF From
  <1> HIDE DEF p
  <1>15. Content(d) \subseteq Content(f.data)
    BY <1>14, FromContent
  <1>16. ASSUME NEW k, Rules(f.data, k) PROVE Rules(d, k)
    <2>1. UniqueCodes(f.data) => UniqueCodes(d)
      <3>1. \A j, l \in DOMAIN d : p[j] = p[l] => j = l
        BY <1>13, <1>14
      <3> QED
        BY <1>14, <3>1, FromUnique
    <2>2. Ascending(f.data) => Ascending(d)
      <3>1. \A j, l \in DOMAIN d : j < l => p[j] < p[l] \/ d[j].amount = 0 \/ d[l].amount = 0
        BY <1>13, <1>14
      <3>2. \A j \in DOMAIN d : d[j].amount \in Nat
        BY <1>13
      <3> QED
        BY <1>14, <3>1, <3>2, FromAscending
    <2>3. Complete(f.data) => Complete(d)
      BY <1>14, FromComplete
    <2> QED
      BY <1>16, <2>1, <2>2, <2>3 DEF Rules
  <1>17. OnScreen(g, f.cur.tr) <=> OnScreen(h, h.cur.tr)
    BY <1>7, <1>10 DEF OnScreen
  <1>18. FirstRows(f, g, m)
    BY <1>3, <1>4, <1>7, <1>10, <1>15, <1>17 DEF FirstRows
  <1>19. CutKeeps(f, g)
    BY <1>7, <1>10, <1>11, <1>12, <1>16 DEF CutKeeps
  <1> QED
    BY <1>18, <1>19 DEF g

-----------------------------------------------------------------------------
(* Popups.                                                                 *)

LEMMA MoreReady ==
  ASSUME NEW f, NEW k, NEW l, k \subseteq l, Ready(f, k)
  PROVE  Ready(f, l)
  BY MoreKinds DEF Ready

\* The cursor is put on the code of row i.
AtCode(f, i) ==
  [f EXCEPT !.cur = [tr |-> f.screen[i].tr, col |-> "code", old |-> f.data[i].code]]

LEMMA AtCodeReady ==
  ASSUME NEW f, NEW k, Ready(f, k), NEW i \in 1..Len(f.data)
  PROVE  LET g == AtCode(f, i) IN
         /\ Ready(g, k) /\ SameRows(f, g) /\ g.data = f.data /\ g.screen = f.screen
         /\ g.cur.tr = f.screen[i].tr /\ g.cur.col = "code" /\ g.cur.old = f.data[i].code
  <1> DEFINE c == [tr |-> f.screen[i].tr, col |-> "code", old |-> f.data[i].code]
             g == AtCode(f, i)
  <1>1. Whole(f) /\ Sound(f)
    BY DEF Ready, Good, Whole
  <1>2. f.screen[i].tr \in Tr /\ f.data[i].code \in Codes
    BY <1>1, SoundFacts
  <1>3. c \in Position /\ c.old \in Value(c.col)
    BY <1>2 DEF Position, Value, Col
  <1>4. /\ g \in Form /\ g.data = f.data /\ g.screen = f.screen /\ g.cur = c
        /\ g.first = f.first /\ g.dirty = f.dirty /\ g.total = f.total
    BY <1>1, <1>3 DEF AtCode, Sound, Form
  <1> HIDE DEF g
  <1>5. c.tr = f.screen[i].tr /\ c.col = "code" /\ c.old = f.data[i].code
    OBVIOUS
  <1> HIDE DEF c
  <1>6. SameRows(f, g)
    BY <1>4 DEF SameRows
  <1>7. Sound(g) /\ \A x : OnScreen(g, x) <=> OnScreen(f, x)
    BY <1>1, <1>4, <1>6, SameRowsSound
  <1>8. OnScreen(f, c.tr)
    BY <1>5 DEF OnScreen
  <1>9. Whole(g)
    BY <1>1, <1>3, <1>4, <1>7, <1>8 DEF Whole
  <1>10. AllShown(f) => AllShown(g) /\ Shows(g)
    BY <1>4 DEF AllShown, Shows
  <1>11. OldIsStored(g)
    <2>1. SUFFICES ASSUME NEW j \in 1..Len(f.data), f.screen[i].tr = f.screen[j].tr
                   PROVE  f.data[i].code = f.data[j].code
      BY <1>4, <1>5 DEF OldIsStored
    <2>2. j = i
      BY <1>1, <2>1 DEF Sound
    <2> QED
      BY <2>2
  <1>12. NoneHidden(f) => NoneHidden(g)
    BY <1>4 DEF NoneHidden
  <1>13. Promises(g, k)
    BY <1>4, <1>10, <1>11, <1>12 DEF Ready, Good, Promises
  <1>14. Ready(g, k)
    BY <1>9, <1>10, <1>13 DEF Ready, Good
  <1> QED
    BY <1>4, <1>5, <1>6, <1>14 DEF g

\* A code that no other row has is typed for the user.
Filled(f, i, v) ==
  IF f.data[i].code = v THEN f
  ELSE ValidateUpdate(Show(AtCode(f, i), f.screen[i].tr, "code", v))

\* Row i gets code v and nothing else happens to the cells.
Fills(f, g, i, v) ==
  /\ SameRows(f, g) /\ g.data[i].code = v /\ g.data[i].amount = f.data[i].amount
  /\ g.screen[i].code = v \/ g.screen[i].code = f.screen[i].code
  /\ g.screen[i].amount = f.screen[i].amount
  /\ \A j \in (1..Len(f.data)) \ {i} :
       /\ g.data[j].code = f.data[j].code /\ g.data[j].amount = f.data[j].amount
       /\ g.screen[j].code = f.screen[j].code /\ g.screen[j].amount = f.screen[j].amount

LEMMA FilledReady ==
  ASSUME NEW f, NEW k, Ready(f, k), NEW i \in 1..Len(f.data), NEW v \in OnFile,
         \A j \in (1..Len(f.data)) \ {i} : f.data[j].code # v
  PROVE  Ready(Filled(f, i, v), k) /\ Fills(f, Filled(f, i, v), i, v)
  <1> DEFINE a == AtCode(f, i)
             b == Show(a, a.screen[i].tr, "code", v)
             g == Updated(b)
             n == Len(f.data)
  <1>1. Sound(f) /\ v \in Codes /\ v # 0 /\ v \in Value("code") /\ "code" \in Col /\ "amount" \in Col
        /\ n \in Nat /\ DOMAIN f.data = 1..n
    BY SoundFacts, RowsAssumption DEF Ready, Good, Whole, Value, Col
  <1>2. CASE f.data[i].code = v
    <2>1. Filled(f, i, v) = f
      BY <1>2 DEF Filled
    <2>2. SameRows(f, f)
      BY <1>1 DEF SameRows, Sound
    <2> QED
      BY <1>2, <2>1, <2>2 DEF Fills
  <1>3. CASE f.data[i].code # v
    <2>1. /\ Ready(a, k) /\ SameRows(f, a) /\ a.data = f.data /\ a.screen = f.screen
          /\ a.cur.tr = f.screen[i].tr /\ a.cur.col = "code" /\ a.cur.old = f.data[i].code
      BY AtCodeReady
    <2>2. Filled(f, i, v) = ValidateUpdate(b)
      BY <1>3, <2>1 DEF Filled
    <2> HIDE DEF a
    <2>3. Good(a, k) /\ Sound(a) /\ i \in 1..Len(a.data) /\ a.cur.tr # NoTr
      <3>1. f.screen[i].tr \in Tr /\ NoTr \notin Tr
        BY <1>1, SoundFacts DEF Tr, NoTr
      <3> QED
        BY <2>1, <3>1 DEF Ready, Good, Whole
    <2>4. b = Show(a, a.cur.tr, a.cur.col, v) /\ v \in Value(a.cur.col)
      BY <1>1, <2>1
    <2>5. /\ SameRows(a, b) /\ b.data = a.data /\ b.cur = a.cur
          /\ \A l \in 1..Len(a.data), c \in Col :
               b.screen[l][c] = IF l = i /\ c = "code" THEN v ELSE a.screen[l][c]
      BY <1>1, <2>3, ShowIs
    <2> HIDE DEF b
    <2>6. Good(b, k)
      BY <2>3, <2>4, ShowAtCursorGood
    <2>7. /\ Whole(b) /\ b.cur.tr # NoTr /\ b.cur.col = "code" /\ b.screen[i].tr = b.cur.tr
          /\ b.screen[i].code = v /\ Len(b.data) = n
      BY <1>1, <2>1, <2>3, <2>5, <2>6 DEF Good, SameRows
    <2>8. RowOf(b, b.cur.tr) = i
      BY <2>7, RowOfIs DEF Whole
    <2>9. Shown(b, b.cur.tr, b.cur.col) = v
      BY <2>7, <2>8 DEF Shown
    <2>10. Changed(b) /\ CheckRequired(b)
      BY <1>3, <2>1, <2>5, <2>7, <2>9 DEF Changed, CheckRequired
    <2>11. Valid(b)
      BY <1>1, <2>1, <2>5, <2>7, <2>8, <2>9 DEF Valid, Unique
    <2>12. Filled(f, i, v) = g
      BY <2>2, <2>10, <2>11 DEF ValidateUpdate
    <2>13. Ready(g, k)
      BY <2>6, <2>10, <2>11, UpdatedReady
    <2>14. PICK e, w : Puts(b, g, e, w)
      BY <2>7, UpdatedPuts
    <2> HIDE DEF g
    <2>15. e = i /\ w = v
      BY <2>7, <2>8, <2>14 DEF Puts
    <2>16. SameRows(f, g)
      BY <2>1, <2>5, <2>14, SameRowsTransitive DEF Puts
    <2>17. ASSUME NEW l \in 1..n, NEW c \in Col
           PROVE  /\ g.data[l][c] = IF l = i /\ c = "code" THEN v ELSE f.data[l][c]
                  /\ g.screen[l][c] = IF l = i /\ c = "code" THEN v ELSE f.screen[l][c]
      <3>1. /\ g.screen[l][c] = b.screen[l][c]
            /\ g.data[l][c] = IF l = i /\ c = "code" THEN v ELSE b.data[l][c]
        BY <2>7, <2>14, <2>15 DEF Puts
      <3> QED
        BY <2>1, <2>5, <3>1
    <2>18. Fills(f, g, i, v)
      BY <1>1, <2>16, <2>17 DEF Fills
    <2> QED
      BY <2>12, <2>13, <2>18
  <1> QED
    BY <1>2, <1>3

LEMMA AppendedTo ==
  ASSUME NEW S, NEW s \in Seq(S), NEW t \in Seq(S), NEW b \in S, Len(t) = Len(s) + 1,
         \A k \in 1..Len(s) : t[k] = s[k], t[Len(s) + 1] = b
  PROVE  Append(s, b) = t
  <1>1. /\ Append(s, b) \in Seq(S) /\ Len(Append(s, b)) = Len(s) + 1
        /\ \A k \in 1..Len(s) : Append(s, b)[k] = s[k]
        /\ Append(s, b)[Len(s) + 1] = b
    BY AppendProperties
  <1>2. Len(s) \in Nat
    BY LenProperties
  <1>3. \A k \in 1..Len(Append(s, b)) : Append(s, b)[k] = t[k]
    BY <1>1, <1>2
  <1>4. PICK u \in Seq(S) : u = Append(s, b)
    BY <1>1
  <1> QED
    BY <1>1, <1>3, <1>4, SeqEqual

LEMMA AppendTwo ==
  ASSUME NEW S, NEW a \in S, NEW b \in S
  PROVE  Append(<<a>>, b) = <<a, b>>
  <1>1. PICK s : s = <<a>>
    OBVIOUS
  <1>2. PICK t : t = <<a, b>>
    OBVIOUS
  <1>3. s \in Seq(S) /\ t \in Seq(S)
    BY <1>1, <1>2
  <1>4. Len(t) = Len(s) + 1 /\ t[Len(s) + 1] = b /\ \A k \in 1..Len(s) : t[k] = s[k]
    BY <1>1, <1>2
  <1>5. Append(s, b) = t
    BY <1>3, <1>4, AppendedTo
  <1> QED
    BY <1>1, <1>2, <1>5

\* No row above row i has code v.
Absent(f, i, v) == \A j \in 1..(i - 1) : f.data[j].code # v

\* The picked codes that are new.
LEMMA FreshIs ==
  ASSUME NEW f, NEW i, NEW codes \in [1..2 -> OnFile], codes[1] # codes[2]
  PROVE  \/ Fresh(f, i, codes) = <<>>
         \/ \E a \in OnFile : Fresh(f, i, codes) = <<a>> /\ Absent(f, i, a)
         \/ \E a, b \in OnFile :
              Fresh(f, i, codes) = <<a, b>> /\ Absent(f, i, a) /\ Absent(f, i, b) /\ a # b
  <1>1. PICK n \in Nat : n = 2 /\ DOMAIN codes = 1..n
    OBVIOUS
  <1>10. PICK g : FreshSteps(f, i, codes, n, g)
    <2>1. DOMAIN codes = 1..n
      BY <1>1
    <2> QED
      BY <2>1, FreshTrace
  <1>2. /\ g[0] = <<>>
        /\ \A k \in 1..n : g[k] = AddFresh(f, i, g[k - 1], codes[k])
        /\ Fresh(f, i, codes) = g[n]
    BY <1>10 DEF FreshSteps
  <1>3. /\ g[1] = AddFresh(f, i, <<>>, codes[1])
        /\ g[2] = AddFresh(f, i, g[1], codes[2])
    <2>1. 1 \in 1..n /\ 2 \in 1..n /\ 1 - 1 = 0 /\ 2 - 1 = 1
      BY <1>1
    <2>2. g[1] = AddFresh(f, i, g[0], codes[1])
      BY <1>2, <2>1
    <2>3. g[2] = AddFresh(f, i, g[1], codes[2])
      BY <1>2, <2>1
    <2> QED
      BY <1>2, <2>2, <2>3
  <1>4. codes[1] \in OnFile /\ codes[2] \in OnFile
    OBVIOUS
  <1>5. PICK a : a = codes[1]
    OBVIOUS
  <1>6. PICK b : b = codes[2]
    OBVIOUS
  <1>7. (g[1] = <<>>) \/ (g[1] = <<a>> /\ Absent(f, i, a))
    <2>1. Append(<<>>, a) = <<a>>
      OBVIOUS
    <2> QED
      BY <1>3, <1>5, <2>1 DEF AddFresh, Absent
  <1>8. g[2] = g[1] \/ (g[2] = Append(g[1], b) /\ Absent(f, i, b))
    BY <1>3, <1>6 DEF AddFresh, Absent
  <1>9. Append(<<>>, b) = <<b>> /\ Append(<<a>>, b) = <<a, b>>
    <2>1. Append(<<>>, b) = <<b>>
      OBVIOUS
    <2>2. Append(<<a>>, b) = <<a, b>>
      <3>1. PICK S : a \in S /\ b \in S
        BY <1>4, <1>5, <1>6
      <3> QED
        BY <3>1, AppendTwo
    <2> QED
      BY <2>1, <2>2
  <1> QED
    BY <1>1, <1>2, <1>4, <1>5, <1>6, <1>7, <1>8, <1>9

\* They are filled in one by one, in rows that are there.
LEMMA RefillRowIs ==
  ASSUME NEW codes, NEW i \in Nat, NEW f, NEW n \in Nat, n = 1 \/ n = Len(codes), NEW r, r = i + n - 1
  PROVE  RefillRow(codes, i, f, n) = Filled(f, r, codes[n])
  <1>1. ~(n > 1 /\ n < Len(codes))
    OBVIOUS
  <1> QED
    BY <1>1 DEF RefillRow, Filled, AtCode

LEMMA RefillOne ==
  ASSUME NEW a, NEW i \in Nat, NEW f
  PROVE  RefillRows(<<a>>, i, f) = Filled(f, i, a)
  <1> DEFINE codes == <<a>>
  <1>1. DOMAIN codes = 1..1 /\ Len(codes) = 1 /\ codes[1] = a
    OBVIOUS
  <1> HIDE DEF codes
  <1>2. PICK n \in Nat : n = 1
    OBVIOUS
  <1>10. PICK g : RefillSteps(codes, i, f, n, g)
    <2>1. DOMAIN codes = 1..n
      BY <1>1, <1>2
    <2> QED
      BY <2>1, RefillTrace
  <1>3. /\ g[0] = f
        /\ \A k \in 1..n : g[k] = RefillRow(codes, i, g[k - 1], k)
        /\ RefillRows(codes, i, f) = g[n]
    BY <1>10 DEF RefillSteps
  <1>4. n \in 1..n /\ n - 1 = 0 /\ i = i + n - 1
    BY <1>2
  <1>5. g[n] = RefillRow(codes, i, f, n)
    BY <1>3, <1>4
  <1>6. RefillRow(codes, i, f, n) = Filled(f, i, codes[n])
    BY <1>2, <1>4, RefillRowIs
  <1> QED
    BY <1>1, <1>2, <1>3, <1>5, <1>6 DEF codes

LEMMA RefillTwo ==
  ASSUME NEW a, NEW b, NEW i \in Nat, NEW f
  PROVE  RefillRows(<<a, b>>, i, f) = Filled(Filled(f, i, a), i + 1, b)
  <1> DEFINE codes == <<a, b>>
  <1>1. DOMAIN codes = 1..2 /\ Len(codes) = 2 /\ codes[1] = a /\ codes[2] = b
    OBVIOUS
  <1> HIDE DEF codes
  <1>2. PICK m \in Nat : m = 1
    OBVIOUS
  <1>3. PICK n \in Nat : n = 2
    OBVIOUS
  <1>10. PICK g : RefillSteps(codes, i, f, n, g)
    <2>1. DOMAIN codes = 1..n
      BY <1>1, <1>3
    <2> QED
      BY <2>1, RefillTrace
  <1>4. /\ g[0] = f
        /\ \A k \in 1..n : g[k] = RefillRow(codes, i, g[k - 1], k)
        /\ RefillRows(codes, i, f) = g[n]
    BY <1>10 DEF RefillSteps
  <1>5. m \in 1..n /\ n \in 1..n /\ m - 1 = 0 /\ n - 1 = m /\ i = i + m - 1 /\ i + 1 = i + n - 1
    BY <1>2, <1>3
  <1>6. g[m] = RefillRow(codes, i, f, m) /\ g[n] = RefillRow(codes, i, g[m], n)
    BY <1>4, <1>5
  <1>7. RefillRow(codes, i, f, m) = Filled(f, i, codes[m])
    BY <1>2, <1>5, RefillRowIs
  <1>8. PICK r : r = i + 1
    OBVIOUS
  <1>9. RefillRow(codes, i, g[m], n) = Filled(g[m], r, codes[n])
    <2>1. n = Len(codes) /\ r = i + n - 1
      BY <1>1, <1>3, <1>5, <1>8
    <2> QED
      BY <2>1, RefillRowIs
  <1> QED
    BY <1>1, <1>2, <1>3, <1>4, <1>6, <1>7, <1>8, <1>9 DEF codes

\* Row i, and the next one, are filled; the cells above and those amounts are
\* left alone.
Refills(f, g, i, a) ==
  /\ SameRows(f, g) /\ g.data[i].code = a
  /\ g.screen[i].code = a \/ g.screen[i].code = f.screen[i].code

LEMMA FilledUp ==
  ASSUME NEW f, NEW k, Ready(f, k), NEW i \in 1..Len(f.data), Len(f.data) = i + 1,
         f.data[i + 1].code = 0, NEW a \in OnFile, Absent(f, i, a)
  PROVE  Ready(Filled(f, i, a), k) /\ Fills(f, Filled(f, i, a), i, a)
  <1>1. a # 0 /\ Len(f.data) \in Nat
    BY SoundFacts, RowsAssumption DEF Ready, Good, Whole
  <1>2. ASSUME NEW j \in (1..Len(f.data)) \ {i} PROVE f.data[j].code # a
    <2>1. j \in 1..(i - 1) \/ j = i + 1
      BY <1>1
    <2> QED
      BY <1>1, <2>1 DEF Absent
  <1> QED
    BY <1>2, FilledReady

LEMMA RefillGood ==
  ASSUME NEW f, NEW k, Ready(f, k), NEW i \in 1..Len(f.data), Len(f.data) = i + 1,
         f.data[i + 1].code = 0, NEW codes,
         \/ \E a \in OnFile : codes = <<a>> /\ Absent(f, i, a)
         \/ \E a, b \in OnFile :
              codes = <<a, b>> /\ Absent(f, i, a) /\ Absent(f, i, b) /\ a # b
  PROVE  /\ Ready(RefillRows(codes, i, f), k)
         /\ \E a \in OnFile : Refills(f, RefillRows(codes, i, f), i, a)
  <1>1. i \in Nat /\ i + 1 \in 1..Len(f.data) /\ Len(f.data) \in Nat
    BY SoundFacts DEF Ready, Good, Whole
  <1>2. CASE \E a \in OnFile : codes = <<a>> /\ Absent(f, i, a)
    <2>1. PICK a \in OnFile : codes = <<a>> /\ Absent(f, i, a)
      BY <1>2
    <2>2. RefillRows(codes, i, f) = Filled(f, i, a)
      BY <1>1, <2>1, RefillOne
    <2>3. Ready(Filled(f, i, a), k) /\ Fills(f, Filled(f, i, a), i, a)
      BY <2>1, FilledUp
    <2> QED
      BY <2>2, <2>3 DEF Fills, Refills
  <1>3. CASE \E a, b \in OnFile :
              codes = <<a, b>> /\ Absent(f, i, a) /\ Absent(f, i, b) /\ a # b
    <2>1. PICK a \in OnFile, b \in OnFile :
              codes = <<a, b>> /\ Absent(f, i, a) /\ Absent(f, i, b) /\ a # b
      BY <1>3
    <2> DEFINE g == Filled(f, i, a)
               h == Filled(g, i + 1, b)
    <2>2. RefillRows(codes, i, f) = h
      BY <1>1, <2>1, RefillTwo
    <2>3. Ready(g, k) /\ Fills(f, g, i, a)
      BY <2>1, FilledUp
    <2> HIDE DEF g
    <2>4. Len(g.data) = Len(f.data)
      BY <2>3 DEF Fills, SameRows
    <2>5. ASSUME NEW j \in (1..Len(g.data)) \ {i + 1} PROVE g.data[j].code # b
      <3>1. CASE j = i
        BY <2>1, <2>3, <3>1 DEF Fills
      <3>2. CASE j # i
        <4>1. j \in 1..(i - 1) /\ j \in (1..Len(f.data)) \ {i}
          BY <1>1, <2>4, <3>2
        <4> QED
          BY <2>1, <2>3, <4>1 DEF Fills, Absent
      <3> QED
        BY <3>1, <3>2
    <2>6. PICK r \in 1..Len(g.data) : r = i + 1
      BY <1>1, <2>4
    <2>7. Ready(Filled(g, r, b), k) /\ Fills(g, Filled(g, r, b), r, b)
      BY <2>3, <2>5, <2>6, FilledReady
    <2>8. Ready(h, k) /\ Fills(g, h, i + 1, b)
      BY <2>6, <2>7
    <2> HIDE DEF h
    <2>9. i \in (1..Len(g.data)) \ {i + 1}
      BY <1>1, <2>4
    <2>10. SameRows(f, h)
      BY <2>3, <2>8, SameRowsTransitive DEF Fills
    <2>11. Refills(f, h, i, a)
      BY <2>3, <2>8, <2>9, <2>10 DEF Fills, Refills
    <2> QED
      BY <2>2, <2>8, <2>11
  <1> QED
    BY <1>2, <1>3

\* What a form promises is a matter of its cells, once it has no cursor.
SameCellsOf(f, g) ==
  /\ SameRows(f, g) /\ g.total = f.total
  /\ \A j \in 1..Len(f.data), c \in Col :
       g.data[j][c] = f.data[j][c] /\ g.screen[j][c] = f.screen[j][c]

LEMMA SettledReady ==
  ASSUME NEW f, NEW k, Ready(f, k), NEW g, Whole(g), SameCellsOf(f, g), g.cur = Nowhere
  PROVE  Ready(g, k)
  <1> DEFINE n == Len(f.data)
  <1>1. Sound(f) /\ Sound(g) /\ Len(g.data) = n /\ SameRows(f, g)
    BY DEF Ready, Good, Whole, SameCellsOf, SameRows
  <1>2. n \in Nat /\ DOMAIN f.data = 1..n /\ DOMAIN g.data = 1..n
    BY <1>1, SoundFacts
  <1>3. \A j \in 1..n, c \in Col :
       g.data[j][c] = f.data[j][c] /\ g.screen[j][c] = f.screen[j][c]
    BY DEF SameCellsOf
  <1>4. \A j \in 1..n : g.data[j].code = f.data[j].code /\ g.data[j].amount = f.data[j].amount
    BY <1>3 DEF Col
  <1> HIDE DEF n
  <1>5. AllShown(f) => AllShown(g) /\ Shows(g)
    BY <1>1, <1>3 DEF AllShown, Shows, n
  <1>6. OldIsStored(g)
    <2>1. \A j \in 1..Len(g.data) : g.screen[j].tr # NoTr
      BY <1>1, SoundFacts DEF Tr, NoTr
    <2> QED
      BY <2>1 DEF OldIsStored, Nowhere
  <1>7. NoneHidden(f) => NoneHidden(g)
    BY <1>1 DEF NoneHidden, SameRows
  <1>8. SameCells(f.data, g.data)
    BY <1>2, <1>4 DEF SameCells
  <1>9. Rules(g.data, k)
    BY <1>8, SameCellsRules DEF Ready, Good, Promises, Rules
  <1>10. Total(g.data) = Total(f.data)
    BY <1>2, <1>4, TotalSame
  <1>11. g.total = f.total
    BY DEF SameCellsOf
  <1>12. Promises(g, k)
    BY <1>5, <1>6, <1>7, <1>9, <1>10, <1>11 DEF Ready, Good, Promises
  <1> QED
    BY <1>5, <1>12 DEF Ready, Good

\* The table is left with its cursor where it was before rows were filled.
Back(f, c) == [[f EXCEPT !.cur = c] EXCEPT !.dirty = TRUE]

LEMMA BackWhole ==
  ASSUME NEW f, Whole(f), NEW c \in Position, OnScreen(f, c.tr), c.old \in Value(c.col)
  PROVE  LET g == Back(f, c) IN
         /\ Whole(g) /\ g.data = f.data /\ g.screen = f.screen /\ g.cur = c
         /\ g.total = f.total /\ g.dirty = TRUE
  <1> DEFINE g == Back(f, c)
  <1>1. Sound(f)
    BY DEF Whole
  <1>2. /\ g \in Form /\ g.data = f.data /\ g.screen = f.screen /\ g.cur = c
        /\ g.first = f.first /\ g.dirty = TRUE /\ g.total = f.total
    BY <1>1 DEF Sound, Form, Back
  <1> HIDE DEF g
  <1>3. SameRows(f, g)
    BY <1>2 DEF SameRows
  <1>4. Sound(g) /\ \A x : OnScreen(g, x) <=> OnScreen(f, x)
    BY <1>1, <1>2, <1>3, SameRowsSound
  <1>5. Whole(g)
    BY <1>2, <1>4 DEF Whole
  <1> QED
    BY <1>2, <1>5 DEF g

LEMMA NowhereWhole ==
  ASSUME NEW f, Whole(f)
  PROVE  LET g == [f EXCEPT !.cur = Nowhere] IN
         /\ Whole(g) /\ g.data = f.data /\ g.screen = f.screen /\ g.cur = Nowhere
         /\ g.total = f.total /\ g.dirty = f.dirty
  <1> DEFINE g == [f EXCEPT !.cur = Nowhere]
  <1>1. Sound(f)
    BY DEF Whole
  <1>2. Nowhere \in Position /\ Nowhere.tr = NoTr /\ Nowhere.old \in Value(Nowhere.col)
    BY RowsAssumption DEF Nowhere, Position, Col, Value
  <1>3. /\ g \in Form /\ g.data = f.data /\ g.screen = f.screen /\ g.cur = Nowhere
        /\ g.first = f.first /\ g.dirty = f.dirty /\ g.total = f.total
    BY <1>1, <1>2 DEF Sound, Form
  <1> HIDE DEF g
  <1>4. SameRows(f, g)
    BY <1>3 DEF SameRows
  <1>5. Sound(g) /\ \A x : OnScreen(g, x) <=> OnScreen(f, x)
    BY <1>1, <1>3, <1>4, SameRowsSound
  <1>6. Whole(g)
    BY <1>2, <1>3, <1>5 DEF Whole
  <1> QED
    BY <1>3, <1>6 DEF g

\* What shows under the cursor is what is stored, or what was there: it is taken.
LEMMA BackValidated ==
  ASSUME NEW f, NEW k, Ready(f, k), NEW c \in Position, OnScreen(f, c.tr), c.col = "code",
         c.old \in Codes, NEW r, r = RowOf(f, c.tr), f.data[r].code \in OnFile,
         f.screen[r].code = f.data[r].code \/ f.screen[r].code = c.old
  PROVE  LET x == Back(f, c)
             z == ValidateUpdate(x) IN
         ValidateOk(x) /\ Whole(z) /\ SameCellsOf(f, z) /\ z.dirty = TRUE
  <1> DEFINE x == Back(f, c)
             z == ValidateUpdate(x)
  <1>1. Whole(f) /\ Sound(f) /\ c.old \in Value(c.col)
    BY DEF Ready, Good, Whole, Value
  <1>2. /\ Whole(x) /\ x.data = f.data /\ x.screen = f.screen /\ x.cur = c
        /\ x.total = f.total /\ x.dirty = TRUE
    BY <1>1, BackWhole
  <1> HIDE DEF x
  <1>3. r \in 1..Len(f.data) /\ f.screen[r].tr = c.tr /\ c.tr # NoTr /\ DOMAIN f.data = 1..Len(f.data)
    BY <1>1, RowOfOnScreen, SoundFacts
  <1>4. RowOf(x, c.tr) = r
    BY <1>2, <1>3, RowOfIs DEF Whole
  <1>5. Shown(x, c.tr, "code") = f.screen[r].code
    BY <1>2, <1>4 DEF Shown
  <1>6. SameCellsOf(f, x)
    BY <1>2 DEF SameCellsOf, SameRows
  <1>7. CASE ~Changed(x)
    <2>1. z = x /\ ValidateOk(x)
      BY <1>7 DEF ValidateUpdate, ValidateOk
    <2> QED
      BY <1>2, <1>6, <2>1 DEF x
  <1>8. CASE Changed(x)
    <2>1. f.screen[r].code = f.data[r].code
      BY <1>2, <1>5, <1>8 DEF Changed
    <2>2. PICK v : v = f.data[r].code
      OBVIOUS
    <2>3. v # 0 /\ v \in OnFile
      BY <2>2, RowsAssumption
    <2>4. CheckRequired(x)
      BY <1>2 DEF CheckRequired
    <2>5. UniqueCodes(f.data)
      BY DEF Ready, Good, Promises, Rules
    <2>6. Unique(x, r, v)
      BY <1>2, <1>3, <2>2, <2>3, <2>5 DEF Unique, UniqueCodes
    <2>7. Valid(x)
      BY <1>2, <1>4, <1>5, <2>1, <2>2, <2>3, <2>6 DEF Valid
    <2>8. z = Updated(x) /\ ValidateOk(x)
      BY <1>8, <2>4, <2>7 DEF ValidateUpdate, ValidateOk
    <2>9. PICK i, w : Puts(x, Updated(x), i, w)
      BY <1>2, <1>3, UpdatedPuts
    <2> HIDE DEF z
    <2>10. /\ Whole(z) /\ SameRows(x, z) /\ i = r /\ w = f.data[r].code
           /\ \A l \in 1..Len(f.data), e \in Col :
                /\ z.screen[l][e] = f.screen[l][e]
                /\ z.data[l][e] = IF l = r /\ e = "code" THEN w ELSE f.data[l][e]
           /\ z.dirty = TRUE /\ z.total = f.total
      BY <1>2, <1>4, <2>1, <2>8, <2>9 DEF Puts
    <2>11. SameRows(f, z)
      BY <1>6, <2>10, SameRowsTransitive DEF SameCellsOf
    <2>12. SameCellsOf(f, z)
      BY <2>10, <2>11 DEF SameCellsOf
    <2> QED
      BY <2>8, <2>10, <2>12 DEF x, z
  <1> QED
    BY <1>7, <1>8

LEMMA BackLeft ==
  ASSUME NEW f, NEW k, Ready(f, k), NEW c \in Position, OnScreen(f, c.tr), c.col = "code",
         c.old \in Codes, NEW r, r = RowOf(f, c.tr), f.data[r].code \in OnFile,
         f.screen[r].code = f.data[r].code \/ f.screen[r].code = c.old
  PROVE  LET g == LeftTable(Back(f, c)) IN
         Ready(g, k) /\ g.dirty = TRUE /\ Len(g.data) = Len(f.data)
  <1> DEFINE x == Back(f, c)
             z == ValidateUpdate(x)
             g == LeftTable(x)
  <1>1. ValidateOk(x) /\ Whole(z) /\ SameCellsOf(f, z) /\ z.dirty = TRUE
    BY BackValidated
  <1>2. g = [z EXCEPT !.cur = Nowhere]
    BY <1>1 DEF LeftTable
  <1> HIDE DEF x, z
  <1>3. /\ Whole(g) /\ g.data = z.data /\ g.screen = z.screen /\ g.cur = Nowhere
        /\ g.total = z.total /\ g.dirty = z.dirty
    BY <1>1, <1>2, NowhereWhole
  <1> HIDE DEF g
  <1>4. SameCellsOf(f, g)
    BY <1>1, <1>3 DEF SameCellsOf, SameRows
  <1>5. Ready(g, k)
    BY <1>3, <1>4, SettledReady
  <1>6. Len(g.data) = Len(f.data)
    BY <1>4 DEF SameCellsOf, SameRows
  <1> QED
    BY <1>1, <1>3, <1>5, <1>6 DEF g, x

\* insertallrows(): the rows below row i are replaced by a blank one.
BaseOf(f, i) == CutTo(InsertRow(f, i + 1), i + 1)

LEMMA BaseReady ==
  ASSUME NEW f, NEW k, Ready(f, k), "replaced" \in k, Len(f.data) <= MaxRows,
         NEW i \in 1..Len(f.data)
  PROVE  /\ Ready(BaseOf(f, i), k) /\ Len(BaseOf(f, i).data) = i + 1
         /\ \A j \in 1..i : /\ BaseOf(f, i).data[j] = f.data[j]
                            /\ BaseOf(f, i).screen[j] = f.screen[j]
         /\ BaseOf(f, i).data[i + 1].code = 0
  <1>1. Sound(f) /\ Len(f.data) \in Nat /\ Len(f.data) \in 1..(MaxRows + 1)
    BY SoundFacts DEF Ready, Good, Whole
  <1>2. PICK m \in 1..(Len(f.data) + 1) : m = i + 1
    BY <1>1
  <1> DEFINE c == InsertRow(f, m)
             g == CutTo(c, m)
  <1>3. Ready(c, k) /\ Len(c.data) = Len(f.data) + 1
    BY InsertRowReady
  <1>4. PICK tr : Comes(f, c, m, tr)
    BY InsertRowReady
  <1> HIDE DEF c
  <1>5. Sound(c) /\ c.cur.old \in Value(c.cur.col) /\ m \in 1..Len(c.data)
    BY <1>1, <1>3 DEF Ready, Good, Whole
  <1>6. FirstRows(c, g, m) /\ CutKeeps(c, g)
    BY <1>5, CutIs
  <1> HIDE DEF g
  <1>7. Whole(g) /\ Len(g.data) = m
        /\ \A j \in 1..m : g.data[j] = c.data[j] /\ g.screen[j] = c.screen[j]
    BY <1>6 DEF FirstRows
  <1>8. ASSUME NEW j \in 1..i PROVE g.data[j] = f.data[j] /\ g.screen[j] = f.screen[j]
    <2>1. j \in 1..m /\ j < m /\ j \in 1..(Len(f.data) + 1)
      BY <1>1, <1>2
    <2>2. c.data[j] = f.data[j] /\ c.screen[j] = f.screen[j]
      BY <1>1, <1>4, <2>1, ComesCells
    <2> QED
      BY <1>7, <2>1, <2>2
  <1>9. g.data[m].code = 0
    <2>1. c.data[m] = NewData(tr)
      BY <1>2, <1>4 DEF Comes
    <2>4. c.data[m].code = 0
      BY <2>1 DEF NewData
    <2>2. m \in 1..m
      BY <1>1
    <2> QED
      BY <1>7, <2>4, <2>2
  <1>10. Promises(g, k)
    BY <1>3, <1>6 DEF Ready, Good, Promises, CutKeeps
  <1>11. Ready(g, k)
    BY <1>3, <1>6, <1>7, <1>10 DEF Ready, Good, CutKeeps
  <1>12. g = BaseOf(f, i)
    BY <1>2 DEF BaseOf, g, c
  <1> QED
    BY <1>2, <1>7, <1>8, <1>9, <1>11, <1>12

\* exoduspopup(), of an element that was made the current one.
AtElement(g, k, tr, i) ==
  /\ Ready(g, k) /\ Len(g.data) <= MaxRows /\ OnScreen(g, tr) /\ i = RowOf(g, tr)
  /\ g.cur.tr = tr /\ g.cur.col = "code" /\ g.cur.old = g.screen[i].code

LEMMA ReplacedGood ==
  ASSUME NEW g, NEW k, NEW tr, NEW i, AtElement(g, k, tr, i), "replaced" \in k, i < MaxRows,
         NEW codes \in [1..2 -> OnFile], codes[1] # codes[2], NEW new, new = Fresh(g, i, codes),
         new # <<>>
  PROVE  LET h == LeftTable([Refilled(g, i, new) EXCEPT !.dirty = TRUE]) IN
         Ready(h, k) /\ h.dirty = TRUE /\ Len(h.data) <= MaxRows
  <1> DEFINE b == BaseOf(g, i)
             y == RefillRows(new, i, b)
             c == g.cur
             h == LeftTable(Back(y, c))
  <1>1. /\ Ready(g, k) /\ Len(g.data) <= MaxRows /\ i \in 1..Len(g.data) /\ g.screen[i].tr = tr
        /\ Sound(g) /\ g.cur \in Position /\ Len(g.data) \in Nat /\ MaxRows \in Nat
        /\ g.screen[i].code \in Codes /\ c.tr = tr /\ c.col = "code" /\ c.old = g.screen[i].code
    <2>1. Sound(g) /\ i \in 1..Len(g.data) /\ g.screen[i].tr = tr
      BY RowOfOnScreen DEF AtElement, Ready, Good, Whole
    <2> QED
      BY <2>1, SoundFacts, RowsAssumption DEF AtElement, Sound, Form
  <1>2. [Refilled(g, i, new) EXCEPT !.dirty = TRUE] = Back(y, c)
    BY DEF Refilled, Back, BaseOf, CutTo
  <1> HIDE DEF c
  <1>3. /\ Ready(b, k) /\ Len(b.data) = i + 1 /\ b.data[i + 1].code = 0
        /\ \A j \in 1..i : b.data[j] = g.data[j] /\ b.screen[j] = g.screen[j]
    BY <1>1, BaseReady
  <1> HIDE DEF b
  <1>4. i \in 1..Len(b.data) /\ i \in 1..i /\ i \in Nat
    BY <1>1, <1>3
  <1>5. \A a : Absent(g, i, a) => Absent(b, i, a)
    <2>1. \A j \in 1..(i - 1) : j \in 1..i
      BY <1>4
    <2> QED
      BY <1>3, <2>1 DEF Absent
  <1>6. \/ \E a \in OnFile : new = <<a>> /\ Absent(b, i, a)
        \/ \E a1, a2 \in OnFile :
              new = <<a1, a2>> /\ Absent(b, i, a1) /\ Absent(b, i, a2) /\ a1 # a2
    <2>1. \/ \E a \in OnFile : new = <<a>> /\ Absent(g, i, a)
          \/ \E a1, a2 \in OnFile :
                new = <<a1, a2>> /\ Absent(g, i, a1) /\ Absent(g, i, a2) /\ a1 # a2
      BY FreshIs
    <2> QED
      BY <1>5, <2>1
  <1>7. Ready(y, k) /\ \E a \in OnFile : Refills(b, y, i, a)
    BY <1>3, <1>4, <1>6, RefillGood
  <1> HIDE DEF y
  <1>8. PICK a \in OnFile : Refills(b, y, i, a)
    BY <1>7
  <1>9. /\ SameRows(b, y) /\ y.data[i].code = a /\ Len(y.data) = i + 1
        /\ y.screen[i].code = a \/ y.screen[i].code = c.old
    BY <1>1, <1>3, <1>4, <1>8 DEF Refills, SameRows
  <1>10. y.screen[i].tr = c.tr /\ i \in 1..Len(y.data)
    BY <1>1, <1>3, <1>4, <1>9 DEF SameRows
  <1>11. RowOf(y, c.tr) = i /\ OnScreen(y, c.tr)
    BY <1>7, <1>10, RowOfIs DEF Ready, Good, Whole, OnScreen
  <1>12. Ready(h, k) /\ h.dirty = TRUE /\ Len(h.data) = Len(y.data)
    <2>1. c \in Position /\ c.old \in Codes
      BY <1>1 DEF c
    <2>2. y.data[i].code \in OnFile /\ (y.screen[i].code = y.data[i].code \/ y.screen[i].code = c.old)
      BY <1>8, <1>9
    <2> QED
      BY <1>1, <1>7, <1>11, <2>1, <2>2, BackLeft
  <1>13. Len(h.data) <= MaxRows
    BY <1>1, <1>4, <1>9, <1>12
  <1> HIDE DEF h
  <1> QED
    BY <1>2, <1>12, <1>13 DEF h

LEMMA PickedGood ==
  ASSUME NEW g, NEW k, NEW tr, NEW i, AtElement(g, k, tr, i),
         NEW n \in 0..2, NEW codes \in [1..n -> OnFile], IsInjective(codes),
         n > 1 => "replaced" \in k /\ i < MaxRows
  PROVE  LET h == Picked(g, tr, codes) IN
         Good(h, k) /\ Notes(g, h) /\ Len(h.data) <= MaxRows
  <1> DEFINE h == Picked(g, tr, codes)
  <1>1. /\ Ready(g, k) /\ Good(g, k) /\ Len(g.data) <= MaxRows /\ g.dirty \in BOOLEAN
        /\ g.cur.tr # NoTr /\ Notes(g, g) /\ i = RowOf(g, tr)
    <2>1. Sound(g) /\ g.dirty \in BOOLEAN /\ Good(g, k)
      BY DEF AtElement, Ready, Good, Whole, Sound, Form
    <2> QED
      BY <2>1, RowOfOnScreen DEF AtElement, Notes
  <1>2. codes \in Seq(OnFile) /\ Len(codes) = n
    BY ListSeq
  <1>3. CASE n = 0
    <2>1. codes = <<>>
      BY <1>2, <1>3, EmptySeq
    <2>2. h = g
      BY <2>1 DEF Picked
    <2> QED
      BY <1>1, <2>2
  <1>4. CASE n = 1
    <2>1. codes # <<>> /\ Len(codes) = 1 /\ codes[1] \in OnFile
      BY <1>2, <1>4
    <2> DEFINE s == Show(g, tr, "code", codes[1])
    <2>2. h = ValidateUpdate(s)
      BY <2>1 DEF Picked
    <2>3. codes[1] \in Value(g.cur.col) /\ s = Show(g, g.cur.tr, g.cur.col, codes[1])
      BY <2>1, RowsAssumption DEF Value, AtElement
    <2> HIDE DEF s
    <2>4. Good(s, k) /\ SameRows(g, s) /\ s.data = g.data /\ s.dirty = g.dirty
      BY <1>1, <2>3, ShowAtCursorGood
    <2>5. Good(h, k) /\ SameRows(s, h) /\ Notes(s, h)
      BY <2>2, <2>4, ValidateUpdateGood
    <2> HIDE DEF h
    <2>6. Notes(g, h)
      BY <2>4, <2>5 DEF Notes
    <2>7. Len(h.data) = Len(g.data)
      BY <2>4, <2>5 DEF SameRows
    <2> QED
      BY <1>1, <2>5, <2>6, <2>7 DEF h
  <1>5. CASE n = 2
    <2>1. codes # <<>> /\ Len(codes) # 1
      BY <1>2, <1>5
    <2>2. codes \in [1..2 -> OnFile] /\ codes[1] # codes[2]
      BY <1>5 DEF IsInjective
    <2>3. "replaced" \in k /\ i < MaxRows
      BY <1>5
    <2>4. PICK new : new = Fresh(g, i, codes)
      OBVIOUS
    <2>5. CASE new = <<>>
      <3>1. h = g
        BY <1>1, <2>1, <2>4, <2>5 DEF Picked
      <3> QED
        BY <1>1, <3>1
    <2>6. CASE new # <<>>
      <3> DEFINE l == LeftTable([Refilled(g, i, new) EXCEPT !.dirty = TRUE])
      <3>1. h = l
        BY <1>1, <2>1, <2>4, <2>6 DEF Picked
      <3>2. Ready(l, k) /\ l.dirty = TRUE /\ Len(l.data) <= MaxRows
        BY <2>2, <2>3, <2>4, <2>6, ReplacedGood
      <3> HIDE DEF l, h
      <3> QED
        BY <3>1, <3>2 DEF Ready, Notes, h
    <2> QED
      BY <2>5, <2>6
  <1>6. n = 0 \/ n = 1 \/ n = 2
    OBVIOUS
  <1> QED
    BY <1>3, <1>4, <1>5, <1>6

\* The form that a popup is opened on: nothing waits to be validated, unless the
\* value that is adopted.
LEMMA PopupOn ==
  ASSUME IInv, NEW kinds, NEW i \in 1..Len(form.data), NEW f,
         LET here == form.cur.tr = form.screen[i].tr /\ form.cur.col = "code" IN
         /\ here \/ ValidateOk(form)
         /\ f = IF here THEN form ELSE ValidateUpdate(form)
         /\ here /\ Changed(form) => "adopted" \in kinds
  PROVE  /\ Ready(f, past.kinds \cup kinds) /\ SameRows(form, f) /\ Notes(form, f)
  <1> DEFINE here == form.cur.tr = form.screen[i].tr /\ form.cur.col = "code"
             k == past.kinds \cup kinds
  <1>1. CASE here
    <2>1. f = form /\ (Changed(form) => "adopted" \in k)
      BY <1>1
    <2>2. Good(form, k)
      <3>1. past.kinds \subseteq k
        OBVIOUS
      <3> HIDE DEF k
      <3> QED
        BY <3>1, FormFacts, MoreKinds
    <2> HIDE DEF k
    <2>3. "adopted" \in k \/ AllShown(form)
      <3>1. SUFFICES ASSUME "adopted" \notin k PROVE AllShown(form)
        OBVIOUS
      <3>2. ~Changed(form) /\ Whole(form) /\ Shows(form) /\ OldIsStored(form)
        BY <2>1, <2>2, <3>1 DEF Good, Promises
      <3> QED
        BY <3>2, NothingChanged
    <2>4. SameRows(form, form) /\ Notes(form, form)
      BY FormFacts DEF SameRows, Notes
    <2> QED
      BY <2>1, <2>2, <2>3, <2>4 DEF Ready, k
  <1>2. CASE ~here
    <2>1. f = ValidateUpdate(form) /\ ValidateOk(form)
      BY <1>2
    <2>2. Ready(f, past.kinds) /\ SameRows(form, f) /\ Notes(form, f)
      BY <2>1, FormFacts, ValidateUpdateGood
    <2>3. past.kinds \subseteq k
      OBVIOUS
    <2> HIDE DEF k
    <2>4. Ready(f, k)
      BY <2>2, <2>3, MoreReady
    <2> QED
      BY <2>2, <2>4 DEF k
  <1> QED
    BY <1>1, <1>2

LEMMA PopupPicks ==
  ASSUME NEW f, NEW k, Ready(f, k), Len(f.data) <= MaxRows, NEW i \in 1..Len(f.data),
         NEW tr, tr = f.screen[i].tr,
         NEW n \in 0..2, NEW codes \in [1..n -> OnFile], IsInjective(codes),
         n > 1 => "replaced" \in k /\ i < MaxRows
  PROVE  LET h == Picked(SetPrevious(f, tr, "code"), tr, codes) IN
         Good(h, k) /\ Notes(f, h) /\ Len(h.data) <= MaxRows
  <1> DEFINE g == SetPrevious(f, tr, "code")
             h == Picked(g, tr, codes)
  <1>1. Sound(f) /\ f \in Form /\ f.dirty \in BOOLEAN /\ "code" \in Col
    BY DEF Ready, Good, Whole, Sound, Form, Col
  <1>2. OnScreen(f, tr) /\ RowOf(f, tr) = i
    BY <1>1, RowOfIs DEF OnScreen
  <1>3. /\ Ready(g, k) /\ SameTable(f, g) /\ g.cur.tr = tr /\ g.cur.col = "code"
        /\ g.screen = f.screen /\ g.dirty = f.dirty
    BY <1>1, <1>2, SetPreviousReady
  <1>4. g.cur.old = g.screen[i].code
    BY <1>2, <1>3 DEF SetPrevious, Shown
  <1> HIDE DEF g
  <1>5. OnScreen(g, tr) /\ RowOf(g, tr) = i /\ Len(g.data) = Len(f.data) /\ g.data = f.data
    BY <1>2, <1>3 DEF SameTable, SameRows, OnScreen, RowOf
  <1>6. AtElement(g, k, tr, i)
    BY <1>3, <1>4, <1>5 DEF AtElement
  <1>7. Good(h, k) /\ Notes(g, h) /\ Len(h.data) <= MaxRows
    BY <1>6, PickedGood
  <1> HIDE DEF h
  <1>8. Notes(f, h)
    BY <1>3, <1>5, <1>7 DEF Notes
  <1> QED
    BY <1>7, <1>8 DEF h, g

LEMMA PopupKeeps ==
  ASSUME IInv, Popup
  PROVE  IInv'
  <1>1. PICK i \in DOMAIN form.screen, codes \in UNION {[1..n -> OnFile] : n \in 0..2} :
          LET tr == form.screen[i].tr
              here == form.cur.tr = tr /\ form.cur.col = "code"
              f == IF here THEN form ELSE ValidateUpdate(form)
              left == IF here \/ ValidateOk(form)
                      THEN Picked(SetPrevious(f, tr, "code"), tr, codes) ELSE f
          IN /\ ~form.screen[i].hidden /\ IsInjective(codes)
             /\ Len(codes) > 1 => i < MaxRows
             /\ LeavesAs((IF here /\ Changed(form) THEN {"adopted"} ELSE {})
                           \cup (IF Len(codes) > 1 THEN {"replaced"} ELSE {}), left)
    BY DEF Popup
  <1>2. PICK n \in 0..2 : codes \in [1..n -> OnFile]
    OBVIOUS
  <1>3. n \in Nat /\ Len(codes) = n
    BY <1>2, ListSeq
  <1> DEFINE tr == form.screen[i].tr
             here == form.cur.tr = tr /\ form.cur.col = "code"
             f == IF here THEN form ELSE ValidateUpdate(form)
             left == IF here \/ ValidateOk(form)
                     THEN Picked(SetPrevious(f, tr, "code"), tr, codes) ELSE f
             kinds == (IF here /\ Changed(form) THEN {"adopted"} ELSE {})
                        \cup (IF Len(codes) > 1 THEN {"replaced"} ELSE {})
             k == past.kinds \cup kinds
  <1>4. /\ IsInjective(codes) /\ LeavesAs(kinds, left) /\ (n > 1 => i < MaxRows)
        /\ (n > 1 => "replaced" \in k) /\ (here /\ Changed(form) => "adopted" \in kinds)
        /\ past.kinds \subseteq k /\ k = past.kinds \cup kinds
    BY <1>1, <1>3
  <1> HIDE DEF kinds
  <1>5. i \in 1..Len(form.data)
    BY FormFacts
  <1>6. CASE here \/ ValidateOk(form)
    <2>1. Ready(f, past.kinds \cup kinds) /\ SameRows(form, f) /\ Notes(form, f)
      BY <1>4, <1>5, <1>6, PopupOn
    <2>2. left = Picked(SetPrevious(f, tr, "code"), tr, codes)
      BY <1>6
    <2>3. Ready(f, k) /\ Len(f.data) = Len(form.data) /\ f.screen[i].tr = tr
          /\ Len(f.data) <= MaxRows /\ i \in 1..Len(f.data)
      BY <1>5, <2>1, FormFacts DEF SameRows
    <2> HIDE DEF f, k, tr
    <2> DEFINE h == Picked(SetPrevious(f, tr, "code"), tr, codes)
    <2>4. Good(h, k) /\ Notes(f, h) /\ Len(h.data) <= MaxRows
      BY <1>2, <1>4, <2>3, PopupPicks
    <2> HIDE DEF h
    <2>5. Notes(form, h)
      BY <2>1, <2>4, NotesTransitive
    <2>6. LeavesAs(kinds, h) /\ Good(h, past.kinds \cup kinds)
      BY <1>4, <2>2, <2>4 DEF h
    <2> QED
      BY <2>4, <2>5, <2>6, LeavesAsKeeps
  <1>7. CASE ~(here \/ ValidateOk(form))
    <2> DEFINE g == ValidateUpdate(form)
    <2>1. left = g
      BY <1>7
    <2>2. Good(g, past.kinds) /\ SameRows(form, g) /\ Notes(form, g)
      BY FormFacts, ValidateUpdateGood
    <2> HIDE DEF g, k
    <2>3. Good(g, k) /\ Len(g.data) <= MaxRows
      BY <1>4, <2>2, FormFacts, MoreKinds DEF SameRows
    <2>4. Good(g, past.kinds \cup kinds) /\ LeavesAs(kinds, g)
      BY <1>4, <2>1, <2>3
    <2> QED
      BY <2>2, <2>3, <2>4, LeavesAsKeeps
  <1> QED
    BY <1>6, <1>7
-----------------------------------------------------------------------------
(* Sorting: sorted orders exist, and are permutations.                     *)

Perm(p, n) ==
  n \in Nat /\ p \in [1..n -> 1..n] /\ \A a, b \in 1..n : p[a] = p[b] => a = b

LEMMA PermOnto ==
  ASSUME NEW p, NEW n, Perm(p, n), NEW y \in 1..n
  PROVE  \E a \in 1..n : p[a] = y
  <1>1. SUFFICES ASSUME \A a \in 1..n : p[a] # y PROVE FALSE
    OBVIOUS
  <1> DEFINE S == 1..n
             T == S \ {y}
  <1>2. n \in Nat /\ n > 0
    BY DEF Perm
  <1>3. IsFiniteSet(S) /\ Cardinality(S) = n
    BY <1>2, FS_Interval
  <1>4. IsFiniteSet(T) /\ Cardinality(T) = n - 1
    <2> HIDE DEF S
    <2>1. y \in S
      BY DEF S
    <2> QED
      BY <1>3, <2>1, FS_RemoveElement
  <1>5. p \in [S -> T]
    BY <1>1 DEF Perm
  <1>6. Cardinality(T) < Cardinality(S)
    BY <1>2, <1>3, <1>4
  <1> HIDE DEF T, S
  <1>7. \E a, b \in S : a # b /\ p[a] = p[b]
    BY <1>3, <1>4, <1>5, <1>6, FS_PigeonHole
  <1> QED
    BY <1>7 DEF Perm, S

\* Row a comes before row b: by its value v[a], then by its place.
Goes(v, a, b) == v[a] < v[b] \/ (v[a] = v[b] /\ a < b)

InTurn(v, g, k) ==
  g \in [1..k -> 1..k] /\ \A i, j \in 1..k : i < j => Goes(v, g[i], g[j])

\* One more row is put where it goes among the first k.
LEMMA InTurnOneMore ==
  ASSUME NEW k \in Nat, NEW v, \A a \in 1..(k + 1) : v[a] \in Nat, NEW g, InTurn(v, g, k)
  PROVE  \E h : InTurn(v, h, k + 1)
  <1> DEFINE P == {i \in 1..k : Goes(v, k + 1, g[i])} \cup {k + 1}
  <1>1. P \subseteq Nat /\ P # {}
    OBVIOUS
  <1> HIDE DEF P
  <1>2. PICK m \in P : \A i \in P : m <= i
    BY <1>1, LeastNumber
  <1> USE DEF P
  <1>3. m \in 1..(k + 1)
    OBVIOUS
  <1> DEFINE h == [i \in 1..(k + 1) |-> IF i < m THEN g[i] ELSE IF i = m THEN k + 1 ELSE g[i - 1]]
  <1>4. \A i \in 1..k : g[i] \in 1..k /\ g[i] \in 1..(k + 1) /\ v[g[i]] \in Nat
    BY DEF InTurn
  <1>5. v[k + 1] \in Nat
    OBVIOUS
  <1>6. ASSUME NEW i \in 1..k, i < m PROVE Goes(v, g[i], k + 1)
    <2>1. i \notin P
      BY <1>2, <1>3, <1>6
    <2>2. ~Goes(v, k + 1, g[i])
      BY <2>1
    <2> QED
      BY <1>4, <1>5, <2>2 DEF Goes
  <1>7. ASSUME NEW i \in 1..k, m <= i PROVE Goes(v, k + 1, g[i])
    <2>1. m \in 1..k /\ Goes(v, k + 1, g[m])
      BY <1>3, <1>7
    <2>2. m = i \/ Goes(v, g[m], g[i])
      BY <1>7, <2>1 DEF InTurn
    <2>3. v[g[m]] \in Nat /\ v[g[i]] \in Nat /\ g[m] \in Nat /\ g[i] \in Nat
      BY <1>4, <2>1
    <2> QED
      BY <1>5, <2>1, <2>2, <2>3 DEF Goes
  <1> HIDE DEF P
  <1>8. h \in [1..(k + 1) -> 1..(k + 1)]
    <2>1. ASSUME NEW i \in 1..(k + 1)
          PROVE  (IF i < m THEN g[i] ELSE IF i = m THEN k + 1 ELSE g[i - 1]) \in 1..(k + 1)
      <3>1. i < m => i \in 1..k
        BY <1>3
      <3>2. i > m => i - 1 \in 1..k
        BY <1>3
      <3> QED
        BY <1>3, <1>4, <3>1, <3>2
    <2> QED
      BY <2>1
  <1>9. ASSUME NEW i \in 1..(k + 1), NEW j \in 1..(k + 1), i < j PROVE Goes(v, h[i], h[j])
    <2>1. CASE j < m
      <3>1. i \in 1..k /\ j \in 1..k /\ h[i] = g[i] /\ h[j] = g[j]
        BY <1>3, <1>9, <2>1
      <3> QED
        BY <1>9, <3>1 DEF InTurn
    <2>2. CASE j = m
      <3>1. i \in 1..k /\ i < m /\ h[i] = g[i] /\ h[j] = k + 1
        BY <1>3, <1>9, <2>2
      <3> QED
        BY <1>6, <3>1
    <2>3. CASE j > m /\ i < m
      <3>1. i \in 1..k /\ j - 1 \in 1..k /\ h[i] = g[i] /\ h[j] = g[j - 1] /\ i < j - 1
        BY <1>3, <1>9, <2>3
      <3> QED
        BY <3>1 DEF InTurn
    <2>4. CASE j > m /\ i = m
      <3>1. j - 1 \in 1..k /\ h[i] = k + 1 /\ h[j] = g[j - 1] /\ m <= j - 1
        BY <1>3, <1>9, <2>4
      <3> QED
        BY <1>7, <3>1
    <2>5. CASE j > m /\ i > m
      <3>1. i - 1 \in 1..k /\ j - 1 \in 1..k /\ h[i] = g[i - 1] /\ h[j] = g[j - 1] /\ i - 1 < j - 1
        BY <1>3, <1>9, <2>5
      <3> QED
        BY <3>1 DEF InTurn
    <2> QED
      BY <1>3, <2>1, <2>2, <2>3, <2>4, <2>5
  <1> HIDE DEF h
  <1>10. InTurn(v, h, k + 1)
    BY <1>8, <1>9 DEF InTurn
  <1> QED
    BY <1>10

LEMMA InTurnExists ==
  ASSUME NEW n \in Nat, NEW v, \A a \in 1..n : v[a] \in Nat
  PROVE  \E g : InTurn(v, g, n)
  <1> DEFINE B == {k \in 0..n : \E g : InTurn(v, g, k)}
  <1>1. 0 \in B
    <2>1. InTurn(v, <<>>, 0)
      BY DEF InTurn
    <2> QED
      BY <2>1
  <1>2. ASSUME NEW k \in 0..(n - 1), k \in B PROVE k + 1 \in B
    <2>1. PICK g : InTurn(v, g, k)
      BY <1>2
    <2>2. k \in Nat /\ k + 1 \in 0..n /\ \A a \in 1..(k + 1) : v[a] \in Nat
      OBVIOUS
    <2>3. \E h : InTurn(v, h, k + 1)
      BY <2>1, <2>2, InTurnOneMore
    <2> QED
      BY <2>2, <2>3
  <1>3. n \in 0..n
    OBVIOUS
  <1> HIDE DEF B
  <1>4. n \in B
    BY <1>1, <1>2, <1>3, UpTo
  <1> QED
    BY <1>4 DEF B

LEMMA SortOrderPerm ==
  ASSUME NEW f, Sound(f), NEW col \in Col, NEW descending \in BOOLEAN
  PROVE  Perm(SortOrder(f, col, descending), Len(f.data))
  <1> DEFINE n == Len(f.data)
             v == [a \in 1..n |-> f.data[a][col]]
             Up(order) == \A i, j \in DOMAIN f.data : i < j => Before(f, col, order[i], order[j])
             up == CHOOSE order \in [DOMAIN f.data -> DOMAIN f.data] : Up(order)
  <1>1. n \in Nat /\ DOMAIN f.data = 1..n
    BY SoundFacts
  <1>2. \A a \in 1..n : v[a] \in Nat /\ v[a] = f.data[a][col]
    BY SoundFacts DEF Col
  <1>3. \A a, b \in 1..n : Before(f, col, a, b) <=> Goes(v, a, b)
    BY <1>2 DEF Before, Goes
  <1> HIDE DEF v
  <1> HIDE DEF n
  <1>4. PICK g : InTurn(v, g, n)
    BY <1>1, <1>2, InTurnExists
  <1>5. g \in [1..n -> 1..n] /\ Up(g)
    BY <1>1, <1>3, <1>4 DEF InTurn
  <1>6. up \in [1..n -> 1..n] /\ Up(up)
    BY <1>1, <1>5
  <1> HIDE DEF up
  <1>7. Perm(up, n)
    <2>1. \A i, j \in 1..n : i < j => Goes(v, up[i], up[j])
      BY <1>1, <1>3, <1>6
    <2>2. ASSUME NEW i \in 1..n, NEW j \in 1..n, i < j PROVE up[i] # up[j]
      <3>1. Goes(v, up[i], up[j]) /\ up[i] \in Nat /\ v[up[i]] \in Nat
        BY <1>2, <1>6, <2>1, <2>2
      <3> QED
        BY <3>1 DEF Goes
    <2>3. ASSUME NEW i \in 1..n, NEW j \in 1..n, up[i] = up[j] PROVE i = j
      BY <1>1, <2>2, <2>3
    <2> QED
      BY <1>1, <1>6, <2>3 DEF Perm
  <1>8. Perm(Reverse(up), n)
    <2>1. Len(up) = n
      BY <1>1, <1>6, ListSeq
    <2>2. Reverse(up) = [i \in 1..n |-> up[(n - i) + 1]]
      BY <2>1 DEF Reverse
    <2>3. \A i \in 1..n : (n - i) + 1 \in 1..n
      BY <1>1
    <2>4. PICK r : r = Reverse(up)
      OBVIOUS
    <2>5. r \in [1..n -> 1..n] /\ \A i \in 1..n : r[i] = up[(n - i) + 1]
      BY <1>6, <2>2, <2>3, <2>4
    <2>6. ASSUME NEW i \in 1..n, NEW j \in 1..n, r[i] = r[j] PROVE i = j
      <3>1. (n - i) + 1 = (n - j) + 1
        BY <1>7, <2>3, <2>5, <2>6 DEF Perm
      <3> QED
        BY <1>1, <3>1
    <2> QED
      BY <1>1, <2>4, <2>5, <2>6 DEF Perm
  <1>9. SortOrder(f, col, descending) = IF descending THEN Reverse(up) ELSE up
    BY DEF SortOrder, up
  <1> QED
    BY <1>7, <1>8, <1>9 DEF n

\* The total of rows does not depend on their order.
Reordered(rows, others, p, n) ==
  /\ Perm(p, n) /\ DOMAIN rows = 1..n /\ DOMAIN others = 1..n
  /\ \A k \in 1..n : rows[k].amount \in Nat /\ others[k].amount = rows[p[k]].amount

\* Place q, that has the last row, is left out.
LEMMA ReorderedLess ==
  ASSUME NEW rows, NEW others, NEW p, NEW n \in Nat, Reordered(rows, others, p, n + 1),
         NEW q \in 1..(n + 1), p[q] = n + 1
  PROVE  \E less, rest, r :
           /\ Reordered(less, rest, r, n)
           /\ OneMore(less, rows, n, n + 1) /\ OneMore(rest, others, n, q)
  <1> DEFINE At(k) == IF k < q THEN k ELSE k + 1
             less == [k \in 1..n |-> rows[k]]
             rest == [k \in 1..n |-> others[At(k)]]
             r == [k \in 1..n |-> p[At(k)]]
  <1>1. /\ p \in [1..(n + 1) -> 1..(n + 1)]
        /\ \A a, b \in 1..(n + 1) : p[a] = p[b] => a = b
        /\ DOMAIN rows = 1..(n + 1) /\ DOMAIN others = 1..(n + 1)
        /\ \A k \in 1..(n + 1) : rows[k].amount \in Nat /\ others[k].amount = rows[p[k]].amount
    BY DEF Reordered, Perm
  <1>2. \A k \in 1..n : At(k) \in 1..(n + 1) /\ At(k) # q /\ k \in 1..(n + 1)
    OBVIOUS
  <1>3. \A a, b \in 1..n : At(a) = At(b) => a = b
    OBVIOUS
  <1> HIDE DEF At
  <1>4. \A k \in 1..n : p[At(k)] \in 1..(n + 1) /\ p[At(k)] # n + 1
    BY <1>1, <1>2
  <1>5. \A k \in 1..n : p[At(k)] \in 1..n
    BY <1>4
  <1>6. r \in [1..n -> 1..n] /\ \A k \in 1..n : r[k] = p[At(k)]
    BY <1>5
  <1>7. \A a, b \in 1..n : r[a] = r[b] => a = b
    BY <1>1, <1>2, <1>3, <1>6
  <1>8. Perm(r, n)
    BY <1>6, <1>7 DEF Perm
  <1>9. DOMAIN less = 1..n /\ DOMAIN rest = 1..n
        /\ \A k \in 1..n : less[k] = rows[k] /\ rest[k] = others[At(k)]
    OBVIOUS
  <1> HIDE DEF less, rest, r
  <1>10. ASSUME NEW k \in 1..n
         PROVE  less[k].amount \in Nat /\ rest[k].amount = less[r[k]].amount
                /\ rest[k].amount \in Nat
    <2>1. less[k].amount \in Nat
      BY <1>1, <1>2, <1>9
    <2>2. r[k] \in 1..n /\ r[k] = p[At(k)] /\ At(k) \in 1..(n + 1)
      BY <1>2, <1>6
    <2>3. rest[k].amount = rows[p[At(k)]].amount /\ less[r[k]].amount = rows[p[At(k)]].amount
      BY <1>1, <1>9, <2>2
    <2>4. rows[p[At(k)]].amount \in Nat
      BY <1>1, <2>2
    <2> QED
      BY <2>1, <2>3, <2>4
  <1>11. Reordered(less, rest, r, n)
    BY <1>8, <1>9, <1>10 DEF Reordered
  <1>12. \A k \in 1..(n + 1) : others[k].amount \in Nat
    BY <1>1
  <1>13. OneMore(less, rows, n, n + 1)
    <2>1. \A k \in 1..n : k < n + 1 => rows[k].amount = less[k].amount
      BY <1>9
    <2>2. \A k \in 1..n : k >= n + 1 => rows[k + 1].amount = less[k].amount
      OBVIOUS
    <2>3. n + 1 \in 1..(n + 1)
      OBVIOUS
    <2> QED
      BY <1>1, <1>9, <1>10, <2>1, <2>2, <2>3 DEF OneMore
  <1>14. OneMore(rest, others, n, q)
    <2>1. ASSUME NEW k \in 1..n, k < q PROVE others[k].amount = rest[k].amount
      BY <1>9, <2>1 DEF At
    <2>2. ASSUME NEW k \in 1..n, k >= q PROVE others[k + 1].amount = rest[k].amount
      <3>1. At(k) = k + 1
        BY <2>2 DEF At
      <3> QED
        BY <1>9, <3>1
    <2> QED
      BY <1>1, <1>9, <1>10, <1>12, <2>1, <2>2 DEF OneMore
  <1> QED
    BY <1>11, <1>13, <1>14

LEMMA TotalReordered ==
  ASSUME NEW n \in Nat, NEW rows, NEW others, NEW p, Reordered(rows, others, p, n)
  PROVE  Total(others) = Total(rows)
  <1> DEFINE B == {k \in 0..n : \A x, y, r : Reordered(x, y, r, k) => Total(y) = Total(x)}
  <1>1. 0 \in B
    <2>1. ASSUME NEW x, NEW y, NEW r, Reordered(x, y, r, 0) PROVE Total(y) = Total(x)
      <3>1. PICK m \in Nat : m = 0
        OBVIOUS
      <3>2. DOMAIN x = 1..m /\ DOMAIN y = 1..m /\ \A k \in 1..m : x[k].amount = y[k].amount
        BY <2>1, <3>1 DEF Reordered
      <3> QED
        BY <3>2, TotalSame
    <2> QED
      BY <2>1
  <1>2. ASSUME NEW k \in 0..(n - 1), k \in B PROVE k + 1 \in B
    <2>1. k \in Nat /\ k + 1 \in 0..n
      OBVIOUS
    <2>2. ASSUME NEW x, NEW y, NEW r, Reordered(x, y, r, k + 1) PROVE Total(y) = Total(x)
      <3>1. Perm(r, k + 1) /\ k + 1 \in 1..(k + 1)
        BY <2>1, <2>2 DEF Reordered
      <3>2. PICK q \in 1..(k + 1) : r[q] = k + 1
        BY <3>1, PermOnto
      <3>3. PICK less, rest, s : /\ Reordered(less, rest, s, k)
                                 /\ OneMore(less, x, k, k + 1) /\ OneMore(rest, y, k, q)
        BY <2>1, <2>2, <3>2, ReorderedLess
      <3>4. Total(rest) = Total(less)
        BY <1>2, <3>3
      <3>5. Total(x) = Total(less) + x[k + 1].amount
        BY <3>3, TotalOneMore
      <3>6. Total(y) = Total(rest) + y[q].amount
        BY <3>3, TotalOneMore
      <3>7. y[q].amount = x[k + 1].amount
        BY <2>2, <3>2 DEF Reordered
      <3> QED
        BY <3>4, <3>5, <3>6, <3>7
    <2> QED
      BY <2>1, <2>2
  <1>3. n \in 0..n
    OBVIOUS
  <1> HIDE DEF B
  <1>4. n \in B
    BY <1>1, <1>2, <1>3, UpTo
  <1> QED
    BY <1>4 DEF B

-----------------------------------------------------------------------------
(* The TRs are swapped into the order of the data rows.                    *)

\* The first k places have their TRs, and a TR that is where it goes has not
\* been moved.
SwappedBy(f, order, n, rows, k, p) ==
  /\ Perm(p, n) /\ rows = [j \in 1..n |-> f.screen[p[j]]]
  /\ \A j \in 1..n : (j <= k \/ order[j] = j) => p[j] = order[j]

Swapped(f, order, n, rows, k) == \E p : SwappedBy(f, order, n, rows, k, p)

LEMMA SwapOne ==
  ASSUME NEW f, Sound(f), NEW order, Perm(order, Len(f.data)), NEW k \in Nat,
         k + 1 \in 1..Len(f.data), NEW rows, Swapped(f, order, Len(f.data), rows, k)
  PROVE  Swapped(f, order, Len(f.data), SwapRow(f, order, rows, k + 1), k + 1)
  <1> DEFINE n == Len(f.data)
             m == k + 1
             q == CHOOSE q \in DOMAIN rows : rows[q] = f.screen[order[m]]
             new == SwapRow(f, order, rows, m)
  <1>1. n \in Nat /\ m \in 1..n /\ m \in Nat
    BY SoundFacts
  <1>12. PICK p : SwappedBy(f, order, n, rows, k, p)
    BY DEF Swapped
  <1>2. /\ Perm(p, n) /\ rows = [j \in 1..n |-> f.screen[p[j]]]
        /\ \A j \in 1..n : (j <= k \/ order[j] = j) => p[j] = order[j]
    BY <1>12 DEF SwappedBy
  <1>3. /\ p \in [1..n -> 1..n] /\ \A a, b \in 1..n : p[a] = p[b] => a = b
        /\ order \in [1..n -> 1..n] /\ \A a, b \in 1..n : order[a] = order[b] => a = b
    BY <1>2 DEF Perm
  <1>4. ASSUME NEW a \in 1..n, NEW b \in 1..n, f.screen[a] = f.screen[b] PROVE a = b
    BY <1>4 DEF Sound
  <1>5. DOMAIN rows = 1..n /\ \A j \in 1..n : rows[j] = f.screen[p[j]]
    BY <1>2
  <1>6. new = IF m = order[m] THEN rows ELSE [rows EXCEPT ![m] = rows[q], ![q] = rows[m]]
    BY DEF SwapRow
  <1> HIDE DEF new, m, n
  <1>7. CASE order[m] = m
    <2>1. new = rows
      BY <1>6, <1>7
    <2>2. \A j \in 1..n : (j <= m \/ order[j] = j) => p[j] = order[j]
      <3>1. \A j \in 1..n : j <= m => j <= k \/ j = m
        BY <1>1 DEF m
      <3> QED
        BY <1>2, <1>7, <3>1
    <2>3. SwappedBy(f, order, n, new, m, p)
      BY <1>2, <2>1, <2>2 DEF SwappedBy
    <2> QED
      BY <2>3 DEF Swapped, new, m, n
  <1>8. CASE order[m] # m
    <2>1. order[m] \in 1..n
      BY <1>1, <1>3
    <2>2. PICK a \in 1..n : p[a] = order[m]
      BY <1>2, <2>1, PermOnto
    <2>3. q \in 1..n /\ rows[q] = f.screen[order[m]]
      BY <1>5, <2>2
    <2> HIDE DEF q
    <2>4. p[q] = order[m]
      <3>1. p[q] \in 1..n /\ f.screen[p[q]] = f.screen[order[m]]
        BY <1>3, <1>5, <2>3
      <3> QED
        BY <1>4, <2>1, <3>1
    <2>5. ASSUME NEW j \in 1..n, j <= k \/ order[j] = j PROVE j # m /\ j # q
      <3>1. p[j] = order[j]
        BY <1>2, <2>5
      <3>2. j # m
        BY <1>1, <1>8, <2>5 DEF m
      <3> QED
        BY <1>1, <1>3, <2>4, <3>1, <3>2
    <2> DEFINE r == [j \in 1..n |-> IF j = q THEN p[m] ELSE IF j = m THEN p[q] ELSE p[j]]
    <2>6. r \in [1..n -> 1..n]
      BY <1>1, <1>3, <2>3
    <2>7. /\ r[q] = p[m] /\ (q # m => r[m] = p[q])
          /\ \A j \in 1..n : j # m /\ j # q => r[j] = p[j]
      BY <1>1, <2>3
    <2>8. r[m] = p[q]
      BY <2>7
    <2> HIDE DEF r
    <2>9. ASSUME NEW i \in 1..n, NEW j \in 1..n, r[i] = r[j] PROVE i = j
      <3>1. \A x \in 1..n : r[x] = IF x = q THEN p[m] ELSE IF x = m THEN p[q] ELSE p[x]
        BY <2>7, <2>8
      <3>2. m \in 1..n /\ q \in 1..n /\ \A x, y \in 1..n : p[x] = p[y] => x = y
        BY <1>1, <1>3, <2>3
      <3>3. CASE i = q
        BY <2>9, <3>1, <3>2, <3>3
      <3>4. CASE i # q /\ i = m
        BY <2>9, <3>1, <3>2, <3>4
      <3>5. CASE i # q /\ i # m
        BY <2>9, <3>1, <3>2, <3>5
      <3> QED
        BY <3>3, <3>4, <3>5
    <2>10. Perm(r, n)
      BY <1>1, <2>6, <2>9 DEF Perm
    <2>11. new = [j \in 1..n |-> f.screen[r[j]]]
      <3>1. new = [rows EXCEPT ![m] = rows[q], ![q] = rows[m]]
        BY <1>6, <1>8
      <3>2. new = [j \in 1..n |-> IF j = q THEN rows[m] ELSE IF j = m THEN rows[q] ELSE rows[j]]
        BY <1>1, <1>5, <2>3, <3>1
      <3>3. \A j \in 1..n : f.screen[r[j]] = IF j = q THEN rows[m] ELSE IF j = m THEN rows[q] ELSE rows[j]
        BY <1>1, <1>5, <2>3, <2>7, <2>8
      <3> QED
        BY <3>2, <3>3
    <2>12. ASSUME NEW j \in 1..n, j <= m \/ order[j] = j PROVE r[j] = order[j]
      <3>1. CASE j = m
        BY <2>4, <2>8, <3>1
      <3>2. CASE j # m
        <4>1. j <= k \/ order[j] = j
          BY <1>1, <2>12, <3>2 DEF m
        <4>2. j # q /\ p[j] = order[j]
          BY <1>2, <2>5, <4>1
        <4> QED
          BY <2>7, <3>2, <4>2
      <3> QED
        BY <3>1, <3>2
    <2>13. SwappedBy(f, order, n, new, m, r)
      BY <2>10, <2>11, <2>12 DEF SwappedBy
    <2> QED
      BY <2>13 DEF Swapped, new, m, n
  <1> QED
    BY <1>7, <1>8

LEMMA SwapRowsIs ==
  ASSUME NEW f, Sound(f), NEW order, Perm(order, Len(f.data))
  PROVE  SwapRows(f, order) = [j \in 1..Len(f.data) |-> f.screen[order[j]]]
  <1> DEFINE n == Len(f.data)
  <1>1. n \in Nat /\ DOMAIN f.screen = 1..n /\ f.screen \in Seq(ScreenRow)
    BY SoundFacts DEF Sound, Form
  <1>9. PICK g : SwapSteps(f, order, n, g)
    BY <1>1, SwapTrace
  <1>2. /\ g[0] = f.screen
        /\ \A k \in 1..n : g[k] = SwapRow(f, order, g[k - 1], k)
        /\ SwapRows(f, order) = g[n]
    BY <1>9 DEF SwapSteps
  <1> DEFINE B == {k \in 0..n : Swapped(f, order, n, g[k], k)}
  <1>3. 0 \in B
    <2> DEFINE p == [j \in 1..n |-> IF order[j] = j THEN order[j] ELSE j]
    <2>1. p = [j \in 1..n |-> j] /\ p \in [1..n -> 1..n]
      OBVIOUS
    <2>2. Perm(p, n)
      BY <1>1, <2>1 DEF Perm
    <2>3. f.screen = [j \in 1..n |-> f.screen[p[j]]]
      <3>1. \A j \in 1..n : p[j] = j
        BY <2>1
      <3>2. f.screen \in [1..n -> ScreenRow]
        BY <1>1
      <3> HIDE DEF p
      <3> QED
        BY <3>1, <3>2
    <2>4. \A j \in 1..n : (j <= 0 \/ order[j] = j) => p[j] = order[j]
      OBVIOUS
    <2> HIDE DEF p
    <2>6. SwappedBy(f, order, n, g[0], 0, p)
      BY <1>2, <2>2, <2>3, <2>4 DEF SwappedBy
    <2>5. Swapped(f, order, n, g[0], 0)
      BY <2>6 DEF Swapped
    <2> QED
      BY <1>1, <2>5
  <1>4. ASSUME NEW k \in 0..(n - 1), k \in B PROVE k + 1 \in B
    <2>1. k \in Nat /\ k + 1 \in 1..n /\ k + 1 \in 0..n /\ (k + 1) - 1 = k
      BY <1>1
    <2>2. Swapped(f, order, n, g[k], k)
      BY <1>4
    <2>3. Swapped(f, order, n, SwapRow(f, order, g[k], k + 1), k + 1)
      BY <2>1, <2>2, SwapOne
    <2>4. g[k + 1] = SwapRow(f, order, g[k], k + 1)
      BY <1>2, <2>1
    <2> QED
      BY <2>1, <2>3, <2>4
  <1>5. n \in 0..n
    BY <1>1
  <1> HIDE DEF B
  <1>6. n \in B
    BY <1>1, <1>3, <1>4, <1>5, UpTo
  <1>7. PICK p : /\ g[n] = [j \in 1..n |-> f.screen[p[j]]]
                 /\ \A j \in 1..n : (j <= n \/ order[j] = j) => p[j] = order[j]
    BY <1>6 DEF B, Swapped, SwappedBy
  <1>8. \A j \in 1..n : p[j] = order[j]
    BY <1>1, <1>7
  <1> QED
    BY <1>2, <1>7, <1>8

\* g has the rows of f in another order.
Reorders(f, g, p) ==
  /\ Perm(p, Len(f.data))
  /\ g = [f EXCEPT !.data = [j \in 1..Len(f.data) |-> f.data[p[j]]],
                   !.screen = [j \in 1..Len(f.data) |-> f.screen[p[j]]]]

LEMMA ReordersWhole ==
  ASSUME NEW f, Whole(f), NEW g, NEW p, Reorders(f, g, p)
  PROVE  /\ Whole(g) /\ Len(g.data) = Len(f.data)
         /\ \A j \in 1..Len(f.data) :
              p[j] \in 1..Len(f.data) /\ g.data[j] = f.data[p[j]] /\ g.screen[j] = f.screen[p[j]]
         /\ g.cur = f.cur /\ g.dirty = f.dirty /\ g.total = f.total
  <1> DEFINE n == Len(f.data)
             d == [j \in 1..n |-> f.data[p[j]]]
             s == [j \in 1..n |-> f.screen[p[j]]]
  <1>1. Sound(f) /\ n \in Nat /\ \A k \in 1..n : f.data[k] \in DataRow /\ f.screen[k] \in ScreenRow
    BY SoundFacts DEF Whole
  <1>2. p \in [1..n -> 1..n] /\ \A a, b \in 1..n : p[a] = p[b] => a = b
    BY DEF Reorders, Perm
  <1>3. \A j \in 1..n : p[j] \in 1..n /\ d[j] = f.data[p[j]] /\ s[j] = f.screen[p[j]]
    BY <1>2
  <1>4. d \in [1..n -> DataRow] /\ s \in [1..n -> ScreenRow]
    BY <1>1, <1>2
  <1>5. g = [f EXCEPT !.data = d, !.screen = s]
    BY DEF Reorders
  <1> HIDE DEF d, s
  <1>6. d \in Seq(DataRow) /\ Len(d) = n /\ s \in Seq(ScreenRow) /\ Len(s) = n
    BY <1>1, <1>4, ListSeq
  <1>7. /\ g \in Form /\ g.data = d /\ g.screen = s /\ g.cur = f.cur /\ g.first = f.first
        /\ g.dirty = f.dirty /\ g.total = f.total
    BY <1>1, <1>5, <1>6 DEF Sound, Form
  <1>8. ASSUME NEW i \in 1..n PROVE d[i].tr = s[i].tr
    BY <1>1, <1>3, SoundFacts
  <1>9. ASSUME NEW i \in 1..n, NEW j \in 1..n, s[i].tr = s[j].tr PROVE i = j
    <2>1. p[i] = p[j]
      <3>1. f.screen[p[i]].tr = f.screen[p[j]].tr /\ p[i] \in 1..n /\ p[j] \in 1..n
        BY <1>3, <1>9
      <3> QED
        BY <1>1, <3>1 DEF Sound
    <2> QED
      BY <1>2, <2>1
  <1>10. Sound(g)
    BY <1>1, <1>6, <1>7, <1>8, <1>9 DEF Sound
  <1>11. ASSUME NEW tr, OnScreen(f, tr) PROVE OnScreen(g, tr)
    <2>1. PICK i \in 1..n : f.screen[i].tr = tr
      BY <1>11 DEF OnScreen
    <2>2. PICK j \in 1..n : p[j] = i
      BY <2>1, PermOnto DEF Reorders
    <2> QED
      BY <1>3, <1>6, <1>7, <2>1, <2>2 DEF OnScreen
  <1>12. Whole(g)
    BY <1>7, <1>10, <1>11 DEF Whole
  <1> QED
    BY <1>3, <1>6, <1>7, <1>12

LEMMA ReordersRules ==
  ASSUME NEW f, Whole(f), NEW g, NEW p, Reorders(f, g, p)
  PROVE  /\ UniqueCodes(f.data) => UniqueCodes(g.data)
         /\ Complete(f.data) => Complete(g.data)
         /\ Content(g.data) = Content(f.data)
         /\ Total(g.data) = Total(f.data)
  <1> DEFINE n == Len(f.data)
             q == [k \in 1..n |-> CHOOSE j \in 1..n : p[j] = k]
  <1>1. /\ Whole(g) /\ Len(g.data) = n
        /\ \A j \in 1..n : p[j] \in 1..n /\ g.data[j] = f.data[p[j]]
    BY ReordersWhole
  <1>2. n \in Nat /\ DOMAIN f.data = 1..n /\ DOMAIN g.data = 1..n
        /\ \A j \in 1..n : f.data[j].amount \in Nat
    BY <1>1, SoundFacts DEF Whole
  <1>3. Perm(p, n) /\ \A a, b \in 1..n : p[a] = p[b] => a = b
    BY DEF Reorders, Perm
  <1> HIDE DEF n
  <1>4. From(f.data, g.data, p)
    BY <1>1, <1>2 DEF From
  <1>5. (UniqueCodes(f.data) => UniqueCodes(g.data)) /\ (Complete(f.data) => Complete(g.data))
        /\ Content(g.data) \subseteq Content(f.data)
    BY <1>2, <1>3, <1>4, FromUnique, FromComplete, FromContent
  <1>6. ASSUME NEW k \in 1..n PROVE q[k] \in 1..n /\ p[q[k]] = k
    <2>1. \E j \in 1..n : p[j] = k
      BY <1>3, PermOnto
    <2> QED
      BY <2>1
  <1> HIDE DEF q
  <1>7. From(g.data, f.data, q)
    <2>1. ASSUME NEW k \in 1..n PROVE q[k] \in 1..n /\ f.data[k] = g.data[q[k]]
      BY <1>1, <1>6
    <2> QED
      BY <1>2, <2>1 DEF From
  <1>8. Content(f.data) \subseteq Content(g.data)
    BY <1>7, FromContent
  <1>9. Reordered(f.data, g.data, p, n)
    BY <1>1, <1>2, <1>3 DEF Reordered
  <1>10. Total(g.data) = Total(f.data)
    BY <1>2, <1>9, TotalReordered
  <1> QED
    BY <1>5, <1>8, <1>10

LEMMA ReordersGood ==
  ASSUME NEW f, NEW k, Good(f, k), "sorted" \in k, NEW g, NEW p, Reorders(f, g, p)
  PROVE  Good(g, k)
  <1> DEFINE n == Len(f.data)
  <1>1. Whole(f)
    BY DEF Good
  <1>2. /\ Whole(g) /\ Len(g.data) = n
        /\ \A j \in 1..n : p[j] \in 1..n /\ g.data[j] = f.data[p[j]] /\ g.screen[j] = f.screen[p[j]]
        /\ g.cur = f.cur /\ g.total = f.total
    BY <1>1, ReordersWhole
  <1>3. /\ UniqueCodes(f.data) => UniqueCodes(g.data)
        /\ Complete(f.data) => Complete(g.data)
        /\ Total(g.data) = Total(f.data)
    BY <1>1, ReordersRules
  <1> HIDE DEF n
  <1>4. ASSUME Shows(f) PROVE Shows(g)
    <2>1. ASSUME NEW j \in 1..n, NEW c \in Col
          PROVE  g.screen[j][c] = g.data[j][c] \/ (g.cur.tr = g.screen[j].tr /\ g.cur.col = c)
      <3>1. /\ p[j] \in 1..n /\ g.data[j] = f.data[p[j]] /\ g.screen[j] = f.screen[p[j]]
            /\ g.cur = f.cur
        BY <1>2
      <3> QED
        BY <1>4, <3>1 DEF Shows, n
    <2> QED
      BY <1>2, <2>1 DEF Shows
  <1>5. ASSUME OldIsStored(f) PROVE OldIsStored(g)
    <2>1. ASSUME NEW j \in 1..n, g.cur.tr = g.screen[j].tr
          PROVE  g.cur.old = g.data[j][g.cur.col]
      <3>1. /\ p[j] \in 1..n /\ g.data[j] = f.data[p[j]] /\ g.screen[j] = f.screen[p[j]]
            /\ g.cur = f.cur
        BY <1>2
      <3> QED
        BY <1>5, <2>1, <3>1 DEF OldIsStored, n
    <2> QED
      BY <1>2, <2>1 DEF OldIsStored
  <1>6. NoneHidden(f) => NoneHidden(g)
    BY <1>2 DEF NoneHidden, n
  <1>7. Rules(g.data, k)
    BY <1>3 DEF Good, Promises, Rules
  <1> QED
    BY <1>2, <1>3, <1>4, <1>5, <1>6, <1>7 DEF Good, Promises

LEMMA SortKeeps ==
  ASSUME IInv, Sort
  PROVE  IInv'
  <1>1. PICK col \in Col, descending \in BOOLEAN :
          LeavesAs({"sorted"}, Sorted(form, SortOrder(form, col, descending)))
    BY DEF Sort
  <1>2. PICK order : order = SortOrder(form, col, descending)
    OBVIOUS
  <1> DEFINE g == Sorted(form, order)
             k == past.kinds \cup {"sorted"}
  <1>3. Perm(order, Len(form.data))
    BY <1>2, FormFacts, SortOrderPerm
  <1>4. Reorders(form, g, order)
    <2>1. SwapRows(form, order) = [j \in 1..Len(form.data) |-> form.screen[order[j]]]
      BY <1>3, FormFacts, SwapRowsIs
    <2>2. DOMAIN form.data = 1..Len(form.data)
      BY FormFacts
    <2> QED
      BY <1>3, <2>1, <2>2 DEF Reorders, Sorted
  <1> HIDE DEF g
  <1>5. Good(form, k) /\ "sorted" \in k
    <2>1. past.kinds \subseteq k /\ "sorted" \in k
      OBVIOUS
    <2> HIDE DEF k
    <2> QED
      BY <2>1, FormFacts, MoreKinds
  <1>6. Good(g, k)
    <2> HIDE DEF k
    <2> QED
      BY <1>4, <1>5, ReordersGood
  <1>7. g.dirty = form.dirty /\ Len(g.data) = Len(form.data) /\ Content(g.data) = Content(form.data)
    BY <1>4, FormFacts, ReordersWhole, ReordersRules
  <1>8. Notes(form, g) /\ Len(g.data) <= MaxRows
    BY <1>7, FormFacts DEF Notes
  <1>9. LeavesAs({"sorted"}, g)
    BY <1>1, <1>2 DEF g
  <1> QED
    BY <1>6, <1>8, <1>9, LeavesAsKeeps
-----------------------------------------------------------------------------
(* Loading a record.                                                       *)

\* h is f with blank rows after its own: m rows.
Grown(f, h, m) ==
  /\ Sound(h) /\ Len(h.data) = m /\ h.cur = f.cur /\ h.first = f.first
  /\ h.dirty = f.dirty /\ h.total = f.total /\ (NoneHidden(f) => NoneHidden(h))

LEMMA GrownOneMore ==
  ASSUME NEW f, NEW h, NEW m \in Nat, Grown(f, h, m), m <= MaxRows
  PROVE  Grown(f, InsertRow(h, Len(h.data) + 1), m + 1)
  <1>1. Sound(h) /\ Len(h.data) = m
    BY DEF Grown
  <1>2. PICK i \in 1..(Len(h.data) + 1) : i = m + 1
    BY <1>1
  <1> DEFINE g == InsertRow(h, i)
  <1>3. PICK tr : Comes(h, g, i, tr)
    BY <1>1, InsertRowComes
  <1>4. g = InsertRow(h, Len(h.data) + 1)
    BY <1>1, <1>2
  <1> HIDE DEF g
  <1>5. /\ Sound(g) /\ Len(g.data) = m + 1 /\ g.cur = h.cur /\ g.first = h.first
        /\ g.dirty = h.dirty /\ g.total = h.total
    BY <1>1, <1>3 DEF Comes
  <1>6. ASSUME NoneHidden(h) PROVE NoneHidden(g)
    <2>1. ASSUME NEW j \in 1..(Len(h.data) + 1) PROVE ~g.screen[j].hidden
      <3>1. 1 \in 1..Len(h.data) /\ ~h.screen[1].hidden
        <4>1. 1 \in 1..Len(h.data)
          BY <1>1, SoundFacts
        <4> QED
          BY <1>6, <4>1 DEF NoneHidden
      <3>2. CASE j < i
        BY <1>1, <1>3, <1>6, <3>2, ComesCells DEF NoneHidden
      <3>3. CASE j = i
        BY <1>1, <1>3, <3>1, <3>3, ComesCells
      <3>4. ~(j > i)
        BY <1>1, <1>2
      <3> QED
        BY <1>1, <1>2, <3>2, <3>3, <3>4
    <2> QED
      BY <1>1, <1>5, <2>1 DEF NoneHidden
  <1> QED
    BY <1>4, <1>5, <1>6 DEF Grown

LEMMA AddRowsGrown ==
  ASSUME NEW f, Sound(f), NEW rows, NEW n \in Nat, DOMAIN rows = 1..n,
         Len(f.data) + n <= MaxRows
  PROVE  Grown(f, AddRows(f, rows), Len(f.data) + n)
  <1> DEFINE l == Len(f.data)
  <1>1. l \in Nat /\ MaxRows \in Nat /\ l + n <= MaxRows
    BY SoundFacts, RowsAssumption
  <1>2. PICK g : AddRowsSteps(f, rows, n, g)
    BY AddRowsTrace
  <1>3. /\ g[0] = f
        /\ \A k \in 1..n : g[k] = InsertRow(g[k - 1], Len(g[k - 1].data) + 1)
        /\ AddRows(f, rows) = g[n]
    BY <1>2 DEF AddRowsSteps
  <1> DEFINE B == {k \in 0..n : Grown(f, g[k], l + k)}
  <1>4. 0 \in B
    BY <1>1, <1>3 DEF Grown
  <1> HIDE DEF l
  <1>5. ASSUME NEW k \in 0..(n - 1), k \in B PROVE k + 1 \in B
    <2>1. /\ k \in Nat /\ k + 1 \in 1..n /\ k + 1 \in 0..n /\ (k + 1) - 1 = k
          /\ l + k \in Nat /\ l + k <= MaxRows /\ (l + k) + 1 = l + (k + 1)
      BY <1>1
    <2>2. Grown(f, g[k], l + k)
      BY <1>5
    <2>3. Grown(f, InsertRow(g[k], Len(g[k].data) + 1), (l + k) + 1)
      BY <2>1, <2>2, GrownOneMore
    <2>4. g[k + 1] = InsertRow(g[k], Len(g[k].data) + 1)
      BY <1>3, <2>1
    <2> QED
      BY <2>1, <2>3, <2>4
  <1>6. n \in 0..n
    OBVIOUS
  <1> HIDE DEF B
  <1>7. n \in B
    BY <1>4, <1>5, <1>6, UpTo
  <1> QED
    BY <1>3, <1>7 DEF B, l

\* The rows that are loaded are filled.
FilledRow(rows, row, i) == [row EXCEPT !.code = rows[i].code, !.amount = rows[i].amount]
FilledRows(f, rows) ==
  [f EXCEPT !.data = [i \in DOMAIN rows |-> FilledRow(rows, @[i], i)],
            !.screen = [i \in DOMAIN rows |-> FilledRow(rows, @[i], i)]]

Cells == [code : Codes, amount : Amounts]

LEMMA FilledRowsAre ==
  ASSUME NEW f, Sound(f), NEW n, n = Len(f.data), NEW rows \in [1..n -> Cells]
  PROVE  LET g == FilledRows(f, rows) IN
         /\ Sound(g) /\ SameRows(f, g) /\ AllShown(g) /\ SameCells(rows, g.data)
         /\ g.cur = f.cur /\ g.first = f.first /\ g.dirty = f.dirty /\ g.total = f.total
  <1> DEFINE g == FilledRows(f, rows)
             d == [i \in 1..n |-> FilledRow(rows, f.data[i], i)]
             s == [i \in 1..n |-> FilledRow(rows, f.screen[i], i)]
  <1>1. n \in Nat /\ f \in Form
        /\ \A i \in 1..n : f.data[i] \in DataRow /\ f.screen[i] \in ScreenRow
    BY SoundFacts DEF Sound
  <1>2. ASSUME NEW i \in 1..n
        PROVE  /\ d[i] \in DataRow /\ s[i] \in ScreenRow
               /\ d[i].tr = f.data[i].tr /\ s[i].tr = f.screen[i].tr
               /\ s[i].hidden = f.screen[i].hidden
               /\ d[i].code = rows[i].code /\ d[i].amount = rows[i].amount
               /\ s[i].code = rows[i].code /\ s[i].amount = rows[i].amount
    <2>1. d[i] = FilledRow(rows, f.data[i], i) /\ s[i] = FilledRow(rows, f.screen[i], i)
      OBVIOUS
    <2>2. /\ f.data[i] \in DataRow /\ f.screen[i] \in ScreenRow
          /\ rows[i].code \in Codes /\ rows[i].amount \in Amounts
      BY <1>1 DEF Cells
    <2> HIDE DEF d, s
    <2> QED
      BY <2>1, <2>2 DEF FilledRow, DataRow, ScreenRow
  <1>3. d \in [1..n -> DataRow] /\ s \in [1..n -> ScreenRow]
    <2>1. d = [i \in 1..n |-> d[i]] /\ s = [i \in 1..n |-> s[i]]
      OBVIOUS
    <2> HIDE DEF d, s
    <2> QED
      BY <1>2, <2>1
  <1>4. g = [f EXCEPT !.data = d, !.screen = s]
    BY DEF FilledRows
  <1> HIDE DEF d, s, g
  <1>5. d \in Seq(DataRow) /\ Len(d) = n /\ s \in Seq(ScreenRow) /\ Len(s) = n
    BY <1>1, <1>3, ListSeq
  <1>6. /\ g \in Form /\ g.data = d /\ g.screen = s /\ g.cur = f.cur /\ g.first = f.first
        /\ g.dirty = f.dirty /\ g.total = f.total
    BY <1>1, <1>4, <1>5 DEF Form
  <1>7. SameRows(f, g)
    BY <1>2, <1>5, <1>6, SoundFacts DEF SameRows
  <1>8. Sound(g)
    BY <1>6, <1>7, SameRowsSound
  <1>9. AllShown(g)
    BY <1>2, <1>5, <1>6 DEF AllShown, Col
  <1>10. SameCells(rows, g.data)
    <2>1. DOMAIN rows = 1..n /\ DOMAIN g.data = 1..n
      BY <1>3, <1>6
    <2> QED
      BY <1>2, <1>6, <2>1 DEF SameCells
  <1> QED
    BY <1>6, <1>7, <1>8, <1>9, <1>10 DEF g

\* What is loaded: nothing of the form before but the style of its first row.
LEMMA BindIs ==
  ASSUME NEW f, Sound(f), f.cur.old \in Value(f.cur.col), NEW rows \in Records
  PROVE  LET g == Bind(f, rows) IN
         /\ Whole(g) /\ AllShown(g) /\ SameCells(rows, g.data) /\ Len(g.data) <= MaxRows
         /\ NoneHidden(f) => NoneHidden(g)
  <1> DEFINE one == [f EXCEPT !.data = SubSeq(@, 1, 1), !.screen = SubSeq(@, 1, 1)]
             all == AddRows(one, Tail(rows))
             set == FilledRows(all, rows)
  <1>1. rows \in Seq(Cells) /\ Len(rows) \in 1..MaxRows /\ MaxRows \in Nat
    BY RecordsAssumption, RowsAssumption DEF Cells
  <1>2. PICK n \in Nat : n = Len(rows) - 1
    BY <1>1
  <1>3. DOMAIN Tail(rows) = 1..n /\ n + 1 <= MaxRows
    BY <1>1, <1>2
  <1>4. Sound(one) /\ Len(one.data) = 1 /\ (NoneHidden(f) => NoneHidden(one))
        /\ one.cur = f.cur
    <2>1. PICK m \in Nat : m = 1
      OBVIOUS
    <2>2. /\ f \in Form /\ f.data \in Seq(DataRow) /\ f.screen \in Seq(ScreenRow)
          /\ m \in 0..Len(f.data) /\ m \in 0..Len(f.screen) /\ m \in 1..Len(f.data)
      BY <2>1, SoundFacts DEF Sound, Form
    <2> DEFINE d == SubSeq(f.data, 1, m)
               s == SubSeq(f.screen, 1, m)
    <2>3. /\ d \in Seq(DataRow) /\ Len(d) = m /\ \A k \in 1..m : d[k] = f.data[k]
          /\ s \in Seq(ScreenRow) /\ Len(s) = m /\ \A k \in 1..m : s[k] = f.screen[k]
      BY <2>2, Prefix
    <2>4. one = [f EXCEPT !.data = d, !.screen = s]
      BY <2>1
    <2> HIDE DEF d, s, one
    <2>5. one \in Form /\ one.data = d /\ one.screen = s /\ one.cur = f.cur
      BY <2>2, <2>3, <2>4 DEF Form
    <2>6. m \in 1..(MaxRows + 1) /\ \A i \in 1..m : i = m
      BY <1>1, <2>1
    <2>7. Sound(one)
      BY <2>2, <2>3, <2>5, <2>6 DEF Sound
    <2>8. NoneHidden(f) => NoneHidden(one)
      BY <2>2, <2>3, <2>5, <2>6 DEF NoneHidden
    <2> QED
      BY <2>1, <2>3, <2>5, <2>7, <2>8
  <1> HIDE DEF one
  <1>5. Grown(one, all, Len(rows))
    <2>1. Len(one.data) + n = Len(rows) /\ Len(one.data) + n <= MaxRows
      BY <1>1, <1>2, <1>3, <1>4
    <2>2. PICK t : t = Tail(rows)
      OBVIOUS
    <2>3. DOMAIN t = 1..n
      BY <1>3, <2>2
    <2>4. Grown(one, AddRows(one, t), Len(one.data) + n)
      BY <1>4, <2>1, <2>3, AddRowsGrown
    <2> QED
      BY <2>1, <2>2, <2>4
  <1> HIDE DEF all
  <1>6. /\ Sound(all) /\ Len(all.data) = Len(rows) /\ all.cur = f.cur
        /\ (NoneHidden(f) => NoneHidden(all))
    BY <1>4, <1>5 DEF Grown
  <1>7. rows \in [1..Len(all.data) -> Cells]
    BY <1>1, <1>6
  <1>8. /\ Sound(set) /\ SameRows(all, set) /\ AllShown(set) /\ SameCells(rows, set.data)
        /\ set.cur = all.cur
    BY <1>6, <1>7, FilledRowsAre
  <1>9. Bind(f, rows) = Forget(set)
    BY DEF Bind, FilledRows, FilledRow, all, one
  <1> HIDE DEF set
  <1>10. NoneHidden(all) => NoneHidden(set)
    BY <1>8 DEF NoneHidden, SameRows
  <1>11. set.cur.old \in Value(set.cur.col) /\ Len(set.data) = Len(rows)
    BY <1>6, <1>8 DEF SameRows
  <1>12. /\ Whole(Forget(set)) /\ Forget(set).data = set.data
         /\ AllShown(Forget(set)) /\ (NoneHidden(set) => NoneHidden(Forget(set)))
    BY <1>8, <1>11, ForgetWhole, ForgetShows
  <1> QED
    BY <1>1, <1>6, <1>8, <1>9, <1>10, <1>11, <1>12

\* Without a cursor, and not changed.
Clean(f) == [f EXCEPT !.cur = Nowhere, !.first = Nowhere, !.dirty = FALSE]

LEMMA CleanReady ==
  ASSUME NEW f, NEW k, Whole(f), Rules(f.data, k), "filtered" \in k \/ NoneHidden(f),
         AllShown(f)
  PROVE  /\ Ready(Clean(CalcFields(f)), k) /\ Len(Clean(CalcFields(f)).data) = Len(f.data)
         /\ Clean(CalcFields(f)).dirty = FALSE
  <1> DEFINE h == Clean(CalcFields(f))
  <1>1. Sound(f) /\ f \in Form /\ Total(f.data) \in Nat
    BY TotalOfForm DEF Whole, Sound
  <1>2. Nowhere \in Position /\ Nowhere.tr = NoTr /\ Nowhere.old = 0 /\ Nowhere.col = "code"
    BY RowsAssumption DEF Nowhere, Position, Col
  <1>3. /\ h \in Form /\ h.data = f.data /\ h.screen = f.screen /\ h.cur = Nowhere
        /\ h.first = Nowhere /\ h.dirty = FALSE /\ h.total = Total(f.data)
    BY <1>1, <1>2 DEF Clean, CalcFields, Form
  <1> HIDE DEF h
  <1>4. SameRows(f, h)
    BY <1>3 DEF SameRows
  <1>5. Sound(h)
    BY <1>1, <1>3, <1>4, SameRowsSound
  <1>6. Whole(h)
    BY <1>2, <1>3, <1>5, RowsAssumption DEF Whole, Value
  <1>7. AllShown(h) /\ (NoneHidden(f) => NoneHidden(h))
    BY <1>3 DEF AllShown, NoneHidden
  <1>8. Shows(h)
    BY <1>7 DEF AllShown, Shows
  <1>9. OldIsStored(h)
    <2>1. ASSUME NEW i \in 1..Len(h.data) PROVE h.cur.tr # h.screen[i].tr
      <3>1. h.screen[i].tr \in Tr /\ NoTr \notin Tr
        BY <1>5, SoundFacts DEF NoTr, Tr
      <3> QED
        BY <1>2, <1>3, <3>1
    <2> QED
      BY <2>1 DEF OldIsStored
  <1>10. Promises(h, k)
    BY <1>3, <1>7, <1>8, <1>9 DEF Promises
  <1> QED
    BY <1>3, <1>6, <1>7, <1>10 DEF Ready, Good, h

LEMMA LoadedGood ==
  ASSUME NEW f, Whole(f), NEW rows \in Records, NEW k, "filtered" \in k \/ NoneHidden(f)
  PROVE  Good(Loaded(f, rows), k) /\ Len(Loaded(f, rows).data) <= MaxRows
  <1> DEFINE g == Bind(f, rows)
  <1>1. /\ Whole(g) /\ AllShown(g) /\ SameCells(rows, g.data) /\ Len(g.data) <= MaxRows
        /\ NoneHidden(f) => NoneHidden(g)
    BY BindIs DEF Whole
  <1> HIDE DEF g
  <1>2. UniqueCodes(rows) /\ Ascending(rows) /\ Complete(rows)
    BY RecordsAssumption
  <1>3. Rules(g.data, k)
    BY <1>1, <1>2, SameCellsRules DEF Rules
  <1>4. Loaded(f, rows) = Clean(CalcFields(g))
    BY DEF Loaded, Clean, g
  <1>5. Ready(Clean(CalcFields(g)), k) /\ Len(Clean(CalcFields(g)).data) = Len(g.data)
    BY <1>1, <1>3, CleanReady
  <1> QED
    BY <1>1, <1>4, <1>5 DEF Ready

LEMMA PageWhole ==
  Whole(Page) /\ NoneHidden(Page)
  <1>1. PICK d : d = [code |-> 0, amount |-> 0, tr |-> 1]
    OBVIOUS
  <1>2. PICK s : s = [code |-> 0, amount |-> 0, tr |-> 1, hidden |-> FALSE]
    OBVIOUS
  <1>3. d \in DataRow /\ s \in ScreenRow /\ d.tr = s.tr /\ s.hidden = FALSE
    BY <1>1, <1>2, RowsAssumption DEF DataRow, ScreenRow, Tr
  <1>4. Nowhere \in Position /\ Nowhere.tr = NoTr /\ Nowhere.old = 0 /\ Nowhere.col = "code"
    BY RowsAssumption DEF Nowhere, Position, Col
  <1>5. Page = [data |-> <<d>>, screen |-> <<s>>, cur |-> Nowhere, first |-> Nowhere,
                dirty |-> FALSE, total |-> 0]
    BY <1>1, <1>2 DEF Page
  <1>6. /\ <<d>> \in Seq(DataRow) /\ Len(<<d>>) = 1 /\ <<d>>[1] = d
        /\ <<s>> \in Seq(ScreenRow) /\ Len(<<s>>) = 1 /\ <<s>>[1] = s
    BY <1>3
  <1>7. /\ Page \in Form /\ Page.data = <<d>> /\ Page.screen = <<s>> /\ Page.cur = Nowhere
        /\ Page.first = Nowhere
    BY <1>4, <1>5, <1>6 DEF Form
  <1>8. Len(Page.data) = 1 /\ Len(Page.screen) = 1 /\ Page.data[1] = d /\ Page.screen[1] = s
    BY <1>6, <1>7
  <1>9. \A i \in 1..1 : i = 1
    OBVIOUS
  <1>10. 1 \in 1..(MaxRows + 1)
    BY RowsAssumption
  <1>11. Sound(Page)
    BY <1>3, <1>7, <1>8, <1>9, <1>10 DEF Sound
  <1>12. Whole(Page)
    BY <1>4, <1>7, <1>11, RowsAssumption DEF Whole, Value
  <1>13. NoneHidden(Page)
    BY <1>3, <1>8, <1>9 DEF NoneHidden
  <1> QED
    BY <1>12, <1>13

LEMMA InitIInv ==
  Init => IInv
  <1>1. SUFFICES ASSUME Init PROVE IInv
    OBVIOUS
  <1>2. PICK rows \in Records : form = Named(Loaded(Page, rows)) /\ past = Unhurt
    BY <1>1 DEF Init
  <1>3. past.kinds = {} /\ past.touched = FALSE
        /\ past \in [touched : BOOLEAN, kinds : SUBSET Kind]
    BY <1>2 DEF Unhurt
  <1>4. PICK f : f = Loaded(Page, rows)
    OBVIOUS
  <1>5. Good(f, past.kinds) /\ Len(f.data) <= MaxRows
    BY <1>4, PageWhole, LoadedGood
  <1>6. Good(form, past.kinds) /\ Len(form.data) = Len(f.data)
    BY <1>2, <1>4, <1>5, NamedGood
  <1> QED
    BY <1>3, <1>5, <1>6 DEF IInv, ChangesNoted

LEMMA LoadKeeps ==
  ASSUME IInv, Load
  PROVE  IInv'
  <1>1. PICK rows \in Records :
          /\ form' = Named(Loaded(form, rows))
          /\ past' = [Unhurt EXCEPT !.kinds = past.kinds \cap {"filtered"}]
    BY DEF Load
  <1>2. PICK k : k = past.kinds \cap {"filtered"}
    OBVIOUS
  <1>3. past'.kinds = k /\ past'.touched = FALSE
        /\ past' \in [touched : BOOLEAN, kinds : SUBSET Kind]
    BY <1>1, <1>2, FormFacts DEF Unhurt
  <1>4. "filtered" \in k \/ NoneHidden(form)
    BY <1>2 DEF IInv, Good, Promises
  <1>5. PICK f : f = Loaded(form, rows)
    OBVIOUS
  <1>6. Good(f, k) /\ Len(f.data) <= MaxRows
    BY <1>4, <1>5, FormFacts, LoadedGood
  <1>7. Good(form', k) /\ Len(form'.data) = Len(f.data)
    BY <1>1, <1>5, <1>6, NamedGood
  <1> QED
    BY <1>3, <1>6, <1>7 DEF IInv, ChangesNoted
-----------------------------------------------------------------------------
(* Saving the record.                                                      *)

\* The rows that come back are the first m of those that were sent.
SentBack(f, rows, m) ==
  /\ m \in 1..Len(f.data) /\ rows \in [1..m -> Cells]
  /\ \A i \in 1..m : rows[i].code = f.data[i].code /\ rows[i].amount = f.data[i].amount

LEMMA ReturnedSentBack ==
  ASSUME NEW f, Sound(f), NEW rows \in Returned(f.data)
  PROVE  \E m : SentBack(f, rows, m)
  <1> DEFINE n == Len(f.data)
             all == [i \in DOMAIN f.data |-> [code |-> f.data[i].code, amount |-> f.data[i].amount]]
  <1>1. n \in Nat /\ n \in 1..n /\ DOMAIN f.data = 1..n
        /\ \A i \in 1..n : f.data[i].code \in Codes /\ f.data[i].amount \in Amounts
    BY SoundFacts
  <1>2. \A i \in 1..n : all[i].code = f.data[i].code /\ all[i].amount = f.data[i].amount
    BY <1>1
  <1>3. all \in [1..n -> Cells]
    BY <1>1 DEF Cells
  <1>4. rows = all \/ (Len(all) > 1 /\ rows = Front(all))
    BY DEF Returned
  <1> HIDE DEF all
  <1>5. all \in Seq(Cells) /\ Len(all) = n
    BY <1>1, <1>3, ListSeq
  <1>6. CASE rows = all
    <2>1. SentBack(f, rows, n)
      BY <1>1, <1>2, <1>3, <1>6 DEF SentBack
    <2> QED
      BY <2>1
  <1>7. CASE Len(all) > 1 /\ rows = Front(all)
    <2>1. PICK m : m = n - 1
      OBVIOUS
    <2>2. m \in 1..n /\ m \in 0..Len(all) /\ m \in Nat /\ \A i \in 1..m : i \in 1..n
      BY <1>1, <1>5, <1>7, <2>1
    <2>3. rows = SubSeq(all, 1, m)
      BY <1>5, <1>7, <2>1 DEF Front
    <2>4. rows \in Seq(Cells) /\ Len(rows) = m /\ \A i \in 1..m : rows[i] = all[i]
      BY <1>5, <2>2, <2>3, Prefix
    <2>5. rows \in [1..m -> Cells]
      BY <2>2, <2>4
    <2>6. SentBack(f, rows, m)
      BY <1>2, <2>2, <2>4, <2>5 DEF SentBack
    <2> QED
      BY <2>6
  <1> QED
    BY <1>4, <1>6, <1>7

\* They are on the screen: gds.rebind() has nothing to add or to set, and cuts.
LEMMA NoneAdded ==
  ASSUME NEW f, NEW rows, NEW n \in Nat, n = 0, DOMAIN rows = 1..n
  PROVE  AddRows(f, rows) = f
  <1>1. PICK g : AddRowsSteps(f, rows, n, g)
    BY AddRowsTrace
  <1> QED
    BY <1>1 DEF AddRowsSteps

LEMMA NoneSet ==
  ASSUME NEW f, NEW rows, NEW m, SentBack(f, rows, m), Sound(f)
  PROVE  SetRows(rows, f) = f
  <1>1. m \in Nat /\ DOMAIN rows = 1..m
        /\ \A i \in 1..m : rows[i].code = f.data[i].code /\ rows[i].amount = f.data[i].amount
    BY SoundFacts DEF SentBack
  <1>2. ASSUME NEW i \in 1..m PROVE SetRow(rows, f, i) = f
    <2>1. SetCell(rows, f, i, "code") = f
      BY <1>1 DEF SetCell
    <2>2. SetCell(rows, f, i, "amount") = f
      BY <1>1 DEF SetCell
    <2> QED
      BY <2>1, <2>2 DEF SetRow
  <1>3. PICK g : SetRowsSteps(rows, f, m, g)
    BY <1>1, SetRowsTrace
  <1>4. g[0] = f /\ SetRows(rows, f) = g[m]
        /\ \A k \in 1..m : g[k] = SetRow(rows, g[k - 1], k)
    BY <1>3 DEF SetRowsSteps
  <1> DEFINE B == {k \in 0..m : g[k] = f}
  <1>5. 0 \in B
    BY <1>1, <1>4
  <1>6. ASSUME NEW k \in 0..(m - 1), k \in B PROVE k + 1 \in B
    <2>1. k + 1 \in 1..m /\ k + 1 \in 0..m /\ (k + 1) - 1 = k
      BY <1>1
    <2>2. g[k + 1] = SetRow(rows, f, k + 1)
      BY <1>4, <1>6, <2>1
    <2> QED
      BY <1>2, <2>1, <2>2
  <1>7. m \in 0..m
    BY <1>1
  <1> HIDE DEF B
  <1>8. m \in B
    BY <1>1, <1>5, <1>6, <1>7, UpTo
  <1> QED
    BY <1>4, <1>8 DEF B

LEMMA RebindCuts ==
  ASSUME NEW f, NEW rows, NEW m, SentBack(f, rows, m), Sound(f)
  PROVE  Rebind(f, rows) = CutTo(f, m)
  <1>1. m \in 1..Len(f.data) /\ rows \in [1..m -> Cells] /\ Len(f.data) \in Nat /\ m \in Nat
    BY SoundFacts DEF SentBack
  <1>2. rows \in Seq(Cells) /\ Len(rows) = m
    BY <1>1, ListSeq
  <1>3. PICK none : none = SubSeq(rows, Len(f.data) + 1, Len(rows))
    OBVIOUS
  <1>4. PICK n \in Nat : n = 0
    OBVIOUS
  <1>5. DOMAIN none = 1..n
    <2>1. PICK a \in Int : a = Len(f.data) + 1
      BY <1>1
    <2>2. PICK b \in Int : b = Len(rows)
      BY <1>1, <1>2
    <2>3. none = SubSeq(rows, a, b) /\ b < a
      BY <1>1, <1>2, <1>3, <2>1, <2>2
    <2>4. none = <<>>
      BY <2>3, SubSeqEmpty
    <2> QED
      BY <1>4, <2>4
  <1>6. AddRows(f, none) = f
    BY <1>4, <1>5, NoneAdded
  <1>7. SetRows(rows, f) = f
    BY NoneSet
  <1> QED
    BY <1>2, <1>3, <1>6, <1>7 DEF Rebind, CutTo

LEMMA WrittenGood ==
  ASSUME NEW f, NEW k, Ready(f, k), NEW rows, NEW m, SentBack(f, rows, m)
  PROVE  Good(Written(f, rows), k) /\ Len(Written(f, rows).data) = m
  <1> DEFINE c == CutTo(f, m)
             g == CalcFields(c)
             h == IF g.cur.tr = NoTr THEN g ELSE SetPrevious(g, g.cur.tr, g.cur.col)
  <1>1. Sound(f) /\ f.cur.old \in Value(f.cur.col) /\ m \in 1..Len(f.data)
    BY DEF Ready, Good, Whole, SentBack
  <1>2. FirstRows(f, c, m) /\ CutKeeps(f, c)
    BY <1>1, CutIs
  <1>3. Written(f, rows) = Noted(h, FALSE, Nowhere)
    <2>1. Rebind(f, rows) = c
      BY <1>1, RebindCuts
    <2> HIDE DEF c
    <2> QED
      BY <2>1 DEF Written, Noted
  <1> HIDE DEF c
  <1>4. /\ Whole(c) /\ Len(c.data) = m /\ Rules(c.data, k)
        /\ "filtered" \in k \/ NoneHidden(c)
    BY <1>2 DEF FirstRows, CutKeeps, Ready, Good, Promises
  <1>5. "adopted" \in k \/ (Shows(c) /\ OldIsStored(c) /\ AllShown(c))
    BY <1>2 DEF CutKeeps, Ready, Good, Promises
  <1>6. Good(g, k) /\ g.data = c.data /\ g.screen = c.screen
    BY <1>4, <1>5, CalcFieldsGood
  <1> HIDE DEF g
  <1>7. Ready(g, k)
    <2>1. AllShown(c) => AllShown(g)
      BY <1>6 DEF AllShown
    <2> QED
      BY <1>5, <1>6, <2>1 DEF Ready
  <1>8. Ready(h, k) /\ h.data = g.data
    <2>1. CASE g.cur.tr = NoTr
      BY <1>7, <2>1
    <2>2. CASE g.cur.tr # NoTr
      <3>1. OnScreen(g, g.cur.tr) /\ g.cur.col \in Col
        BY <1>6, <2>2 DEF Good, Whole, Sound, Form, Position
      <3> DEFINE s == SetPrevious(g, g.cur.tr, g.cur.col)
      <3>2. Ready(s, k) /\ SameTable(g, s)
        BY <1>7, <3>1, SetPreviousReady
      <3>3. h = s
        BY <2>2
      <3> HIDE DEF s, h
      <3> QED
        BY <3>2, <3>3 DEF SameTable
    <2> QED
      BY <2>1, <2>2
  <1> HIDE DEF h
  <1>9. Nowhere \in Position /\ Nowhere.tr = NoTr /\ FALSE \in BOOLEAN
    BY RowsAssumption DEF Nowhere, Position, Col
  <1>10. Good(Noted(h, FALSE, Nowhere), k) /\ Noted(h, FALSE, Nowhere).data = h.data
    BY <1>8, <1>9, NotedGood DEF Ready
  <1> QED
    BY <1>3, <1>4, <1>6, <1>8, <1>10

LEMMA SaveKeeps ==
  ASSUME IInv, Save
  PROVE  IInv'
  <1> DEFINE f == ValidateUpdate(form)
  <1>1. CASE ValidateOk(form) /\ ValidateAll(f)
    <2>1. PICK rows \in Returned(f.data) :
            /\ form' = Named(Written(f, rows))
            /\ past' = [past EXCEPT !.touched = FALSE, !.kinds = @ \ {"undone"}]
      BY <1>1 DEF Save
    <2>2. Ready(f, past.kinds) /\ Len(f.data) = Len(form.data)
      BY <1>1, ValidatedReady
    <2> HIDE DEF f
    <2>3. PICK k : k = past.kinds \ {"undone"}
      OBVIOUS
    <2>4. past'.kinds = k /\ past'.touched = FALSE
          /\ past' \in [touched : BOOLEAN, kinds : SUBSET Kind]
      BY <2>1, <2>3 DEF IInv
    <2>5. Ready(f, k)
      BY <2>2, <2>3 DEF Ready, Good, Promises, Rules
    <2>6. Sound(f)
      BY <2>5 DEF Ready, Good, Whole
    <2>7. PICK m : SentBack(f, rows, m)
      BY <2>6, ReturnedSentBack
    <2>8. PICK w : w = Written(f, rows)
      OBVIOUS
    <2>9. Good(w, k) /\ Len(w.data) = m
      BY <2>5, <2>7, <2>8, WrittenGood
    <2>10. m <= MaxRows
      BY <2>2, <2>7, FormFacts, RowsAssumption DEF SentBack
    <2>11. Good(form', k) /\ Len(form'.data) = Len(w.data)
      BY <2>1, <2>8, <2>9, NamedGood
    <2> QED
      BY <2>4, <2>9, <2>10, <2>11 DEF IInv, ChangesNoted
  <1>2. CASE ~(ValidateOk(form) /\ ValidateAll(f))
    <2>1. Leaves(f)
      BY <1>2 DEF Save
    <2>2. Good(f, past.kinds) /\ SameRows(form, f) /\ Notes(form, f)
      BY FormFacts, ValidateUpdateGood
    <2> HIDE DEF f
    <2>3. Len(f.data) <= MaxRows
      BY <2>2, FormFacts DEF SameRows
    <2> QED
      BY <2>1, <2>2, <2>3, LeavesKeeps
  <1> QED
    BY <1>1, <1>2
-----------------------------------------------------------------------------
(* Every step keeps the invariant.                                         *)

LEMMA NextIInv ==
  IInv /\ [Next]_vars => IInv'
  <1>1. SUFFICES ASSUME IInv, [Next]_vars PROVE IInv'
    OBVIOUS
  <1>2. CASE Load
    BY <1>1, <1>2, LoadKeeps
  <1>3. CASE Save
    BY <1>1, <1>3, SaveKeeps
  <1>4. CASE Type
    BY <1>1, <1>4, TypeKeeps
  <1>5. CASE CopyAbove
    BY <1>1, <1>5, CopyAboveKeeps
  <1>6. CASE Escape
    BY <1>1, <1>6, EscapeKeeps
  <1>7. CASE Focus
    BY <1>1, <1>7, FocusKeeps
  <1>8. CASE Tab
    BY <1>1, <1>8, TabKeeps
  <1>9. CASE UpOrDown
    BY <1>1, <1>9, UpOrDownKeeps
  <1>10. CASE AppendRow
    BY <1>1, <1>10, AppendRowKeeps
  <1>11. CASE InsertOrExpand
    BY <1>1, <1>11, InsertOrExpandKeeps
  <1>12. CASE DeleteRow
    BY <1>1, <1>12, DeleteRowKeeps
  <1>13. CASE Popup
    BY <1>1, <1>13, PopupKeeps
  <1>14. CASE Paste
    BY <1>1, <1>14, PasteKeeps
  <1>15. CASE Sort
    BY <1>1, <1>15, SortKeeps
  <1>16. CASE Filter
    BY <1>1, <1>16, FilterKeeps
  <1>17. CASE ShowAll
    BY <1>1, <1>17, ShowAllKeeps
  <1>18. CASE UNCHANGED vars
    BY <1>1, <1>18 DEF vars, IInv, ChangesNoted
  <1> QED
    BY <1>1, <1>2, <1>3, <1>4, <1>5, <1>6, <1>7, <1>8, <1>9, <1>10, <1>11, <1>12, <1>13,
       <1>14, <1>15, <1>16, <1>17, <1>18 DEF Next

\* The table and the cursor are always in a state that Good and ChangesNoted
\* describe, whatever the handlers of dbform.js are called in.
THEOREM RowsInvariance == Spec => []IInv
  <1>1. Init => IInv
    BY InitIInv
  <1>2. IInv /\ [Next]_vars => IInv'
    BY NextIInv
  <1> QED
    BY <1>1, <1>2, PTL DEF Spec

\* What the invariant says of rows.
LEMMA IInvTypeOK ==
  IInv => TypeOK
  <1>1. SUFFICES ASSUME IInv PROVE TypeOK
    OBVIOUS
  <1>2. /\ form \in Form /\ Whole(form) /\ Sound(form) /\ Len(form.screen) \in 1..MaxRows
        /\ DOMAIN form.screen = 1..Len(form.data)
    BY <1>1, FormFacts, SoundFacts, RowsAssumption
  <1>3. IsInjective([i \in DOMAIN form.screen |-> form.screen[i].tr])
    BY <1>2 DEF IsInjective, Sound
  <1>4. ASSUME NEW p \in {form.cur, form.first}
        PROVE  p.tr = NoTr \/ \E i \in DOMAIN form.screen : form.screen[i].tr = p.tr
    BY <1>2 DEF Whole, OnScreen
  <1>5. form.cur.old \in Value(form.cur.col) /\ past \in [touched : BOOLEAN, kinds : SUBSET Kind]
    BY <1>1, <1>2 DEF IInv, Whole
  <1> QED
    BY <1>2, <1>3, <1>4, <1>5 DEF TypeOK

LEMMA IInvShown ==
  IInv => ShownIsStored
  <1>1. SUFFICES ASSUME IInv PROVE ShownIsStored
    OBVIOUS
  <1>2. Sound(form) /\ DOMAIN form.data = 1..Len(form.data)
    BY <1>1, FormFacts
  <1>3. RowsAligned
    BY <1>2 DEF Sound, RowsAligned
  <1>4. "adopted" \in past.kinds \/ Shows(form)
    BY <1>1 DEF IInv, Good, Promises
  <1>5. Shows(form) => ShowsRecord
    BY <1>2, <1>3 DEF Shows, ShowsRecord
  <1> QED
    BY <1>3, <1>4, <1>5 DEF ShownIsStored

\* The rows, the cursor and what the form remembers are of their types: each TR
\* is one row, and the elements that gpreviouselement and
\* gelementthatjustcalledsetchangesmade hold are in the table, through inserted,
\* deleted, sorted, reloaded and merged rows.
THEOREM RowsTypeCorrect == Spec => []TypeOK
  BY RowsInvariance, IInvTypeOK, PTL

\* What the screen shows is what is stored, but for the value under the cursor,
\* unless exoduspopup() has adopted a value that was being typed.
THEOREM ShownAsStored == Spec => []ShownIsStored
  BY RowsInvariance, IInvShown, PTL

\* exodusunique, exodussequence and exodusrequired hold for the rows, but where
\* sorting, filtering and popups excuse them: validate() compares a value only
\* with its neighbours, and that is enough.
THEOREM RowsStayValid == Spec => []RowsValid
  <1>1. IInv => RowsValid
    BY DEF IInv, Good, Promises, Rules, RowsValid
  <1> QED
    BY <1>1, RowsInvariance, PTL

\* The calculated total is that of the rows, unless insertallrows() has replaced
\* rows.
THEOREM TotalStaysCurrent == Spec => []TotalIsCurrent
  <1>1. IInv => TotalIsCurrent
    BY DEF IInv, Good, Promises, TotalIsCurrent
  <1> QED
    BY <1>1, RowsInvariance, PTL

\* gchangesmade knows of every change of the rows, unless Escape has taken it
\* back.
THEOREM ChangesStayNoted == Spec => []ChangesNoted
  <1>1. IInv => ChangesNoted
    BY DEF IInv
  <1> QED
    BY <1>1, RowsInvariance, PTL
=============================================================================
