---------------------------- MODULE MCClientValues ----------------------------
EXTENDS ClientValues

MCFirstDay == -24835     \* 1/1/1900, to 31/12/2099

MCDict == <<[name |-> "NAME", field |-> 1, group |-> 0, word |-> 0, nwords |-> 1],
            [name |-> "CODE", field |-> 2, group |-> 0, word |-> 1, nwords |-> 1],
            [name |-> "REST", field |-> 2, group |-> 0, word |-> 2, nwords |-> 2],
            [name |-> "ITEM", field |-> 3, group |-> 1, word |-> 0, nwords |-> 1],
            [name |-> "FROM", field |-> 5, group |-> 1, word |-> 1, nwords |-> 1],
            [name |-> "UPTO", field |-> 5, group |-> 1, word |-> 2, nwords |-> 1]>>

MCTypedDates ==
  {[day |-> d, month |-> m, year |-> y, digits |-> FALSE] :
     d \in {<<0>>, <<1>>, <<0, 9>>, <<2, 8>>, <<2, 9>>, <<3, 0>>, <<3, 1>>, <<3, 2>>, <<9, 9>>},
     m \in {<<0>>, <<1>>, <<0, 2>>, <<4>>, <<1, 2>>, <<1, 3>>},
     y \in {<< >>, <<0>>, <<0, 4>>, <<4, 9>>, <<5, 0>>, <<6, 7>>, <<9, 9>>, <<1, 9, 0, 0>>,
            <<1, 8, 9, 9>>, <<2, 0, 0, 0>>, <<2, 0, 2, 4>>, <<2, 0, 9, 9>>, <<2, 1, 0, 0>>}}
  \cup
  {[day |-> d, month |-> m, year |-> y, digits |-> TRUE] :
     d \in {<<0, 0>>, <<0, 1>>, <<2, 9>>, <<3, 1>>, <<3, 2>>},
     m \in {<<0, 0>>, <<0, 2>>, <<1, 1>>, <<1, 2>>, <<1, 3>>},
     y \in {<< >>, <<0, 0>>, <<5, 0>>, <<2, 0, 2, 4>>, <<1, 9, 0, 0>>}}
  \cup
  {[day |-> d, month |-> << >>, year |-> << >>, digits |-> FALSE] :
     d \in {<<0>>, <<1>>, <<3, 0>>, <<3, 1>>}}

MCTypedTimes ==
  {[hour |-> h, minute |-> m, second |-> s, digits |-> FALSE] :
     h \in {<<0>>, <<0, 9>>, <<2, 4>>, <<4, 7>>, <<4, 8>>},
     m \in {<< >>, <<0>>, <<5, 9>>, <<6, 0>>}, s \in {<< >>}}
  \cup
  {[hour |-> h, minute |-> m, second |-> s, digits |-> d] :
     h \in {<<0, 0>>, <<1, 2>>, <<4, 7>>, <<4, 8>>},
     m \in {<<0, 0>>, <<5, 9>>, <<6, 0>>},
     s \in {<< >>, <<0, 0>>, <<5, 9>>, <<6, 0>>}, d \in BOOLEAN}
  \cup ListedTimes

MCTypedNumbers ==
  [format : BaseFormat,
   options :
     {[decimals |-> d, nozero |-> z, positive |-> FALSE, min |-> {}, max |-> {}] :
        d \in {{}, {0}, {1}, {2}, {3}}, z \in BOOLEAN}
     \cup {[decimals |-> {0}, nozero |-> FALSE, positive |-> TRUE, min |-> {}, max |-> {}],
           [decimals |-> {2}, nozero |-> FALSE, positive |-> FALSE, min |-> {1000}, max |-> {1234000}]},
   minus : BOOLEAN,
   groups : {<<<<0>>>>, <<<<1, 2>>>>, <<<<1>>, <<2, 3, 4>>>>, <<<<1, 0>>, <<0, 0, 0>>>>},
   point : {<< >>, <<0>>, <<5>>, <<0, 5>>, <<2, 4, 9>>, <<9, 9, 6>>},
   separated : BOOLEAN]

MCStoredRecords ==
  {<<f1, f2, f3, f4, f5>> :
     f1 \in {EmptyField, <<<<1>>, <<2>>>>},
     f2 \in {EmptyField, <<<<0, 1>>>>, <<<<1, 2, 3>>>>, <<<<1, 0, 2, 3>>>>},
     f3 \in {EmptyField, <<<<0>>, <<1>>>>, <<<<1>>, <<2>>, <<1>>>>},
     f4 \in {EmptyField, <<<<1, 2>>, <<3>>>>},
     f5 \in {EmptyField, <<<<1>>, <<0, 2>>>>, <<<<0>>, <<1, 2>>>>}}
  \cup {<<EmptyField>>, <<<<<<1>>>>, <<<<2>>>>>>,
        <<EmptyField, EmptyField, <<<<1>>>>, EmptyField, EmptyField, EmptyField, <<<<1>>, <<2>>>>>>}

MCEnteredRows ==
  LET Text1(n) == <<<<n>>>>
      MCRow == [ITEM : {Text1(0), Text1(2)}, FROM : {Text1(0), Text1(1)}, UPTO : {Text1(0), Text1(2)}]
  IN {[single |-> [NAME |-> name, CODE |-> Text1(0), REST |-> rest], group1 |-> rows] :
        name \in {Text1(0), <<<<1>>, <<2>>>>}, rest \in {Text1(0), <<<<0, 2>>>>},
        rows \in SeqOf(MCRow, 2)}

MCAmounts ==
  {s \in SeqOf([unit : 1..3, amount : {-1, 2}], 2) :
     \A i, j \in DOMAIN s : i < j => s[i].unit < s[j].unit}

MCTables == SeqOf(SeqOf({Blank, 5}, 3), 3) \ {<< >>}
=============================================================================
