----------------------------- MODULE MCFormRows -----------------------------
(* An instance of FormRows for TLC: two codes, and amounts that no code is. *)
EXTENDS FormRows

MCCodes == 0..2
MCOnFile == {1, 2}
MCAmounts == {0, 10, 20}

Row(code, amount) == [code |-> code, amount |-> amount]
MCRecords == { <<Row(0, 0)>>, <<Row(2, 10), Row(1, 20)>> }
=============================================================================
