--------------------------- MODULE MCRequestFiles ---------------------------
(* An instance of RequestFiles for TLC: two gateways and two listeners over *)
(* four names, which leaves a number to draw while others are in use.       *)
EXTENDS RequestFiles, TLC

Symmetry ==
  Permutations(Gateway) \cup Permutations(Listener) \cup Permutations(Name)
=============================================================================
