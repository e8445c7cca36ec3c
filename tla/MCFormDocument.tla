--------------------------- MODULE MCFormDocument ---------------------------
(* An instance of FormDocument for TLC: two records, alike to all but the  *)
(* names.                                                                  *)
EXTENDS FormDocument, TLC

Symmetry == Permutations(Key)

(* States that no property and no later step tells apart are one: what     *)
(* else has happened after a stray reply, which excuses everything, and    *)
(* which lease a RELOCK is for that comes too late (no session returns).   *)
ViewOfPast ==
  IF past.strayed THEN [settled |-> TRUE, strayed |-> TRUE, gaveUp |-> TRUE]
  ELSE past

ViewOfRelock ==
  IF relock.status = "sent" /\ lease[relock.key].session # relock.session
  THEN [NoRelock EXCEPT !.status = "sent"] ELSE relock

View ==
  <<handler, request, orphan, ViewOfRelock, faults, form, ViewOfPast, page,
    serverVars>>
=============================================================================
