----------------------------- MODULE MCDayLease -----------------------------
(***************************************************************************)
(* Instances of DayLease for TLC.                                          *)
(***************************************************************************)
EXTENDS DayLease, TLC

Symmetry == Permutations(Days) \cup Permutations(LeaseIds)
=============================================================================
