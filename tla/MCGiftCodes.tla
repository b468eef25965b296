----------------------------- MODULE MCGiftCodes -----------------------------
(***************************************************************************)
(* Instances of GiftCodes for TLC.                                         *)
(***************************************************************************)
EXTENDS GiftCodes, TLC

Symmetry == Permutations(Subs) \cup Permutations(Codes) \cup Permutations(Calls)
=============================================================================
