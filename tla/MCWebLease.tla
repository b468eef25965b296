----------------------------- MODULE MCWebLease -----------------------------
(***************************************************************************)
(* Instances of WebLease for TLC.                                          *)
(***************************************************************************)
EXTENDS WebLease, TLC

Symmetry == Permutations(Mobiles) \cup Permutations(Browsers)
            \cup Permutations(SessionIds) \cup Permutations(Authorizers)
            \cup Permutations(Refreshers)
=============================================================================
