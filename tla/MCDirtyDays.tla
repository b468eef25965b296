----------------------------- MODULE MCDirtyDays ----------------------------
(***************************************************************************)
(* Instances of DirtyDays for TLC.                                         *)
(***************************************************************************)
EXTENDS DirtyDays, TLC

CONSTANTS e1, e2, e3, s1, s2

\* Two events of one session and one of another.
SharedSession == e1 :> s1 @@ e2 :> s1 @@ e3 :> s2
=============================================================================
