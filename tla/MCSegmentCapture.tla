-------------------------- MODULE MCSegmentCapture --------------------------
(***************************************************************************)
(* Instances of SegmentCapture for TLC.                                    *)
(***************************************************************************)
EXTENDS SegmentCapture, TLC

CONSTANTS e1, e2, e3

\* A session is created, connects, and is ended by its user; the last version
\* carries a createdAt of the future and contradicts the premium of the second.
ShortCall ==
  e1 :> [observedAt |-> 2, createdAt |-> 1, facts |-> {},
         babyPremium |-> "missing", parentPremium |-> "false"]
  @@ e2 :> [observedAt |-> 3, createdAt |-> 1, facts |-> {"everConnected"},
            babyPremium |-> "true", parentPremium |-> "false"]
  @@ e3 :> [observedAt |-> 4, createdAt |-> 9,
            facts |-> {"signalingCleared", "explicitUserEnd"},
            babyPremium |-> "false", parentPremium |-> "missing"]
=============================================================================
