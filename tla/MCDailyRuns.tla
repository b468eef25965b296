---------------------------- MODULE MCDailyRuns -----------------------------
(***************************************************************************)
(* Instances of DailyRuns for TLC.  A version of a session shows that its  *)
(* two trial sides connected after a full reconnect, or that a user with   *)
(* premium ended it.                                                       *)
(***************************************************************************)
EXTENDS DailyRuns

Nothing == [connected |-> FALSE, fullReconnect |-> FALSE,
            explicitUserEnd |-> FALSE, access |-> "unknown"]

MCEvidence ==
  {[Nothing EXCEPT !.connected = TRUE, !.fullReconnect = TRUE, !.access = "trial"],
   [Nothing EXCEPT !.access = "premium", !.explicitUserEnd = TRUE]}
=============================================================================
