------------------------------ MODULE DayMutex ------------------------------
(***************************************************************************)
(* What the per-day lease promises (docs/session_analytics.md): the daily  *)
(* aggregation and the override rebuild never work on one day at the same  *)
(* time.  A run holds a day or it does not; how it learns that the day is  *)
(* free, how it dies and how a dead run is told from a slow one is left to *)
(* the implementation, DayLease.                                           *)
(***************************************************************************)
CONSTANTS Runs, Days

VARIABLE holders   \* the runs that work on each day

Init == holders = [d \in Days |-> {}]

Enter(r, d) ==
  /\ holders[d] = {}
  /\ holders' = [holders EXCEPT ![d] = {r}]

\* The run has finished with the day, or has died.
Leave(r, d) ==
  /\ holders[d] = {r}
  /\ holders' = [holders EXCEPT ![d] = {}]

Next == \E r \in Runs, d \in Days : Enter(r, d) \/ Leave(r, d)

Spec == Init /\ [][Next]_holders
=============================================================================
