------------------------------ MODULE DayLease ------------------------------
(***************************************************************************)
(* The per-day lease of the session analytics                              *)
(* (functions/lib/session_analytics_service.js: acquireDayLease,           *)
(* releaseDayLease, withDayLease) as its two users and the retention job   *)
(* drive it: the daily aggregation walks the days it found dirty, the      *)
(* rebuild walks the days of an override, and both take the lease of one   *)
(* day after the other, always with the instant their invocation started   *)
(* as "now".  An invocation may die between any two steps and is killed at *)
(* timeoutSeconds, leaving its lease behind; cleanupExpiredAnalytics       *)
(* deletes expired lease documents by a query and a later blind batch.     *)
(***************************************************************************)
EXTENDS Integers, FiniteSets

CONSTANTS
  Days,
  LeaseIds,     \* crypto.randomUUID()
  DayLeaseMs,   \* DAY_LEASE_MS, 15 min
  Timeout,      \* timeoutSeconds of both schedulers, 9 min
  Gap,          \* from the end of a cleanup run to the next aggregation start
  NoDay, NoLease,
  MaxClock      \* bound on the clock, in Tick only

ASSUME DayLeaseAssumption ==
  /\ DayLeaseMs \in Nat /\ Timeout \in Nat /\ Gap \in Nat /\ MaxClock \in Nat
  /\ Timeout < DayLeaseMs
  /\ Timeout < Gap
  /\ NoDay \notin Days
  /\ NoLease \notin LeaseIds

\* Each is a scheduled function with maxInstances 1 and concurrency 1, so it
\* never overlaps itself.
Runs == {"aggregation", "rebuild"}

VARIABLES
  clock,
  lease,       \* session_analytics_day_leases/{day}
  run,         \* the invocation of each scheduler
  cleanup,     \* the retention job: the days whose lease its query returned
  cleanupEnd,  \* when the retention job last finished
  died         \* ghost: when a run last died at work on each day

vars == <<clock, lease, run, cleanup, cleanupEnd, died>>

Leases == [leaseId : LeaseIds \cup {NoLease}, leaseExpiresAt : Nat]

Absent == [leaseId |-> NoLease, leaseExpiresAt |-> 0]

Invocations == [pc : {"idle", "running", "holding"}, now : Nat,
                day : Days \cup {NoDay}, leaseId : LeaseIds \cup {NoLease}]

Idle == [pc |-> "idle", now |-> 0, day |-> NoDay, leaseId |-> NoLease]

\* Between two days of an invocation that sampled its "now" at the start.
Between(now) == [pc |-> "running", now |-> now, day |-> NoDay, leaseId |-> NoLease]

Cleanups == [pc : {"idle", "deleting"}, doomed : SUBSET Days]

NoDeath == -1

Init ==
  /\ clock = 0
  /\ lease = [d \in Days |-> Absent]
  /\ run = [r \in Runs |-> Idle]
  /\ cleanup = [pc |-> "idle", doomed |-> {}]
  /\ cleanupEnd = 0
  /\ died = [d \in Days |-> NoDeath]

\* An invocation that reaches its timeout is killed before the clock moves on.
Tick ==
  /\ clock < MaxClock
  /\ \A r \in Runs : run[r].pc # "idle" => clock < run[r].now + Timeout
  /\ clock' = clock + 1
  /\ UNCHANGED <<lease, run, cleanup, cleanupEnd, died>>

\* Mutant of MayStart: the aggregation's schedule ignores the retention job.
MayStartAnytime(r) == r \in Runs

\* The aggregation's schedule (04:15) keeps clear of the retention job (00:10,
\* 06:10, ... and three hours of retries); the rebuild's does not.
MayStart(r) ==
  r = "aggregation" => cleanup.pc = "idle" /\ cleanupEnd + Gap <= clock

Start(r) ==
  /\ run[r].pc = "idle"
  /\ MayStart(r)
  /\ run' = [run EXCEPT ![r] = Between(clock)]
  /\ UNCHANGED <<clock, lease, cleanup, cleanupEnd, died>>

\* The lease on the day runs beyond the instant the invocation started.
Refused(r, d) == lease[d].leaseExpiresAt > run[r].now

Fresh(id) ==
  /\ \A d \in Days : lease[d].leaseId # id
  /\ \A r \in Runs : run[r].leaseId # id

\* Mutants of Acquire: a lease no longer than the timeout; a lease taken without
\* looking at the one that is there; a lease that runs on from the timeout.
AcquireShort(r, d, id) ==
  /\ run[r].pc = "running"
  /\ ~ Refused(r, d)
  /\ Fresh(id)
  /\ lease' = [lease EXCEPT ![d] = [leaseId |-> id,
                                    leaseExpiresAt |-> run[r].now + Timeout]]
  /\ run' = [run EXCEPT ![r] = [pc |-> "holding", now |-> run[r].now,
                                day |-> d, leaseId |-> id]]
  /\ UNCHANGED <<clock, cleanup, cleanupEnd, died>>

AcquireUnchecked(r, d, id) ==
  /\ run[r].pc = "running"
  /\ Fresh(id)
  /\ lease' = [lease EXCEPT ![d] = [leaseId |-> id,
                                    leaseExpiresAt |-> run[r].now + DayLeaseMs]]
  /\ run' = [run EXCEPT ![r] = [pc |-> "holding", now |-> run[r].now,
                                day |-> d, leaseId |-> id]]
  /\ UNCHANGED <<clock, cleanup, cleanupEnd, died>>

AcquireLong(r, d, id) ==
  /\ run[r].pc = "running"
  /\ ~ Refused(r, d)
  /\ Fresh(id)
  /\ lease' = [lease EXCEPT ![d] = [leaseId |-> id, leaseExpiresAt |->
                                      run[r].now + Timeout + DayLeaseMs]]
  /\ run' = [run EXCEPT ![r] = [pc |-> "holding", now |-> run[r].now,
                                day |-> d, leaseId |-> id]]
  /\ UNCHANGED <<clock, cleanup, cleanupEnd, died>>

\* acquireDayLease, granted.  A refusal ("busy") changes nothing: the
\* aggregation goes on to its next day, the rebuild ends (Finish).
Acquire(r, d, id) ==
  /\ run[r].pc = "running"
  /\ ~ Refused(r, d)
  /\ Fresh(id)
  /\ lease' = [lease EXCEPT ![d] = [leaseId |-> id,
                                    leaseExpiresAt |-> run[r].now + DayLeaseMs]]
  /\ run' = [run EXCEPT ![r] = [pc |-> "holding", now |-> run[r].now,
                                day |-> d, leaseId |-> id]]
  /\ UNCHANGED <<clock, cleanup, cleanupEnd, died>>

\* releaseDayLease in the finally of withDayLease, and on to the next day.
Release(r) ==
  LET d == run[r].day
  IN /\ run[r].pc = "holding"
     /\ lease' = IF lease[d].leaseId = run[r].leaseId
                 THEN [lease EXCEPT ![d] = Absent] ELSE lease
     /\ run' = [run EXCEPT ![r] = Between(run[r].now)]
     /\ UNCHANGED <<clock, cleanup, cleanupEnd, died>>

Finish(r) ==
  /\ run[r].pc = "running"
  /\ run' = [run EXCEPT ![r] = Idle]
  /\ UNCHANGED <<clock, lease, cleanup, cleanupEnd, died>>

\* A crash or the timeout: the finally does not run.
Die(r) ==
  /\ run[r].pc = "holding"
  /\ run' = [run EXCEPT ![r] = Idle]
  /\ died' = [died EXCEPT ![run[r].day] = clock]
  /\ UNCHANGED <<clock, lease, cleanup, cleanupEnd>>

\* cleanupExpiredAnalytics on the lease collection.
CleanupQuery ==
  /\ cleanup.pc = "idle"
  /\ run["aggregation"].pc = "idle"
  /\ cleanup' = [pc |-> "deleting",
                 doomed |-> {d \in Days : /\ lease[d].leaseId # NoLease
                                          /\ lease[d].leaseExpiresAt < clock}]
  /\ UNCHANGED <<clock, lease, run, cleanupEnd, died>>

\* Mutant of CleanupDelete: the job ends in a state it cannot start from.
CleanupDeleteDone ==
  /\ cleanup.pc = "deleting"
  /\ lease' = [d \in Days |-> IF d \in cleanup.doomed THEN Absent ELSE lease[d]]
  /\ cleanup' = [pc |-> "done", doomed |-> {}]
  /\ cleanupEnd' = clock
  /\ UNCHANGED <<clock, run, died>>

CleanupDelete ==
  /\ cleanup.pc = "deleting"
  /\ lease' = [d \in Days |-> IF d \in cleanup.doomed THEN Absent ELSE lease[d]]
  /\ cleanup' = [pc |-> "idle", doomed |-> {}]
  /\ cleanupEnd' = clock
  /\ UNCHANGED <<clock, run, died>>

Next ==
  \/ Tick
  \/ \E r \in Runs : Start(r)
  \/ \E r \in Runs, d \in Days, id \in LeaseIds : Acquire(r, d, id)
  \/ \E r \in Runs : Release(r)
  \/ \E r \in Runs : Finish(r)
  \/ \E r \in Runs : Die(r)
  \/ CleanupQuery
  \/ CleanupDelete

Spec == Init /\ [][Next]_vars

Holds(r, d) == run[r].pc = "holding" /\ run[r].day = d

(***************************************************************************)
(* Properties.                                                             *)
(***************************************************************************)
\* Every variable has the shape the code gives it.
TypeOK ==
  /\ clock \in Nat
  /\ lease \in [Days -> Leases]
  /\ run \in [Runs -> Invocations]
  /\ cleanup \in Cleanups
  /\ cleanupEnd \in Nat
  /\ died \in [Days -> Nat \cup {NoDeath}]

\* "Daily aggregation and override rebuilds share a per-day transaction lease,
\* so separate scheduler instances cannot overwrite the same pairing-day
\* summaries or daily aggregate concurrently": the two never hold one day
\* together, although both measure the lease from the start of their own
\* invocation, either may die holding it, and the retention job may delete the
\* lease a rebuild took after the job's query.
MutualExclusion ==
  \A d \in Days : ~ (Holds("aggregation", d) /\ Holds("rebuild", d))

\* An invocation is turned away from a day only by one that is at work there, or by
\* one that died there: and then only if the refused one started less than
\* DAY_LEASE_MS after the death.  A day that was released, or lost to the retention
\* job, turns nobody away (acquireDayLease compares the lease with the start of the
\* invocation, not with the time of the attempt).
RefusedForCause ==
  \A r \in Runs, d \in Days :
    run[r].pc = "running" /\ Refused(r, d)
      => \/ \E q \in Runs : Holds(q, d)
         \/ died[d] # NoDeath /\ run[r].now < died[d] + DayLeaseMs

\* The lease document of a run at work on a day is the run's own, until the
\* retention job takes it away from a rebuild: no run ever releases or
\* overwrites the lease of the other.
HolderKeepsLease ==
  [][\A r \in Runs, d \in Days :
       /\ Holds(r, d) /\ lease[d].leaseId = run[r].leaseId
       /\ lease'[d] # lease[d]
       => \/ run'[r].pc = "running"
          \/ r = "rebuild" /\ cleanup.pc = "deleting" /\ d \in cleanup.doomed]_vars

\* The lease implements the mutual exclusion of DayMutex: a run at work on a
\* day is a holder of the day, and dying is a way of leaving it.
HoldersOf(d) == {r \in Runs : Holds(r, d)}

Mutex == INSTANCE DayMutex WITH holders <- [d \in Days |-> HoldersOf(d)]

MutexSpec == Mutex!Spec
=============================================================================
