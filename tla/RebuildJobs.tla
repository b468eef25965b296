----------------------------- MODULE RebuildJobs -----------------------------
(***************************************************************************)
(* Manual overrides and their asynchronous rebuild                         *)
(* (functions/lib/session_analytics_service.js: createOverride,            *)
(* claimRebuildJob, processNextRebuildJob, rebuildDayFromSummaries), for   *)
(* one pairing, against the daily aggregation that applies the same        *)
(* overrides (aggregateDayUnlocked).  Both work on a day only under its    *)
(* lease, and both write two documents one after the other: the pairing    *)
(* day, then the daily aggregate.  The retention job deletes those of days *)
(* that have expired and takes no lease (cleanupExpiredAnalytics).         *)
(*                                                                         *)
(* Days are numbers.  What a document shows is the override it was         *)
(* computed with, NoOverride if none; overrides are numbered in the order  *)
(* of createdAt, which is sampled before the transaction, so they may be   *)
(* committed in another order.  The lease is taken at its word (DayLease): *)
(* one holder at a time, and a dead holder's lease runs out.               *)
(***************************************************************************)
EXTENDS Integers, FiniteSets, FiniteSetsExt

CONSTANTS
  MaxDay,        \* bound on the days
  MaxOverrides,  \* bound on the overrides that are created
  Chunk,         \* REBUILD_CHUNK_DAYS
  MaxAggs,       \* bound on the days aggregated: the scheduler runs once a day
  MaxFailures    \* bound on invocations that die or throw

ASSUME RebuildAssumption ==
  /\ {MaxDay, MaxOverrides, Chunk} \subseteq Nat \ {0}
  /\ {MaxAggs, MaxFailures} \subseteq Nat

Days == 1..MaxDay
Overrides == 1..MaxOverrides

\* effectiveToDay of an open-ended override: later than every day.
Open == MaxDay + 1

NoOverride == 0

\* A document that does not exist.
Missing == -1

Shown == Overrides \cup {NoOverride}

VARIABLES
  today,
  expired,   \* the days up to this one are past AGGREGATE_RETENTION_DAYS
  override,  \* session_analytics_overrides of the pairing
  job,       \* session_analytics_rebuild_jobs, one per override
  holder,    \* the lease of each day
  docs,      \* session_analytics_pairing_days/{day}_{pairing}
  daily,     \* session_analytics_daily/{day}
  run,       \* the invocation of processSessionAnalyticsRebuilds
  agg,       \* the aggregation at work on a day
  aggs, failures

vars == <<today, expired, override, job, holder, docs, daily, run, agg, aggs, failures>>

Ranges == [from : 0..MaxDay, to : 0..Open]

NoRange == [from |-> 0, to |-> 0]

Jobs == [status : {"none", "pending", "processing", "complete", "failed"},
         cursor : 0..Open, to : 0..Open]

NoJob == [status |-> "none", cursor |-> 0, to |-> 0]

PairingDays == [winner : Shown \cup {Missing}, fingerprint : Shown \cup {Missing}]

\* "load": claimed; "day": between two days; "docs", "daily": under the lease.
Invocations == [pc : {"idle", "load", "day", "docs", "daily"},
                job : Overrides \cup {NoOverride}, cursor : 0..Open, final : 0..MaxDay,
                processed : 0..Chunk, loaded : [Overrides -> Ranges]]

NoRun == [pc |-> "idle", job |-> NoOverride, cursor |-> 0, final |-> 0,
          processed |-> 0, loaded |-> [o \in Overrides |-> NoRange]]

Aggregations == [pc : {"idle", "load", "docs", "daily"}, day : 0..MaxDay, winner : Shown]

NoAgg == [pc |-> "idle", day |-> 0, winner |-> NoOverride]

Init ==
  /\ today = 1
  /\ expired = 0
  /\ override = [o \in Overrides |-> NoRange]
  /\ job = [o \in Overrides |-> NoJob]
  /\ holder = [d \in Days |-> "free"]
  /\ docs = [d \in Days |-> [winner |-> Missing, fingerprint |-> Missing]]
  /\ daily = [d \in Days |-> Missing]
  /\ run = NoRun
  /\ agg = NoAgg
  /\ aggs = 0
  /\ failures = 0

\* findOverride, resolveSummaryClassification: the newest override of the day.
Winner(overrides, d) ==
  LET matching == {o \in Overrides : overrides[o].from \in 1..d /\ d <= overrides[o].to}
  IN IF matching = {} THEN NoOverride ELSE Max(matching)

NewDay ==
  /\ today < MaxDay
  /\ today' = today + 1
  /\ UNCHANGED <<expired, override, job, holder, docs, daily, run, agg, aggs, failures>>

(***************************************************************************)
(* cleanupExpiredAnalytics.                                                *)
(***************************************************************************)
\* The expiresAt of a day's documents passes.  Its segments are gone by then, eleven
\* months before, and with them any aggregation of the day.
Expires ==
  /\ expired + 1 < today
  /\ agg.day # expired + 1
  /\ expired' = expired + 1
  /\ UNCHANGED <<today, override, job, holder, docs, daily, run, agg, aggs, failures>>

\* The collections are cleaned one after the other, each up to a cap, so that either
\* document of a day may outlast the other.
DeleteDocs(d) ==
  /\ d <= expired
  /\ docs[d].winner # Missing
  /\ docs' = [docs EXCEPT ![d] = [winner |-> Missing, fingerprint |-> Missing]]
  /\ UNCHANGED <<today, expired, override, job, holder, daily, run, agg, aggs, failures>>

DeleteDaily(d) ==
  /\ d <= expired
  /\ daily[d] # Missing
  /\ daily' = [daily EXCEPT ![d] = Missing]
  /\ UNCHANGED <<today, expired, override, job, holder, docs, run, agg, aggs, failures>>

\* A lease whose holder died.
LeaseRunsOut(d) ==
  /\ holder[d] = "dead"
  /\ holder' = [holder EXCEPT ![d] = "free"]
  /\ UNCHANGED <<today, expired, override, job, docs, daily, run, agg, aggs, failures>>

(***************************************************************************)
(* createOverride.                                                         *)
(***************************************************************************)
\* Mutant of CreateOverride: an open-ended override leaves the open one alone.
CreateOverrideBeside(o, from, to) ==
  /\ override[o] = NoRange
  /\ from <= today
  /\ to = Open \/ to \in from..today
  /\ override' = [override EXCEPT ![o] = [from |-> from, to |-> to]]
  /\ job' = [job EXCEPT ![o] = [status |-> "pending", cursor |-> from, to |-> to]]
  /\ UNCHANGED <<today, expired, holder, docs, daily, run, agg, aggs, failures>>

\* The transaction: an open-ended override ends the one that was open.
CreateOverride(o, from, to) ==
  /\ override[o] = NoRange
  /\ from <= today
  /\ to = Open \/ to \in from..today
  /\ override' = [p \in Overrides |->
                    IF p = o THEN [from |-> from, to |-> to]
                    ELSE IF to = Open /\ override[p].to = Open
                    THEN [override[p] EXCEPT !.to = from - 1]
                    ELSE override[p]]
  /\ job' = [job EXCEPT ![o] = [status |-> "pending", cursor |-> from, to |-> to]]
  /\ UNCHANGED <<today, expired, holder, docs, daily, run, agg, aggs, failures>>

(***************************************************************************)
(* processNextRebuildJob.                                                  *)
(***************************************************************************)
\* Mutant of Claim: a job left processing is not taken over.
ClaimPending(o) ==
  /\ run.pc = "idle"
  /\ job[o].status = "pending"
  /\ job' = [job EXCEPT ![o].status = "processing"]
  /\ run' = [NoRun EXCEPT !.pc = "load", !.job = o, !.cursor = job[o].cursor,
                          !.final = Min({job[o].to, today})]
  /\ UNCHANGED <<today, expired, override, holder, docs, daily, agg, aggs, failures>>

\* The one invocation at a time (maxInstances 1) finds a job processing only
\* when the invocation that claimed it died; its claim turns stale in time.
Claim(o) ==
  /\ run.pc = "idle"
  /\ job[o].status \in {"pending", "processing"}
  /\ job' = [job EXCEPT ![o].status = "processing"]
  /\ run' = [NoRun EXCEPT !.pc = "load", !.job = o, !.cursor = job[o].cursor,
                          !.final = Min({job[o].to, today})]
  /\ UNCHANGED <<today, expired, override, holder, docs, daily, agg, aggs, failures>>

LoadOverrides ==
  /\ run.pc = "load"
  /\ run' = [run EXCEPT !.pc = "day", !.loaded = override]
  /\ UNCHANGED <<today, expired, override, job, holder, docs, daily, agg, aggs, failures>>

More == run.cursor <= run.final /\ run.processed < Chunk

TakeDay ==
  /\ run.pc = "day"
  /\ More
  /\ holder[run.cursor] = "free"
  /\ holder' = [holder EXCEPT ![run.cursor] = "rebuild"]
  /\ run' = [run EXCEPT !.pc = "docs"]
  /\ UNCHANGED <<today, expired, override, job, docs, daily, agg, aggs, failures>>

\* The lease is released and the loop goes on with the next day.
NextDay ==
  /\ holder' = [holder EXCEPT ![run.cursor] = "free"]
  /\ run' = [run EXCEPT !.pc = "day", !.cursor = @ + 1, !.processed = @ + 1]

\* "no_data" or "expired": a rebuild creates no document.  Whether the day has expired
\* is asked of the instant the invocation started.  An update that finds a document
\* deleted since it was read fails and is tried again from the read.
SkipDay ==
  /\ run.pc = "docs"
  /\ \/ docs[run.cursor].winner = Missing \/ daily[run.cursor] = Missing
     \/ run.cursor <= expired
  /\ NextDay
  /\ UNCHANGED <<today, expired, override, job, docs, daily, agg, aggs, failures>>

\* The update of the summary leaves its fingerprint as the aggregation wrote it.
RebuildDocs ==
  /\ run.pc = "docs"
  /\ docs[run.cursor].winner # Missing /\ daily[run.cursor] # Missing
  /\ docs' = [docs EXCEPT ![run.cursor].winner = Winner(run.loaded, run.cursor)]
  /\ run' = [run EXCEPT !.pc = "daily"]
  /\ UNCHANGED <<today, expired, override, job, holder, daily, agg, aggs, failures>>

\* Mutant of RebuildDaily: a set in place of the update.
RebuildDailySets ==
  /\ run.pc = "daily"
  /\ daily' = [daily EXCEPT ![run.cursor] = Winner(run.loaded, run.cursor)]
  /\ NextDay
  /\ UNCHANGED <<today, expired, override, job, docs, agg, aggs, failures>>

\* The update of a daily aggregate deleted meanwhile fails: "expired".
RebuildDaily ==
  /\ run.pc = "daily"
  /\ daily' = IF daily[run.cursor] = Missing THEN daily
              ELSE [daily EXCEPT ![run.cursor] = Winner(run.loaded, run.cursor)]
  /\ NextDay
  /\ UNCHANGED <<today, expired, override, job, docs, agg, aggs, failures>>

\* Mutants of Save: a busy day counts as visited; a status no claim looks for.
SaveSkipsBusy ==
  LET next == run.cursor + (IF More THEN 1 ELSE 0)
  IN /\ run.pc = "day"
     /\ More => holder[run.cursor] # "free"
     /\ job' = [job EXCEPT
                  ![run.job].status = IF next > run.final THEN "complete" ELSE "pending",
                  ![run.job].cursor = next]
     /\ run' = NoRun
     /\ UNCHANGED <<today, expired, override, holder, docs, daily, agg, aggs, failures>>

SavePaused ==
  /\ run.pc = "day"
  /\ More => holder[run.cursor] # "free"
  /\ job' = [job EXCEPT
               ![run.job].status = IF run.cursor > run.final THEN "complete" ELSE "paused",
               ![run.job].cursor = run.cursor]
  /\ run' = NoRun
  /\ UNCHANGED <<today, expired, override, holder, docs, daily, agg, aggs, failures>>

\* The loop ends: the range is done, the chunk is full, or the day is busy.
Save ==
  /\ run.pc = "day"
  /\ More => holder[run.cursor] # "free"
  /\ job' = [job EXCEPT
               ![run.job].status = IF run.cursor > run.final THEN "complete" ELSE "pending",
               ![run.job].cursor = run.cursor]
  /\ run' = NoRun
  /\ UNCHANGED <<today, expired, override, holder, docs, daily, agg, aggs, failures>>

\* An error in the loop: the lease, if it has one, is released, the job has failed for
\* good.
RebuildThrows ==
  /\ run.pc \in {"day", "docs", "daily"}
  /\ failures < MaxFailures
  /\ failures' = failures + 1
  /\ holder' = IF run.pc = "day" THEN holder ELSE [holder EXCEPT ![run.cursor] = "free"]
  /\ job' = [job EXCEPT ![run.job].status = "failed"]
  /\ run' = NoRun
  /\ UNCHANGED <<today, expired, override, docs, daily, agg, aggs>>

RebuildDies ==
  /\ run.pc # "idle"
  /\ failures < MaxFailures
  /\ failures' = failures + 1
  /\ holder' = IF run.pc \in {"docs", "daily"}
               THEN [holder EXCEPT ![run.cursor] = "dead"] ELSE holder
  /\ run' = NoRun
  /\ UNCHANGED <<today, expired, override, job, docs, daily, agg, aggs>>

(***************************************************************************)
(* aggregateDayUnlocked, as far as overrides go.                           *)
(***************************************************************************)
AggTake(d) ==
  /\ agg.pc = "idle"
  /\ d \in expired + 1..today - 1
  /\ aggs < MaxAggs
  /\ aggs' = aggs + 1
  /\ holder[d] = "free"
  /\ holder' = [holder EXCEPT ![d] = "aggregation"]
  /\ agg' = [NoAgg EXCEPT !.pc = "load", !.day = d]
  /\ UNCHANGED <<today, expired, override, job, docs, daily, run, failures>>

AggLoad ==
  /\ agg.pc = "load"
  /\ agg' = [agg EXCEPT !.pc = "docs", !.winner = Winner(override, agg.day)]
  /\ UNCHANGED <<today, expired, override, job, holder, docs, daily, run, aggs, failures>>

\* A summary whose fingerprint has not changed is not written again.
AggDocs(evidenceChanged) ==
  /\ agg.pc = "docs"
  /\ docs' = IF docs[agg.day].fingerprint = agg.winner /\ ~ evidenceChanged THEN docs
             ELSE [docs EXCEPT ![agg.day] = [winner |-> agg.winner,
                                             fingerprint |-> agg.winner]]
  /\ agg' = [agg EXCEPT !.pc = "daily"]
  /\ UNCHANGED <<today, expired, override, job, holder, daily, run, aggs, failures>>

AggDaily ==
  /\ agg.pc = "daily"
  /\ daily' = [daily EXCEPT ![agg.day] = agg.winner]
  /\ holder' = [holder EXCEPT ![agg.day] = "free"]
  /\ agg' = NoAgg
  /\ UNCHANGED <<today, expired, override, job, docs, run, aggs, failures>>

\* The run throws and releases its lease, or dies and leaves it.
AggFails(left) ==
  /\ agg.pc # "idle"
  /\ failures < MaxFailures
  /\ failures' = failures + 1
  /\ holder' = [holder EXCEPT ![agg.day] = left]
  /\ agg' = NoAgg
  /\ UNCHANGED <<today, expired, override, job, docs, daily, run, aggs>>

Next ==
  \/ NewDay
  \/ Expires
  \/ \E d \in Days : DeleteDocs(d) \/ DeleteDaily(d)
  \/ \E d \in Days : LeaseRunsOut(d)
  \/ \E o \in Overrides, from \in Days, to \in Days \cup {Open} : CreateOverride(o, from, to)
  \/ \E o \in Overrides : Claim(o)
  \/ LoadOverrides
  \/ TakeDay
  \/ SkipDay
  \/ RebuildDocs
  \/ RebuildDaily
  \/ Save
  \/ RebuildThrows
  \/ RebuildDies
  \/ \E d \in Days : AggTake(d)
  \/ AggLoad
  \/ \E evidenceChanged \in BOOLEAN : AggDocs(evidenceChanged)
  \/ AggDaily
  \/ \E left \in {"free", "dead"} : AggFails(left)

Spec == Init /\ [][Next]_vars

\* The rebuild scheduler fires every five minutes and an invocation that starts
\* runs until it ends or dies; so does an aggregation; a dead lease runs out.
Fairness ==
  /\ WF_vars(\E o \in Overrides : Claim(o))
  /\ WF_vars(LoadOverrides \/ TakeDay \/ SkipDay \/ RebuildDocs \/ RebuildDaily \/ Save)
  /\ WF_vars(AggLoad \/ (\E b \in BOOLEAN : AggDocs(b)) \/ AggDaily)
  /\ WF_vars(\E d \in Days : LeaseRunsOut(d))

FairSpec == Spec /\ Fairness

(***************************************************************************)
(* Properties.                                                             *)
(***************************************************************************)
\* Every variable has the shape the code gives it.
TypeOK ==
  /\ today \in Days
  /\ expired \in 0..MaxDay
  /\ override \in [Overrides -> Ranges]
  /\ job \in [Overrides -> Jobs]
  /\ holder \in [Days -> {"free", "aggregation", "rebuild", "dead"}]
  /\ docs \in [Days -> PairingDays]
  /\ daily \in [Days -> Shown \cup {Missing}]
  /\ run \in Invocations
  /\ agg \in Aggregations
  /\ {aggs, failures} \subseteq Nat

\* A job that has still to visit the day, or failed before it did.
Owed(o, d) ==
  /\ job[o].status \in {"pending", "processing", "failed"}
  /\ d \in job[o].cursor..job[o].to

\* A materialised day, not expired, that no job still has to visit shows, in its pairing day
\* and in its daily aggregate, what the overrides say now: whatever the jobs,
\* the aggregation and their crashes do to each other, with overrides loaded
\* before the lease, created meanwhile, committed out of order or superseded,
\* and although the rebuild leaves a fingerprint that no longer fits.
SettledDaysFollowOverrides ==
  \A d \in Days :
    /\ d > expired
    /\ daily[d] # Missing
    /\ \A o \in Overrides : ~ Owed(o, d)
    => docs[d].winner = Winner(override, d) /\ daily[d] = Winner(override, d)

\* "Concurrent callables cannot ... leave two open-ended overrides active for
\* one pairing", in whatever order they commit.
OneOpenOverride ==
  Cardinality({o \in Overrides : override[o].to = Open}) <= 1

\* "Override rebuilds update existing retained daily documents only": a document
\* comes into being only under an aggregation's lease, although the retention job
\* deletes the documents of a day while a rebuild of it is between two of its steps.
OnlyAggregationCreates ==
  [][\A d \in Days :
       \/ docs[d].winner = Missing /\ docs'[d].winner # Missing
       \/ daily[d] = Missing /\ daily'[d] # Missing
       => holder[d] = "aggregation"]_vars

\* "A crashed processing job is picked up idempotently after the lease instead
\* of remaining stuck": whatever jobs there are, behind busy days and dead
\* invocations, in the end none is left unfinished.
JobsEnd ==
  []<>(\A o \in Overrides : job[o].status \notin {"pending", "processing"})
=============================================================================
