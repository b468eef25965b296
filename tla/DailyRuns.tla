----------------------------- MODULE DailyRuns ------------------------------
(***************************************************************************)
(* The daily aggregation over many days (functions/lib/                    *)
(* session_analytics_service.js: runScheduledAggregation, aggregateDay),   *)
(* fed by the captures of one pairing's sessions.  A version of a session  *)
(* is captured when it is observed, or late; it changes the session's      *)
(* segment and makes days dirty.  Once a day the aggregation visits        *)
(* yesterday and the dirty days it reads, in order, and clears the marker  *)
(* of a day that has been over for 24 hours.  A day may be busy, and one   *)
(* that throws ends the run for the days after it.                         *)
(*                                                                         *)
(* What a capture and an aggregation of one day do to each other between   *)
(* their awaits is the subject of DirtyDays; here each is one step.  Time  *)
(* stands still during a run.                                              *)
(***************************************************************************)
EXTENDS RunGrouping

CONSTANTS
  Sessions,     \* raw sessions of the pairing, each named by its createdAt
  Evidence,     \* what one version of a session may say
  Lifetime,     \* a raw session is deleted this long after its creation
  Delays,       \* how long after it was observed a version may be captured
  RunHour,      \* the hour of the day at which the aggregation starts
  DirtyLimit,   \* dirty days read by one run
  NoSegment,
  MaxVersions,  \* bound on the versions captured
  MaxMishaps,   \* bound on late captures and on all that goes wrong with a run
  LastHour      \* bound on the clock, in HourPasses; the last day there is

ASSUME DailyRunsAssumption ==
  /\ Sessions \in (SUBSET Nat) \ {{}}
  /\ Evidence \subseteq [connected : BOOLEAN, fullReconnect : BOOLEAN,
                        explicitUserEnd : BOOLEAN, access : Accesses]
  /\ 0 \in Delays /\ Delays \subseteq Nat
  /\ {Lifetime, MaxVersions, MaxMishaps, LastHour} \subseteq Nat
  /\ RunHour \in FullGap + 1..DayLength - 1
  /\ DirtyLimit \in Nat \ {0}
  /\ NoSegment \notin Segments

VARIABLES
  now,
  segment,   \* session_analytics_segments/{sessionId}
  dirty,     \* the days that have a dirty marker
  fresh,     \* the markers set since the run in progress started
  summary,   \* the daily summary of the pairing
  todo,      \* the days the run in progress has before it, earliest first
  ran,       \* today's run has started
  late,      \* a version has been captured late
  versions,  \* versions captured
  mishaps

dailyVars == <<now, segment, dirty, fresh, summary, todo, ran, late, versions, mishaps>>

Calendar == 0..DayOf(LastHour)
Today == DayOf(now)

Stored == {segment[s] : s \in {i \in Sessions : segment[i] # NoSegment}}

\* isCompleteDay at the start of the run.
IsCompleteDay(d) == now >= DayEnd(d) + DayLength

DailyInit ==
  /\ now = Min(Sessions)
  /\ segment = [s \in Sessions |-> NoSegment]
  /\ dirty = {}
  /\ fresh = {}
  /\ summary = [d \in Calendar |-> NoSummary]
  /\ todo = {}
  /\ ran = FALSE
  /\ late = FALSE
  /\ versions = 0
  /\ mishaps = 0

AtRunHour == now % DayLength = RunHour

\* The next hour of a run.
NextRunHour ==
  Min({t \in now + 1..now + DayLength : t % DayLength = RunHour})

\* Time stands still during a run, and until it has started.  Once the last
\* version has been captured nothing happens before the next run.
HourPasses ==
  /\ now < LastHour
  /\ todo = {}
  /\ AtRunHour => ran
  /\ now' = IF versions < MaxVersions THEN now + 1 ELSE NextRunHour
  /\ ran' = FALSE
  /\ UNCHANGED <<segment, dirty, fresh, summary, todo, late, versions, mishaps>>

(***************************************************************************)
(* Captures.                                                               *)
(***************************************************************************)
\* What a version observed at "at" says of a session, on its own.
Projection(s, at, e) ==
  [createdAt |-> s,
   lastRelevantAt |-> at,
   successAt |-> IF e.connected THEN at ELSE Never,
   fullReconnect |-> e.fullReconnect,
   explicitUserEnd |-> e.explicitUserEnd,
   access |-> e.access]

\* The earlier of two instants, Never if there is neither.
Earliest(a, b) == IF Never \in {a, b} THEN Max({a, b}) ELSE Min({a, b})

MergedAccess(a, b) ==
  IF "premium" \in {a, b} THEN "premium"
  ELSE IF "trial" \in {a, b} THEN "trial"
  ELSE "unknown"

\* Mutant of Merge: a version delivered late takes lastRelevantAt back.
MergeLatestDelivered(old, new) ==
  [createdAt |-> old.createdAt,
   lastRelevantAt |-> new.lastRelevantAt,
   successAt |-> Earliest(old.successAt, new.successAt),
   fullReconnect |-> old.fullReconnect \/ new.fullReconnect,
   explicitUserEnd |-> old.explicitUserEnd \/ new.explicitUserEnd,
   access |-> MergedAccess(old.access, new.access)]

\* mergeSegment, for two versions of one session.
Merge(old, new) ==
  [createdAt |-> old.createdAt,
   lastRelevantAt |-> Max({old.lastRelevantAt, new.lastRelevantAt}),
   successAt |-> Earliest(old.successAt, new.successAt),
   fullReconnect |-> old.fullReconnect \/ new.fullReconnect,
   explicitUserEnd |-> old.explicitUserEnd \/ new.explicitUserEnd,
   access |-> MergedAccess(old.access, new.access)]

\* captureSessionSnapshots: the segment and the markers of its days.
Capture(s, at, e) ==
  LET new == Projection(s, at, e)
      merged == IF segment[s] = NoSegment THEN new ELSE Merge(segment[s], new)
      days == DirtyDaysForSegment(merged) \cap Calendar
  IN /\ versions < MaxVersions
     /\ late' = (late \/ at < now)
     /\ mishaps' = IF at < now THEN mishaps + 1 ELSE mishaps
     /\ mishaps' <= MaxMishaps
     /\ at \in s..s + Lifetime
     /\ merged # segment[s]
     /\ segment' = [segment EXCEPT ![s] = merged]
     /\ dirty' = dirty \cup days
     /\ fresh' = IF todo = {} THEN {} ELSE fresh \cup days
     /\ versions' = versions + 1
     /\ UNCHANGED <<now, summary, todo, ran>>

(***************************************************************************)
(* The scheduled aggregation.                                              *)
(***************************************************************************)
Smallest(n, S) == {d \in S : Cardinality({e \in S : e < d}) < n}

\* Mutant of DirtyRead: the newest markers are read first.
DirtyReadNewest == {d \in dirty : Cardinality({e \in dirty : e > d}) < DirtyLimit}

\* dirtyDays.limit(35).get(): a query without an order returns documents by id.
DirtyRead == Smallest(DirtyLimit, dirty)

\* runScheduledAggregation fixes its days.  Once the clock stands still, a run
\* stands for that of any later day.
RunStart ==
  LET days == {Today - 1} \cup {d \in DirtyRead : d < Today}
  IN /\ todo = {}
     /\ AtRunHour
     /\ ran => now = LastHour
     /\ todo' = days \cap Calendar
     /\ ran' = TRUE
     /\ UNCHANGED <<now, segment, dirty, fresh, summary, late, versions, mishaps>>

\* The scheduler misses a day, or aggregationEnabled is off.
RunMissed ==
  /\ AtRunHour /\ ~ran
  /\ mishaps < MaxMishaps
  /\ mishaps' = mishaps + 1
  /\ ran' = TRUE
  /\ UNCHANGED <<now, segment, dirty, fresh, summary, todo, late, versions>>

\* The day the run is at.
Current == Min(todo)

\* The run goes on with the days after this one, or ends.
GoOn(days) ==
  /\ todo' = days
  /\ fresh' = IF days = {} THEN {} ELSE fresh

\* clearDirtyDayIfHandled, for a complete day: not a marker set since the start.
ClearDirtyDayIfHandled(d) ==
  dirty' = IF IsCompleteDay(d) /\ d \notin fresh THEN dirty \ {d} ELSE dirty

\* The summary as aggregateDayUnlocked writes it: not at all without segments.
Written(d) ==
  LET segments == QuerySegmentsForDay(Stored, d)
  IN IF segments = {} THEN summary ELSE [summary EXCEPT ![d] = Summary(segments, d)]

AggregateDay ==
  /\ todo # {}
  /\ summary' = Written(Current)
  /\ ClearDirtyDayIfHandled(Current)
  /\ GoOn(todo \ {Current})
  /\ UNCHANGED <<now, segment, ran, late, versions, mishaps>>

\* The marker is not cleared, and the error is swallowed.
ClearFails ==
  /\ todo # {}
  /\ mishaps < MaxMishaps
  /\ mishaps' = mishaps + 1
  /\ summary' = Written(Current)
  /\ GoOn(todo \ {Current})
  /\ UNCHANGED <<now, segment, dirty, ran, late, versions>>

\* withDayLease: a rebuild holds the day.
DayBusy ==
  /\ todo # {}
  /\ mishaps < MaxMishaps
  /\ mishaps' = mishaps + 1
  /\ GoOn(todo \ {Current})
  /\ UNCHANGED <<now, segment, dirty, summary, ran, late, versions>>

\* A day throws, or the instance dies, before or after the day is written: the
\* days after it wait for the next run.
DayThrows ==
  /\ todo # {}
  /\ mishaps < MaxMishaps
  /\ mishaps' = mishaps + 1
  /\ summary' \in {summary, Written(Current)}
  /\ GoOn({})
  /\ UNCHANGED <<now, segment, dirty, ran, late, versions>>

DailyNext ==
  \/ HourPasses
  \/ \E s \in Sessions, delay \in Delays, e \in Evidence : Capture(s, now - delay, e)
  \/ RunStart
  \/ RunMissed
  \/ AggregateDay
  \/ ClearFails
  \/ DayBusy
  \/ DayThrows

DailySpec == DailyInit /\ [][DailyNext]_dailyVars

\* The run is done with a day and goes on to the next.
NextDay == todo # {} /\ todo' = todo \ {Current}

\* Time passes, the scheduler fires, and a run that has started goes on.
DailyFairSpec ==
  /\ DailySpec
  /\ WF_now(HourPasses)
  /\ WF_todo(RunStart)
  /\ WF_todo(NextDay)

(***************************************************************************)
(* Properties.                                                             *)
(***************************************************************************)
\* Every variable has the shape the code gives it: a success lies within the
\* life of its segment, a run visits past days, and a marker is fresh only
\* during a run.
DailyTypeOK ==
  /\ now \in Nat
  /\ segment \in [Sessions -> Segments \cup {NoSegment}]
  /\ \A s \in Stored : IsSuccessful(s) => s.successAt \in s.createdAt..s.lastRelevantAt
  /\ dirty \subseteq Calendar /\ fresh \subseteq dirty
  /\ fresh # {} => todo # {}
  /\ summary \in [Calendar -> [rawDocuments : Nat, premiumRuns : Nat, trialRuns : Nat,
                           unknownAccessRuns : Nat]]
  /\ todo \subseteq 0..Today - 1
  /\ ran \in BOOLEAN /\ late \in BOOLEAN
  /\ versions \in Nat /\ mishaps \in Nat

\* What an aggregation of the day would write now.
Recomputed(d) == Summary(QuerySegmentsForDay(Stored, d), d)

\* The first run that finds a day complete.
SettledFrom(d) == DayEnd(d) + DayLength + RunHour

\* A version of the segment may be captured after the day was settled.
Outlives(s, d) ==
  \E delay \in IF late THEN Delays ELSE {0} :
    s.createdAt + Lifetime + delay >= SettledFrom(d)

\* A day without a marker shows what its segments say, whichever day's segment
\* changed since: the markers of dirtyDaysForSegment and the 24 hours a day stays
\* open together make it so, for every segment that begins on the day or within
\* FullGap of its end.  A segment that begins later, or has begun before, and is
\* still heard of when the day has been settled, leaves the day as it was.
SettledDayCurrent ==
  \A d \in Calendar \ dirty :
    \/ summary[d] = Recomputed(d)
    \/ \E s \in QuerySegmentsForDay(Stored, d) :
         s.createdAt \notin DayStart(d)..DayEnd(d) + FullGap /\ Outlives(s, d)

\* Each session was last heard of before the next was created.
Orderly ==
  \A a, b \in Stored : a.createdAt < b.createdAt => a.lastRelevantAt <= b.createdAt

\* A run with a segment last heard of before the window, and one after that.
BegunBefore(group, d) ==
  \E a, b \in group : /\ a.lastRelevantAt < DayStart(d) - FullGap
                      /\ b.lastRelevantAt >= DayStart(d) - FullGap

\* A run that is followed no further than the 24 hours after the day.
GoesBeyond(group, d) == \E s \in group : s.createdAt > DayEnd(d) + Lookahead

\* The runs with a success on the day.
RunsThrough(d) ==
  {g \in GroupSegments(Stored) : \E s \in Successful(g) : DayOf(s.successAt) = d}

\* A day computed from its window has the counts all segments together give it,
\* late evidence of a run's successors included, unless a run with a success on
\* the day began before the window or goes on beyond the 24 hours in which
\* successors are looked for.  (Sessions that overlap break this: see the README.)
WindowExact ==
  Orderly => \A d \in Calendar :
    \/ Recomputed(d) = Summary(Stored, d)
    \/ \E g \in RunsThrough(d) : BegunBefore(g, d) \/ GoesBeyond(g, d)

\* However many days are dirty, busy or throw, each day that has been over for
\* 24 hours is settled in the end.
EveryDaySettled ==
  \A d \in Calendar : []<>(IsCompleteDay(d) => d \notin dirty)
=============================================================================
