-------------------------- MODULE RebuildJobsProofs --------------------------
(***************************************************************************)
(* Safety of the override rebuilds for every number of days, overrides,    *)
(* aggregations and crashes, and every chunk.                              *)
(***************************************************************************)
EXTENDS RebuildJobs, FiniteSetTheorems, WellFoundedInduction, TLAPS

\* An override and its job are born in one commit.
JobsNamed ==
  \A o \in Overrides :
    /\ job[o].status = "none" <=> override[o].from = 0
    /\ override[o].from = 0 => override[o] = NoRange
    /\ job[o].status # "none" => job[o].cursor \in 1..Open

\* The invocation works on the job it claimed, no further back than the job's
\* saved cursor and no further on than its range.
RunOnJob ==
  /\ run.pc = "idle" => run = NoRun
  /\ run.pc # "idle" =>
       /\ run.job \in Overrides
       /\ job[run.job].status = "processing"
       /\ job[run.job].cursor <= run.cursor
       /\ run.final <= job[run.job].to
       /\ run.final <= today
  /\ run.pc \in {"docs", "daily"} =>
       /\ run.cursor <= run.final
       /\ run.processed < Chunk
       /\ holder[run.cursor] = "rebuild"

\* The aggregation works on a past day that has not expired, under its lease.
AggUnderLease ==
  agg.pc # "idle" =>
    /\ agg.day \in Days
    /\ agg.day < today
    /\ agg.day > expired
    /\ holder[agg.day] = "aggregation"

\* The days nobody aggregates yet, and those whose aggregate is not written:
\* no rebuild has touched their documents.
UntouchedDays ==
  \A d \in Days :
    /\ d >= today => docs[d].winner = Missing /\ daily[d] = Missing
    /\ d > expired =>
         /\ daily[d] = Missing => docs[d].winner = docs[d].fingerprint
         /\ daily[d] # Missing => docs[d].winner # Missing

\* A job other than the one at work has still to visit the day.
OthersOwe(d) == \E o \in Overrides : o # run.job /\ Owed(o, d)

\* The day will be visited: by another job, or by the one at work, whose saved
\* cursor says nothing of what it has done since.
Due(d) ==
  OthersOwe(d) \/ (run.pc # "idle" /\ d \in run.cursor..run.final)

\* What the invocation loaded is what the overrides say, but for the days that
\* a job created since has to visit.
LoadedFresh ==
  run.pc \in {"day", "docs", "daily"} =>
    \A d \in Days : Winner(run.loaded, d) = Winner(override, d) \/ OthersOwe(d)

AggFresh ==
  agg.pc \in {"docs", "daily"} =>
    agg.winner = Winner(override, agg.day) \/ Due(agg.day)

\* Half-way through a day: its first document shows what the second will, unless the
\* retention job may have deleted it.
HalfRebuilt ==
  run.pc = "daily" /\ run.cursor > expired =>
    /\ docs[run.cursor].winner = Winner(run.loaded, run.cursor)
    /\ daily[run.cursor] # Missing

HalfAggregated ==
  agg.pc = "daily" =>
    /\ docs[agg.day].winner # Missing
    /\ daily[agg.day] = Missing => docs[agg.day].winner = agg.winner

\* A materialised day is due or right, until it expires.
DaysRight ==
  \A d \in Days :
    d > expired /\ daily[d] # Missing =>
      \/ Due(d)
      \/ docs[d].winner = Winner(override, d) /\ daily[d] = Winner(override, d)

\* The open override is one: the pairwise form of OneOpenOverride.
OpenIsUnique ==
  \A o, p \in Overrides : override[o].to = Open /\ override[p].to = Open => o = p

IInv ==
  /\ TypeOK
  /\ JobsNamed
  /\ RunOnJob
  /\ AggUnderLease
  /\ UntouchedDays
  /\ LoadedFresh
  /\ AggFresh
  /\ HalfRebuilt
  /\ HalfAggregated
  /\ DaysRight
  /\ OpenIsUnique

\* A non-empty set of numbers up to n has a greatest element: the least of its
\* upper bounds.
LEMMA MaxOfBounded ==
  ASSUME NEW n \in Nat, NEW S \in SUBSET (1..n), S # {}
  PROVE  \E x \in S : \A y \in S : x >= y
<1> DEFINE T == {m \in Nat : \A y \in S : y <= m}
<1>1. n \in T
  OBVIOUS
<1>2. T \subseteq Nat /\ T # {}
  BY <1>1
<1>3. PICK m \in T : \A k \in T : <<k, m>> \notin OpToRel(<, Nat)
  BY <1>2, WFMin, NatLessThanWellFounded, Zenon
<1>4. \A k \in T : ~ (k < m)
  BY <1>2, <1>3, Zenon DEF OpToRel
<1>5. m \in S
  <2>1. SUFFICES ASSUME m \notin S PROVE FALSE
    OBVIOUS
  <2>2. PICK y \in S : y \in 1..n
    OBVIOUS
  <2>3. m \in Nat /\ y <= m /\ m - 1 \in Nat
    BY <2>2
  <2>4. m - 1 \in T
    <3>1. \A z \in S : z \in Nat /\ z <= m /\ z # m
      BY <2>1
    <3> QED
      BY <2>3, <3>1
  <2> QED
    BY <1>4, <2>3, <2>4
<1> QED
  BY <1>5

LEMMA WinnerIsShown ==
  ASSUME NEW L \in [Overrides -> Ranges], NEW d \in Days
  PROVE  Winner(L, d) \in Shown
<1> DEFINE matching == {o \in Overrides : L[o].from \in 1..d /\ d <= L[o].to}
<1>1. CASE matching = {}
  BY <1>1 DEF Winner, Shown
<1>2. CASE matching # {}
  <2>1. \E x \in matching : \A y \in matching : x >= y
    BY <1>2, MaxOfBounded, RebuildAssumption DEF Overrides
  <2>2. Max(matching) \in matching
    BY <2>1 DEF Max
  <2> QED
    BY <1>2, <2>2 DEF Winner, Shown
<1> QED
  BY <1>1, <1>2

\* What a new override, with the end it puts to the open one, changes: only the
\* days of its own range, which its job owes.
LEMMA CreationOwes ==
  ASSUME TypeOK, JobsNamed,
         NEW o \in Overrides, NEW from \in Days, NEW to \in Days \cup {Open},
         CreateOverride(o, from, to), NEW d \in Days
  PROVE  Winner(override', d) = Winner(override, d) \/ Owed(o, d)'
<1> USE RebuildAssumption DEF Days, Open
<1>1. CASE d \in from..to
  BY <1>1 DEF CreateOverride, Owed, TypeOK, Jobs
<1>2. CASE d \notin from..to
  <2>1. \A p \in Overrides :
          (override'[p].from \in 1..d /\ d <= override'[p].to)
            <=> (override[p].from \in 1..d /\ d <= override[p].to)
    <3> SUFFICES ASSUME NEW p \in Overrides
                 PROVE  (override'[p].from \in 1..d /\ d <= override'[p].to)
                          <=> (override[p].from \in 1..d /\ d <= override[p].to)
      OBVIOUS
    <3>0. override[p] \in Ranges
      BY DEF TypeOK
    <3>1. CASE p = o
      BY <1>2, <3>1 DEF CreateOverride, NoRange, TypeOK
    <3>2. CASE p # o /\ to = Open /\ override[p].to = Open
      <4>1. d < from
        BY <1>2, <3>2
      <4>2. override'[p].from = override[p].from /\ override'[p].to = from - 1
        BY <3>0, <3>2 DEF CreateOverride, Ranges
      <4> QED
        BY <3>0, <3>2, <4>1, <4>2 DEF Ranges
    <3>3. CASE p # o /\ ~ (to = Open /\ override[p].to = Open)
      BY <3>3 DEF CreateOverride
    <3> QED
      BY <3>1, <3>2, <3>3
  <2>2. {p \in Overrides : override'[p].from \in 1..d /\ d <= override'[p].to}
          = {p \in Overrides : override[p].from \in 1..d /\ d <= override[p].to}
    BY <2>1
  <2> QED
    BY <2>2 DEF Winner
<1> QED
  BY <1>1, <1>2

LEMMA InitIInv == Init => IInv
<1> SUFFICES ASSUME Init PROVE IInv
  OBVIOUS
<1> USE RebuildAssumption DEF Init, Days, Open, Missing, NoOverride
<1>1. NoRun \in Invocations /\ NoAgg \in Aggregations
  BY DEF NoRun, Invocations, NoAgg, Aggregations, Shown, Ranges, NoRange
<1>2. TypeOK
  BY <1>1 DEF TypeOK, Ranges, NoRange, Jobs, NoJob, PairingDays
<1>3. JobsNamed /\ RunOnJob /\ AggUnderLease /\ UntouchedDays
  BY DEF JobsNamed, RunOnJob, AggUnderLease, UntouchedDays, NoRange, NoJob, NoRun, NoAgg
<1>4. LoadedFresh /\ AggFresh /\ HalfRebuilt /\ HalfAggregated
  BY DEF LoadedFresh, AggFresh, HalfRebuilt, HalfAggregated, NoRun, NoAgg
<1>5. DaysRight /\ OpenIsUnique
  BY DEF DaysRight, OpenIsUnique, NoRange
<1> QED
  BY <1>2, <1>3, <1>4, <1>5 DEF IInv

\* Steps that move no job and leave the invocation where it is in its range
\* leave what is due alone.
LEMMA DueKept ==
  ASSUME job' = job, run'.job = run.job, run'.cursor = run.cursor,
         run'.final = run.final, run'.pc = "idle" <=> run.pc = "idle", NEW d
  PROVE  /\ OthersOwe(d)' <=> OthersOwe(d)
         /\ Due(d)' <=> Due(d)
BY DEF OthersOwe, Due, Owed

\* The day the invocation is at.
LEMMA CursorIsDay ==
  ASSUME IInv, run.pc # "idle", run.cursor <= run.final
  PROVE  run.cursor \in Days
<1>1. /\ run \in Invocations /\ run.job \in Overrides
      /\ job[run.job] \in Jobs /\ job[run.job].status = "processing"
      /\ job[run.job].cursor <= run.cursor
  BY DEF IInv, RunOnJob, TypeOK
<1>2. job[run.job].cursor \in 1..Open
  BY <1>1 DEF IInv, JobsNamed
<1> QED
  BY <1>1, <1>2, RebuildAssumption DEF Invocations, Days, Open

LEMMA AroundStep ==
  ASSUME IInv, NewDay \/ (\E d \in Days : LeaseRunsOut(d)) \/ UNCHANGED vars
  PROVE  IInv'
<1> USE RebuildAssumption DEF IInv
<1>1. /\ UNCHANGED <<expired, override, job, docs, daily, run, agg, aggs, failures>>
      /\ today' \in Days
      /\ today <= today'
      /\ holder' \in [Days -> {"free", "aggregation", "rebuild", "dead"}]
      /\ \A d \in Days : holder'[d] # holder[d] => holder[d] = "dead"
  <2>1. CASE NewDay
    BY <2>1 DEF NewDay, TypeOK, Days
  <2>2. CASE \E d \in Days : LeaseRunsOut(d)
    BY <2>2 DEF LeaseRunsOut, TypeOK, Days
  <2>3. CASE UNCHANGED vars
    BY <2>3 DEF vars, TypeOK, Days
  <2> QED
    BY <2>1, <2>2, <2>3
<1>2. TypeOK' /\ JobsNamed' /\ OpenIsUnique'
  BY <1>1 DEF TypeOK, JobsNamed, OpenIsUnique
<1>3. RunOnJob'
  <2>1. run.pc \in {"docs", "daily"} => run.cursor \in Days
    BY CursorIsDay DEF RunOnJob
  <2>2. run.final \in Nat /\ today \in Nat /\ today' \in Nat
    BY <1>1 DEF TypeOK, Invocations, Days
  <2>3. run.pc \in {"docs", "daily"} => holder'[run.cursor] = "rebuild"
    BY <1>1, <2>1 DEF RunOnJob
  <2>4. run.final <= today => run.final <= today'
    BY <1>1, <2>2
  <2> QED
    BY <1>1, <2>3, <2>4 DEF RunOnJob
<1>4. AggUnderLease'
  BY <1>1 DEF AggUnderLease, TypeOK, Days
<1>5. UntouchedDays'
  <2>1. \A d \in Days : d >= today' => d >= today
    BY <1>1 DEF TypeOK, Days
  <2> QED
    BY <1>1, <2>1 DEF UntouchedDays
<1>6. LoadedFresh' /\ AggFresh' /\ DaysRight'
  BY <1>1, DueKept DEF LoadedFresh, AggFresh, DaysRight
<1>7. HalfRebuilt' /\ HalfAggregated'
  BY <1>1 DEF HalfRebuilt, HalfAggregated
<1> QED
  BY <1>2, <1>3, <1>4, <1>5, <1>6, <1>7

\* The retention job takes documents from expired days only, of which no invariant
\* speaks.
LEMMA RetentionStep ==
  ASSUME IInv, Expires \/ (\E d \in Days : DeleteDocs(d) \/ DeleteDaily(d))
  PROVE  IInv'
<1> USE RebuildAssumption DEF IInv
<1>1. /\ UNCHANGED <<today, override, job, holder, run, agg, aggs, failures>>
      /\ expired' \in 0..MaxDay /\ expired <= expired'
      /\ expired' # expired => agg.day # expired' /\ expired' = expired + 1
      /\ docs' \in [Days -> PairingDays]
      /\ daily' \in [Days -> Shown \cup {Missing}]
      /\ \A d \in Days : d > expired => docs'[d] = docs[d] /\ daily'[d] = daily[d]
      /\ \A d \in Days :
           /\ docs[d].winner = Missing => docs'[d].winner = Missing
           /\ daily[d] = Missing => daily'[d] = Missing
  <2>1. CASE Expires
    BY <2>1 DEF Expires, TypeOK, Days
  <2>2. CASE \E d \in Days : DeleteDocs(d)
    <3>1. [winner |-> Missing, fingerprint |-> Missing] \in PairingDays
      BY DEF PairingDays
    <3>2. PICK d \in Days : DeleteDocs(d)
      BY <2>2
    <3> QED
      BY <3>1, <3>2 DEF DeleteDocs, TypeOK, Days
  <2>3. CASE \E d \in Days : DeleteDaily(d)
    BY <2>3 DEF DeleteDaily, TypeOK, Days
  <2> QED
    BY <2>1, <2>2, <2>3
<1>2. \A n \in Nat : n > expired' => n > expired
  BY <1>1 DEF TypeOK
<1>3. TypeOK' /\ JobsNamed' /\ OpenIsUnique' /\ RunOnJob'
  BY <1>1 DEF TypeOK, JobsNamed, OpenIsUnique, RunOnJob
<1>4. AggUnderLease'
  <2>1. agg.pc # "idle" => agg.day > expired'
    BY <1>1 DEF AggUnderLease, TypeOK, Days
  <2> QED
    BY <1>1, <2>1 DEF AggUnderLease
<1>5. UntouchedDays'
  BY <1>1, <1>2 DEF UntouchedDays, Days
<1>6. \A d : (Due(d)' <=> Due(d)) /\ (OthersOwe(d)' <=> OthersOwe(d))
  BY <1>1, DueKept
<1>7. LoadedFresh' /\ AggFresh'
  BY <1>1, <1>6 DEF LoadedFresh, AggFresh
<1>8. HalfRebuilt'
  <2>1. run.pc = "daily" => run.cursor \in Days /\ run.cursor \in Nat
    BY CursorIsDay DEF RunOnJob, Days
  <2> QED
    BY <1>1, <1>2, <2>1 DEF HalfRebuilt
<1>9. HalfAggregated'
  BY <1>1 DEF HalfAggregated, AggUnderLease
<1>10. DaysRight'
  BY <1>1, <1>2, <1>6 DEF DaysRight, Days
<1> QED
  BY <1>3, <1>4, <1>5, <1>7, <1>8, <1>9, <1>10

\* A new override makes wrong what it covers, and owes it in the same commit;
\* the job at work is another one.
LEMMA CreateOverrideStep ==
  ASSUME IInv, NEW o \in Overrides, NEW from \in Days, NEW to \in Days \cup {Open},
         CreateOverride(o, from, to)
  PROVE  IInv'
<1> USE RebuildAssumption DEF IInv
<1>1. /\ UNCHANGED <<today, expired, holder, docs, daily, run, agg, aggs, failures>>
      /\ job[o].status = "none"
      /\ o # run.job
  <2>1. override[o].from = 0
    BY DEF CreateOverride, NoRange
  <2> QED
    BY <2>1 DEF CreateOverride, JobsNamed, RunOnJob, NoRun, Overrides, NoOverride
<1>2. /\ job' \in [Overrides -> Jobs]
      /\ job'[o].status = "pending" /\ job'[o].cursor = from
      /\ \A p \in Overrides \ {o} : job'[p] = job[p]
  <2>1. [status |-> "pending", cursor |-> from, to |-> to] \in Jobs
    BY DEF Jobs, Days, Open
  <2>2. job \in [Overrides -> Jobs]
    BY DEF TypeOK
  <2> QED
    BY <2>1, <2>2 DEF CreateOverride
<1>3. /\ override' \in [Overrides -> Ranges]
      /\ override'[o].from = from /\ override'[o].to = to
      /\ \A p \in Overrides \ {o} :
           \/ override'[p] = override[p] /\ ~ (to = Open /\ override[p].to = Open)
           \/ /\ to = Open /\ override[p].to = Open
              /\ override'[p].from = override[p].from
              /\ override'[p].to = from - 1
  <2>1. \A p \in Overrides : override[p] \in Ranges
    BY DEF TypeOK
  <2>2. [from |-> from, to |-> to] \in Ranges /\ from - 1 \in 0..Open
    BY DEF Ranges, Days, Open
  <2>3. \A p \in Overrides :
          /\ [override[p] EXCEPT !.to = from - 1] \in Ranges
          /\ [override[p] EXCEPT !.to = from - 1].from = override[p].from
          /\ [override[p] EXCEPT !.to = from - 1].to = from - 1
    BY <2>1, <2>2 DEF Ranges
  <2>4. override' = [p \in Overrides |->
                      IF p = o THEN [from |-> from, to |-> to]
                      ELSE IF to = Open /\ override[p].to = Open
                      THEN [override[p] EXCEPT !.to = from - 1]
                      ELSE override[p]]
    BY DEF CreateOverride
  <2> QED
    BY <2>1, <2>2, <2>3, <2>4
<1>4. TypeOK'
  BY <1>1, <1>2, <1>3 DEF TypeOK
<1>5. JobsNamed'
  BY <1>2, <1>3 DEF JobsNamed, Days, Open, NoRange
<1>6. RunOnJob' /\ AggUnderLease' /\ UntouchedDays'
  BY <1>1, <1>2 DEF RunOnJob, AggUnderLease, UntouchedDays
<1>7. \A d \in Days :
        /\ OthersOwe(d) => OthersOwe(d)'
        /\ Due(d) => Due(d)'
        /\ Winner(override', d) = Winner(override, d) \/ (OthersOwe(d)' /\ Due(d)')
  <2> SUFFICES ASSUME NEW d \in Days
               PROVE  /\ OthersOwe(d) => OthersOwe(d)'
                      /\ Due(d) => Due(d)'
                      /\ Winner(override', d) = Winner(override, d)
                           \/ (OthersOwe(d)' /\ Due(d)')
    OBVIOUS
  <2>1. \A p \in Overrides : Owed(p, d) => Owed(p, d)'
    BY <1>1, <1>2 DEF Owed
  <2>2. OthersOwe(d) => OthersOwe(d)'
    BY <1>1, <2>1 DEF OthersOwe
  <2>3. Due(d) => Due(d)'
    BY <1>1, <2>2 DEF Due
  <2>4. Winner(override', d) = Winner(override, d) \/ Owed(o, d)'
    BY CreationOwes
  <2>5. Owed(o, d)' => OthersOwe(d)' /\ Due(d)'
    BY <1>1 DEF OthersOwe, Due
  <2> QED
    BY <2>2, <2>3, <2>4, <2>5
<1>8. LoadedFresh' /\ DaysRight'
  BY <1>1, <1>7 DEF LoadedFresh, DaysRight
<1>9. AggFresh'
  BY <1>1, <1>7 DEF AggFresh, AggUnderLease
<1>10. HalfRebuilt' /\ HalfAggregated'
  BY <1>1 DEF HalfRebuilt, HalfAggregated
<1>11. OpenIsUnique'
  <2>1. from - 1 # Open
    BY DEF Days, Open
  <2>2. CASE to = Open
    <3>1. \A p \in Overrides \ {o} : override'[p].to # Open
      BY <1>3, <2>1, <2>2
    <3> QED
      BY <3>1 DEF OpenIsUnique
  <2>3. CASE to # Open
    <3>1. \A p \in Overrides : override'[p].to = Open => override[p].to = Open
      BY <1>3, <2>3
    <3> QED
      BY <3>1 DEF OpenIsUnique
  <2> QED
    BY <2>2, <2>3
<1> QED
  BY <1>4, <1>5, <1>6, <1>8, <1>9, <1>10, <1>11

LEMMA MinOfTwo ==
  ASSUME NEW a \in Nat, NEW b \in Nat
  PROVE  Min({a, b}) \in {a, b} /\ Min({a, b}) <= a /\ Min({a, b}) <= b
<1>1. \E x \in {a, b} : \A y \in {a, b} : x <= y
  OBVIOUS
<1> QED
  BY <1>1 DEF Min

\* The claim narrows what is due to today; nothing is materialised beyond.
LEMMA ClaimStep ==
  ASSUME IInv, NEW o \in Overrides, Claim(o)
  PROVE  IInv'
<1> USE RebuildAssumption DEF IInv
<1> DEFINE final == Min({job[o].to, today})
<1>0. /\ job[o] \in Jobs /\ today \in Days
      /\ job[o].cursor \in 1..Open
      /\ job[o].to \in Nat /\ today \in Nat
      /\ run = NoRun /\ run.pc = "idle" /\ run.job \notin Overrides
  BY DEF Claim, TypeOK, JobsNamed, RunOnJob, NoRun, Overrides, NoOverride, Jobs, Days,
         Open
<1>1. final \in 0..MaxDay /\ final <= job[o].to /\ final <= today
      /\ final \in {job[o].to, today}
  BY <1>0, MinOfTwo DEF Days
<1>2. /\ run' \in Invocations
      /\ run'.pc = "load" /\ run'.job = o /\ run'.cursor = job[o].cursor
      /\ run'.final = final
  BY <1>0, <1>1 DEF Claim, NoRun, Invocations, TypeOK, Jobs
<1>3. /\ job' \in [Overrides -> Jobs]
      /\ job'[o].status = "processing"
      /\ job'[o].cursor = job[o].cursor /\ job'[o].to = job[o].to
      /\ \A p \in Overrides \ {o} : job'[p] = job[p]
  BY <1>0 DEF Claim, TypeOK, Jobs
<1>4. UNCHANGED <<today, expired, override, holder, docs, daily, agg, aggs, failures>>
  BY DEF Claim
<1>5. TypeOK'
  BY <1>2, <1>3, <1>4 DEF TypeOK
<1>6. JobsNamed' /\ OpenIsUnique'
  BY <1>0, <1>3, <1>4 DEF JobsNamed, OpenIsUnique, Claim
<1>7. RunOnJob'
  BY <1>0, <1>1, <1>2, <1>3, <1>4 DEF RunOnJob, Jobs, Open
<1>8. AggUnderLease' /\ UntouchedDays' /\ HalfAggregated'
  BY <1>4 DEF AggUnderLease, UntouchedDays, HalfAggregated
<1>9. \A d \in Days : Due(d) /\ d <= today => Due(d)'
  <2> SUFFICES ASSUME NEW d \in Days, Due(d), d <= today
               PROVE  Due(d)'
    OBVIOUS
  <2>1. PICK p \in Overrides : Owed(p, d)
    BY <1>0 DEF Due, OthersOwe
  <2>2. CASE p = o
    <3>1. d \in job[o].cursor..job[o].to /\ d \in Nat
      BY <2>1, <2>2 DEF Owed, Days
    <3>2. d \in run'.cursor..run'.final
      BY <1>0, <1>1, <1>2, <3>1 DEF Open
    <3> QED
      BY <1>2, <3>2 DEF Due
  <2>3. CASE p # o
    BY <1>2, <1>3, <2>1, <2>3 DEF Due, OthersOwe, Owed
  <2> QED
    BY <2>2, <2>3
<1>10. \A d \in Days : daily[d] # Missing => d <= today
  BY DEF UntouchedDays, TypeOK, Days
<1>11. DaysRight'
  BY <1>4, <1>9, <1>10 DEF DaysRight
<1>12. AggFresh'
  <2>1. agg.pc # "idle" => agg.day \in Days /\ agg.day <= today
    BY DEF AggUnderLease, TypeOK, Days
  <2> QED
    BY <1>4, <1>9, <2>1 DEF AggFresh
<1>13. LoadedFresh' /\ HalfRebuilt'
  BY <1>2 DEF LoadedFresh, HalfRebuilt
<1> QED
  BY <1>5, <1>6, <1>7, <1>8, <1>11, <1>12, <1>13

LEMMA LoadOverridesStep ==
  ASSUME IInv, LoadOverrides
  PROVE  IInv'
<1> USE RebuildAssumption DEF IInv
<1>1. /\ run' \in Invocations
      /\ run'.pc = "day" /\ run'.loaded = override
      /\ run'.job = run.job /\ run'.cursor = run.cursor /\ run'.final = run.final
      /\ run.pc = "load"
  BY DEF LoadOverrides, TypeOK, Invocations
<1>2. UNCHANGED <<today, expired, override, job, holder, docs, daily, agg, aggs, failures>>
  BY DEF LoadOverrides
<1>3. TypeOK' /\ JobsNamed' /\ OpenIsUnique'
  BY <1>1, <1>2 DEF TypeOK, JobsNamed, OpenIsUnique
<1>4. RunOnJob'
  BY <1>1, <1>2 DEF RunOnJob
<1>5. AggUnderLease' /\ UntouchedDays' /\ HalfAggregated'
  BY <1>2 DEF AggUnderLease, UntouchedDays, HalfAggregated
<1>6. \A d : Due(d)' <=> Due(d)
  BY <1>1, <1>2, DueKept
<1>7. AggFresh' /\ DaysRight'
  BY <1>2, <1>6 DEF AggFresh, DaysRight
<1>8. LoadedFresh' /\ HalfRebuilt'
  BY <1>1, <1>2 DEF LoadedFresh, HalfRebuilt
<1> QED
  BY <1>3, <1>4, <1>5, <1>7, <1>8

LEMMA TakeDayStep ==
  ASSUME IInv, TakeDay
  PROVE  IInv'
<1> USE RebuildAssumption DEF IInv
<1>0. run.pc = "day" /\ run.cursor <= run.final /\ run.processed < Chunk
      /\ run.cursor \in Days
  BY CursorIsDay DEF TakeDay, More
<1>1. /\ run' \in Invocations
      /\ run'.pc = "docs" /\ run'.loaded = run.loaded /\ run'.processed = run.processed
      /\ run'.job = run.job /\ run'.cursor = run.cursor /\ run'.final = run.final
  BY DEF TakeDay, TypeOK, Invocations
<1>2. UNCHANGED <<today, expired, override, job, docs, daily, agg, aggs, failures>>
  BY DEF TakeDay
<1>3. /\ holder' \in [Days -> {"free", "aggregation", "rebuild", "dead"}]
      /\ holder[run.cursor] = "free" /\ holder'[run.cursor] = "rebuild"
      /\ \A d \in Days \ {run.cursor} : holder'[d] = holder[d]
  BY <1>0 DEF TakeDay, TypeOK
<1>4. TypeOK' /\ JobsNamed' /\ OpenIsUnique'
  BY <1>1, <1>2, <1>3 DEF TypeOK, JobsNamed, OpenIsUnique
<1>5. RunOnJob'
  BY <1>0, <1>1, <1>2, <1>3 DEF RunOnJob
<1>6. AggUnderLease'
  BY <1>2, <1>3 DEF AggUnderLease
<1>7. UntouchedDays' /\ HalfAggregated' /\ HalfRebuilt'
  BY <1>1, <1>2 DEF UntouchedDays, HalfAggregated, HalfRebuilt
<1>8. \A d : (Due(d)' <=> Due(d)) /\ (OthersOwe(d)' <=> OthersOwe(d))
  BY <1>0, <1>1, <1>2, DueKept
<1>9. AggFresh' /\ DaysRight'
  BY <1>2, <1>8 DEF AggFresh, DaysRight
<1>10. LoadedFresh'
  BY <1>0, <1>1, <1>2, <1>8 DEF LoadedFresh
<1> QED
  BY <1>4, <1>5, <1>6, <1>7, <1>9, <1>10

\* The update of the summaries: the day stays due until its second document.
LEMMA RebuildDocsStep ==
  ASSUME IInv, RebuildDocs
  PROVE  IInv'
<1> USE RebuildAssumption DEF IInv
<1> DEFINE c == run.cursor
           shown == Winner(run.loaded, c)
<1>0. /\ c \in Days /\ c <= run.final /\ run.processed < Chunk
      /\ holder[c] = "rebuild"
      /\ run.pc = "docs"
      /\ docs[c].winner # Missing /\ daily[c] # Missing
      /\ agg.pc # "idle" => agg.day # c
  BY CursorIsDay DEF RebuildDocs, RunOnJob, AggUnderLease
<1>1. shown \in Shown /\ shown # Missing
  <2>1. run.loaded \in [Overrides -> Ranges]
    BY DEF TypeOK, Invocations
  <2>2. shown \in Shown
    BY <1>0, <2>1, WinnerIsShown
  <2> QED
    BY <2>2 DEF Shown, Overrides, NoOverride, Missing
<1>2. /\ run' \in Invocations
      /\ run'.pc = "daily" /\ run'.loaded = run.loaded /\ run'.processed = run.processed
      /\ run'.job = run.job /\ run'.cursor = run.cursor /\ run'.final = run.final
  BY DEF RebuildDocs, TypeOK, Invocations
<1>3. /\ docs' \in [Days -> PairingDays]
      /\ docs'[c].winner = shown
      /\ \A d \in Days \ {c} : docs'[d] = docs[d]
  BY <1>0, <1>1 DEF RebuildDocs, TypeOK, PairingDays
<1>4. UNCHANGED <<today, expired, override, job, holder, daily, agg, aggs, failures>>
  BY DEF RebuildDocs
<1>5. TypeOK' /\ JobsNamed' /\ OpenIsUnique'
  BY <1>2, <1>3, <1>4 DEF TypeOK, JobsNamed, OpenIsUnique
<1>6. RunOnJob' /\ AggUnderLease'
  BY <1>0, <1>2, <1>4 DEF RunOnJob, AggUnderLease
<1>7. UntouchedDays'
  BY <1>0, <1>1, <1>3, <1>4 DEF UntouchedDays
<1>8. HalfAggregated' /\ HalfRebuilt'
  BY <1>0, <1>2, <1>3, <1>4 DEF HalfAggregated, HalfRebuilt, AggUnderLease
<1>9. \A d : (Due(d)' <=> Due(d)) /\ (OthersOwe(d)' <=> OthersOwe(d))
  BY <1>0, <1>2, <1>4, DueKept
<1>10. Due(c)
  BY <1>0 DEF Due, TypeOK, Invocations, Days, Open
<1>11. AggFresh' /\ LoadedFresh'
  BY <1>0, <1>2, <1>4, <1>9 DEF AggFresh, LoadedFresh
<1>12. DaysRight'
  BY <1>3, <1>4, <1>9, <1>10 DEF DaysRight
<1> QED
  BY <1>5, <1>6, <1>7, <1>8, <1>11, <1>12

\* What leaving a day behind does to the rest: the other days stay due.
LEMMA NextDayKeeps ==
  ASSUME IInv, run.pc \in {"docs", "daily"}, NextDay,
         UNCHANGED <<today, expired, override, job, docs, agg>>
  PROVE  /\ run' \in Invocations
         /\ run'.pc = "day"
         /\ holder' \in [Days -> {"free", "aggregation", "rebuild", "dead"}]
         /\ RunOnJob' /\ AggUnderLease' /\ LoadedFresh' /\ AggFresh'
         /\ \A d \in Days \ {run.cursor} : Due(d) => Due(d)'
         /\ \A d \in Days : OthersOwe(d) => Due(d)'
<1> USE RebuildAssumption DEF IInv
<1> DEFINE c == run.cursor
<1>0. /\ c \in Days /\ c <= run.final /\ run.processed < Chunk
      /\ holder[c] = "rebuild"
      /\ agg.pc # "idle" => agg.day \in Days \ {c}
      /\ run.final \in 0..MaxDay /\ run.processed \in 0..Chunk
  BY CursorIsDay DEF RunOnJob, AggUnderLease, TypeOK, Invocations
<1>1. /\ run' \in Invocations
      /\ run'.pc = "day" /\ run'.loaded = run.loaded
      /\ run'.job = run.job /\ run'.cursor = c + 1 /\ run'.final = run.final
  <2>1. c + 1 \in 0..Open /\ run.processed + 1 \in 0..Chunk
    BY <1>0 DEF Days, Open
  <2>2. run' = [run EXCEPT !.pc = "day", !.cursor = c + 1,
                           !.processed = run.processed + 1]
    BY DEF NextDay, TypeOK, Invocations
  <2> HIDE DEF c
  <2> QED
    BY <2>1, <2>2 DEF TypeOK, Invocations
<1>2. /\ holder' \in [Days -> {"free", "aggregation", "rebuild", "dead"}]
      /\ \A d \in Days \ {c} : holder'[d] = holder[d]
  BY <1>0 DEF NextDay, TypeOK
<1>3. RunOnJob'
  <2>0. /\ job[run.job].cursor <= c
        /\ job[run.job] \in Jobs
    BY DEF RunOnJob, TypeOK
  <2>1. /\ job[run.job].cursor <= c
        /\ job[run.job].cursor \in Nat /\ c \in Nat
    BY <1>0, <2>0 DEF Jobs, Days
  <2>2. job[run.job].cursor <= c + 1
    BY <2>1
  <2> QED
    BY <1>1, <2>2 DEF RunOnJob
<1>4. AggUnderLease'
  BY <1>0, <1>2 DEF AggUnderLease
<1>5. \A d : OthersOwe(d)' <=> OthersOwe(d)
  BY <1>1 DEF OthersOwe, Owed
<1>6. LoadedFresh'
  BY <1>1, <1>5 DEF LoadedFresh
<1>7. \A d \in Days \ {c} : Due(d) => Due(d)'
  BY <1>0, <1>1, <1>5 DEF Due, Days
<1>8. AggFresh'
  BY <1>0, <1>7 DEF AggFresh
<1>9. \A d \in Days : OthersOwe(d) => Due(d)'
  BY <1>5 DEF Due
<1> QED
  BY <1>1, <1>2, <1>3, <1>4, <1>6, <1>7, <1>8, <1>9

LEMMA SkipDayStep ==
  ASSUME IInv, SkipDay
  PROVE  IInv'
<1> USE RebuildAssumption DEF IInv
<1>1. run.pc \in {"docs", "daily"} /\ run.cursor \in Days
  BY CursorIsDay DEF SkipDay, RunOnJob
<1>2. run.cursor > expired => daily[run.cursor] = Missing
  BY <1>1 DEF SkipDay, UntouchedDays, TypeOK, Days
<1>3. /\ NextDay
      /\ UNCHANGED <<today, expired, override, job, docs, daily, agg, aggs, failures>>
  BY DEF SkipDay
<1>4. /\ run' \in Invocations
      /\ run'.pc = "day"
      /\ holder' \in [Days -> {"free", "aggregation", "rebuild", "dead"}]
      /\ RunOnJob' /\ AggUnderLease' /\ LoadedFresh' /\ AggFresh'
      /\ \A d \in Days \ {run.cursor} : Due(d) => Due(d)'
  BY <1>1, <1>3, NextDayKeeps
<1>5. TypeOK' /\ JobsNamed' /\ OpenIsUnique'
  BY <1>3, <1>4 DEF TypeOK, JobsNamed, OpenIsUnique
<1>6. UntouchedDays' /\ HalfAggregated' /\ HalfRebuilt'
  BY <1>3, <1>4 DEF UntouchedDays, HalfAggregated, HalfRebuilt
<1>7. DaysRight'
  BY <1>2, <1>3, <1>4 DEF DaysRight
<1> QED
  BY <1>4, <1>5, <1>6, <1>7

\* The second document: the day leaves what this job has to visit, and shows
\* what the overrides say unless a job created since owes it.
LEMMA RebuildDailyStep ==
  ASSUME IInv, RebuildDaily
  PROVE  IInv'
<1> USE RebuildAssumption DEF IInv
<1>a. PICK c \in Days : c = run.cursor
  BY CursorIsDay DEF RebuildDaily, RunOnJob
<1> DEFINE shown == Winner(run.loaded, c)
<1>0. /\ run.pc = "daily"
      /\ c > expired => docs[c].winner = shown /\ daily[c] # Missing
      /\ agg.pc # "idle" => agg.day # c
  BY <1>a DEF RebuildDaily, RunOnJob, AggUnderLease, HalfRebuilt
<1>1. shown \in Shown /\ shown # Missing
  <2>1. run.loaded \in [Overrides -> Ranges]
    BY DEF TypeOK, Invocations
  <2>2. shown \in Shown
    BY <1>0, <2>1, WinnerIsShown
  <2> QED
    BY <2>2 DEF Shown, Overrides, NoOverride, Missing
<1>2. /\ NextDay
      /\ UNCHANGED <<today, expired, override, job, docs, agg, aggs, failures>>
  BY DEF RebuildDaily
<1>3. /\ run' \in Invocations
      /\ run'.pc = "day"
      /\ holder' \in [Days -> {"free", "aggregation", "rebuild", "dead"}]
      /\ RunOnJob' /\ AggUnderLease' /\ LoadedFresh' /\ AggFresh'
      /\ \A d \in Days \ {c} : Due(d) => Due(d)'
      /\ \A d \in Days : OthersOwe(d) => Due(d)'
  BY <1>0, <1>2, <1>a, NextDayKeeps
<1>4. /\ daily' \in [Days -> Shown \cup {Missing}]
      /\ daily[c] = Missing => daily'[c] = Missing
      /\ c > expired => daily'[c] = shown
      /\ \A d \in Days \ {c} : daily'[d] = daily[d]
  BY <1>0, <1>1, <1>a DEF RebuildDaily, TypeOK
<1>5. TypeOK' /\ JobsNamed' /\ OpenIsUnique'
  BY <1>2, <1>3, <1>4 DEF TypeOK, JobsNamed, OpenIsUnique
<1>6. UntouchedDays'
  BY <1>0, <1>1, <1>2, <1>4 DEF UntouchedDays
<1>7. HalfAggregated' /\ HalfRebuilt'
  BY <1>0, <1>2, <1>3, <1>4 DEF HalfAggregated, HalfRebuilt, AggUnderLease
<1>8. shown = Winner(override, c) \/ Due(c)'
  BY <1>0, <1>3 DEF LoadedFresh
<1>9. DaysRight'
  <2> SUFFICES ASSUME NEW d \in Days, d > expired, daily'[d] # Missing
               PROVE  \/ Due(d)'
                      \/ /\ docs[d].winner = Winner(override, d)
                         /\ daily'[d] = Winner(override, d)
    BY <1>2 DEF DaysRight
  <2>1. CASE d = c
    BY <1>0, <1>4, <1>8, <2>1
  <2>2. CASE d # c
    BY <1>3, <1>4, <2>2 DEF DaysRight
  <2> QED
    BY <2>1, <2>2
<1> QED
  BY <1>3, <1>5, <1>6, <1>7, <1>9

\* However an invocation ends, its job still owes what it has not visited.
LEMMA EndOfRun ==
  ASSUME IInv, run.pc # "idle", NEW o \in Overrides, o = run.job, run' = NoRun,
         UNCHANGED <<today, expired, override, docs, daily, agg, aggs>>,
         failures' \in Nat,
         job' \in [Overrides -> Jobs],
         job'[o].status # "none",
         job'[o].cursor \in 1..Open,
         \A p \in Overrides \ {o} : job'[p] = job[p],
         \A d \in run.cursor..run.final : Owed(o, d)',
         holder' \in [Days -> {"free", "aggregation", "rebuild", "dead"}],
         agg.pc # "idle" => holder'[agg.day] = holder[agg.day]
  PROVE  IInv'
<1> USE RebuildAssumption DEF IInv
<1>0. job[o].status # "none"
  BY DEF RunOnJob
<1>1. NoRun \in Invocations /\ run'.pc = "idle" /\ run'.job \notin Overrides
  BY DEF NoRun, Invocations, NoRange, Ranges, Open, Overrides, NoOverride
<1>2. TypeOK'
  BY <1>1 DEF TypeOK
<1>3. JobsNamed' /\ OpenIsUnique'
  BY <1>0 DEF JobsNamed, OpenIsUnique
<1>4. RunOnJob' /\ LoadedFresh' /\ HalfRebuilt'
  BY <1>1 DEF RunOnJob, LoadedFresh, HalfRebuilt
<1>5. AggUnderLease' /\ UntouchedDays' /\ HalfAggregated'
  BY DEF AggUnderLease, UntouchedDays, HalfAggregated
<1>6. \A d \in Days : Due(d) => Due(d)'
  <2> SUFFICES ASSUME NEW d \in Days, Due(d)
               PROVE  OthersOwe(d)'
    BY DEF Due
  <2>1. CASE OthersOwe(d)
    BY <1>1, <2>1 DEF OthersOwe, Owed
  <2>2. CASE d \in run.cursor..run.final
    BY <1>0, <1>1, <2>2 DEF OthersOwe
  <2> QED
    BY <2>1, <2>2 DEF Due
<1>7. AggFresh' /\ DaysRight'
  BY <1>6 DEF AggFresh, AggUnderLease, DaysRight
<1> QED
  BY <1>2, <1>3, <1>4, <1>5, <1>7

LEMMA SaveStep ==
  ASSUME IInv, Save
  PROVE  IInv'
<1> USE RebuildAssumption DEF IInv
<1>a. PICK o \in Overrides : o = run.job
  BY DEF Save, RunOnJob
<1>0. /\ run.pc = "day"
      /\ run.cursor \in 1..Open
      /\ run.final \in 0..MaxDay /\ run.final <= job[o].to
      /\ job[o].to \in 0..Open
  BY <1>a DEF Save, RunOnJob, JobsNamed, TypeOK, Invocations, Jobs, Open
<1>1. /\ job' \in [Overrides -> Jobs]
      /\ job'[o].status = IF run.cursor > run.final THEN "complete" ELSE "pending"
      /\ job'[o].cursor = run.cursor /\ job'[o].to = job[o].to
      /\ \A p \in Overrides \ {o} : job'[p] = job[p]
  BY <1>0, <1>a DEF Save, TypeOK, Jobs
<1>2. \A d \in run.cursor..run.final : Owed(o, d)'
  <2> SUFFICES ASSUME NEW d \in run.cursor..run.final
               PROVE  /\ job'[o].status \in {"pending", "processing", "failed"}
                      /\ d \in job'[o].cursor..job'[o].to
    BY DEF Owed
  <2> QED
    BY <1>0, <1>1 DEF Open
<1> QED
  BY <1>0, <1>1, <1>2, <1>a, EndOfRun DEF Save, TypeOK

LEMMA RebuildEndsStep ==
  ASSUME IInv, RebuildThrows \/ RebuildDies
  PROVE  IInv'
<1> USE RebuildAssumption DEF IInv
<1>a. PICK o \in Overrides : o = run.job
  BY DEF RebuildThrows, RebuildDies, RunOnJob
<1>0. /\ run.pc # "idle"
      /\ job[o].status = "processing" /\ job[o].cursor \in 1..Open
      /\ job[o].cursor <= run.cursor /\ run.final <= job[o].to
      /\ run.cursor \in 0..Open /\ run.final \in 0..MaxDay
      /\ job[o].to \in 0..Open
  BY <1>a DEF RebuildThrows, RebuildDies, RunOnJob, JobsNamed, TypeOK, Invocations, Jobs
<1>1. /\ job' \in [Overrides -> Jobs]
      /\ job'[o].status \in {"processing", "failed"}
      /\ job'[o].cursor = job[o].cursor /\ job'[o].to = job[o].to
      /\ \A p \in Overrides \ {o} : job'[p] = job[p]
  <2>1. CASE RebuildThrows
    BY <1>0, <1>a, <2>1 DEF RebuildThrows, TypeOK, Jobs
  <2>2. CASE RebuildDies
    BY <1>0, <2>2 DEF RebuildDies, TypeOK
  <2> QED
    BY <2>1, <2>2
<1>2. \A d \in run.cursor..run.final : Owed(o, d)'
  <2> SUFFICES ASSUME NEW d \in run.cursor..run.final
               PROVE  /\ job'[o].status \in {"pending", "processing", "failed"}
                      /\ d \in job'[o].cursor..job'[o].to
    BY DEF Owed
  <2> QED
    BY <1>0, <1>1 DEF Open
<1>3. /\ holder' \in [Days -> {"free", "aggregation", "rebuild", "dead"}]
      /\ agg.pc # "idle" => holder'[agg.day] = holder[agg.day]
  <2>1. agg.pc # "idle" => agg.day \in Days /\ holder[agg.day] = "aggregation"
    BY DEF AggUnderLease
  <2>2. run.pc \in {"docs", "daily"} => holder[run.cursor] = "rebuild"
    BY DEF RunOnJob
  <2>3. CASE RebuildThrows
    BY <2>1, <2>2, <2>3 DEF RebuildThrows, TypeOK
  <2>4. CASE RebuildDies
    BY <2>1, <2>2, <2>4 DEF RebuildDies, TypeOK
  <2> QED
    BY <2>3, <2>4
<1>4. /\ run' = NoRun /\ failures' \in Nat
      /\ UNCHANGED <<today, expired, override, docs, daily, agg, aggs>>
  BY DEF RebuildThrows, RebuildDies, TypeOK
<1> QED
  BY <1>0, <1>1, <1>2, <1>3, <1>4, <1>a, EndOfRun

(***************************************************************************)
(* The aggregation.                                                        *)
(***************************************************************************)
LEMMA AggTakeStep ==
  ASSUME IInv, NEW d \in Days, AggTake(d)
  PROVE  IInv'
<1> USE RebuildAssumption DEF IInv
<1>1. /\ agg' \in Aggregations /\ agg'.pc = "load" /\ agg'.day = d
      /\ d < today /\ d > expired /\ holder[d] = "free"
  <2>1. d \in 0..MaxDay /\ NoAgg \in Aggregations
    BY DEF Days, NoAgg, Aggregations, Shown
  <2>2. [NoAgg EXCEPT !.pc = "load", !.day = d] \in Aggregations
    BY <2>1 DEF Aggregations
  <2>3. d < today /\ d > expired
    BY DEF AggTake, TypeOK, Days
  <2> QED
    BY <2>2, <2>3 DEF AggTake, NoAgg
<1>2. /\ UNCHANGED <<today, expired, override, job, docs, daily, run, failures>>
      /\ aggs' \in Nat
  BY DEF AggTake, TypeOK
<1>3. /\ holder' \in [Days -> {"free", "aggregation", "rebuild", "dead"}]
      /\ holder'[d] = "aggregation"
      /\ \A e \in Days \ {d} : holder'[e] = holder[e]
  BY DEF AggTake, TypeOK
<1>4. TypeOK' /\ JobsNamed' /\ OpenIsUnique'
  BY <1>1, <1>2, <1>3 DEF TypeOK, JobsNamed, OpenIsUnique
<1>5. RunOnJob'
  <2>1. run.pc \in {"docs", "daily"} => run.cursor \in Days \ {d}
    BY <1>1, CursorIsDay DEF RunOnJob
  <2> QED
    BY <1>2, <1>3, <2>1 DEF RunOnJob
<1>6. AggUnderLease' /\ AggFresh' /\ HalfAggregated'
  BY <1>1, <1>2, <1>3 DEF AggUnderLease, AggFresh, HalfAggregated
<1>7. \A e : (Due(e)' <=> Due(e)) /\ (OthersOwe(e)' <=> OthersOwe(e))
  BY <1>2, DueKept
<1>8. UntouchedDays' /\ LoadedFresh' /\ HalfRebuilt' /\ DaysRight'
  BY <1>2, <1>7 DEF UntouchedDays, LoadedFresh, HalfRebuilt, DaysRight
<1> QED
  BY <1>4, <1>5, <1>6, <1>8

LEMMA AggLoadStep ==
  ASSUME IInv, AggLoad
  PROVE  IInv'
<1> USE RebuildAssumption DEF IInv
<1>0. agg.pc = "load" /\ agg.day \in Days
  BY DEF AggLoad, AggUnderLease
<1>1. /\ agg' \in Aggregations
      /\ agg'.pc = "docs" /\ agg'.day = agg.day
      /\ agg'.winner = Winner(override, agg.day)
  <2>1. Winner(override, agg.day) \in Shown
    BY <1>0, WinnerIsShown DEF TypeOK
  <2> QED
    BY <2>1 DEF AggLoad, TypeOK, Aggregations
<1>2. UNCHANGED <<today, expired, override, job, holder, docs, daily, run, aggs, failures>>
  BY DEF AggLoad
<1>3. TypeOK' /\ JobsNamed' /\ OpenIsUnique' /\ RunOnJob'
  BY <1>1, <1>2 DEF TypeOK, JobsNamed, OpenIsUnique, RunOnJob
<1>4. AggUnderLease' /\ AggFresh' /\ HalfAggregated'
  BY <1>0, <1>1, <1>2 DEF AggUnderLease, AggFresh, HalfAggregated
<1>5. \A e : (Due(e)' <=> Due(e)) /\ (OthersOwe(e)' <=> OthersOwe(e))
  BY <1>2, DueKept
<1>6. UntouchedDays' /\ LoadedFresh' /\ HalfRebuilt' /\ DaysRight'
  BY <1>2, <1>5 DEF UntouchedDays, LoadedFresh, HalfRebuilt, DaysRight
<1> QED
  BY <1>3, <1>4, <1>6

\* The summaries: written with what was loaded, or left for their fingerprint;
\* where the day has no aggregate yet, the fingerprint is what they show.
LEMMA AggDocsStep ==
  ASSUME IInv, NEW changed \in BOOLEAN, AggDocs(changed)
  PROVE  IInv'
<1> USE RebuildAssumption DEF IInv
<1>a. PICK d \in Days : d = agg.day
  BY DEF AggDocs, AggUnderLease
<1>0. /\ agg.pc = "docs"
      /\ agg.winner \in Shown /\ agg.winner # Missing
      /\ d < today /\ d > expired /\ holder[d] = "aggregation"
      /\ run.pc \in {"docs", "daily"} => run.cursor \in Days \ {d}
  BY <1>a, CursorIsDay DEF AggDocs, AggUnderLease, RunOnJob, TypeOK, Aggregations, Shown,
     Overrides, NoOverride, Missing
<1>1. /\ agg' \in Aggregations
      /\ agg'.pc = "daily" /\ agg'.day = d /\ agg'.winner = agg.winner
  BY <1>a DEF AggDocs, TypeOK, Aggregations
<1>2. UNCHANGED <<today, expired, override, job, holder, daily, run, aggs, failures>>
  BY DEF AggDocs
<1>3. /\ docs' \in [Days -> PairingDays]
      /\ \/ docs'[d] = docs[d] /\ docs[d].fingerprint = agg.winner
         \/ docs'[d].winner = agg.winner /\ docs'[d].fingerprint = agg.winner
      /\ \A e \in Days \ {d} : docs'[e] = docs[e]
  BY <1>0, <1>a DEF AggDocs, TypeOK, PairingDays
<1>4. TypeOK' /\ JobsNamed' /\ OpenIsUnique' /\ RunOnJob'
  BY <1>1, <1>2, <1>3 DEF TypeOK, JobsNamed, OpenIsUnique, RunOnJob
<1>5. \A e : (Due(e)' <=> Due(e)) /\ (OthersOwe(e)' <=> OthersOwe(e))
  BY <1>2, DueKept
<1>6. agg.winner = Winner(override, d) \/ Due(d)'
  BY <1>0, <1>5, <1>a DEF AggFresh
<1>7. AggUnderLease' /\ AggFresh'
  BY <1>0, <1>1, <1>2, <1>6, <1>a DEF AggUnderLease, AggFresh
<1>8. UntouchedDays'
  <2>1. d \in Nat /\ today \in Nat
    BY DEF Days, TypeOK
  <2>2. /\ daily[d] = Missing => docs'[d].winner = docs'[d].fingerprint
        /\ daily[d] # Missing => docs'[d].winner # Missing
    BY <1>0, <1>3 DEF UntouchedDays
  <2>3. ~ (d >= today)
    BY <1>0, <2>1
  <2> QED
    BY <1>2, <1>3, <2>2, <2>3 DEF UntouchedDays
<1>9. HalfAggregated'
  BY <1>0, <1>1, <1>2, <1>3 DEF HalfAggregated, UntouchedDays
<1>10. HalfRebuilt' /\ LoadedFresh'
  BY <1>0, <1>2, <1>3, <1>5 DEF HalfRebuilt, LoadedFresh
<1>11. DaysRight'
  <2> SUFFICES ASSUME NEW e \in Days, e > expired, daily[e] # Missing
               PROVE  \/ Due(e)'
                      \/ /\ docs'[e].winner = Winner(override, e)
                         /\ daily[e] = Winner(override, e)
    BY <1>2 DEF DaysRight
  <2>1. CASE e = d
    BY <1>3, <1>5, <1>6, <2>1 DEF DaysRight
  <2>2. CASE e # d
    BY <1>3, <1>5, <2>2 DEF DaysRight
  <2> QED
    BY <2>1, <2>2
<1> QED
  BY <1>4, <1>7, <1>8, <1>9, <1>10, <1>11

LEMMA AggDailyStep ==
  ASSUME IInv, AggDaily
  PROVE  IInv'
<1> USE RebuildAssumption DEF IInv
<1>a. PICK d \in Days : d = agg.day
  BY DEF AggDaily, AggUnderLease
<1>0. /\ agg.pc = "daily"
      /\ agg.winner \in Shown /\ agg.winner # Missing
      /\ d < today /\ d > expired /\ holder[d] = "aggregation"
      /\ docs[d].winner # Missing
      /\ daily[d] = Missing => docs[d].winner = agg.winner
      /\ run.pc \in {"docs", "daily"} => run.cursor \in Days \ {d}
  <2>1. /\ agg.pc = "daily"
        /\ d < today /\ d > expired /\ holder[d] = "aggregation"
        /\ docs[d].winner # Missing
        /\ daily[d] = Missing => docs[d].winner = agg.winner
    BY <1>a DEF AggDaily, AggUnderLease, HalfAggregated
  <2>2. agg.winner \in Shown /\ agg.winner # Missing
    BY DEF TypeOK, Aggregations, Shown, Overrides, NoOverride, Missing
  <2>3. run.pc \in {"docs", "daily"} => run.cursor \in Days \ {d}
    BY <2>1, CursorIsDay DEF RunOnJob
  <2> QED
    BY <2>1, <2>2, <2>3
<1>1. agg' = NoAgg /\ NoAgg \in Aggregations /\ agg'.pc = "idle"
  BY DEF AggDaily, NoAgg, Aggregations, Shown
<1>2. UNCHANGED <<today, expired, override, job, docs, run, aggs, failures>>
  BY DEF AggDaily
<1>3. /\ daily' \in [Days -> Shown \cup {Missing}]
      /\ daily'[d] = agg.winner
      /\ \A e \in Days \ {d} : daily'[e] = daily[e]
      /\ holder' \in [Days -> {"free", "aggregation", "rebuild", "dead"}]
      /\ \A e \in Days \ {d} : holder'[e] = holder[e]
  BY <1>0, <1>a DEF AggDaily, TypeOK
<1>4. TypeOK' /\ JobsNamed' /\ OpenIsUnique'
  BY <1>1, <1>2, <1>3 DEF TypeOK, JobsNamed, OpenIsUnique
<1>5. RunOnJob'
  BY <1>0, <1>2, <1>3 DEF RunOnJob
<1>6. AggUnderLease' /\ AggFresh' /\ HalfAggregated'
  BY <1>1 DEF AggUnderLease, AggFresh, HalfAggregated
<1>7. \A e : (Due(e)' <=> Due(e)) /\ (OthersOwe(e)' <=> OthersOwe(e))
  BY <1>2, DueKept
<1>8. UntouchedDays'
  <2>1. d \in Nat /\ today \in Nat
    BY DEF Days, TypeOK
  <2> QED
    BY <1>0, <1>2, <1>3, <2>1 DEF UntouchedDays
<1>9. HalfRebuilt' /\ LoadedFresh'
  BY <1>0, <1>2, <1>3, <1>7 DEF HalfRebuilt, LoadedFresh
<1>10. DaysRight'
  <2> SUFFICES ASSUME NEW e \in Days, e > expired, daily'[e] # Missing
               PROVE  \/ Due(e)'
                      \/ /\ docs[e].winner = Winner(override, e)
                         /\ daily'[e] = Winner(override, e)
    BY <1>2 DEF DaysRight
  <2>1. CASE e = d
    BY <1>0, <1>3, <1>7, <1>a, <2>1 DEF DaysRight, AggFresh
  <2>2. CASE e # d
    BY <1>3, <1>7, <2>2 DEF DaysRight
  <2> QED
    BY <2>1, <2>2
<1> QED
  BY <1>4, <1>5, <1>6, <1>8, <1>9, <1>10

LEMMA AggFailsStep ==
  ASSUME IInv, NEW left \in {"free", "dead"}, AggFails(left)
  PROVE  IInv'
<1> USE RebuildAssumption DEF IInv
<1>a. PICK d \in Days : d = agg.day
  BY DEF AggFails, AggUnderLease
<1>1. agg' = NoAgg /\ NoAgg \in Aggregations /\ agg'.pc = "idle"
  BY DEF AggFails, NoAgg, Aggregations, Shown
<1>2. /\ UNCHANGED <<today, expired, override, job, docs, daily, run, aggs>>
      /\ failures' \in Nat
  BY DEF AggFails, TypeOK
<1>3. /\ holder' \in [Days -> {"free", "aggregation", "rebuild", "dead"}]
      /\ \A e \in Days \ {d} : holder'[e] = holder[e]
  BY <1>a DEF AggFails, TypeOK
<1>4. TypeOK' /\ JobsNamed' /\ OpenIsUnique'
  BY <1>1, <1>2, <1>3 DEF TypeOK, JobsNamed, OpenIsUnique
<1>5. RunOnJob'
  <2>1. holder[d] = "aggregation"
    BY <1>a DEF AggFails, AggUnderLease
  <2>2. run.pc \in {"docs", "daily"} => run.cursor \in Days \ {d}
    BY <2>1, CursorIsDay DEF RunOnJob
  <2> QED
    BY <1>2, <1>3, <2>2 DEF RunOnJob
<1>6. AggUnderLease' /\ AggFresh' /\ HalfAggregated'
  BY <1>1 DEF AggUnderLease, AggFresh, HalfAggregated
<1>7. \A e : (Due(e)' <=> Due(e)) /\ (OthersOwe(e)' <=> OthersOwe(e))
  BY <1>2, DueKept
<1>8. UntouchedDays' /\ LoadedFresh' /\ HalfRebuilt' /\ DaysRight'
  BY <1>2, <1>7 DEF UntouchedDays, LoadedFresh, HalfRebuilt, DaysRight
<1> QED
  BY <1>4, <1>5, <1>6, <1>8

LEMMA NextIInv ==
  ASSUME IInv, [Next]_vars
  PROVE  IInv'
<1>1. CASE NewDay \/ (\E d \in Days : LeaseRunsOut(d)) \/ UNCHANGED vars
  BY <1>1, AroundStep
<1>1a. CASE Expires \/ (\E d \in Days : DeleteDocs(d) \/ DeleteDaily(d))
  BY <1>1a, RetentionStep
<1>2. CASE \E o \in Overrides, from \in Days, to \in Days \cup {Open} :
             CreateOverride(o, from, to)
  BY <1>2, CreateOverrideStep
<1>3. CASE (\E o \in Overrides : Claim(o)) \/ LoadOverrides \/ TakeDay
  BY <1>3, ClaimStep, LoadOverridesStep, TakeDayStep
<1>4. CASE SkipDay \/ RebuildDocs \/ RebuildDaily
  BY <1>4, SkipDayStep, RebuildDocsStep, RebuildDailyStep
<1>5. CASE Save \/ RebuildThrows \/ RebuildDies
  BY <1>5, SaveStep, RebuildEndsStep
<1>6. CASE \/ \E d \in Days : AggTake(d)
           \/ AggLoad
           \/ \E evidenceChanged \in BOOLEAN : AggDocs(evidenceChanged)
           \/ AggDaily
           \/ \E left \in {"free", "dead"} : AggFails(left)
  BY <1>6, AggTakeStep, AggLoadStep, AggDocsStep, AggDailyStep, AggFailsStep
<1> QED
  BY <1>1, <1>1a, <1>2, <1>3, <1>4, <1>5, <1>6 DEF Next

LEMMA Invariance == Spec => []IInv
  BY InitIInv, NextIInv, PTL DEF Spec

\* Every variable keeps the shape of its document, invocation or lease.
THEOREM TypeCorrect == Spec => []TypeOK
  BY Invariance, PTL DEF IInv

\* A materialised day that no job has still to visit shows what the overrides
\* say: for any number of days, overrides, chunks and crashes, in any order of
\* commits, claims and aggregations.
THEOREM SettledDaysAreRight == Spec => []SettledDaysFollowOverrides
<1>1. IInv => SettledDaysFollowOverrides
  <2> SUFFICES ASSUME IInv, NEW d \in Days, d > expired, daily[d] # Missing,
                      \A o \in Overrides : ~ Owed(o, d)
               PROVE  docs[d].winner = Winner(override, d) /\ daily[d] = Winner(override, d)
    BY DEF SettledDaysFollowOverrides
  <2>1. ~ OthersOwe(d)
    BY DEF OthersOwe
  <2>2. ~ (run.pc # "idle" /\ d \in run.cursor..run.final)
    <3> SUFFICES ASSUME run.pc # "idle", d \in run.cursor..run.final
                 PROVE  FALSE
      OBVIOUS
    <3>1. /\ run.job \in Overrides
          /\ job[run.job].status = "processing"
          /\ job[run.job].cursor <= run.cursor /\ run.final <= job[run.job].to
          /\ job[run.job] \in Jobs /\ run \in Invocations
      BY DEF IInv, TypeOK, RunOnJob
    <3>2. d \in job[run.job].cursor..job[run.job].to
      BY <3>1, RebuildAssumption DEF Jobs, Invocations, Open
    <3> QED
      BY <3>1, <3>2 DEF Owed
  <2> QED
    BY <2>1, <2>2 DEF IInv, DaysRight, Due
<1> QED
  BY <1>1, Invariance, PTL

\* Concurrent callables cannot leave two open-ended overrides.
THEOREM OpenOverrideIsOne == Spec => []OneOpenOverride
<1>1. IInv => OneOpenOverride
  <2> DEFINE open == {o \in Overrides : override[o].to = Open}
  <2> SUFFICES ASSUME IInv PROVE Cardinality(open) <= 1
    BY DEF OneOpenOverride
  <2>1. CASE open = {}
    BY <2>1, FS_EmptySet
  <2>2. CASE open # {}
    <3>1. PICK o \in open : TRUE
      BY <2>2
    <3>2. open = {o}
      BY <3>1 DEF IInv, OpenIsUnique
    <3>3. Cardinality({o}) = 1
      BY FS_Singleton
    <3> QED
      BY <3>2, <3>3
  <2> QED
    BY <2>1, <2>2
<1> QED
  BY <1>1, Invariance, PTL

\* A rebuild updates documents and never creates one.
THEOREM RebuildsCreateNothing == Spec => OnlyAggregationCreates
<1> DEFINE Created == \A d \in Days :
             \/ docs[d].winner = Missing /\ docs'[d].winner # Missing
             \/ daily[d] = Missing /\ daily'[d] # Missing
             => holder[d] = "aggregation"
<1>1. IInv /\ [Next]_vars => [Created]_vars
  <2> SUFFICES ASSUME IInv, Next PROVE Created
    OBVIOUS
  <2>1. CASE RebuildDocs
    BY <2>1, CursorIsDay DEF RebuildDocs, IInv, TypeOK, PairingDays, RunOnJob
  <2>2. CASE RebuildDaily
    BY <2>2, CursorIsDay DEF RebuildDaily, IInv, TypeOK, RunOnJob
  <2>3. CASE \E changed \in BOOLEAN : AggDocs(changed)
    <3>1. PICK changed \in BOOLEAN : AggDocs(changed)
      BY <2>3
    <3>2. /\ agg.day \in Days /\ holder[agg.day] = "aggregation"
          /\ docs \in [Days -> PairingDays]
          /\ \A d \in Days \ {agg.day} : docs'[d] = docs[d]
      BY <3>1 DEF AggDocs, IInv, AggUnderLease, TypeOK
    <3> QED
      BY <3>1, <3>2 DEF AggDocs
  <2>4. CASE AggDaily
    BY <2>4 DEF AggDaily, IInv, AggUnderLease, TypeOK
  <2>5. CASE \E d \in Days : DeleteDocs(d) \/ DeleteDaily(d)
    BY <2>5 DEF DeleteDocs, DeleteDaily, IInv, TypeOK, PairingDays
  <2>6. CASE docs' = docs /\ daily' = daily
    BY <2>6
  <2> QED
    BY <2>1, <2>2, <2>3, <2>4, <2>5, <2>6
    DEF Next, NewDay, Expires, LeaseRunsOut, CreateOverride, Claim, LoadOverrides,
        TakeDay, SkipDay, Save, RebuildThrows, RebuildDies, AggTake, AggLoad, AggFails
<1> QED
  BY <1>1, Invariance, PTL DEF Spec, OnlyAggregationCreates
=============================================================================
