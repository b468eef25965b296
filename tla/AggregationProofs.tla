------------------------- MODULE AggregationProofs -------------------------
(***************************************************************************)
(* The scheduled aggregation: the lease it takes on a day, and the days it *)
(* goes through.                                                           *)
(*                                                                         *)
(* DayLease: mutual exclusion of the per-day lease, and that it implements *)
(* DayMutex, for every set of days and every lease, timeout and gap with   *)
(* Timeout < DayLeaseMs and Timeout < Gap.                                 *)
(*                                                                         *)
(* DailyRuns: a settled day shows what its segments say, and the window a  *)
(* day is computed from is exact, for any number of sessions, versions,    *)
(* late captures, days and failing runs, and every length of the gaps.     *)
(* The recursions of groupSegments and querySegmentsForDay are shown to    *)
(* have the value the proofs reason about, by induction over the order of  *)
(* the segments and of the cursors.                                        *)
(***************************************************************************)
EXTENDS DayLease, DailyRuns, FiniteSetTheorems, WellFoundedInduction, TLAPS

(***************************************************************************)
(* Finite sets of instants.                                                *)
(***************************************************************************)
\* A nonempty set of naturals has a least element.
LEMMA MinOfNaturals ==
  ASSUME NEW S \in SUBSET Nat, S # {}
  PROVE  Min(S) \in S /\ \A x \in S : Min(S) <= x
<1>1. S \subseteq Nat
  OBVIOUS
<1>2. PICK x \in S : \A y \in S : <<y, x>> \notin OpToRel(<, Nat)
  BY <1>1, WFMin, NatLessThanWellFounded, Zenon
<1>3. \A y \in S : ~ (y < x)
  BY <1>1, <1>2, Zenon DEF OpToRel
<1>4. \A y \in S : x <= y
  BY <1>1, <1>3
<1> QED
  BY <1>4 DEF Min

\* Induction, over a set instead of a formula.
LEMMA InductiveSet ==
  ASSUME NEW S \in SUBSET Nat, 0 \in S, \A n \in S : n + 1 \in S
  PROVE  S = Nat
<1>1. SUFFICES ASSUME Nat \ S # {} PROVE FALSE
  OBVIOUS
<1>2. PICK m \in Nat \ S : \A x \in Nat \ S : m <= x
  BY <1>1, Nat \ S \in SUBSET Nat, MinOfNaturals
<1>3. m - 1 \in Nat /\ m - 1 \in S
  BY <1>2
<1> QED BY <1>2, <1>3

\* A finite nonempty set of integers has a greatest element.
LEMMA MaxOfFinite ==
  ASSUME NEW S \in SUBSET Int, IsFiniteSet(S), S # {}
  PROVE  Max(S) \in S /\ \A x \in S : x <= Max(S)
<1> DEFINE Bad == {X \in FiniteSubsetsOf(S) : X # {} /\ ~ \E m \in X : \A x \in X : x <= m}
<1>1. Bad = {}
  <2>1. SUFFICES ASSUME Bad # {} PROVE FALSE
    OBVIOUS
  <2>2. Bad \subseteq FiniteSubsetsOf(S)
    OBVIOUS
  <2>3. PICK X \in Bad : \A Y \in Bad : <<Y, X>> \notin StrictSubsetOrdering(S)
    BY <2>1, <2>2, FS_StrictSubsetOrderingWellFounded, WFMin, Zenon
  <2>4. X \in SUBSET S /\ IsFiniteSet(X) /\ X # {}
    BY DEF FiniteSubsetsOf
  <2>5. PICK x \in X : TRUE
    BY <2>4
  <2> DEFINE Y == X \ {x}
  <2>6. Y \in FiniteSubsetsOf(S)
    BY <2>4, FS_Subset DEF FiniteSubsetsOf
  <2>7. <<Y, X>> \in StrictSubsetOrdering(S)
    BY <2>4, <2>5, Zenon DEF StrictSubsetOrdering
  <2>8. Y \notin Bad
    BY <2>3, <2>7
  <2>9. CASE Y = {}
    <3>1. \A y \in X : y <= x
      BY <2>4, <2>5, <2>9
    <3> QED BY <3>1, <2>3, <2>5
  <2>10. CASE Y # {}
    <3>1. PICK m \in Y : \A y \in Y : y <= m
      BY <2>6, <2>8, <2>10
    <3>2. m \in X /\ m \in Int /\ x \in Int /\ \A y \in X : y = x \/ y <= m
      BY <2>4, <2>5, <3>1
    <3>3. \A y \in X : y \in Int
      BY <2>4
    <3>4. \E k \in X : \A y \in X : y <= k
      BY <2>5, <3>2, <3>3
    <3> QED BY <2>3, <3>4
  <2> QED BY <2>9, <2>10
<1>2. S \in FiniteSubsetsOf(S)
  BY DEF FiniteSubsetsOf
<1>3. \E m \in S : \A x \in S : x <= m
  BY <1>1, <1>2
<1>4. \E m \in S : \A x \in S : m >= x
  BY <1>3
<1> QED
  BY <1>4 DEF Max

LEMMA MaxOfTwo ==
  ASSUME NEW a \in Int, NEW b \in Int
  PROVE  Max({a, b}) = IF a <= b THEN b ELSE a
<1>1. {a, b} \in SUBSET Int /\ {a, b} # {}
  OBVIOUS
<1>2. IsFiniteSet({a, b})
  <2>1. IsFiniteSet({a})
    BY FS_Singleton
  <2>2. IsFiniteSet({a} \cup {b})
    BY <2>1, FS_AddElement, Zenon
  <2>3. {a, b} = {a} \cup {b}
    OBVIOUS
  <2> QED BY <2>2, <2>3, Zenon
<1>3. Max({a, b}) \in {a, b} /\ \A x \in {a, b} : x <= Max({a, b})
  BY <1>1, <1>2, MaxOfFinite
<1> QED BY <1>3

LEMMA MinOfTwo ==
  ASSUME NEW a \in Int, NEW b \in Int
  PROVE  Min({a, b}) = IF a <= b THEN a ELSE b
<1>1. \E x \in {a, b} : \A y \in {a, b} : x <= y
  OBVIOUS
<1>2. Min({a, b}) \in {a, b} /\ \A y \in {a, b} : Min({a, b}) <= y
  BY <1>1 DEF Min
<1> QED BY <1>2

\* A finite nonempty set of segments has a latest.
LEMMA LatestOfFinite ==
  ASSUME NEW S \in SUBSET Segments, IsFiniteSet(S), S # {}
  PROVE  Latest(S) \in S /\ \A t \in S : t.createdAt <= Latest(S).createdAt
<1> DEFINE C == {s.createdAt : s \in S}
<1>1. C \in SUBSET Int /\ C # {}
  BY DEF Segments
<1>2. IsFiniteSet(C)
  <2> DEFINE f == [s \in S |-> s.createdAt]
  <2>1. f \in Surjection(S, C)
    BY DEF Surjection
  <2> QED BY <2>1, FS_Surjection
<1>3. Max(C) \in C /\ \A x \in C : x <= Max(C)
  BY <1>1, <1>2, MaxOfFinite
<1>4. \E s \in S : \A t \in S : t.createdAt <= s.createdAt
  BY <1>3
<1> QED
  BY <1>4 DEF Latest

(***************************************************************************)
(* Days.                                                                   *)
(***************************************************************************)
LEMMA DayIs ==
  ASSUME NEW t \in Nat, NEW d \in Int
  PROVE  /\ DayOf(t) \in Nat
         /\ DayOf(t) = d <=> DayStart(d) <= t /\ t < DayEnd(d)
         /\ DayOf(t) < d <=> t < DayStart(d)
         /\ d <= DayOf(t) <=> DayStart(d) <= t
BY GroupingAssumption DEF DayOf, DayStart, DayEnd

LEMMA DayBounds ==
  ASSUME NEW d \in Int
  PROVE  /\ DayStart(d) \in Int /\ DayEnd(d) \in Int
         /\ DayEnd(d) = DayStart(d) + DayLength
         /\ DayStart(d + 1) = DayEnd(d)
BY GroupingAssumption DEF DayStart, DayEnd


(***************************************************************************)
(* The recursion of groupSegments: each segment's run is defined from that *)
(* of the segment before it.                                               *)
(***************************************************************************)
Before(S, s) == Latest(Earlier(S, s))

\* The run of s as far as s, by that of the segment before it.
RunBody(S, runs, s) ==
  IF Earlier(S, s) # {} /\ Continues(runs[Before(S, s)], s)
  THEN runs[Before(S, s)] \cup {s} ELSE {s}

RunTo(S) == CHOOSE runs : runs = [s \in S |-> RunBody(S, runs, s)]

LEMMA GroupsAreRuns ==
  ASSUME NEW S
  PROVE  GroupSegments(S)
           = {RunTo(S)[s] : s \in {t \in S : \A u \in S : t \in RunTo(S)[u] => u = t}}
BY DEF GroupSegments, RunTo, RunBody, Before

LEMMA BeforeIs ==
  ASSUME NEW S \in SUBSET Segments, IsFiniteSet(S), NEW s \in S, Earlier(S, s) # {}
  PROVE  /\ Before(S, s) \in S /\ Before(S, s).createdAt < s.createdAt
         /\ \A t \in S : t.createdAt < s.createdAt => t.createdAt <= Before(S, s).createdAt
<1>1. Earlier(S, s) \in SUBSET Segments
  BY DEF Earlier
<1>2. IsFiniteSet(Earlier(S, s))
  BY FS_Subset, Earlier(S, s) \subseteq S DEF Earlier
<1>3. /\ Before(S, s) \in Earlier(S, s)
      /\ \A t \in Earlier(S, s) : t.createdAt <= Before(S, s).createdAt
  BY <1>1, <1>2, LatestOfFinite DEF Before
<1> QED BY <1>3 DEF Earlier

\* A finite set of segments has one that is created after every other, or none.
LEMMA CreatedBelow ==
  ASSUME NEW S \in SUBSET Segments, IsFiniteSet(S)
  PROVE  \E n \in Nat : \A s \in S : s.createdAt < n
<1>1. CASE S = {}
  BY <1>1
<1>2. CASE S # {}
  <2>1. /\ Latest(S) \in S /\ \A t \in S : t.createdAt <= Latest(S).createdAt
    BY <1>2, LatestOfFinite
  <2>2. Latest(S).createdAt + 1 \in Nat
    BY <2>1 DEF Segments
  <2>3. \A s \in S : s.createdAt < Latest(S).createdAt + 1
    BY <2>1 DEF Segments
  <2> QED BY <2>2, <2>3
<1> QED BY <1>1, <1>2

\* The recursion is well founded: it has a solution, and RunTo is one.
LEMMA RunToIs ==
  ASSUME NEW S \in SUBSET Segments, IsFiniteSet(S)
  PROVE  RunTo(S) = [s \in S |-> RunBody(S, RunTo(S), s)]
<1> DEFINE Below(n) == {s \in S : s.createdAt < n}
           Solves(f, n) == f = [s \in Below(n) |-> RunBody(S, f, s)]
<1>1. ASSUME NEW s \in S, Earlier(S, s) # {}
      PROVE  Before(S, s) \in S /\ Before(S, s).createdAt < s.createdAt
  BY <1>1, BeforeIs
<1>2. \E f : Solves(f, 0)
  <2>1. Below(0) = {}
    BY DEF Segments
  <2> DEFINE e == [s \in {} |-> {}]
  <2>2. e = [s \in Below(0) |-> RunBody(S, e, s)]
    BY <2>1
  <2> QED BY <2>2
<1>3. ASSUME NEW n \in Nat, NEW f, Solves(f, n)
      PROVE  \E g : Solves(g, n + 1)
  <2> DEFINE g == [s \in Below(n + 1) |-> IF s \in Below(n) THEN f[s] ELSE RunBody(S, f, s)]
  <2>1. ASSUME NEW s \in Below(n + 1)
        PROVE  g[s] = RunBody(S, g, s)
    <3>1. g[s] = RunBody(S, f, s)
      <4>1. CASE s \in Below(n)
        BY <1>3, <4>1
      <4>2. CASE s \notin Below(n)
        BY <4>2
      <4> QED BY <4>1, <4>2
    <3>2. CASE Earlier(S, s) = {}
      BY <3>1, <3>2 DEF RunBody
    <3>3. CASE Earlier(S, s) # {}
      <4>1. Before(S, s) \in Below(n)
        BY <1>1, <3>3 DEF Segments
      <4>2. g[Before(S, s)] = f[Before(S, s)]
        BY <4>1 DEF Segments
      <4> QED BY <3>1, <4>2 DEF RunBody
    <3> QED BY <3>2, <3>3
  <2>2. g = [s \in Below(n + 1) |-> RunBody(S, g, s)]
    BY <2>1
  <2> QED BY <2>2
<1>4. \A n \in Nat : \E f : Solves(f, n)
  <2> DEFINE Solved == {n \in Nat : \E f : Solves(f, n)}
  <2> HIDE DEF Solves
  <2>1. Solved \in SUBSET Nat /\ 0 \in Solved
    BY <1>2
  <2>2. \A n \in Solved : n + 1 \in Solved
    BY <1>3
  <2>3. Solved = Nat
    BY <2>1, <2>2, InductiveSet
  <2> QED BY <2>3
<1>5. PICK n \in Nat : \A s \in S : s.createdAt < n
  BY CreatedBelow
<1>6. Below(n) = S
  BY <1>5
<1>7. \E f : Solves(f, n)
  BY <1>4
<1>8. \E f : f = [s \in S |-> RunBody(S, f, s)]
  BY <1>6, <1>7
<1> QED
  BY <1>8 DEF RunTo

\* Induction along the order of createdAt.
LEMMA SegmentInduction ==
  ASSUME NEW S \in SUBSET Segments, NEW X,
         \A s \in S : (\A t \in S : t.createdAt < s.createdAt => t \in X) => s \in X
  PROVE  S \subseteq X
<1> DEFINE N == {n \in Nat : \A s \in S : s.createdAt < n => s \in X}
<1>1. N \in SUBSET Nat /\ 0 \in N
  BY DEF Segments
<1>2. ASSUME NEW n \in N PROVE n + 1 \in N
  <2>1. ASSUME NEW s \in S, s.createdAt < n + 1 PROVE s \in X
    <3>1. \A t \in S : t.createdAt < s.createdAt => t \in X
      BY <2>1 DEF Segments
    <3> QED BY <3>1
  <2> QED BY <2>1
<1>3. N = Nat
  BY <1>1, <1>2, InductiveSet
<1>4. ASSUME NEW s \in S PROVE s \in X
  <2>1. s.createdAt + 1 \in N /\ s.createdAt < s.createdAt + 1
    BY <1>3 DEF Segments
  <2> QED BY <2>1
<1> QED BY <1>4

\* The run of s as far as s ends with s.
LEMMA RunToEnds ==
  ASSUME NEW S \in SUBSET Segments, IsFiniteSet(S), NEW s \in S
  PROVE  /\ s \in RunTo(S)[s]
         /\ RunTo(S)[s] \subseteq S
         /\ \A t \in RunTo(S)[s] : t = s \/ t.createdAt < s.createdAt
<1> DEFINE P(u) == /\ u \in RunTo(S)[u]
                   /\ RunTo(S)[u] \subseteq S
                   /\ \A t \in RunTo(S)[u] : t = u \/ t.createdAt < u.createdAt
           X == {u \in S : P(u)}
<1>1. ASSUME NEW u \in S, \A t \in S : t.createdAt < u.createdAt => t \in X
      PROVE  u \in X
  <2>1. RunTo(S)[u] = RunBody(S, RunTo(S), u)
    BY RunToIs
  <2>2. CASE RunBody(S, RunTo(S), u) = {u}
    BY <2>1, <2>2
  <2>3. CASE RunBody(S, RunTo(S), u) # {u}
    <3>1. Earlier(S, u) # {} /\ RunTo(S)[u] = RunTo(S)[Before(S, u)] \cup {u}
      BY <2>1, <2>3 DEF RunBody
    <3>2. Before(S, u) \in S /\ Before(S, u).createdAt < u.createdAt
      BY <3>1, BeforeIs
    <3>3. P(Before(S, u))
      BY <1>1, <3>2
    <3>4. \A t \in RunTo(S)[Before(S, u)] : t.createdAt < u.createdAt
      BY <3>2, <3>3 DEF Segments
    <3> QED BY <3>1, <3>3, <3>4
  <2> QED BY <2>2, <2>3
<1>2. S \subseteq X
  <2> HIDE DEF X
  <2> QED BY <1>1, SegmentInduction
<1> QED BY <1>2

\* A run is a nonempty finite set of the segments, and there are finitely many.
LEMMA GroupsOfFinite ==
  ASSUME NEW S \in SUBSET Segments, IsFiniteSet(S)
  PROVE  /\ IsFiniteSet(GroupSegments(S))
         /\ \A g \in GroupSegments(S) :
              g \in SUBSET S /\ g \in SUBSET Segments /\ IsFiniteSet(g) /\ g # {}
<1> DEFINE R == RunTo(S)
           M == {t \in S : \A u \in S : t \in R[u] => u = t}
           f == [s \in M |-> R[s]]
<1>1. GroupSegments(S) = {R[s] : s \in M}
  BY GroupsAreRuns
<1>2. IsFiniteSet(M)
  BY FS_Subset, M \subseteq S
<1>3. f \in Surjection(M, {R[s] : s \in M})
  <2> HIDE DEF M, R
  <2> QED BY DEF Surjection
<1>4. IsFiniteSet({R[s] : s \in M})
  <2> HIDE DEF M, R, f
  <2> QED BY <1>2, <1>3, FS_Surjection, Zenon
<1>5. ASSUME NEW s \in S
      PROVE  R[s] \in SUBSET S /\ IsFiniteSet(R[s]) /\ R[s] # {}
  BY RunToEnds, FS_Subset
<1> QED
  BY <1>1, <1>4, <1>5

LEMMA RelevantIs ==
  ASSUME NEW g \in SUBSET Segments, IsFiniteSet(g), g # {}
  PROVE  /\ GroupRelevantAt(g) \in Nat
         /\ \E s \in g : s.lastRelevantAt = GroupRelevantAt(g)
         /\ \A s \in g : s.lastRelevantAt <= GroupRelevantAt(g)
<1> DEFINE C == {s.lastRelevantAt : s \in g}
           f == [s \in g |-> s.lastRelevantAt]
<1>1. C \in SUBSET Int /\ C # {} /\ C \in SUBSET Nat
  BY DEF Segments
<1>2. f \in Surjection(g, C)
  BY DEF Surjection
<1>3. IsFiniteSet(C)
  <2> HIDE DEF C, f
  <2> QED BY <1>2, FS_Surjection, Zenon
<1>4. Max(C) \in C /\ \A x \in C : x <= Max(C)
  BY <1>1, <1>3, MaxOfFinite
<1> QED BY <1>1, <1>4 DEF GroupRelevantAt

\* The runs that count on a day, by a segment whose success is the first of its
\* run.
LEMMA RunsOfIs ==
  ASSUME NEW S \in SUBSET Segments, IsFiniteSet(S), NEW d
  PROVE  /\ IsFiniteSet(RunsOf(S, d)) /\ RunsOf(S, d) \subseteq GroupSegments(S)
         /\ \A g \in RunsOf(S, d) :
              \E s \in g : IsSuccessful(s) /\ DayOf(s.successAt) = d
<1>1. RunsOf(S, d) \subseteq GroupSegments(S)
  BY DEF RunsOf
<1>2. IsFiniteSet(RunsOf(S, d))
  BY <1>1, GroupsOfFinite, FS_Subset
<1>3. ASSUME NEW g \in RunsOf(S, d)
      PROVE  \E s \in g : IsSuccessful(s) /\ DayOf(s.successAt) = d
  <2> DEFINE C == {s.successAt : s \in Successful(g)}
  <2>1. g \in SUBSET Segments
    BY <1>1, GroupsOfFinite
  <2>2. Successful(g) # {} /\ DayOf(Min(C)) = d
    BY DEF RunsOf, SuccessDay
  <2>3. C \in SUBSET Nat /\ C # {}
    BY <2>1, <2>2 DEF Successful, IsSuccessful, Segments, Never
  <2>4. Min(C) \in C
    BY <2>3, MinOfNaturals
  <2> QED BY <2>2, <2>4 DEF Successful
<1> QED BY <1>1, <1>2, <1>3

(***************************************************************************)
(* The loop of querySegmentsForDay.                                        *)
(***************************************************************************)
LastRead(d) == DayEnd(d) + Lookahead

\* What has been read when the cursor is at c.
SeenBefore(S, d, c) ==
  {s \in S : InWindow(s, d) \/ (DayEnd(d) <= s.createdAt /\ s.createdAt < c)}

DeadlineAt(S, d, c) == Min({SuccessorDeadline(SeenBefore(S, d, c), d, c), LastRead(d)})

Cursors(d) == DayEnd(d)..LastRead(d) + 1

ReadBody(S, d, read, c) ==
  IF DeadlineAt(S, d, c) < c THEN SeenBefore(S, d, c) ELSE read[DeadlineAt(S, d, c) + 1]

ReadFrom(S, d) == CHOOSE read : read = [c \in Cursors(d) |-> ReadBody(S, d, read, c)]

LEMMA QueryReads ==
  ASSUME NEW S, NEW d
  PROVE  QuerySegmentsForDay(S, d) = ReadFrom(S, d)[DayEnd(d)]
BY DEF QuerySegmentsForDay, ReadFrom, ReadBody, Cursors, DeadlineAt, SeenBefore, LastRead

LEMMA DeadlineIsInstant ==
  ASSUME NEW S \in SUBSET Segments, IsFiniteSet(S), NEW d, NEW floor \in Int
  PROVE  /\ SuccessorDeadline(S, d, floor) \in Int
         /\ \A g \in RunsOf(S, d) : ~Latest(g).explicitUserEnd =>
              (IF Latest(g).fullReconnect THEN Latest(g).lastRelevantAt + FullGap
               ELSE GroupRelevantAt(g) + NormalGap) <= SuccessorDeadline(S, d, floor)
<1> DEFINE Deadline(g) == IF Latest(g).fullReconnect THEN Latest(g).lastRelevantAt + FullGap
                          ELSE GroupRelevantAt(g) + NormalGap
           open == {g \in RunsOf(S, d) : ~Latest(g).explicitUserEnd}
           C == {Deadline(g) : g \in open}
           f == [g \in open |-> Deadline(g)]
<1>1. ASSUME NEW g \in open PROVE Deadline(g) \in Int
  <2>1. g \in SUBSET Segments /\ IsFiniteSet(g) /\ g # {}
    BY RunsOfIs, GroupsOfFinite
  <2>2. Latest(g) \in Segments /\ GroupRelevantAt(g) \in Nat
    BY <2>1, LatestOfFinite, RelevantIs
  <2> QED BY <2>2, GroupingAssumption DEF Segments
<1>2. IsFiniteSet(open)
  BY RunsOfIs, FS_Subset, open \subseteq RunsOf(S, d)
<1>3. f \in Surjection(open, C)
  <2> HIDE DEF Deadline, open
  <2> QED BY DEF Surjection
<1>4. IsFiniteSet(C)
  <2> HIDE DEF C, f, open
  <2> QED BY <1>2, <1>3, FS_Surjection, Zenon
<1>5. ASSUME open # {}
      PROVE  Max(C) \in Int /\ \A g \in open : Deadline(g) <= Max(C)
  <2>1. C \in SUBSET Int /\ C # {}
    <3> HIDE DEF Deadline, open
    <3> QED BY <1>1, <1>5
  <2>2. \A g \in open : Deadline(g) \in C
    <3> HIDE DEF Deadline, open
    <3> QED OBVIOUS
  <2> HIDE DEF C
  <2> QED BY <2>1, <2>2, <1>4, MaxOfFinite
<1>6. SuccessorDeadline(S, d, floor) = IF open = {} THEN floor - 1 ELSE Max(C)
  BY DEF SuccessorDeadline
<1> QED BY <1>5, <1>6

LEMMA CursorsAre ==
  ASSUME NEW S \in SUBSET Segments, IsFiniteSet(S), NEW d \in Int
  PROVE  /\ DayEnd(d) \in Int /\ LastRead(d) \in Int /\ DayEnd(d) <= LastRead(d)
         /\ DayEnd(d) \in Cursors(d)
         /\ \A c \in Cursors(d) :
              /\ c \in Int /\ DeadlineAt(S, d, c) \in Int /\ DeadlineAt(S, d, c) <= LastRead(d)
              /\ DeadlineAt(S, d, c) >= c => DeadlineAt(S, d, c) + 1 \in Cursors(d)
<1>1. DayEnd(d) \in Int /\ LastRead(d) \in Int /\ DayEnd(d) <= LastRead(d)
  BY DayBounds, GroupingAssumption DEF LastRead
<1>2. ASSUME NEW c \in Cursors(d)
      PROVE  /\ c \in Int /\ DeadlineAt(S, d, c) \in Int /\ DeadlineAt(S, d, c) <= LastRead(d)
             /\ DeadlineAt(S, d, c) >= c => DeadlineAt(S, d, c) + 1 \in Cursors(d)
  <2>1. c \in Int /\ DayEnd(d) <= c
    BY <1>1 DEF Cursors
  <2>2. SeenBefore(S, d, c) \in SUBSET Segments /\ IsFiniteSet(SeenBefore(S, d, c))
    BY FS_Subset, SeenBefore(S, d, c) \subseteq S DEF SeenBefore
  <2>3. SuccessorDeadline(SeenBefore(S, d, c), d, c) \in Int
    BY <2>1, <2>2, DeadlineIsInstant
  <2>4. DeadlineAt(S, d, c) \in Int /\ DeadlineAt(S, d, c) <= LastRead(d)
    BY <1>1, <2>3, MinOfTwo DEF DeadlineAt
  <2> QED BY <1>1, <2>1, <2>4 DEF Cursors
<1> QED BY <1>1, <1>2 DEF Cursors

\* The recursion goes up to the last cursor: it has a solution, and ReadFrom is
\* one.
LEMMA ReadFromIs ==
  ASSUME NEW S \in SUBSET Segments, IsFiniteSet(S), NEW d \in Int
  PROVE  ReadFrom(S, d) = [c \in Cursors(d) |-> ReadBody(S, d, ReadFrom(S, d), c)]
<1> DEFINE Above(n) == {c \in Cursors(d) : c > LastRead(d) + 1 - n}
           Solves(f, n) == f = [c \in Above(n) |-> ReadBody(S, d, f, c)]
<1>1. /\ DayEnd(d) \in Int /\ LastRead(d) \in Int /\ DayEnd(d) <= LastRead(d)
      /\ \A c \in Cursors(d) :
           /\ c \in Int /\ DeadlineAt(S, d, c) \in Int
           /\ DeadlineAt(S, d, c) >= c => DeadlineAt(S, d, c) + 1 \in Cursors(d)
  BY CursorsAre
<1>2. \E f : Solves(f, 0)
  <2>1. Above(0) = {}
    BY <1>1 DEF Cursors
  <2> DEFINE e == [c \in {} |-> {}]
  <2>2. e = [c \in Above(0) |-> ReadBody(S, d, e, c)]
    BY <2>1
  <2> QED BY <2>2
<1>3. ASSUME NEW n \in Nat, NEW f, Solves(f, n)
      PROVE  \E g : Solves(g, n + 1)
  <2> DEFINE g == [c \in Above(n + 1) |-> IF c \in Above(n) THEN f[c] ELSE ReadBody(S, d, f, c)]
  <2>1. ASSUME NEW c \in Above(n + 1)
        PROVE  g[c] = ReadBody(S, d, g, c)
    <3>1. g[c] = ReadBody(S, d, f, c)
      <4>1. CASE c \in Above(n)
        BY <1>3, <4>1
      <4>2. CASE c \notin Above(n)
        BY <4>2
      <4> QED BY <4>1, <4>2
    <3>2. CASE DeadlineAt(S, d, c) < c
      BY <3>1, <3>2 DEF ReadBody
    <3>3. CASE ~ (DeadlineAt(S, d, c) < c)
      <4>1. DeadlineAt(S, d, c) + 1 \in Above(n)
        BY <1>1, <3>3
      <4>2. DeadlineAt(S, d, c) + 1 \in Above(n + 1)
        BY <1>1, <4>1
      <4>3. g[DeadlineAt(S, d, c) + 1] = f[DeadlineAt(S, d, c) + 1]
        BY <4>1, <4>2
      <4> QED BY <3>1, <4>3 DEF ReadBody
    <3> QED BY <3>2, <3>3
  <2>2. g = [c \in Above(n + 1) |-> ReadBody(S, d, g, c)]
    BY <2>1
  <2> QED BY <2>2
<1>4. \A n \in Nat : \E f : Solves(f, n)
  <2> DEFINE Solved == {n \in Nat : \E f : Solves(f, n)}
  <2> HIDE DEF Solves
  <2>1. Solved \in SUBSET Nat /\ 0 \in Solved
    BY <1>2
  <2>2. \A n \in Solved : n + 1 \in Solved
    BY <1>3
  <2>3. Solved = Nat
    BY <2>1, <2>2, InductiveSet
  <2> QED BY <2>3
<1>5. Lookahead + 2 \in Nat /\ Above(Lookahead + 2) = Cursors(d)
  BY <1>1, GroupingAssumption DEF Cursors, LastRead
<1>6. \E f : Solves(f, Lookahead + 2)
  BY <1>4, <1>5
<1>7. \E f : f = [c \in Cursors(d) |-> ReadBody(S, d, f, c)]
  BY <1>5, <1>6
<1> QED
  BY <1>7 DEF ReadFrom

\* Downward induction along the cursors.
LEMMA CursorInduction ==
  ASSUME NEW S \in SUBSET Segments, IsFiniteSet(S), NEW d \in Int, NEW X,
         \A c \in Cursors(d) :
           (\A b \in Cursors(d) : c < b => b \in X) => c \in X
  PROVE  Cursors(d) \subseteq X
<1> DEFINE N == {n \in Nat : \A c \in Cursors(d) : c > LastRead(d) + 1 - n => c \in X}
<1>1. DayEnd(d) \in Int /\ LastRead(d) \in Int
  BY CursorsAre
<1>2. N \in SUBSET Nat /\ 0 \in N
  BY <1>1 DEF Cursors
<1>3. ASSUME NEW n \in N PROVE n + 1 \in N
  <2>1. ASSUME NEW c \in Cursors(d), c > LastRead(d) + 1 - (n + 1) PROVE c \in X
    <3>1. \A b \in Cursors(d) : c < b => b \in X
      BY <1>1, <2>1 DEF Cursors
    <3> QED BY <3>1
  <2> QED BY <2>1
<1>4. N = Nat
  BY <1>2, <1>3, InductiveSet
<1>5. Lookahead + 2 \in N
  BY <1>4, GroupingAssumption
<1> QED
  BY <1>1, <1>5, GroupingAssumption DEF Cursors, LastRead

\* The loop ends at a cursor that no run of the day waits for any longer.
LEMMA QueryEnds ==
  ASSUME NEW S \in SUBSET Segments, IsFiniteSet(S), NEW d \in Int
  PROVE  \E c \in Cursors(d) : /\ QuerySegmentsForDay(S, d) = SeenBefore(S, d, c)
                               /\ DeadlineAt(S, d, c) < c
<1> DEFINE Ends(r) == \E c \in Cursors(d) : r = SeenBefore(S, d, c) /\ DeadlineAt(S, d, c) < c
           X == {c \in Cursors(d) : Ends(ReadFrom(S, d)[c])}
<1>1. ASSUME NEW c \in Cursors(d), \A b \in Cursors(d) : c < b => b \in X
      PROVE  c \in X
  <2>1. ReadFrom(S, d)[c] = ReadBody(S, d, ReadFrom(S, d), c)
    BY ReadFromIs
  <2>2. CASE DeadlineAt(S, d, c) < c
    BY <2>1, <2>2 DEF ReadBody
  <2>3. CASE ~ (DeadlineAt(S, d, c) < c)
    <3>1. DeadlineAt(S, d, c) + 1 \in Cursors(d) /\ c < DeadlineAt(S, d, c) + 1
      BY <2>3, CursorsAre
    <3>2. DeadlineAt(S, d, c) + 1 \in X
      BY <1>1, <3>1
    <3>3. ReadFrom(S, d)[c] = ReadFrom(S, d)[DeadlineAt(S, d, c) + 1]
      BY <2>1, <2>3 DEF ReadBody
    <3> QED BY <3>2, <3>3
  <2> QED BY <2>2, <2>3
<1>2. Cursors(d) \subseteq X
  <2> HIDE DEF X
  <2> QED BY <1>1, CursorInduction
<1>3. Ends(ReadFrom(S, d)[DayEnd(d)])
  BY <1>2, CursorsAre
<1> QED BY <1>3, QueryReads

\* A segment that is not read has not changed what is read.
LEMMA QueryWithout ==
  ASSUME NEW S \in SUBSET Segments, IsFiniteSet(S),
         NEW T \in SUBSET Segments, IsFiniteSet(T), NEW d \in Int, NEW x,
         x \notin QuerySegmentsForDay(T, d),
         \A c \in Cursors(d) : x \notin SeenBefore(T, d, c)
                                 => SeenBefore(S, d, c) = SeenBefore(T, d, c)
  PROVE  QuerySegmentsForDay(S, d) = QuerySegmentsForDay(T, d)
<1> DEFINE P(c) == /\ SeenBefore(T, d, c) \subseteq ReadFrom(T, d)[c]
                   /\ x \notin ReadFrom(T, d)[c] => ReadFrom(S, d)[c] = ReadFrom(T, d)[c]
           X == {c \in Cursors(d) : P(c)}
<1>1. ASSUME NEW c \in Cursors(d), \A b \in Cursors(d) : c < b => b \in X
      PROVE  c \in X
  <2>1. /\ ReadFrom(S, d)[c] = ReadBody(S, d, ReadFrom(S, d), c)
        /\ ReadFrom(T, d)[c] = ReadBody(T, d, ReadFrom(T, d), c)
    BY ReadFromIs
  <2> DEFINE next == DeadlineAt(T, d, c) + 1
  <2>2. SeenBefore(T, d, c) \subseteq ReadFrom(T, d)[c]
    <3>1. CASE DeadlineAt(T, d, c) < c
      BY <2>1, <3>1 DEF ReadBody
    <3>2. CASE ~ (DeadlineAt(T, d, c) < c)
      <4>1. next \in Cursors(d) /\ c < next /\ c \in Int /\ next \in Int
        BY <3>2, CursorsAre
      <4>2. SeenBefore(T, d, next) \subseteq ReadFrom(T, d)[next]
        BY <1>1, <4>1
      <4>3. SeenBefore(T, d, c) \subseteq SeenBefore(T, d, next)
        BY <4>1 DEF SeenBefore, Segments
      <4>4. ReadFrom(T, d)[c] = ReadFrom(T, d)[next]
        BY <2>1, <3>2 DEF ReadBody
      <4> QED BY <4>2, <4>3, <4>4
    <3> QED BY <3>1, <3>2
  <2>3. ASSUME x \notin ReadFrom(T, d)[c]
        PROVE  ReadFrom(S, d)[c] = ReadFrom(T, d)[c]
    <3>1. SeenBefore(S, d, c) = SeenBefore(T, d, c)
      BY <2>2, <2>3
    <3>2. DeadlineAt(S, d, c) = DeadlineAt(T, d, c)
      BY <3>1 DEF DeadlineAt
    <3>3. CASE DeadlineAt(T, d, c) < c
      BY <2>1, <3>1, <3>2, <3>3 DEF ReadBody
    <3>4. CASE ~ (DeadlineAt(T, d, c) < c)
      <4>1. next \in Cursors(d) /\ c < next
        BY <3>4, CursorsAre
      <4>2. ReadFrom(T, d)[c] = ReadFrom(T, d)[next] /\ ReadFrom(S, d)[c] = ReadFrom(S, d)[next]
        BY <2>1, <3>2, <3>4 DEF ReadBody
      <4>3. P(next)
        BY <1>1, <4>1
      <4> QED BY <2>3, <4>2, <4>3
    <3> QED BY <3>3, <3>4
  <2> QED BY <2>2, <2>3
<1>2. Cursors(d) \subseteq X
  <2> HIDE DEF X
  <2> QED BY <1>1, CursorInduction
<1>3. P(DayEnd(d))
  BY <1>2, CursorsAre
<1> QED BY <1>3, QueryReads

(***************************************************************************)
(* Segments and what a capture makes of them.                              *)
(***************************************************************************)
\* A segment whose instants are in order.
Sound(x) ==
  /\ x \in Segments
  /\ x.createdAt <= x.lastRelevantAt
  /\ IsSuccessful(x) => x.successAt \in x.createdAt..x.lastRelevantAt

LEMMA ProjectionIsSound ==
  ASSUME NEW s \in Sessions, NEW at \in Int, s <= at, NEW e \in Evidence
  PROVE  Sound(Projection(s, at, e)) /\ Projection(s, at, e).createdAt = s
<1>1. s \in Nat /\ at \in Nat
  BY DailyRunsAssumption
<1>2. /\ e.connected \in BOOLEAN /\ e.fullReconnect \in BOOLEAN
      /\ e.explicitUserEnd \in BOOLEAN /\ e.access \in Accesses
  BY DailyRunsAssumption
<1> QED
  BY <1>1, <1>2 DEF Sound, Projection, Segments, IsSuccessful, Never

LEMMA EarliestIs ==
  ASSUME NEW a \in Nat \cup {Never}, NEW b \in Nat \cup {Never}
  PROVE  Earliest(a, b) = IF a = Never THEN b ELSE IF b = Never THEN a
                          ELSE IF a <= b THEN a ELSE b
BY MaxOfTwo, MinOfTwo DEF Earliest, Never

\* Merging two versions of a session keeps the order of the instants, and the
\* segment in the window of every day it was in.
LEMMA MergeIs ==
  ASSUME NEW old, Sound(old), NEW new, Sound(new), old.createdAt = new.createdAt
  PROVE  /\ Sound(Merge(old, new)) /\ Merge(old, new).createdAt = old.createdAt
         /\ \A d \in Int : InWindow(old, d) => InWindow(Merge(old, new), d)
<1> DEFINE m == Merge(old, new)
<1>1. /\ old \in Segments /\ new \in Segments
      /\ old.createdAt \in Nat /\ new.createdAt \in Nat
      /\ old.lastRelevantAt \in Nat /\ new.lastRelevantAt \in Nat
      /\ old.successAt \in Nat \cup {Never} /\ new.successAt \in Nat \cup {Never}
      /\ old.access \in Accesses /\ new.access \in Accesses
      /\ old.fullReconnect \in BOOLEAN /\ new.fullReconnect \in BOOLEAN
      /\ old.explicitUserEnd \in BOOLEAN /\ new.explicitUserEnd \in BOOLEAN
  BY DEF Sound, Segments
<1>2. /\ m.createdAt = old.createdAt
      /\ m.lastRelevantAt = IF old.lastRelevantAt <= new.lastRelevantAt
                            THEN new.lastRelevantAt ELSE old.lastRelevantAt
      /\ m.successAt = Earliest(old.successAt, new.successAt)
  BY <1>1, MaxOfTwo DEF Merge
<1>3. m.successAt = IF old.successAt = Never THEN new.successAt
                    ELSE IF new.successAt = Never THEN old.successAt
                    ELSE IF old.successAt <= new.successAt THEN old.successAt
                    ELSE new.successAt
  BY <1>1, <1>2, EarliestIs
<1>4. MergedAccess(old.access, new.access) \in Accesses
  BY DEF MergedAccess, Accesses
<1>5. m.lastRelevantAt \in Nat /\ m.successAt \in Nat \cup {Never}
  BY <1>1, <1>2, <1>3
<1>6. m \in Segments
  <2>1. m = [createdAt |-> old.createdAt, lastRelevantAt |-> m.lastRelevantAt,
             successAt |-> m.successAt,
             fullReconnect |-> old.fullReconnect \/ new.fullReconnect,
             explicitUserEnd |-> old.explicitUserEnd \/ new.explicitUserEnd,
             access |-> MergedAccess(old.access, new.access)]
    BY DEF Merge
  <2>2. old.fullReconnect \/ new.fullReconnect \in BOOLEAN
    BY <1>1
  <2>3. old.explicitUserEnd \/ new.explicitUserEnd \in BOOLEAN
    BY <1>1
  <2> HIDE DEF m
  <2> QED BY <1>1, <1>4, <1>5, <2>1, <2>2, <2>3 DEF Segments
<1>7. Sound(m)
  <2> HIDE DEF m
  <2>1. m.createdAt <= m.lastRelevantAt
    BY <1>1, <1>2 DEF Sound
  <2>2. IsSuccessful(m) => m.successAt \in m.createdAt..m.lastRelevantAt
    BY <1>1, <1>2, <1>3 DEF Sound, IsSuccessful
  <2> QED BY <1>6, <2>1, <2>2 DEF Sound
<1>8. ASSUME NEW d \in Int, InWindow(old, d) PROVE InWindow(m, d)
  <2> HIDE DEF m
  <2>1. /\ m.createdAt = old.createdAt
        /\ m.lastRelevantAt \in Nat /\ old.lastRelevantAt <= m.lastRelevantAt
        /\ old.createdAt <= old.lastRelevantAt
    BY <1>1, <1>2, <1>5 DEF Sound
  <2>2. CASE DayOf(old.createdAt) = d
    BY <2>1, <2>2 DEF InWindow
  <2>3. CASE IsSuccessful(old) /\ DayOf(old.successAt) = d
    <3>1. old.successAt \in Nat /\ old.createdAt <= old.successAt
          /\ old.successAt <= old.lastRelevantAt
      BY <1>1, <2>3 DEF Sound, IsSuccessful
    <3>2. m.successAt \in Nat /\ m.successAt <= old.successAt /\ old.createdAt <= m.successAt
      BY <1>1, <1>3, <3>1 DEF Never, Sound, IsSuccessful
    <3>3. DayStart(d) <= old.successAt /\ old.successAt < DayEnd(d)
      BY <2>3, <3>1, DayIs
    <3>4. CASE DayStart(d) <= m.successAt
      <4>1. DayOf(m.successAt) = d
        <5>1. m.successAt < DayEnd(d)
          BY <3>1, <3>2, <3>3, DayBounds
        <5> QED BY <3>2, <3>4, <5>1, DayIs
      <4> QED BY <3>2, <4>1 DEF InWindow, IsSuccessful, Never
    <3>5. CASE ~ (DayStart(d) <= m.successAt)
      <4>1. m.createdAt < DayStart(d) /\ DayStart(d) <= m.lastRelevantAt
        BY <1>1, <2>1, <3>1, <3>2, <3>3, <3>5, DayBounds
      <4>2. DayOf(m.createdAt) < d /\ d <= DayOf(m.lastRelevantAt)
        BY <1>1, <2>1, <4>1, DayIs
      <4> QED BY <4>2 DEF InWindow
    <3> QED BY <3>4, <3>5
  <2>4. CASE DayStart(d) - FullGap <= old.lastRelevantAt /\ old.lastRelevantAt < DayStart(d)
    <3>1. CASE m.lastRelevantAt < DayStart(d)
      <4>1. DayStart(d) - FullGap <= m.lastRelevantAt
        BY <1>1, <2>1, <2>4, DayBounds, GroupingAssumption
      <4> QED BY <3>1, <4>1 DEF InWindow
    <3>2. CASE ~ (m.lastRelevantAt < DayStart(d))
      <4>1. m.createdAt < DayStart(d) /\ DayStart(d) <= m.lastRelevantAt
        BY <1>1, <2>1, <2>4, <3>2, DayBounds
      <4>2. DayOf(m.createdAt) < d /\ d <= DayOf(m.lastRelevantAt)
        BY <1>1, <2>1, <4>1, DayIs
      <4> QED BY <4>2 DEF InWindow
    <3> QED BY <3>1, <3>2
  <2>5. CASE DayOf(old.createdAt) < d /\ d <= DayOf(old.lastRelevantAt)
    <3>1. DayStart(d) <= m.lastRelevantAt
      <4>1. DayStart(d) <= old.lastRelevantAt
        BY <1>1, <2>5, DayIs
      <4> QED BY <1>1, <2>1, <4>1, DayBounds
    <3>2. d <= DayOf(m.lastRelevantAt)
      BY <2>1, <3>1, DayIs
    <3> QED BY <2>1, <2>5, <3>2 DEF InWindow
  <2> QED BY <1>8, <2>2, <2>3, <2>4, <2>5 DEF InWindow
<1> QED BY <1>2, <1>7, <1>8

LEMMA SummaryType ==
  ASSUME NEW S \in SUBSET Segments, IsFiniteSet(S), NEW d
  PROVE  Summary(S, d) \in [rawDocuments : Nat, premiumRuns : Nat, trialRuns : Nat,
                            unknownAccessRuns : Nat]
<1> DEFINE created == {s \in S : DayOf(s.createdAt) = d}
           runs(access) == {g \in RunsOf(S, d) : Access(g) = access}
<1>1. Cardinality(created) \in Nat
  BY FS_Subset, FS_CardinalityType, created \subseteq S
<1>2. ASSUME NEW access PROVE Cardinality(runs(access)) \in Nat
  BY RunsOfIs, FS_Subset, FS_CardinalityType, runs(access) \subseteq RunsOf(S, d)
<1>3. Summary(S, d) = [rawDocuments |-> Cardinality(created),
                       premiumRuns |-> Cardinality(runs("premium")),
                       trialRuns |-> Cardinality(runs("trial")),
                       unknownAccessRuns |-> Cardinality(runs("unknown"))]
  BY DEF Summary
<1> HIDE DEF created, runs
<1>4. /\ Cardinality(runs("premium")) \in Nat /\ Cardinality(runs("trial")) \in Nat
      /\ Cardinality(runs("unknown")) \in Nat
  BY <1>2
<1> QED BY <1>1, <1>3, <1>4

\* A day that no segment touches has an empty summary.
LEMMA SummaryOfNothing ==
  ASSUME NEW S \in SUBSET Segments, IsFiniteSet(S), NEW d,
         \A s \in S : /\ DayOf(s.createdAt) # d
                      /\ ~ (IsSuccessful(s) /\ DayOf(s.successAt) = d)
  PROVE  Summary(S, d) = NoSummary
<1>1. {s \in S : DayOf(s.createdAt) = d} = {}
  OBVIOUS
<1>2. RunsOf(S, d) = {}
  <2>1. SUFFICES ASSUME NEW g \in RunsOf(S, d) PROVE FALSE
    OBVIOUS
  <2>2. g \subseteq S
    BY RunsOfIs, GroupsOfFinite
  <2>3. PICK s \in g : IsSuccessful(s) /\ DayOf(s.successAt) = d
    BY RunsOfIs
  <2> QED BY <2>2, <2>3
<1>3. ASSUME NEW access PROVE {g \in RunsOf(S, d) : Access(g) = access} = {}
  BY <1>2
<1>4. Cardinality({}) = 0
  BY FS_EmptySet
<1> QED
  BY <1>1, <1>2, <1>3, <1>4 DEF Summary, NoSummary

(***************************************************************************)
(* The inductive invariant.                                                *)
(***************************************************************************)
Captured == {i \in Sessions : segment[i] # NoSegment}

\* Finitely many sessions have been captured, each in a segment of its own.
CapturesSound ==
  /\ IsFiniteSet(Captured)
  /\ \A i \in Captured : Sound(segment[i]) /\ segment[i].createdAt = i

\* A run visits days of the calendar, and does not outlast the hour it starts in.
RunsAtTheHour == todo \subseteq Calendar /\ (todo # {} => AtRunHour)

\* A segment marks its days, and a marker stays until the day is settled.
MarkersKept ==
  \A d \in Calendar : now < SettledFrom(d) =>
    \A x \in Stored : d \in DirtyDaysForSegment(x) => d \in dirty

\* A day that nothing has marked has no summary before it is settled.
UnmarkedEmpty ==
  \A d \in Calendar \ dirty : now < SettledFrom(d) => summary[d] = NoSummary

\* A day that has a summary has a segment in its window, for good.
SummaryHasSegment ==
  \A d \in Calendar : summary[d] # NoSummary => \E x \in Stored : InWindow(x, d)

TypeInv == DailyTypeOK /\ CapturesSound /\ RunsAtTheHour

DayInv == MarkersKept /\ UnmarkedEmpty /\ SummaryHasSegment /\ SettledDayCurrent

LEMMA SessionsAre == Sessions \subseteq Nat /\ Sessions # {} /\ LastHour \in Nat
BY DailyRunsAssumption

\* The stored segments are finitely many, one for each session captured.
LEMMA StoredIs ==
  ASSUME TypeInv
  PROVE  /\ Stored \in SUBSET Segments /\ IsFiniteSet(Stored)
         /\ \A x \in Stored : Sound(x) /\ x.createdAt \in Captured /\ segment[x.createdAt] = x
         /\ \A i \in Captured : segment[i] \in Stored
<1>1. Stored = {segment[i] : i \in Captured}
  BY DEF Stored, Captured
<1> DEFINE f == [i \in Captured |-> segment[i]]
<1>2. f \in Surjection(Captured, Stored)
  BY <1>1 DEF Surjection
<1>3. IsFiniteSet(Stored)
  <2> HIDE DEF f
  <2> QED BY <1>2, FS_Surjection DEF TypeInv, CapturesSound
<1>4. \A x \in Stored : Sound(x) /\ x.createdAt \in Captured /\ segment[x.createdAt] = x
  BY <1>1 DEF TypeInv, CapturesSound
<1> QED BY <1>1, <1>3, <1>4 DEF Sound

LEMMA QueryIsFinite ==
  ASSUME NEW S \in SUBSET Segments, IsFiniteSet(S), NEW d \in Int
  PROVE  /\ QuerySegmentsForDay(S, d) \subseteq S
         /\ QuerySegmentsForDay(S, d) \in SUBSET Segments
         /\ IsFiniteSet(QuerySegmentsForDay(S, d))
         /\ \A x \in S : InWindow(x, d) => x \in QuerySegmentsForDay(S, d)
<1>1. PICK c \in Cursors(d) : QuerySegmentsForDay(S, d) = SeenBefore(S, d, c)
  BY QueryEnds
<1> QED BY <1>1, FS_Subset, SeenBefore(S, d, c) \subseteq S DEF SeenBefore

LEMMA CalendarIs ==
  /\ Calendar \subseteq Nat
  /\ now \in Nat => Today \in Nat
<1>1. DayOf(LastHour) \in Nat
  BY SessionsAre, DayIs, 0 \in Int
<1> QED BY <1>1, DayIs, 0 \in Int DEF Calendar, Today

SummaryShape == [rawDocuments : Nat, premiumRuns : Nat, trialRuns : Nat,
                 unknownAccessRuns : Nat]

\* What a day's run writes has the shape of a summary.
LEMMA WrittenType ==
  ASSUME TypeInv, NEW d \in Calendar
  PROVE  Written(d) \in [Calendar -> SummaryShape]
<1> DEFINE Q == QuerySegmentsForDay(Stored, d)
<1>1. Q \in SUBSET Segments /\ IsFiniteSet(Q)
  BY StoredIs, QueryIsFinite, CalendarIs
<1>2. Summary(Q, d) \in SummaryShape
  <2> HIDE DEF Q
  <2> QED BY <1>1, SummaryType DEF SummaryShape
<1>3. summary \in [Calendar -> SummaryShape]
  BY DEF TypeInv, DailyTypeOK, SummaryShape
<1>4. Written(d) = summary \/ Written(d) = [summary EXCEPT ![d] = Summary(Q, d)]
  BY DEF Written
<1> HIDE DEF Q
<1> QED BY <1>2, <1>3, <1>4

LEMMA InitTypeInv == DailyInit => TypeInv
<1> SUFFICES ASSUME DailyInit PROVE TypeInv
  OBVIOUS
<1>1. now \in Nat
  BY SessionsAre, MinOfNaturals DEF DailyInit
<1>2. Captured = {} /\ Stored = {}
  BY DEF DailyInit, Captured, Stored
<1>3. Today \in Nat
  BY <1>1, CalendarIs
<1>4. DailyTypeOK
  BY <1>1, <1>2, <1>3 DEF DailyInit, DailyTypeOK, NoSummary
<1>5. CapturesSound /\ RunsAtTheHour
  BY <1>2, FS_EmptySet DEF DailyInit, CapturesSound, RunsAtTheHour
<1> QED BY <1>4, <1>5 DEF TypeInv

\* What a capture does: the segment of its session grows, and marks its days.
LEMMA CaptureIs ==
  ASSUME TypeInv, NEW s \in Sessions, NEW delay \in Delays, NEW e \in Evidence,
         Capture(s, now - delay, e)
  PROVE  \E x : /\ Sound(x) /\ x.createdAt = s
                /\ s \in Captured => \A d \in Int : InWindow(segment[s], d) => InWindow(x, d)
                /\ segment' = [segment EXCEPT ![s] = x]
                /\ dirty' = dirty \cup (DirtyDaysForSegment(x) \cap Calendar)
                /\ now <= s + Lifetime + delay
                /\ delay = 0 \/ late'
                /\ late => late'
<1> DEFINE at == now - delay
           new == Projection(s, at, e)
           x == IF segment[s] = NoSegment THEN new ELSE Merge(segment[s], new)
<1>1. now \in Nat /\ delay \in Nat /\ Lifetime \in Nat /\ s \in Nat
  BY DailyRunsAssumption DEF TypeInv, DailyTypeOK
<1>2. at \in Int /\ s <= at /\ at <= s + Lifetime
  BY <1>1 DEF Capture
<1>3. Sound(new) /\ new.createdAt = s
  <2> HIDE DEF at
  <2> QED BY <1>2, ProjectionIsSound
<1>4. segment' = [segment EXCEPT ![s] = x]
      /\ dirty' = dirty \cup (DirtyDaysForSegment(x) \cap Calendar)
      /\ late' = (late \/ at < now)
  BY DEF Capture
<1>5. Sound(x) /\ x.createdAt = s
      /\ (s \in Captured => \A d \in Int : InWindow(segment[s], d) => InWindow(x, d))
  <2>1. CASE segment[s] = NoSegment
    BY <1>3, <2>1 DEF Captured
  <2>2. CASE segment[s] # NoSegment
    <3>1. Sound(segment[s]) /\ segment[s].createdAt = s
      BY <2>2 DEF Captured, TypeInv, CapturesSound
    <3> HIDE DEF new
    <3> QED BY <1>3, <2>2, <3>1, MergeIs
  <2> QED BY <2>1, <2>2
<1>6. (delay = 0 \/ late') /\ (late => late')
  <2>1. delay = 0 \/ at < now
    BY <1>1
  <2> HIDE DEF at
  <2> QED BY <1>4, <2>1, Zenon
<1>7. now <= s + Lifetime + delay
  BY <1>1, <1>2
<1> HIDE DEF x
<1> QED BY <1>4, <1>5, <1>6, <1>7

LEMMA CapturedAfter ==
  ASSUME TypeInv, NEW s \in Sessions, NEW x, Sound(x), x.createdAt = s,
         segment' = [segment EXCEPT ![s] = x]
  PROVE  /\ Captured' = Captured \cup {s}
         /\ CapturesSound'
         /\ segment' \in [Sessions -> Segments \cup {NoSegment}]
         /\ Stored' = {y \in Stored : y.createdAt # s} \cup {x}
<1>1. x \in Segments /\ x # NoSegment
  BY DailyRunsAssumption DEF Sound
<1>2. segment \in [Sessions -> Segments \cup {NoSegment}]
  BY DEF TypeInv, DailyTypeOK
<1>3. \A i \in Sessions : segment'[i] = IF i = s THEN x ELSE segment[i]
  BY <1>2
<1>4. Captured' = Captured \cup {s}
  BY <1>1, <1>3 DEF Captured
<1>5. IsFiniteSet(Captured')
  BY <1>4, FS_AddElement DEF TypeInv, CapturesSound
<1>6. \A i \in Captured' : Sound(segment'[i]) /\ segment'[i].createdAt = i
  BY <1>3, <1>4 DEF TypeInv, CapturesSound, Captured
<1>7. CapturesSound'
  BY <1>5, <1>6 DEF CapturesSound
<1>8. segment' \in [Sessions -> Segments \cup {NoSegment}]
  BY <1>1, <1>2
<1>9. Stored' = {segment'[i] : i \in Captured'}
  BY DEF Stored, Captured
<1>10. Stored = {segment[i] : i \in Captured}
  BY DEF Stored, Captured
<1>11. \A i \in Captured : segment[i].createdAt = i
  BY DEF TypeInv, CapturesSound
<1>12. Stored' = {y \in Stored : y.createdAt # s} \cup {x}
  <2>1. ASSUME NEW y \in Stored' PROVE y \in {z \in Stored : z.createdAt # s} \cup {x}
    <3>1. PICK i \in Captured' : y = segment'[i]
      BY <1>9
    <3>2. CASE i = s
      BY <1>3, <3>1, <3>2
    <3>3. CASE i # s
      BY <1>3, <1>4, <1>10, <1>11, <3>1, <3>3 DEF Captured
    <3> QED BY <3>2, <3>3
  <2>2. ASSUME NEW y \in Stored, y.createdAt # s PROVE y \in Stored'
    <3>1. PICK i \in Captured : y = segment[i]
      BY <1>10
    <3>2. i # s /\ i \in Captured' /\ segment'[i] = y
      BY <1>3, <1>4, <1>11, <2>2, <3>1 DEF Captured
    <3> QED BY <1>9, <3>2
  <2>3. x \in Stored'
    BY <1>3, <1>4, <1>9
  <2> QED BY <2>1, <2>2, <2>3
<1> QED BY <1>4, <1>7, <1>8, <1>12

\* A step that leaves the segments alone.
LEMMA SameSegments ==
  ASSUME UNCHANGED segment
  PROVE  Stored' = Stored /\ Captured' = Captured /\ (CapturesSound' <=> CapturesSound)
<1>1. Stored' = Stored /\ Captured' = Captured
  BY DEF Stored, Captured
<1> QED BY <1>1 DEF CapturesSound

LEMMA HourIs ==
  ASSUME NEW q \in Nat, NEW h \in 0..DayLength - 1
  PROVE  q * DayLength + h \in Nat /\ (q * DayLength + h) % DayLength = h
BY GroupingAssumption

\* There is a next run.
LEMMA NextRunHourIs == now \in Nat => NextRunHour \in Nat /\ now < NextRunHour
<1> SUFFICES ASSUME now \in Nat PROVE NextRunHour \in Nat /\ now < NextRunHour
  OBVIOUS
<1> DEFINE T == {t \in now + 1..now + DayLength : t % DayLength = RunHour}
           q == DayOf(now)
<1>1. /\ RunHour \in 0..DayLength - 1 /\ RunHour \in Nat
      /\ DayLength \in Nat /\ DayLength > 0
  BY GroupingAssumption, DailyRunsAssumption
<1>2. /\ q \in Nat /\ q * DayLength \in Nat
      /\ q * DayLength <= now /\ now < q * DayLength + DayLength
  BY <1>1 DEF DayOf
<1>3. (q + 1) * DayLength = q * DayLength + DayLength
  BY <1>1, <1>2
<1> HIDE DEF q
<1>4. /\ (q * DayLength + RunHour) % DayLength = RunHour
      /\ ((q + 1) * DayLength + RunHour) % DayLength = RunHour
  BY <1>1, <1>2, HourIs, q + 1 \in Nat
<1>5. T # {}
  <2>1. CASE now < q * DayLength + RunHour
    <3>1. q * DayLength + RunHour \in now + 1..now + DayLength
      BY <1>1, <1>2, <2>1
    <3> QED BY <1>4, <3>1
  <2>2. CASE ~ (now < q * DayLength + RunHour)
    <3>1. (q + 1) * DayLength + RunHour \in now + 1..now + DayLength
      BY <1>1, <1>2, <1>3, <2>2
    <3> QED BY <1>4, <3>1
  <2> QED BY <2>1, <2>2
<1>6. T \in SUBSET Nat
  BY <1>1
<1>7. Min(T) \in T
  <2> HIDE DEF T
  <2> QED BY <1>5, <1>6, MinOfNaturals
<1> QED BY <1>1, <1>7 DEF NextRunHour

\* The day a run is at.
LEMMA CurrentIs ==
  ASSUME TypeInv, todo # {}
  PROVE  Current \in todo /\ Current \in Calendar /\ AtRunHour
<1>1. todo \in SUBSET Nat
  BY CalendarIs DEF TypeInv, RunsAtTheHour
<1> QED BY <1>1, MinOfNaturals DEF Current, TypeInv, RunsAtTheHour

LEMMA NextTypeInv == TypeInv /\ [DailyNext]_dailyVars => TypeInv'
<1> SUFFICES ASSUME TypeInv, [DailyNext]_dailyVars PROVE TypeInv'
  OBVIOUS
<1> USE DEF TypeInv
<1>0. /\ now \in Nat /\ versions \in Nat /\ mishaps \in Nat
      /\ MaxMishaps \in Nat /\ MaxVersions \in Nat
  BY DailyRunsAssumption DEF DailyTypeOK
\* The days before a run shrink and the rest stays, for every way a day ends.
<1>1. ASSUME UNCHANGED <<now, segment, ran, late, versions>>,
             todo' \subseteq todo, mishaps' \in Nat,
             summary' \in {summary, Written(Current)},
             dirty' \subseteq dirty, fresh \ dirty' = {},
             fresh' = IF todo' = {} THEN {} ELSE fresh, todo # {}
      PROVE  TypeInv'
  <2>1. Written(Current) \in [Calendar -> SummaryShape]
    BY <1>1, CurrentIs, WrittenType
  <2>2. summary' \in [Calendar -> SummaryShape]
    BY <1>1, <2>1 DEF DailyTypeOK, SummaryShape
  <2>3. Stored' = Stored /\ CapturesSound'
    BY <1>1, SameSegments
  <2>4. DailyTypeOK'
    BY <1>1, <2>2, <2>3 DEF DailyTypeOK, SummaryShape, Today
  <2>5. RunsAtTheHour'
    BY <1>1 DEF RunsAtTheHour, AtRunHour
  <2> QED BY <2>3, <2>4, <2>5
<1>2. CASE HourPasses
  <2>1. now' \in Nat /\ todo' = {} /\ fresh' = {}
    BY <1>0, <1>2, NextRunHourIs DEF HourPasses, DailyTypeOK
  <2>2. Stored' = Stored /\ CapturesSound'
    BY <1>2, SameSegments DEF HourPasses
  <2>3. DailyTypeOK'
    BY <1>2, <2>1, <2>2 DEF HourPasses, DailyTypeOK
  <2>4. RunsAtTheHour'
    BY <2>1 DEF RunsAtTheHour
  <2> QED BY <2>2, <2>3, <2>4
<1>3. ASSUME NEW s \in Sessions, NEW delay \in Delays, NEW e \in Evidence,
             Capture(s, now - delay, e)
      PROVE  TypeInv'
  <2>1. PICK x : /\ Sound(x) /\ x.createdAt = s
                 /\ segment' = [segment EXCEPT ![s] = x]
                 /\ dirty' = dirty \cup (DirtyDaysForSegment(x) \cap Calendar)
    BY <1>3, CaptureIs
  <2>2. /\ CapturesSound'
        /\ segment' \in [Sessions -> Segments \cup {NoSegment}]
        /\ Stored' = {y \in Stored : y.createdAt # s} \cup {x}
    BY <2>1, CapturedAfter
  <2>3. /\ UNCHANGED <<now, summary, todo, ran>>
        /\ versions' \in Nat /\ mishaps' \in Nat /\ late' \in BOOLEAN
    BY <1>0, <1>3 DEF Capture
  <2>4. fresh' \subseteq dirty' /\ (fresh' # {} => todo' # {})
    <3>1. dirty \subseteq dirty'
      BY <2>1
    <3> QED BY <1>3, <2>1, <3>1 DEF Capture, DailyTypeOK
  <2>5. \A y \in Stored' : IsSuccessful(y) => y.successAt \in y.createdAt..y.lastRelevantAt
    BY <2>1, <2>2 DEF Sound, DailyTypeOK
  <2>6. DailyTypeOK'
    BY <2>1, <2>2, <2>3, <2>4, <2>5 DEF DailyTypeOK, Today
  <2>7. RunsAtTheHour'
    BY <2>3 DEF RunsAtTheHour, AtRunHour
  <2> QED BY <2>2, <2>6, <2>7
<1>4. CASE RunStart
  <2>1. Stored' = Stored /\ CapturesSound'
    BY <1>4, SameSegments DEF RunStart
  <2>2. todo' \subseteq Calendar /\ \A d \in todo' : d < Today
    <3>1. Today \in Nat
      BY <1>0, CalendarIs
    <3>2. DirtyRead \subseteq dirty
      BY DEF DirtyRead, Smallest
    <3> QED BY <1>4, <3>1, <3>2 DEF RunStart
  <2>3. todo' \subseteq 0..Today - 1
    BY <1>0, <2>2, CalendarIs
  <2>4. fresh' = {}
    BY <1>4 DEF RunStart, DailyTypeOK
  <2>5. DailyTypeOK'
    BY <1>4, <2>1, <2>3, <2>4 DEF RunStart, DailyTypeOK, Today
  <2>6. RunsAtTheHour'
    BY <1>4, <2>2 DEF RunStart, RunsAtTheHour, AtRunHour
  <2> QED BY <2>1, <2>5, <2>6
<1>5. CASE RunMissed
  <2>1. Stored' = Stored /\ CapturesSound'
    BY <1>5, SameSegments DEF RunMissed
  <2>2. DailyTypeOK'
    BY <1>0, <1>5, <2>1 DEF RunMissed, DailyTypeOK, Today
  <2>3. RunsAtTheHour'
    BY <1>5 DEF RunMissed, RunsAtTheHour, AtRunHour
  <2> QED BY <2>1, <2>2, <2>3
<1>6. CASE AggregateDay
  <2>1. dirty' \subseteq dirty /\ fresh \ dirty' = {}
    BY <1>6 DEF AggregateDay, ClearDirtyDayIfHandled, DailyTypeOK
  <2> QED BY <1>0, <1>1, <1>6, <2>1 DEF AggregateDay, GoOn
<1>7. CASE ClearFails
  BY <1>0, <1>1, <1>7 DEF ClearFails, GoOn, DailyTypeOK
<1>8. CASE DayBusy
  BY <1>0, <1>1, <1>8 DEF DayBusy, GoOn, DailyTypeOK
<1>9. CASE DayThrows
  BY <1>0, <1>1, <1>9 DEF DayThrows, GoOn, DailyTypeOK
<1>10. CASE UNCHANGED dailyVars
  <2>1. Stored' = Stored /\ CapturesSound'
    BY <1>10, SameSegments DEF dailyVars
  <2>2. DailyTypeOK'
    BY <1>10, <2>1 DEF dailyVars, DailyTypeOK, Today
  <2>3. RunsAtTheHour'
    BY <1>10 DEF dailyVars, RunsAtTheHour, AtRunHour
  <2> QED BY <2>1, <2>2, <2>3
<1> QED
  BY <1>2, <1>3, <1>4, <1>5, <1>6, <1>7, <1>8, <1>9, <1>10 DEF DailyNext

\* Every variable keeps its shape, over any number of days, sessions and runs.
THEOREM DailyTypeCorrect == DailySpec => []DailyTypeOK
<1>1. TypeInv => DailyTypeOK
  BY DEF TypeInv
<1> QED BY <1>1, InitTypeInv, NextTypeInv, PTL DEF DailySpec

(***************************************************************************)
(* A settled day is current.                                               *)
(***************************************************************************)
\* A segment marks the day it begins on, that of its success, and the one
\* before if it begins within FullGap of midnight.
LEMMA MarkedDays ==
  ASSUME NEW x, Sound(x), NEW d \in Int, d \notin DirtyDaysForSegment(x)
  PROVE  /\ DayOf(x.createdAt) # d
         /\ ~ (IsSuccessful(x) /\ DayOf(x.successAt) = d)
         /\ x.createdAt \notin DayStart(d)..DayEnd(d) + FullGap
<1>1. DayOf(x.createdAt) # d /\ ~ (IsSuccessful(x) /\ DayOf(x.successAt) = d)
  BY DEF DirtyDaysForSegment
<1>2. x.createdAt \in Nat
  BY DEF Sound, Segments
<1>3. ASSUME x.createdAt \in DayStart(d)..DayEnd(d) + FullGap PROVE FALSE
  <2>1. /\ DayStart(d) \in Int /\ DayEnd(d) \in Int
        /\ DayStart(d + 1) = DayEnd(d) /\ DayEnd(d + 1) = DayEnd(d) + DayLength
    BY DayBounds, d + 1 \in Int
  <2>2. DayEnd(d) <= x.createdAt
    BY <1>1, <1>2, <1>3, <2>1, DayIs
  <2>3. x.createdAt < DayEnd(d + 1)
    BY <1>2, <1>3, <2>1, GroupingAssumption
  <2>4. DayOf(x.createdAt) = d + 1
    BY <1>2, <2>1, <2>2, <2>3, DayIs, d + 1 \in Int
  <2>5. x.createdAt <= DayStart(DayOf(x.createdAt)) + FullGap
    BY <1>2, <1>3, <2>1, <2>4, GroupingAssumption
  <2>6. DayOf(x.createdAt) - 1 \in DirtyDaysForSegment(x)
    BY <2>5 DEF DirtyDaysForSegment
  <2> QED BY <2>4, <2>6
<1> QED BY <1>1, <1>3

\* A run clears the marker of a day that is over for 24 hours, at its hour.
LEMMA ClearedWhenSettled ==
  ASSUME now \in Nat, AtRunHour, NEW d \in Calendar, IsCompleteDay(d)
  PROVE  now >= SettledFrom(d)
<1>1. d \in Int /\ RunHour \in Nat /\ DayLength \in Nat /\ DayLength > 0
  BY CalendarIs, DailyRunsAssumption, GroupingAssumption
<1> DEFINE q == DayOf(now)
<1>2. q \in Nat /\ now = q * DayLength + RunHour
  BY <1>1 DEF AtRunHour, DayOf
<1>3. /\ DayStart(d + 2) = DayEnd(d) + DayLength
      /\ DayEnd(d) \in Int
  <2>1. d + 1 \in Int /\ (d + 1) + 1 = d + 2 /\ d + 2 \in Int
    BY <1>1
  <2> QED BY <1>1, <2>1, DayBounds
<1>4. d + 2 <= q
  BY <1>1, <1>3, DayIs, d + 2 \in Int DEF IsCompleteDay
<1>5. (d + 2) * DayLength <= q * DayLength
  <2> HIDE DEF q
  <2> QED BY <1>1, <1>2, <1>4
<1>6. DayStart(d + 2) <= q * DayLength
  BY <1>5 DEF DayStart
<1> HIDE DEF q
<1> QED BY <1>1, <1>2, <1>3, <1>6 DEF SettledFrom, DayStart

\* A day that no segment marks has nothing to show.
LEMMA UnmarkedSummary ==
  ASSUME NEW S \in SUBSET Segments, IsFiniteSet(S), NEW d \in Int,
         \A x \in S : Sound(x) /\ d \notin DirtyDaysForSegment(x)
  PROVE  Summary(QuerySegmentsForDay(S, d), d) = NoSummary
<1> DEFINE Q == QuerySegmentsForDay(S, d)
<1>1. Q \subseteq S /\ Q \in SUBSET Segments /\ IsFiniteSet(Q)
  BY QueryIsFinite
<1>2. \A x \in Q : /\ DayOf(x.createdAt) # d
                   /\ ~ (IsSuccessful(x) /\ DayOf(x.successAt) = d)
  <2> HIDE DEF Q
  <2> QED BY <1>1, MarkedDays
<1> HIDE DEF Q
<1>3. Summary(Q, d) = NoSummary
  BY <1>1, <1>2, SummaryOfNothing
<1> QED BY <1>3 DEF Q

LEMMA UnmarkedRecomputed ==
  ASSUME TypeInv, NEW d \in Int, \A x \in Stored : d \notin DirtyDaysForSegment(x)
  PROVE  Recomputed(d) = NoSummary
BY StoredIs, UnmarkedSummary DEF Recomputed

\* A day with something to show has a segment in its window.
LEMMA RecomputedInWindow ==
  ASSUME TypeInv, NEW d \in Int, Recomputed(d) # NoSummary
  PROVE  \E x \in Stored : InWindow(x, d)
<1> DEFINE Q == QuerySegmentsForDay(Stored, d)
<1>1. Q \subseteq Stored /\ Q \in SUBSET Segments /\ IsFiniteSet(Q)
  BY StoredIs, QueryIsFinite
<1>2. Summary(Q, d) # NoSummary
  BY DEF Recomputed
<1>3. \E x \in Q : DayOf(x.createdAt) = d \/ (IsSuccessful(x) /\ DayOf(x.successAt) = d)
  <2> HIDE DEF Q
  <2> QED BY <1>1, <1>2, SummaryOfNothing
<1>4. PICK x \in Stored : DayOf(x.createdAt) = d \/ (IsSuccessful(x) /\ DayOf(x.successAt) = d)
  BY <1>1, <1>3
<1> QED BY <1>4 DEF InWindow

\* What a run writes of a day is what its segments say, and nothing else.
LEMMA WrittenIs ==
  ASSUME TypeInv, SummaryHasSegment, NEW c \in Calendar
  PROVE  /\ Written(c)[c] = Recomputed(c)
         /\ \A d \in Calendar : d # c => Written(c)[d] = summary[d]
<1> DEFINE Q == QuerySegmentsForDay(Stored, c)
<1>1. summary \in [Calendar -> SummaryShape] /\ c \in Int
  BY CalendarIs DEF TypeInv, DailyTypeOK, SummaryShape
<1>2. CASE Q = {}
  <2>1. Written(c) = summary
    BY <1>2 DEF Written
  <2>2. \A x \in Stored : ~ InWindow(x, c)
    BY <1>1, <1>2, StoredIs, QueryIsFinite
  <2>3. summary[c] = NoSummary
    BY <2>2 DEF SummaryHasSegment
  <2>4. Recomputed(c) = NoSummary
    BY <1>1, <2>2, RecomputedInWindow
  <2> QED BY <2>1, <2>3, <2>4
<1>3. CASE Q # {}
  <2>1. Written(c) = [summary EXCEPT ![c] = Recomputed(c)]
    BY <1>3 DEF Written, Recomputed
  <2> QED BY <1>1, <2>1
<1> QED BY <1>2, <1>3

LEMMA InitDayInv == DailyInit => DayInv
<1> SUFFICES ASSUME DailyInit PROVE DayInv
  OBVIOUS
<1>1. TypeInv /\ Stored = {}
  BY InitTypeInv DEF DailyInit, Stored
<1>2. ASSUME NEW d \in Calendar PROVE summary[d] = NoSummary /\ Recomputed(d) = NoSummary
  BY <1>1, CalendarIs, UnmarkedRecomputed DEF DailyInit
<1> QED
  BY <1>1, <1>2
  DEF DayInv, MarkersKept, UnmarkedEmpty, SummaryHasSegment, SettledDayCurrent

\* Time, and a run that writes nothing, leave the days as they are.
LEMMA IdleDayInv ==
  ASSUME TypeInv, DayInv, UNCHANGED <<segment, dirty, summary, late>>,
         now' \in Nat, now <= now'
  PROVE  DayInv'
<1>1. Stored' = Stored
  BY SameSegments
<1>2. now \in Nat /\ \A d \in Calendar : SettledFrom(d) \in Int
  <2>1. RunHour \in Int /\ DayLength \in Int
    BY DailyRunsAssumption, GroupingAssumption
  <2> QED BY <2>1, CalendarIs, DayBounds DEF TypeInv, DailyTypeOK, SettledFrom
<1>3. \A d \in Calendar : now' < SettledFrom(d) => now < SettledFrom(d)
  BY <1>2
<1>4. MarkersKept' /\ UnmarkedEmpty' /\ SummaryHasSegment'
  BY <1>1, <1>3 DEF DayInv, MarkersKept, UnmarkedEmpty, SummaryHasSegment
<1>5. SettledDayCurrent'
  BY <1>1 DEF DayInv, SettledDayCurrent, Recomputed, Outlives
<1> QED BY <1>4, <1>5 DEF DayInv

\* A run writes the day it is at, and clears it once it is settled.
LEMMA WriteDayInv ==
  ASSUME TypeInv, DayInv, UNCHANGED <<now, segment, late>>, todo # {},
         \/ summary' = summary /\ dirty' = dirty
         \/ summary' = Written(Current) /\ dirty' = dirty
         \/ /\ summary' = Written(Current) /\ dirty' = dirty \ {Current}
            /\ IsCompleteDay(Current)
  PROVE  DayInv'
<1> DEFINE c == Current
<1>1. c \in Calendar /\ AtRunHour /\ now \in Nat
  BY CurrentIs DEF TypeInv, DailyTypeOK
<1>2. Stored' = Stored
  BY SameSegments
<1>3. c \in dirty \ dirty' => now >= SettledFrom(c) /\ summary' = Written(c)
  BY <1>1, ClearedWhenSettled
<1>4. \A d \in Calendar \ {c} : d \in dirty' <=> d \in dirty
  OBVIOUS
<1>5. \A d \in Calendar \ {c} : summary'[d] = summary[d]
  BY <1>1, WrittenIs DEF DayInv
<1>6. summary'[c] = summary[c] \/ summary'[c] = Recomputed(c)
  BY <1>1, WrittenIs DEF DayInv
<1>7. summary' = Written(c) => summary'[c] = Recomputed(c)
  BY <1>1, WrittenIs DEF DayInv
<1>8. now >= SettledFrom(c) => ~ (now < SettledFrom(c))
  <2>1. RunHour \in Int /\ DayLength \in Int
    BY DailyRunsAssumption, GroupingAssumption
  <2> QED BY <1>1, <2>1, CalendarIs, DayBounds DEF SettledFrom
<1> HIDE DEF c
<1>9. MarkersKept'
  <2>1. ASSUME NEW d \in Calendar, now < SettledFrom(d), NEW x \in Stored,
               d \in DirtyDaysForSegment(x)
        PROVE  d \in dirty'
    <3>1. d \in dirty
      BY <2>1 DEF DayInv, MarkersKept
    <3> QED BY <1>3, <1>4, <1>8, <2>1, <3>1
  <2> QED BY <1>2, <2>1 DEF MarkersKept
<1>10. UnmarkedEmpty'
  <2>1. ASSUME NEW d \in Calendar, d \notin dirty', now < SettledFrom(d)
        PROVE  summary'[d] = NoSummary
    <3>1. d \notin dirty
      BY <1>3, <1>4, <1>8, <2>1
    <3>2. summary[d] = NoSummary
      BY <2>1, <3>1 DEF DayInv, UnmarkedEmpty
    <3>3. Recomputed(d) = NoSummary
      <4>1. \A x \in Stored : d \notin DirtyDaysForSegment(x)
        BY <2>1, <3>1 DEF DayInv, MarkersKept
      <4> QED BY <4>1, CalendarIs, UnmarkedRecomputed
    <3> QED BY <1>5, <1>6, <3>2, <3>3
  <2> QED BY <2>1 DEF UnmarkedEmpty
<1>11. SummaryHasSegment'
  <2>1. ASSUME NEW d \in Calendar, summary'[d] # NoSummary
        PROVE  \E x \in Stored : InWindow(x, d)
    <3>1. CASE summary'[d] = summary[d]
      BY <2>1, <3>1 DEF DayInv, SummaryHasSegment
    <3>2. CASE summary'[d] # summary[d]
      BY <1>5, <1>6, <2>1, <3>2, CalendarIs, RecomputedInWindow
    <3> QED BY <3>1, <3>2
  <2> QED BY <1>2, <2>1 DEF SummaryHasSegment
<1>12. SettledDayCurrent'
  <2>1. ASSUME NEW d \in Calendar, d \notin dirty'
        PROVE  \/ summary'[d] = Recomputed(d)
               \/ \E s \in QuerySegmentsForDay(Stored, d) :
                    s.createdAt \notin DayStart(d)..DayEnd(d) + FullGap /\ Outlives(s, d)
    <3>1. CASE d \in dirty
      BY <1>3, <1>4, <1>7, <2>1, <3>1
    <3>2. CASE d \notin dirty
      <4>1. CASE summary'[d] = summary[d]
        BY <3>2, <4>1 DEF DayInv, SettledDayCurrent
      <4>2. CASE summary'[d] # summary[d]
        BY <1>5, <1>6, <4>2
      <4> QED BY <4>1, <4>2
    <3> QED BY <3>1, <3>2
  <2> QED BY <1>2, <2>1 DEF SettledDayCurrent, Recomputed, Outlives
<1> QED BY <1>9, <1>10, <1>11, <1>12 DEF DayInv

\* A capture that does not read into the settled days leaves them as they are;
\* a segment it brings into one is younger or older than the day, and outlives
\* it.
LEMMA CaptureDayInv ==
  ASSUME TypeInv, DayInv, NEW s \in Sessions, NEW delay \in Delays, NEW e \in Evidence,
         Capture(s, now - delay, e)
  PROVE  DayInv'
<1>1. PICK x : /\ Sound(x) /\ x.createdAt = s
               /\ s \in Captured => \A d \in Int : InWindow(segment[s], d) => InWindow(x, d)
               /\ segment' = [segment EXCEPT ![s] = x]
               /\ dirty' = dirty \cup (DirtyDaysForSegment(x) \cap Calendar)
               /\ now <= s + Lifetime + delay
               /\ delay = 0 \/ late'
               /\ late => late'
  BY CaptureIs
<1>2. UNCHANGED <<now, summary>>
  BY DEF Capture
<1>3. Stored' = {y \in Stored : y.createdAt # s} \cup {x}
  BY <1>1, CapturedAfter
<1>4. /\ Stored \in SUBSET Segments /\ IsFiniteSet(Stored)
      /\ \A y \in Stored : Sound(y) /\ y.createdAt \in Captured /\ segment[y.createdAt] = y
  BY StoredIs
<1>5. /\ Stored' \in SUBSET Segments /\ IsFiniteSet(Stored')
      /\ \A y \in Stored' : Sound(y)
  <2>1. IsFiniteSet({y \in Stored : y.createdAt # s})
    BY <1>4, FS_Subset, {y \in Stored : y.createdAt # s} \subseteq Stored
  <2>2. IsFiniteSet(Stored')
    BY <1>3, <2>1, FS_AddElement
  <2> QED BY <1>1, <1>3, <1>4, <2>2 DEF Sound
<1>6. MarkersKept'
  <2>1. ASSUME NEW d \in Calendar, now < SettledFrom(d), NEW y \in Stored',
               d \in DirtyDaysForSegment(y)
        PROVE  d \in dirty'
    BY <1>1, <1>3, <2>1 DEF DayInv, MarkersKept
  <2> QED BY <1>2, <2>1 DEF MarkersKept
<1>7. UnmarkedEmpty'
  BY <1>1, <1>2 DEF DayInv, UnmarkedEmpty
<1>8. SummaryHasSegment'
  <2>1. ASSUME NEW d \in Calendar, summary[d] # NoSummary
        PROVE  \E y \in Stored' : InWindow(y, d)
    <3>1. PICK y \in Stored : InWindow(y, d)
      BY <2>1 DEF DayInv, SummaryHasSegment
    <3>2. CASE y.createdAt # s
      BY <1>3, <3>1, <3>2
    <3>3. CASE y.createdAt = s
      BY <1>1, <1>3, <1>4, <3>1, <3>3, CalendarIs
    <3> QED BY <3>2, <3>3
  <2> QED BY <1>2, <2>1 DEF SummaryHasSegment
<1>9. SettledDayCurrent'
  <2>1. ASSUME NEW d \in Calendar, d \notin dirty'
        PROVE  \/ summary[d] = Summary(QuerySegmentsForDay(Stored', d), d)
               \/ \E y \in QuerySegmentsForDay(Stored', d) :
                    y.createdAt \notin DayStart(d)..DayEnd(d) + FullGap /\ Outlives(y, d)'
    <3>1. d \notin dirty /\ d \notin DirtyDaysForSegment(x) /\ d \in Int
      BY <1>1, <2>1, CalendarIs
    <3>2. CASE now < SettledFrom(d)
      <4>1. summary[d] = NoSummary
        BY <3>1, <3>2 DEF DayInv, UnmarkedEmpty
      <4>2. \A y \in Stored' : d \notin DirtyDaysForSegment(y)
        BY <1>2, <1>6, <2>1, <3>2 DEF MarkersKept
      <4> QED BY <1>5, <3>1, <4>1, <4>2, UnmarkedSummary
    <3>3. CASE ~ (now < SettledFrom(d)) /\ x \in QuerySegmentsForDay(Stored', d)
      <4>1. x.createdAt \notin DayStart(d)..DayEnd(d) + FullGap
        BY <1>1, <3>1, MarkedDays
      <4>2. x.createdAt + Lifetime + delay >= SettledFrom(d)
        <5>1. now \in Int /\ s \in Int /\ Lifetime \in Int /\ delay \in Int /\ RunHour \in Int
          BY DailyRunsAssumption DEF TypeInv, DailyTypeOK
        <5>2. SettledFrom(d) \in Int
          BY <3>1, <5>1, DayBounds, GroupingAssumption DEF SettledFrom
        <5> QED BY <1>1, <3>3, <5>1, <5>2
      <4>3. delay \in IF late' THEN Delays ELSE {0}
        BY <1>1, DailyRunsAssumption
      <4>4. Outlives(x, d)'
        BY <4>2, <4>3 DEF Outlives
      <4> QED BY <3>3, <4>1, <4>4
    <3>4. CASE x \notin QuerySegmentsForDay(Stored', d)
      <4>1. ASSUME NEW c \in Cursors(d), x \notin SeenBefore(Stored', d, c)
            PROVE  SeenBefore(Stored, d, c) = SeenBefore(Stored', d, c)
        <5>1. ~ InWindow(x, d) /\ ~ (DayEnd(d) <= x.createdAt /\ x.createdAt < c)
          BY <1>3, <4>1 DEF SeenBefore
        <5>2. ASSUME NEW y \in Stored, y.createdAt = s
              PROVE  y \notin SeenBefore(Stored, d, c)
          BY <1>1, <1>4, <3>1, <5>1, <5>2 DEF SeenBefore
        <5> QED BY <1>3, <4>1, <5>2 DEF SeenBefore
      <4>2. QuerySegmentsForDay(Stored, d) = QuerySegmentsForDay(Stored', d)
        BY <1>4, <1>5, <3>1, <3>4, <4>1, QueryWithout
      <4>3. \A y : Outlives(y, d) => Outlives(y, d)'
        BY <1>1, DailyRunsAssumption DEF Outlives
      <4>4. \/ summary[d] = Summary(QuerySegmentsForDay(Stored, d), d)
            \/ \E y \in QuerySegmentsForDay(Stored, d) :
                 y.createdAt \notin DayStart(d)..DayEnd(d) + FullGap /\ Outlives(y, d)
        BY <3>1 DEF DayInv, SettledDayCurrent, Recomputed
      <4> QED BY <4>2, <4>3, <4>4
    <3> QED BY <3>2, <3>3, <3>4
  <2> QED BY <1>2, <2>1 DEF SettledDayCurrent, Recomputed
<1> QED BY <1>6, <1>7, <1>8, <1>9 DEF DayInv

LEMMA NextDayInv == TypeInv /\ DayInv /\ [DailyNext]_dailyVars => DayInv'
<1> SUFFICES ASSUME TypeInv, DayInv, [DailyNext]_dailyVars PROVE DayInv'
  OBVIOUS
<1>0. now \in Nat
  BY DEF TypeInv, DailyTypeOK
<1>1. CASE HourPasses
  <2>1. now' \in Nat /\ now <= now'
    BY <1>0, <1>1, NextRunHourIs DEF HourPasses
  <2> QED BY <1>1, <2>1, IdleDayInv DEF HourPasses
<1>2. ASSUME NEW s \in Sessions, NEW delay \in Delays, NEW e \in Evidence,
             Capture(s, now - delay, e)
      PROVE  DayInv'
  BY <1>2, CaptureDayInv
<1>3. CASE RunStart
  BY <1>0, <1>3, IdleDayInv DEF RunStart
<1>4. CASE RunMissed
  BY <1>0, <1>4, IdleDayInv DEF RunMissed
<1>5. CASE AggregateDay
  BY <1>5, WriteDayInv DEF AggregateDay, ClearDirtyDayIfHandled
<1>6. CASE ClearFails
  BY <1>6, WriteDayInv DEF ClearFails
<1>7. CASE DayBusy
  BY <1>0, <1>7, IdleDayInv DEF DayBusy
<1>8. CASE DayThrows
  BY <1>8, WriteDayInv DEF DayThrows
<1>9. CASE UNCHANGED dailyVars
  BY <1>0, <1>9, IdleDayInv DEF dailyVars
<1> QED
  BY <1>1, <1>2, <1>3, <1>4, <1>5, <1>6, <1>7, <1>8, <1>9 DEF DailyNext

\* A day without a marker is current, however its segments are captured, late or
\* out of order, and whichever runs are missed, fail or stop half way.
THEOREM SettledDaysCurrent == DailySpec => []SettledDayCurrent
<1>1. DailyInit => TypeInv /\ DayInv
  BY InitTypeInv, InitDayInv
<1>2. TypeInv /\ DayInv /\ [DailyNext]_dailyVars => (TypeInv /\ DayInv)'
  BY NextTypeInv, NextDayInv
<1>3. DayInv => SettledDayCurrent
  BY DEF DayInv
<1> QED BY <1>1, <1>2, <1>3, PTL DEF DailySpec

(***************************************************************************)
(* Every segment is of one run.                                            *)
(*                                                                         *)
(* Whether a segment continues the run of the one before it or begins one  *)
(* depends on the segments before it only: the runs are the classes of an  *)
(* equivalence, whatever the segments say and however sessions overlap.    *)
(***************************************************************************)
Named(S) ==
  /\ S \in SUBSET Segments /\ IsFiniteSet(S)
  /\ \A a, b \in S : a.createdAt = b.createdAt => a = b

\* The segment u continues the run of the one before it.
Joins(S, u) == Earlier(S, u) # {} /\ Continues(RunTo(S)[Before(S, u)], u)

\* No run begins between a and b.
FromTo(a, u, b) == a.createdAt < u.createdAt /\ u.createdAt <= b.createdAt

Together(S, a, b) ==
  \A u \in S : FromTo(a, u, b) \/ FromTo(b, u, a) => Joins(S, u)

Class(S, z) == {t \in S : Together(S, t, z)}

LEMMA NamedIs ==
  ASSUME NEW S, Named(S), NEW a \in S
  PROVE  /\ a.createdAt \in Nat
         /\ \A b \in S : a.createdAt = b.createdAt => a = b
BY DEF Named, Segments

LEMMA TogetherIsEquivalence ==
  ASSUME NEW S, Named(S)
  PROVE  /\ \A a \in S : Together(S, a, a)
         /\ \A a, b \in S : Together(S, a, b) => Together(S, b, a)
         /\ \A a, b, c \in S : Together(S, a, b) /\ Together(S, b, c) => Together(S, a, c)
<1>1. \A a \in S : a.createdAt \in Nat
  BY NamedIs
<1>2. \A a \in S : Together(S, a, a)
  BY <1>1 DEF Together, FromTo
<1>3. \A a, b \in S : Together(S, a, b) => Together(S, b, a)
  BY DEF Together
<1>4. ASSUME NEW a \in S, NEW b \in S, NEW c \in S, Together(S, a, b), Together(S, b, c)
      PROVE  Together(S, a, c)
  <2>1. ASSUME NEW u \in S
        PROVE  FromTo(a, u, c) \/ FromTo(c, u, a)
                 => FromTo(a, u, b) \/ FromTo(b, u, a) \/ FromTo(b, u, c) \/ FromTo(c, u, b)
    BY <1>1 DEF FromTo
  <2> QED BY <1>4, <2>1 DEF Together
<1> QED BY <1>2, <1>3, <1>4

\* Segments between two of a run are of the run.
LEMMA TogetherBetween ==
  ASSUME NEW S, Named(S), NEW a \in S, NEW b \in S, NEW c \in S, Together(S, a, c),
         a.createdAt <= b.createdAt, b.createdAt <= c.createdAt
  PROVE  Together(S, a, b) /\ Together(S, b, c)
<1>1. \A u \in S : u.createdAt \in Nat
  BY NamedIs
<1> QED BY <1>1 DEF Together, FromTo

\* The run of s as far as s.
LEMMA RunToIsClass ==
  ASSUME NEW S, Named(S), NEW s \in S
  PROVE  RunTo(S)[s] = {t \in Class(S, s) : t.createdAt <= s.createdAt}
<1> DEFINE Upto(u) == {t \in Class(S, u) : t.createdAt <= u.createdAt}
           X == {u \in S : RunTo(S)[u] = Upto(u)}
<1>0. S \in SUBSET Segments /\ IsFiniteSet(S) /\ \A u \in S : u.createdAt \in Nat
  BY NamedIs DEF Named
<1>1. ASSUME NEW u \in S, \A t \in S : t.createdAt < u.createdAt => t \in X
      PROVE  RunTo(S)[u] = Upto(u)
  <2> DEFINE p == Before(S, u)
  <2>1. RunTo(S)[u] = RunBody(S, RunTo(S), u)
    BY <1>0, RunToIs
  <2>2. u \in Upto(u)
    BY <1>0, TogetherIsEquivalence DEF Class
  <2>3. CASE Earlier(S, u) = {}
    <3>1. RunTo(S)[u] = {u}
      BY <2>1, <2>3 DEF RunBody
    <3>2. ASSUME NEW t \in Upto(u) PROVE t = u
      <4>1. t \in S /\ ~ (t.createdAt < u.createdAt) /\ t.createdAt <= u.createdAt
        BY <2>3 DEF Class, Earlier
      <4>2. t.createdAt = u.createdAt
        BY <1>0, <4>1
      <4> QED BY <4>1, <4>2, NamedIs
    <3> HIDE DEF Upto
    <3> QED BY <2>2, <3>1, <3>2
  <2>4. CASE Earlier(S, u) # {}
    <3>1. /\ p \in S /\ p.createdAt < u.createdAt
          /\ \A t \in S : t.createdAt < u.createdAt => t.createdAt <= p.createdAt
      BY <1>0, <2>4, BeforeIs
    <3>2. RunTo(S)[p] = Upto(p)
      BY <1>1, <3>1
    <3>3. Joins(S, u) <=> Continues(RunTo(S)[p], u)
      BY <2>4 DEF Joins
    <3>4. CASE Joins(S, u)
      <4>1. RunTo(S)[u] = Upto(p) \cup {u}
        BY <2>1, <2>4, <3>2, <3>3, <3>4 DEF RunBody
      <4>2. Together(S, p, u)
        <5>1. ASSUME NEW v \in S, p.createdAt < v.createdAt, v.createdAt <= u.createdAt
              PROVE  v = u
          <6>1. ~ (v.createdAt < u.createdAt)
            BY <1>0, <3>1, <5>1
          <6>2. v.createdAt = u.createdAt
            BY <1>0, <5>1, <6>1
          <6> QED BY <6>2, NamedIs
        <5> QED BY <1>0, <3>1, <3>4, <5>1 DEF Together, FromTo
      <4> HIDE DEF p
      <4>3. ASSUME NEW t \in Upto(p) PROVE t \in Upto(u)
        BY <1>0, <3>1, <4>2, TogetherIsEquivalence DEF Class
      <4>4. ASSUME NEW t \in Upto(u), t # u PROVE t \in Upto(p)
        <5>1. t \in S /\ t.createdAt <= u.createdAt /\ t.createdAt # u.createdAt
          BY <4>4, NamedIs DEF Class
        <5>2. t.createdAt <= p.createdAt
          BY <1>0, <3>1, <5>1
        <5>3. Together(S, t, p)
          BY <1>0, <3>1, <4>2, <5>1, TogetherIsEquivalence DEF Class
        <5> QED BY <5>1, <5>2, <5>3 DEF Class
      <4> HIDE DEF Upto
      <4> QED BY <2>2, <4>1, <4>3, <4>4
    <3>5. CASE ~ Joins(S, u)
      <4>1. RunTo(S)[u] = {u}
        BY <2>1, <2>4, <3>3, <3>5 DEF RunBody
      <4>2. ASSUME NEW t \in Upto(u) PROVE t = u
        <5>1. t \in S /\ Together(S, t, u) /\ t.createdAt <= u.createdAt
          BY DEF Class
        <5>2. ~ (t.createdAt < u.createdAt)
          BY <1>0, <3>5, <5>1 DEF Together, FromTo
        <5>3. t.createdAt = u.createdAt
          BY <1>0, <5>1, <5>2
        <5> QED BY <5>1, <5>3, NamedIs
      <4> HIDE DEF Upto
      <4> QED BY <2>2, <4>1, <4>2
    <3> QED BY <3>4, <3>5
  <2> QED BY <2>3, <2>4
<1>2. S \subseteq X
  <2>1. \A u \in S : (\A t \in S : t.createdAt < u.createdAt => t \in X) => u \in X
    BY <1>1
  <2> HIDE DEF X
  <2> QED BY <1>0, <2>1, SegmentInduction
<1> QED BY <1>2

\* The runs are the classes.
LEMMA GroupsAreClasses ==
  ASSUME NEW S, Named(S)
  PROVE  GroupSegments(S) = {Class(S, z) : z \in S}
<1> DEFINE M == {t \in S : \A u \in S : t \in RunTo(S)[u] => u = t}
<1>0. S \in SUBSET Segments /\ IsFiniteSet(S) /\ \A u \in S : u.createdAt \in Nat
  BY NamedIs DEF Named
<1>1. GroupSegments(S) = {RunTo(S)[s] : s \in M}
  BY GroupsAreRuns
<1>2. \A s \in S : RunTo(S)[s] = {t \in Class(S, s) : t.createdAt <= s.createdAt}
  BY RunToIsClass
<1>3. ASSUME NEW s \in M PROVE RunTo(S)[s] = Class(S, s)
  <2>1. ASSUME NEW t \in Class(S, s) PROVE t.createdAt <= s.createdAt
    <3>1. SUFFICES ASSUME ~ (t.createdAt <= s.createdAt) PROVE FALSE
      OBVIOUS
    <3>2. t \in S /\ Together(S, s, t) /\ s.createdAt <= t.createdAt
      BY <1>0, <3>1, TogetherIsEquivalence DEF Class
    <3>3. s \in RunTo(S)[t]
      BY <1>2, <3>2 DEF Class
    <3>4. t = s
      BY <3>2, <3>3
    <3> QED BY <1>0, <3>1, <3>4
  <2> QED BY <1>2, <2>1
<1>4. ASSUME NEW z \in S PROVE \E s \in M : Class(S, z) = RunTo(S)[s]
  <2> DEFINE s == Latest(Class(S, z))
  <2>1. Class(S, z) \in SUBSET Segments /\ IsFiniteSet(Class(S, z)) /\ z \in Class(S, z)
    <3>1. Class(S, z) \subseteq S
      BY DEF Class
    <3>2. z \in Class(S, z)
      BY TogetherIsEquivalence DEF Class
    <3> QED BY <1>0, <3>1, <3>2, FS_Subset
  <2>2. s \in Class(S, z) /\ \A t \in Class(S, z) : t.createdAt <= s.createdAt
    BY <2>1, LatestOfFinite
  <2> HIDE DEF s
  <2>3. s \in S /\ Class(S, s) = Class(S, z)
    BY <2>2, TogetherIsEquivalence DEF Class
  <2>4. RunTo(S)[s] = Class(S, z)
    BY <1>2, <2>2, <2>3
  <2>5. ASSUME NEW u \in S, s \in RunTo(S)[u] PROVE u = s
    <3>1. Together(S, u, s) /\ s.createdAt <= u.createdAt
      BY <1>2, <2>3, <2>5, TogetherIsEquivalence DEF Class
    <3>2. u \in Class(S, s)
      BY <3>1 DEF Class
    <3>3. u.createdAt = s.createdAt
      BY <1>0, <2>2, <2>3, <3>1, <3>2
    <3> QED BY <2>3, <3>3, NamedIs
  <2> QED BY <2>3, <2>4, <2>5
<1> HIDE DEF M
<1>5. M \subseteq S
  BY DEF M
<1> QED BY <1>1, <1>3, <1>4, <1>5

\* The runs are a partition of the segments.
LEMMA RunsPartition ==
  ASSUME NEW S, Named(S)
  PROVE  /\ \A g \in GroupSegments(S) : g \subseteq S /\ g # {}
         /\ \A s \in S : \E g \in GroupSegments(S) : s \in g
         /\ \A g, h \in GroupSegments(S) : g \cap h # {} => g = h
<1>1. GroupSegments(S) = {Class(S, z) : z \in S}
  BY GroupsAreClasses
<1>2. \A z \in S : z \in Class(S, z) /\ Class(S, z) \subseteq S
  BY TogetherIsEquivalence DEF Class
<1>3. ASSUME NEW y \in S, NEW z \in S, NEW s \in Class(S, y) \cap Class(S, z)
      PROVE  Class(S, y) = Class(S, z)
  BY TogetherIsEquivalence DEF Class
<1> QED BY <1>1, <1>2, <1>3

(***************************************************************************)
(* The window of a day is exact.                                           *)
(*                                                                         *)
(* When each session was last heard of before the next was created, a      *)
(* segment continues a run by what the segment before it says alone.  What *)
(* a day has read when its loop ends is an interval of the segments, so    *)
(* its runs are those of all segments, cut at the ends of the interval;    *)
(* and no run of the day is.                                               *)
(***************************************************************************)
Ordered(S) ==
  /\ Named(S)
  /\ \A s \in S : Sound(s)
  /\ \A a, b \in S : a.createdAt < b.createdAt => a.lastRelevantAt <= b.createdAt

\* The segment s continues the run that p is the last segment of.
Joined(p, s) ==
  /\ ~p.explicitUserEnd
  /\ \/ s.createdAt - p.lastRelevantAt <= NormalGap
     \/ p.fullReconnect /\ s.createdAt - p.lastRelevantAt <= FullGap

LEMMA OrderedIs ==
  ASSUME NEW S, Ordered(S), NEW a \in S, NEW b \in S
  PROVE  /\ a.createdAt \in Nat /\ a.lastRelevantAt \in Nat /\ a.createdAt <= a.lastRelevantAt
         /\ a.createdAt = b.createdAt => a = b
         /\ a.createdAt < b.createdAt =>
              a.lastRelevantAt <= b.createdAt /\ a.lastRelevantAt <= b.lastRelevantAt
<1>1. a \in Segments /\ b \in Segments /\ Sound(a) /\ Sound(b)
  BY DEF Ordered, Named
<1>2. /\ a.createdAt \in Nat /\ a.lastRelevantAt \in Nat /\ a.createdAt <= a.lastRelevantAt
      /\ b.createdAt \in Nat /\ b.lastRelevantAt \in Nat /\ b.createdAt <= b.lastRelevantAt
  BY <1>1 DEF Sound, Segments
<1> QED BY <1>2 DEF Ordered, Named

LEMMA LatestIs ==
  ASSUME NEW S, Ordered(S), NEW g \in SUBSET S, NEW s \in g,
         \A t \in g : t.createdAt <= s.createdAt
  PROVE  Latest(g) = s
<1>1. Latest(g) \in g /\ \A t \in g : t.createdAt <= Latest(g).createdAt
  BY DEF Latest
<1>2. Latest(g).createdAt <= s.createdAt /\ s.createdAt <= Latest(g).createdAt
  BY <1>1
<1>3. Latest(g).createdAt = s.createdAt
  BY <1>1, <1>2, OrderedIs
<1> QED BY <1>1, <1>3, OrderedIs

\* The latest segment of a run is the last that was heard of.
LEMMA RelevantIsLatest ==
  ASSUME NEW S, Ordered(S), NEW g \in SUBSET S, NEW s \in g,
         \A t \in g : t.createdAt <= s.createdAt
  PROVE  GroupRelevantAt(g) = s.lastRelevantAt
<1>1. g \in SUBSET Segments /\ IsFiniteSet(g) /\ g # {}
  BY FS_Subset DEF Ordered, Named
<1>2. /\ GroupRelevantAt(g) \in Nat
      /\ \E t \in g : t.lastRelevantAt = GroupRelevantAt(g)
      /\ \A t \in g : t.lastRelevantAt <= GroupRelevantAt(g)
  BY <1>1, RelevantIs
<1>3. ASSUME NEW t \in g PROVE t.lastRelevantAt <= s.lastRelevantAt
  BY OrderedIs
<1>4. PICK t \in g : t.lastRelevantAt = GroupRelevantAt(g)
  BY <1>2
<1> QED BY <1>2, <1>3, <1>4, OrderedIs

LEMMA ContinuesIs ==
  ASSUME NEW S, Ordered(S), NEW g \in SUBSET S, NEW p \in g,
         \A t \in g : t.createdAt <= p.createdAt, NEW s
  PROVE  Continues(g, s) <=> Joined(p, s)
BY LatestIs, RelevantIsLatest DEF Continues, Joined

\* A segment joins the run before it by what the segment before it says.
LEMMA JoinsIs ==
  ASSUME NEW S, Ordered(S), NEW u \in S, Earlier(S, u) # {}
  PROVE  Joins(S, u) <=> Joined(Before(S, u), u)
<1> DEFINE p == Before(S, u)
<1>1. S \in SUBSET Segments /\ IsFiniteSet(S)
  BY DEF Ordered, Named
<1>2. p \in S
  BY <1>1, BeforeIs
<1> HIDE DEF p
<1>3. /\ p \in RunTo(S)[p] /\ RunTo(S)[p] \in SUBSET S
      /\ \A t \in RunTo(S)[p] : t.createdAt <= p.createdAt
  BY <1>1, <1>2, RunToEnds, OrderedIs
<1>4. Continues(RunTo(S)[p], u) <=> Joined(p, u)
  BY <1>3, ContinuesIs
<1> QED BY <1>4 DEF Joins, p

\* What has been read when the cursor is at c: the segments created before it and
\* last heard of no earlier than FullGap before the day.
LEMMA WindowIs ==
  ASSUME NEW S, Ordered(S), NEW d \in Int, NEW c \in Cursors(d), NEW x \in S
  PROVE  x \in SeenBefore(S, d, c) <=>
           DayStart(d) - FullGap <= x.lastRelevantAt /\ x.createdAt < c
<1>1. /\ x.createdAt \in Nat /\ x.lastRelevantAt \in Nat /\ x.createdAt <= x.lastRelevantAt
      /\ IsSuccessful(x) => /\ x.successAt \in Nat
                            /\ x.createdAt <= x.successAt /\ x.successAt <= x.lastRelevantAt
  BY DEF Ordered, Named, Sound, Segments
<1>2. /\ DayStart(d) \in Int /\ DayEnd(d) \in Int /\ DayStart(d) < DayEnd(d)
      /\ c \in Int /\ DayEnd(d) <= c /\ FullGap \in Nat
  <2>1. DayEnd(d) = DayStart(d) + DayLength /\ DayStart(d) \in Int /\ DayEnd(d) \in Int
    BY DayBounds
  <2>2. c \in Int /\ DayEnd(d) <= c
    BY <2>1, GroupingAssumption DEF Cursors, LastRead
  <2> QED BY <2>1, <2>2, GroupingAssumption
<1>3. /\ DayOf(x.createdAt) = d <=> DayStart(d) <= x.createdAt /\ x.createdAt < DayEnd(d)
      /\ DayOf(x.createdAt) < d <=> x.createdAt < DayStart(d)
      /\ d <= DayOf(x.lastRelevantAt) <=> DayStart(d) <= x.lastRelevantAt
  BY <1>1, DayIs
<1>4. IsSuccessful(x) =>
        (DayOf(x.successAt) = d <=> DayStart(d) <= x.successAt /\ x.successAt < DayEnd(d))
  BY <1>1, DayIs
<1>5. InWindow(x, d) <=> DayStart(d) - FullGap <= x.lastRelevantAt /\ x.createdAt < DayEnd(d)
  BY <1>1, <1>2, <1>3, <1>4 DEF InWindow
<1> QED BY <1>1, <1>2, <1>5 DEF SeenBefore

\* A subset of ordered segments is ordered.
LEMMA OrderedSubset ==
  ASSUME NEW S, Ordered(S), NEW R \in SUBSET S
  PROVE  Ordered(R)
BY FS_Subset DEF Ordered, Named

\* The segment before one that has been read is the one before it of all.
LEMMA BeforeInWindow ==
  ASSUME NEW S, Ordered(S), NEW d \in Int, NEW c \in Cursors(d),
         NEW a \in SeenBefore(S, d, c), NEW u \in S,
         a.createdAt < u.createdAt, u.createdAt < c
  PROVE  /\ u \in SeenBefore(S, d, c)
         /\ Before(SeenBefore(S, d, c), u) = Before(S, u)
<1> DEFINE R == SeenBefore(S, d, c)
           p == Before(S, u)
<1>0. /\ S \in SUBSET Segments /\ IsFiniteSet(S) /\ R \in SUBSET S
      /\ \A x \in S : x.createdAt \in Nat /\ x.lastRelevantAt \in Nat
      /\ c \in Int /\ DayStart(d) - FullGap \in Int
  <2>1. c \in Int
    BY DayBounds, GroupingAssumption DEF Cursors, LastRead
  <2> QED BY <2>1, OrderedIs, DayBounds, GroupingAssumption DEF Ordered, Named, SeenBefore
<1>1. a \in S /\ DayStart(d) - FullGap <= a.lastRelevantAt
  BY <1>0, WindowIs
<1>2. \A x \in S : a.createdAt <= x.createdAt /\ x.createdAt < c => x \in R
  <2>1. ASSUME NEW x \in S, a.createdAt <= x.createdAt, x.createdAt < c PROVE x \in R
    <3>1. a.lastRelevantAt <= x.lastRelevantAt
      <4>1. CASE a.createdAt = x.createdAt
        BY <1>0, <1>1, <4>1, OrderedIs
      <4>2. CASE a.createdAt # x.createdAt
        BY <1>0, <1>1, <2>1, <4>2, OrderedIs
      <4> QED BY <4>1, <4>2
    <3>2. DayStart(d) - FullGap <= x.lastRelevantAt
      BY <1>0, <1>1, <3>1
    <3> QED BY <2>1, <3>2, WindowIs
  <2> QED BY <2>1
<1>3. u \in R
  BY <1>0, <1>1, <1>2
<1>4. /\ p \in S /\ p.createdAt < u.createdAt
      /\ \A t \in S : t.createdAt < u.createdAt => t.createdAt <= p.createdAt
  BY <1>0, <1>1, BeforeIs DEF Earlier
<1>5. p \in R
  BY <1>0, <1>1, <1>2, <1>4
<1>6. Latest(Earlier(R, u)) = p
  <2>1. p \in Earlier(R, u) /\ Earlier(R, u) \in SUBSET S
    BY <1>0, <1>4, <1>5 DEF Earlier
  <2>2. \A t \in Earlier(R, u) : t.createdAt <= p.createdAt
    BY <1>0, <1>4 DEF Earlier
  <2> HIDE DEF p, R
  <2> QED BY <2>1, <2>2, LatestIs
<1> QED BY <1>3, <1>6 DEF Before

\* The run of a segment in the window is its run of all, cut to the window.
LEMMA ClassInWindow ==
  ASSUME NEW S, Ordered(S), NEW d \in Int, NEW c \in Cursors(d),
         NEW z \in SeenBefore(S, d, c)
  PROVE  Class(SeenBefore(S, d, c), z) = Class(S, z) \cap SeenBefore(S, d, c)
<1> DEFINE R == SeenBefore(S, d, c)
<1>0. /\ R \in SUBSET S /\ c \in Int
      /\ \A x \in S : x.createdAt \in Nat
      /\ \A x \in R : x.createdAt < c
  <2>1. c \in Int
    BY DayBounds, GroupingAssumption DEF Cursors, LastRead
  <2>2. R \in SUBSET S
    BY DEF SeenBefore
  <2> QED BY <2>1, <2>2, OrderedIs, WindowIs
<1>1. ASSUME NEW a \in R, NEW b \in R, NEW u \in S, FromTo(a, u, b)
      PROVE  u \in R /\ (Joins(R, u) <=> Joins(S, u))
  <2>1. a.createdAt < u.createdAt /\ u.createdAt < c
    BY <1>0, <1>1 DEF FromTo
  <2>2. u \in R /\ Before(R, u) = Before(S, u)
    BY <2>1, BeforeInWindow
  <2> HIDE DEF R
  <2>3. Ordered(R)
    BY <1>0, OrderedSubset
  <2>4. Earlier(R, u) # {} /\ Earlier(S, u) # {}
    BY <1>0, <1>1, <2>1 DEF Earlier
  <2> QED BY <2>2, <2>3, <2>4, JoinsIs
<1>2. ASSUME NEW a \in R, NEW b \in R
      PROVE  Together(R, a, b) <=> Together(S, a, b)
  <2>1. ASSUME Together(S, a, b) PROVE Together(R, a, b)
    <3> HIDE DEF R
    <3> QED BY <1>0, <1>1, <2>1 DEF Together
  <2>2. ASSUME Together(R, a, b) PROVE Together(S, a, b)
    <3>1. ASSUME NEW u \in S, FromTo(a, u, b) \/ FromTo(b, u, a)
          PROVE  Joins(S, u)
      <4>1. u \in R /\ (Joins(R, u) <=> Joins(S, u))
        BY <1>1, <3>1
      <4> HIDE DEF R
      <4> QED BY <2>2, <3>1, <4>1 DEF Together
    <3> QED BY <3>1 DEF Together
  <2> QED BY <2>1, <2>2
<1> HIDE DEF R
<1>3. Class(R, z) = Class(S, z) \cap R
  BY <1>0, <1>2, z \in R DEF Class, R
<1> QED BY <1>3 DEF R

\* A run of the day that began within the window and ends within the 24 hours
\* after the day has been read to its end: the segment that would be missing
\* begins before the deadline the loop has waited for.
LEMMA RunRead ==
  ASSUME NEW S, Ordered(S), NEW d \in Int, NEW c \in Cursors(d), DeadlineAt(S, d, c) < c,
         NEW z \in SeenBefore(S, d, c),
         Class(S, z) \cap SeenBefore(S, d, c) \in RunsOf(SeenBefore(S, d, c), d),
         ~ BegunBefore(Class(S, z), d), ~ GoesBeyond(Class(S, z), d)
  PROVE  Class(S, z) \subseteq SeenBefore(S, d, c)
<1> DEFINE R == SeenBefore(S, d, c)
           g == Class(S, z)
           h == g \cap R
           A == DayStart(d) - FullGap
<1>0. /\ S \in SUBSET Segments /\ IsFiniteSet(S) /\ R \in SUBSET S /\ g \in SUBSET S
      /\ Named(S)
      /\ \A x \in S : x.createdAt \in Nat /\ x.lastRelevantAt \in Nat
      /\ c \in Int /\ A \in Int /\ LastRead(d) \in Int
      /\ z \in h
  <2>1. c \in Int /\ A \in Int /\ LastRead(d) \in Int
    BY DayBounds, GroupingAssumption DEF Cursors, LastRead
  <2>2. z \in S /\ z \in g
    BY TogetherIsEquivalence DEF Class, SeenBefore, Ordered
  <2> QED BY <2>1, <2>2, OrderedIs DEF Ordered, Named, SeenBefore, Class
<1>1. ASSUME NEW x \in g PROVE A <= x.lastRelevantAt
  <2>1. A <= z.lastRelevantAt /\ z \in g
    BY <1>0, WindowIs
  <2>2. ~ (x.lastRelevantAt < A)
    BY <2>1 DEF BegunBefore
  <2> QED BY <1>0, <2>2
<1>2. ASSUME NEW x \in g, x \notin R PROVE c <= x.createdAt
  BY <1>0, <1>1, <1>2, WindowIs
<1>3. SUFFICES ASSUME g \ R # {} PROVE FALSE
  OBVIOUS
<1> DEFINE x == CHOOSE x \in g \ R : \A y \in g \ R : x.createdAt <= y.createdAt
<1>4. x \in g \ R /\ \A y \in g \ R : x.createdAt <= y.createdAt
  <2> DEFINE C == {y.createdAt : y \in g \ R}
  <2>1. C \in SUBSET Nat /\ C # {}
    BY <1>0, <1>3
  <2>2. Min(C) \in C /\ \A n \in C : Min(C) <= n
    <3> HIDE DEF C
    <3> QED BY <2>1, MinOfNaturals
  <2>3. \E y \in g \ R : \A w \in g \ R : y.createdAt <= w.createdAt
    <3> HIDE DEF g, R
    <3> QED BY <2>2
  <2> QED BY <2>3
<1> HIDE DEF x
<1> DEFINE y == Latest(h)
<1>5. /\ y \in h /\ \A t \in h : t.createdAt <= y.createdAt
  <2>1. h \in SUBSET Segments /\ IsFiniteSet(h) /\ h # {}
    BY <1>0, FS_Subset
  <2> HIDE DEF h
  <2> QED BY <2>1, LatestOfFinite
<1> HIDE DEF y
<1>6. y.createdAt < c /\ c <= x.createdAt /\ y.createdAt < x.createdAt
  BY <1>0, <1>2, <1>4, <1>5, WindowIs
\* The segment before the first that is missing is the last that has been read.
<1>7. Before(S, x) = y
  <2> DEFINE p == Before(S, x)
  <2>1. /\ p \in S /\ p.createdAt < x.createdAt
        /\ \A t \in S : t.createdAt < x.createdAt => t.createdAt <= p.createdAt
    BY <1>0, <1>4, <1>5, <1>6, BeforeIs DEF Earlier
  <2>2. y.createdAt <= p.createdAt
    BY <1>0, <1>5, <1>6, <2>1
  <2> HIDE DEF p
  <2>3. Together(S, y, x)
    BY <1>0, <1>4, <1>5, TogetherIsEquivalence DEF Class
  <2>4. Together(S, y, p)
    BY <1>0, <1>4, <1>5, <2>1, <2>2, <2>3, TogetherBetween
  <2>5. p \in g
    BY <1>0, <1>5, <2>1, <2>4, TogetherIsEquivalence DEF Class
  <2>6. p \in R
    BY <1>0, <1>4, <2>1, <2>5
  <2>7. p.createdAt = y.createdAt
    BY <1>0, <1>5, <2>1, <2>2, <2>5, <2>6
  <2> QED BY <1>0, <1>5, <2>1, <2>7, OrderedIs DEF p
<1>8. Joined(y, x)
  <2>1. Together(S, y, x)
    BY <1>0, <1>4, <1>5, TogetherIsEquivalence DEF Class
  <2>2. x \in S /\ Joins(S, x) /\ Earlier(S, x) # {}
    BY <1>0, <1>4, <1>6, <2>1 DEF Together, FromTo, Joins
  <2> QED BY <1>7, <2>2, JoinsIs
<1>9. GroupRelevantAt(h) = y.lastRelevantAt
  BY <1>0, <1>5, RelevantIsLatest
<1> DEFINE deadline == SuccessorDeadline(R, d, c)
<1>10. /\ deadline \in Int
       /\ (IF y.fullReconnect THEN y.lastRelevantAt + FullGap
           ELSE y.lastRelevantAt + NormalGap) <= deadline
  <2>1. R \in SUBSET Segments /\ IsFiniteSet(R)
    BY <1>0, FS_Subset
  <2>2. ~ Latest(h).explicitUserEnd
    BY <1>8 DEF Joined, y
  <2>3. h \in RunsOf(R, d)
    OBVIOUS
  <2> HIDE DEF R, h
  <2> QED BY <1>0, <1>9, <2>1, <2>2, <2>3, DeadlineIsInstant DEF y
<1>11. x.createdAt <= deadline
  <2>1. /\ x.createdAt \in Nat /\ y.lastRelevantAt \in Nat
        /\ NormalGap \in Nat /\ FullGap \in Nat /\ NormalGap <= FullGap
    BY <1>0, <1>4, <1>5, GroupingAssumption
  <2> HIDE DEF deadline
  <2> QED BY <1>8, <1>10, <2>1 DEF Joined
<1>12. x.createdAt <= LastRead(d)
  <2>1. ~ (x.createdAt > LastRead(d))
    BY <1>4 DEF GoesBeyond, LastRead
  <2> QED BY <1>0, <1>4, <2>1
<1>13. x.createdAt <= DeadlineAt(S, d, c)
  <2>1. DeadlineAt(S, d, c) = Min({deadline, LastRead(d)})
    BY DEF DeadlineAt
  <2> HIDE DEF deadline
  <2> QED BY <1>0, <1>10, <1>11, <1>12, <2>1, MinOfTwo
<1>14. DeadlineAt(S, d, c) \in Int
  BY <1>0, CursorsAre
<1> QED BY <1>0, <1>4, <1>6, <1>13, <1>14

\* The runs with a success on the day, of any segments.
Through(S, d) ==
  {g \in GroupSegments(S) : \E s \in Successful(g) : DayOf(s.successAt) = d}

LEMMA FirstSuccess ==
  ASSUME NEW g \in SUBSET Segments, Successful(g) # {}
  PROVE  \E m \in Successful(g) :
            /\ m.successAt \in Nat /\ SuccessDay(g) = DayOf(m.successAt)
            /\ \A s \in Successful(g) : s.successAt \in Nat /\ m.successAt <= s.successAt
<1> DEFINE C == {s.successAt : s \in Successful(g)}
<1>1. C \in SUBSET Nat /\ C # {}
  BY DEF Successful, IsSuccessful, Segments, Never
<1>2. Min(C) \in C /\ \A n \in C : Min(C) <= n
  <2> HIDE DEF C
  <2> QED BY <1>1, MinOfNaturals
<1>3. SuccessDay(g) = DayOf(Min(C))
  BY DEF SuccessDay
<1> QED BY <1>1, <1>2, <1>3

\* The runs that count on the day are the same in what has been read.
LEMMA RunsInWindow ==
  ASSUME NEW S, Ordered(S), NEW d \in Int, NEW c \in Cursors(d), DeadlineAt(S, d, c) < c,
         \A g \in Through(S, d) : ~ BegunBefore(g, d) /\ ~ GoesBeyond(g, d)
  PROVE  RunsOf(SeenBefore(S, d, c), d) = RunsOf(S, d)
<1> DEFINE R == SeenBefore(S, d, c)
<1>0. /\ R \in SUBSET S /\ Named(R) /\ Named(S) /\ S \in SUBSET Segments /\ IsFiniteSet(S)
      /\ R \in SUBSET Segments /\ IsFiniteSet(R)
  <2>1. R \in SUBSET S
    BY DEF SeenBefore
  <2>2. Ordered(R)
    <3> HIDE DEF R
    <3> QED BY <2>1, OrderedSubset
  <2> QED BY <2>1, <2>2 DEF Ordered, Named
<1>1. /\ GroupSegments(S) = {Class(S, z) : z \in S}
      /\ GroupSegments(R) = {Class(S, z) \cap R : z \in R}
  <2>1. GroupSegments(R) = {Class(R, z) : z \in R}
    <3> HIDE DEF R
    <3> QED BY <1>0, GroupsAreClasses
  <2>2. \A z \in R : Class(R, z) = Class(S, z) \cap R
    BY ClassInWindow
  <2> HIDE DEF R
  <2> QED BY <1>0, <2>1, <2>2, GroupsAreClasses
\* A run of the day among what has been read is a whole run.
<1>2. ASSUME NEW z \in R, Class(S, z) \cap R \in RunsOf(R, d)
      PROVE  Class(S, z) \cap R = Class(S, z)
  <2>1. \E s \in Class(S, z) \cap R : IsSuccessful(s) /\ DayOf(s.successAt) = d
    BY <1>0, <1>2, RunsOfIs
  <2>2. Class(S, z) \in Through(S, d)
    BY <1>0, <1>1, <2>1 DEF Through, Successful
  <2>3. Class(S, z) \subseteq R
    BY <1>2, <2>2, RunRead
  <2> QED BY <2>3
<1>3. ASSUME NEW h \in RunsOf(R, d) PROVE h \in RunsOf(S, d)
  <2>1. h \in GroupSegments(R) /\ Successful(h) # {} /\ SuccessDay(h) = d
    BY DEF RunsOf
  <2> HIDE DEF R
  <2>2. PICK z \in R : h = Class(S, z) \cap R
    BY <1>1, <2>1
  <2>3. h = Class(S, z)
    BY <1>2, <2>2
  <2> QED BY <1>0, <1>1, <2>1, <2>3 DEF RunsOf
<1>4. ASSUME NEW g \in RunsOf(S, d) PROVE g \in RunsOf(R, d)
  <2>1. g \in GroupSegments(S) /\ Successful(g) # {} /\ SuccessDay(g) = d
    BY DEF RunsOf
  <2>2. g \in SUBSET S /\ g \in SUBSET Segments
    BY <1>0, <2>1, GroupsOfFinite
  <2>3. PICK m \in Successful(g) :
          /\ m.successAt \in Nat /\ DayOf(m.successAt) = d
          /\ \A s \in Successful(g) : s.successAt \in Nat /\ m.successAt <= s.successAt
    BY <2>1, <2>2, FirstSuccess
  <2>4. m \in g /\ m \in S /\ m \in R /\ IsSuccessful(m)
    BY <2>2, <2>3 DEF Successful, SeenBefore, InWindow
  <2>5. g = Class(S, m)
    <3>1. PICK z \in S : g = Class(S, z)
      BY <1>1, <2>1
    <3> QED BY <1>0, <2>4, <3>1, TogetherIsEquivalence DEF Class
  <2> DEFINE h == g \cap R
  <2>6. h \in GroupSegments(R) /\ h \in SUBSET Segments
    <3> HIDE DEF R
    <3> QED BY <1>1, <2>2, <2>4, <2>5
  <2>7. m \in Successful(h) /\ Successful(h) \subseteq Successful(g)
    BY <2>4 DEF Successful
  <2> HIDE DEF h
  <2>8. SuccessDay(h) = d
    <3>1. PICK n \in Successful(h) :
            /\ n.successAt \in Nat /\ SuccessDay(h) = DayOf(n.successAt)
            /\ \A s \in Successful(h) : s.successAt \in Nat /\ n.successAt <= s.successAt
      BY <2>6, <2>7, FirstSuccess
    <3>2. n.successAt = m.successAt
      BY <2>3, <2>7, <3>1
    <3> QED BY <2>3, <3>1, <3>2
  <2>9. h \in RunsOf(R, d)
    BY <2>6, <2>7, <2>8 DEF RunsOf
  <2>10. h = g
    BY <1>2, <2>4, <2>5, <2>9 DEF h
  <2> QED BY <2>9, <2>10
<1> HIDE DEF R
<1>5. RunsOf(R, d) = RunsOf(S, d)
  BY <1>3, <1>4
<1> QED BY <1>5 DEF R

\* A day computed from its window counts what all segments give it.
LEMMA WindowSummary ==
  ASSUME NEW S, Ordered(S), NEW d \in Int,
         \A g \in Through(S, d) : ~ BegunBefore(g, d) /\ ~ GoesBeyond(g, d)
  PROVE  Summary(QuerySegmentsForDay(S, d), d) = Summary(S, d)
<1>0. S \in SUBSET Segments /\ IsFiniteSet(S)
  BY DEF Ordered, Named
<1>1. PICK c \in Cursors(d) : /\ QuerySegmentsForDay(S, d) = SeenBefore(S, d, c)
                              /\ DeadlineAt(S, d, c) < c
  BY <1>0, QueryEnds
<1>2. RunsOf(SeenBefore(S, d, c), d) = RunsOf(S, d)
  BY <1>1, RunsInWindow
<1>3. {s \in SeenBefore(S, d, c) : DayOf(s.createdAt) = d} = {s \in S : DayOf(s.createdAt) = d}
  BY DEF SeenBefore, InWindow
<1> QED BY <1>1, <1>2, <1>3 DEF Summary

LEMMA OrderlyStored == TypeInv /\ Orderly => Ordered(Stored)
<1> SUFFICES ASSUME TypeInv, Orderly PROVE Ordered(Stored)
  OBVIOUS
<1>1. /\ Stored \in SUBSET Segments /\ IsFiniteSet(Stored)
      /\ \A x \in Stored : Sound(x) /\ segment[x.createdAt] = x
  BY StoredIs
<1>2. \A a, b \in Stored : a.createdAt = b.createdAt => a = b
  BY <1>1
<1> QED BY <1>1, <1>2 DEF Ordered, Named, Orderly

LEMMA WindowsExact == TypeInv => WindowExact
<1> SUFFICES ASSUME TypeInv, Orderly, NEW d \in Calendar,
                    \A g \in RunsThrough(d) : ~ BegunBefore(g, d) /\ ~ GoesBeyond(g, d)
             PROVE  Recomputed(d) = Summary(Stored, d)
  BY DEF WindowExact
<1>1. \A g \in Through(Stored, d) : ~ BegunBefore(g, d) /\ ~ GoesBeyond(g, d)
  BY DEF Through, RunsThrough
<1> QED BY <1>1, CalendarIs, OrderlyStored, WindowSummary DEF Recomputed

\* A day computed from its window has the counts that all segments of a pairing
\* give it, however many there are, of any number of sessions that do not overlap.
THEOREM WindowAlwaysExact == DailySpec => []WindowExact
BY InitTypeInv, NextTypeInv, WindowsExact, PTL DEF DailySpec

\* Every segment that groupSegments is given is in one run and no other, so that
\* no evidence is lost or counted twice, whether or not the sessions overlap.
InOneRun(segments) ==
  /\ UNION GroupSegments(segments) = segments
  /\ \A s \in segments : \E g \in GroupSegments(segments) :
       /\ s \in g
       /\ \A h \in GroupSegments(segments) : s \in h => h = g

LEMMA StoredIsNamed ==
  ASSUME TypeInv, NEW S \in SUBSET Stored
  PROVE  Named(S)
<1>1. /\ Stored \in SUBSET Segments /\ IsFiniteSet(Stored)
      /\ \A x \in Stored : segment[x.createdAt] = x
  BY StoredIs
<1>2. IsFiniteSet(S)
  BY <1>1, FS_Subset
<1> QED BY <1>1, <1>2 DEF Named

\* All the segments of a pairing, and the ones that the window of any day reads,
\* fall into runs: each is in one of them.
THEOREM EachSegmentInOneRun ==
  DailySpec => [](/\ InOneRun(Stored)
                  /\ \A d \in Calendar : InOneRun(QuerySegmentsForDay(Stored, d)))
<1>1. ASSUME TypeInv, NEW S \in SUBSET Stored PROVE InOneRun(S)
  BY <1>1, StoredIsNamed, RunsPartition DEF InOneRun
<1>2. ASSUME TypeInv, NEW d \in Calendar PROVE QuerySegmentsForDay(Stored, d) \subseteq Stored
  <2>1. /\ Stored \in SUBSET Segments /\ IsFiniteSet(Stored) /\ d \in Int
    BY <1>2, StoredIs, CalendarIs
  <2>2. PICK c \in Cursors(d) : QuerySegmentsForDay(Stored, d) = SeenBefore(Stored, d, c)
    BY <2>1, QueryEnds
  <2> QED BY <2>2 DEF SeenBefore
<1>3. TypeInv => /\ InOneRun(Stored)
                 /\ \A d \in Calendar : InOneRun(QuerySegmentsForDay(Stored, d))
  BY <1>1, <1>2
<1> QED BY <1>3, InitTypeInv, NextTypeInv, PTL DEF DailySpec

\* What the operator reads: while the sessions do not overlap, a day without a
\* marker shows the counts that all segments of the pairing give it.  The exceptions
\* are the days with a segment still heard of after they were settled that no marker
\* of theirs covers, and with a run that began before the window or outlasts it.
SettledDayTrue ==
  Orderly => \A d \in Calendar \ dirty :
    \/ summary[d] = Summary(Stored, d)
    \/ \E s \in QuerySegmentsForDay(Stored, d) :
         s.createdAt \notin DayStart(d)..DayEnd(d) + FullGap /\ Outlives(s, d)
    \/ \E g \in RunsThrough(d) : BegunBefore(g, d) \/ GoesBeyond(g, d)

THEOREM SettledDaysTrue == DailySpec => []SettledDayTrue
<1>1. SettledDayCurrent /\ WindowExact => SettledDayTrue
  BY DEF SettledDayCurrent, WindowExact, SettledDayTrue
<1> QED BY <1>1, SettledDaysCurrent, WindowAlwaysExact, PTL

(***************************************************************************)
(* The lease of a day.                                                     *)
(***************************************************************************)
Agg == "aggregation"
Reb == "rebuild"

\* Nothing runs past its timeout, and a run at work on a day knows its lease.
RunsInTime ==
  \A r \in Runs :
    /\ run[r].pc # "idle" => run[r].now <= clock /\ clock <= run[r].now + Timeout
    /\ run[r].pc = "holding" => run[r].day \in Days /\ run[r].leaseId \in LeaseIds

OwnIds == run[Agg].leaseId = run[Reb].leaseId => run[Agg].leaseId = NoLease

\* The retention job and the aggregation keep clear of each other.
CleanupAlone ==
  /\ cleanup.pc = "deleting" => run[Agg].pc = "idle"
  /\ cleanupEnd <= clock

Mine(r, d) ==
  /\ lease[d].leaseId = run[r].leaseId
  /\ lease[d].leaseExpiresAt = run[r].now + DayLeaseMs

\* A run at work on a day owns its lease document.  The one exception is a
\* rebuild that lost it to the retention job: it started before that job ended,
\* so it is dead by the time the aggregation may start.
HolderLeased ==
  \A d \in Days :
    /\ Holds(Agg, d) => Mine(Agg, d)
    /\ Holds(Reb, d) => \/ Mine(Reb, d)
                        \/ run[Agg].pc = "idle" /\ run[Reb].now <= cleanupEnd

\* A lease is there only because its owner is at work, or because a run died on the
\* day; then it is no longer than one that was taken at that moment.
LeaseAccounted ==
  \A d \in Days :
    /\ died[d] <= clock
    /\ \/ lease[d] = Absent
       \/ \E q \in Runs : Holds(q, d) /\ Mine(q, d)
       \/ died[d] # NoDeath /\ lease[d].leaseExpiresAt <= died[d] + DayLeaseMs

IInv == /\ TypeOK /\ RunsInTime /\ OwnIds /\ CleanupAlone /\ HolderLeased
        /\ LeaseAccounted

USE DEF Runs, Agg, Reb

LEMMA InitIInv == Init => IInv
<1> SUFFICES ASSUME Init PROVE IInv
  OBVIOUS
<1> USE DayLeaseAssumption DEF Init, Idle, Absent
<1>1. TypeOK
  BY DEF TypeOK, Leases, Invocations, Cleanups
<1>2. RunsInTime /\ OwnIds /\ CleanupAlone
  BY DEF RunsInTime, OwnIds, CleanupAlone
<1>3. HolderLeased
  BY DEF HolderLeased, Holds
<1>4. LeaseAccounted
  BY DEF LeaseAccounted, NoDeath
<1> QED
  BY <1>1, <1>2, <1>3, <1>4 DEF IInv

\* No two runs at work on one day: both would own its one lease document.
LEMMA Exclusion == IInv => MutualExclusion
  BY DayLeaseAssumption
  DEF IInv, MutualExclusion, HolderLeased, Mine, Holds, OwnIds, RunsInTime

LEMMA TickStep ==
  ASSUME IInv, Tick PROVE IInv'
<1> USE DayLeaseAssumption DEF IInv, Tick
<1>1. TypeOK'
  BY DEF TypeOK
<1>2. RunsInTime'
  <2> SUFFICES ASSUME NEW r \in Runs, run[r].pc # "idle"
               PROVE  run[r].now <= clock' /\ clock' <= run[r].now + Timeout
    BY DEF RunsInTime
  <2> QED
    BY DEF RunsInTime, TypeOK, Invocations
<1>3. OwnIds' /\ HolderLeased'
  BY DEF OwnIds, HolderLeased, Mine, Holds
<1>4. CleanupAlone'
  BY DEF CleanupAlone, TypeOK
<1>5. LeaseAccounted'
  BY DEF LeaseAccounted, TypeOK, Holds, Mine, NoDeath
<1> QED
  BY <1>1, <1>2, <1>3, <1>4, <1>5

\* A lease that a step leaves alone stays accounted for while its owner stays.
LEMMA Accounted ==
  ASSUME IInv, NEW d \in Days, lease'[d] = lease[d], died'[d] = died[d], clock' = clock,
         \A q \in Runs : Holds(q, d) /\ Mine(q, d) => run'[q] = run[q]
  PROVE  /\ died'[d] <= clock'
         /\ \/ lease'[d] = Absent
            \/ \E q \in Runs : Holds(q, d)' /\ Mine(q, d)'
            \/ died'[d] # NoDeath /\ lease'[d].leaseExpiresAt <= died'[d] + DayLeaseMs
  BY DEF IInv, LeaseAccounted, Holds, Mine

\* The aggregation starts only when a rebuild that lost its lease is dead.
LEMMA StartStep ==
  ASSUME IInv, NEW r \in Runs, Start(r) PROVE IInv'
<1> USE DayLeaseAssumption DEF IInv, Start
<1>1. /\ run' = [run EXCEPT ![r] = [pc |-> "running", now |-> clock,
                                    day |-> NoDay, leaseId |-> NoLease]]
      /\ clock \in Nat
  BY DEF Between, TypeOK
<1>2. TypeOK'
  BY <1>1 DEF TypeOK, Invocations
<1>3. RunsInTime'
  BY <1>1 DEF RunsInTime, TypeOK
<1>4. OwnIds'
  BY <1>1 DEF OwnIds, TypeOK
<1>5. CleanupAlone'
  BY <1>1 DEF CleanupAlone, TypeOK, MayStart
<1>7. LeaseAccounted'
  <2>1. \A d \in Days, q \in Runs : Holds(q, d) => run'[q] = run[q]
    BY <1>1 DEF Holds, TypeOK
  <2> QED
    BY <2>1, Accounted DEF LeaseAccounted
<1>6. HolderLeased'
  <2> SUFFICES ASSUME NEW d \in Days
               PROVE  /\ Holds(Agg, d)' => Mine(Agg, d)'
                      /\ Holds(Reb, d)' =>
                           \/ Mine(Reb, d)'
                           \/ run'[Agg].pc = "idle" /\ run'[Reb].now <= cleanupEnd'
    BY DEF HolderLeased
  <2>1. CASE r = Reb
    BY <1>1, <2>1 DEF HolderLeased, Holds, Mine, TypeOK
  <2>2. CASE r = Agg
    <3>1. Holds(Reb, d) => ~ (run[Reb].now <= cleanupEnd)
      BY <2>2 DEF MayStart, RunsInTime, Holds, TypeOK, Invocations
    <3> QED
      BY <1>1, <2>2, <3>1 DEF HolderLeased, Holds, Mine, TypeOK
  <2> QED
    BY <2>1, <2>2
<1> QED
  BY <1>2, <1>3, <1>4, <1>5, <1>6, <1>7

\* A live holder's lease has not expired at the start of the other run, since
\* Timeout < DayLeaseMs: a granted lease was nobody's.
LEMMA GrantedWasFree ==
  ASSUME IInv, NEW r \in Runs, NEW d \in Days, NEW id \in LeaseIds, Acquire(r, d, id)
  PROVE  \A q \in Runs : ~ Holds(q, d)
<1> SUFFICES ASSUME NEW q \in Runs, Holds(q, d) PROVE FALSE
  OBVIOUS
<1> USE DayLeaseAssumption DEF IInv
<1>1. run[r].pc = "running" /\ q # r
  BY DEF Acquire, Holds
<1>2. Mine(q, d)
  BY <1>1 DEF HolderLeased, Holds
<1>3. run[r].now <= clock /\ clock <= run[q].now + Timeout
  BY <1>1 DEF RunsInTime, Holds
<1>4. run[q].now \in Nat /\ run[r].now \in Nat /\ clock \in Nat
  BY DEF TypeOK, Invocations
<1>5. lease[d].leaseExpiresAt > run[r].now
  BY <1>2, <1>3, <1>4 DEF Mine
<1> QED
  BY <1>5 DEF Acquire, Refused

LEMMA AcquireStep ==
  ASSUME IInv, NEW r \in Runs, NEW d \in Days, NEW id \in LeaseIds, Acquire(r, d, id)
  PROVE  IInv'
<1> USE DayLeaseAssumption DEF IInv
<1>1. /\ run' = [run EXCEPT ![r] = [pc |-> "holding", now |-> run[r].now,
                                    day |-> d, leaseId |-> id]]
      /\ lease' = [lease EXCEPT ![d] = [leaseId |-> id,
                                        leaseExpiresAt |-> run[r].now + DayLeaseMs]]
      /\ clock' = clock /\ cleanup' = cleanup /\ cleanupEnd' = cleanupEnd
      /\ died' = died
      /\ run[r].pc = "running"
      /\ run[r].now \in Nat
      /\ run[r].now <= clock
  BY DEF Acquire, TypeOK, Invocations, RunsInTime
<1>2. TypeOK'
  BY <1>1 DEF TypeOK, Leases, Invocations
<1>3. RunsInTime' /\ CleanupAlone'
  BY <1>1 DEF RunsInTime, CleanupAlone, TypeOK
<1>4. OwnIds'
  BY <1>1 DEF OwnIds, TypeOK, Acquire, Fresh
<1>5. LeaseAccounted'
  <2> SUFFICES ASSUME NEW e \in Days
               PROVE  /\ died'[e] <= clock'
                      /\ \/ lease'[e] = Absent
                         \/ \E q \in Runs : Holds(q, e)' /\ Mine(q, e)'
                         \/ /\ died'[e] # NoDeath
                            /\ lease'[e].leaseExpiresAt <= died'[e] + DayLeaseMs
    BY DEF LeaseAccounted
  <2>1. CASE e = d
    <3>1. Holds(r, d)' /\ Mine(r, d)'
      BY <1>1 DEF Holds, Mine, TypeOK
    <3> QED
      BY <1>1, <2>1, <3>1 DEF LeaseAccounted
  <2>2. CASE e # d
    <3>1. \A q \in Runs : Holds(q, e) => run'[q] = run[q]
      BY <1>1 DEF Holds, TypeOK
    <3>2. lease'[e] = lease[e]
      BY <1>1, <2>2 DEF TypeOK
    <3> QED
      BY <1>1, <3>1, <3>2, Accounted
  <2> QED
    BY <2>1, <2>2
<1>6. HolderLeased'
  <2> SUFFICES ASSUME NEW e \in Days
               PROVE  /\ Holds(Agg, e)' => Mine(Agg, e)'
                      /\ Holds(Reb, e)' =>
                           \/ Mine(Reb, e)'
                           \/ run'[Agg].pc = "idle" /\ run'[Reb].now <= cleanupEnd'
    BY DEF HolderLeased
  <2>1. CASE e = d
    <3>1. \A q \in Runs : Holds(q, d)' => q = r
      BY <1>1, GrantedWasFree DEF Holds, TypeOK
    <3>2. Mine(r, d)'
      BY <1>1 DEF Mine, TypeOK
    <3> QED
      BY <2>1, <3>1, <3>2
  <2>2. CASE e # d
    <3>1. \A q \in Runs : Holds(q, e)' => q # r
      BY <1>1, <2>2 DEF Holds, TypeOK
    <3>2. \A q \in Runs : q # r => run'[q] = run[q]
      BY <1>1 DEF TypeOK
    <3>3. lease'[e] = lease[e]
      BY <1>1, <2>2 DEF TypeOK
    <3>4. run'[Agg].pc = "idle" <=> run[Agg].pc = "idle"
      BY <1>1 DEF TypeOK
    <3> QED
      BY <1>1, <3>1, <3>2, <3>3, <3>4 DEF HolderLeased, Holds, Mine
  <2> QED
    BY <2>1, <2>2
<1> QED
  BY <1>2, <1>3, <1>4, <1>5, <1>6

\* A release touches the lease of no other run: nobody else is at work on the day.
LEMMA ReleaseStep ==
  ASSUME IInv, NEW r \in Runs, Release(r) PROVE IInv'
<1> USE DayLeaseAssumption DEF IInv
<1> DEFINE d == run[r].day
<1>1. /\ run' = [run EXCEPT ![r] = [pc |-> "running", now |-> run[r].now,
                                    day |-> NoDay, leaseId |-> NoLease]]
      /\ lease' = IF lease[d].leaseId = run[r].leaseId
                  THEN [lease EXCEPT ![d] = [leaseId |-> NoLease, leaseExpiresAt |-> 0]]
                  ELSE lease
      /\ clock' = clock /\ cleanup' = cleanup /\ cleanupEnd' = cleanupEnd
      /\ died' = died
      /\ run[r].pc = "holding"
      /\ run[r].now \in Nat
      /\ d \in Days
  BY DEF Release, Between, Absent, TypeOK, Invocations, RunsInTime
<1> HIDE DEF d
<1>2. TypeOK'
  BY <1>1 DEF TypeOK, Leases, Invocations
<1>3. RunsInTime' /\ CleanupAlone'
  BY <1>1 DEF RunsInTime, CleanupAlone, TypeOK
<1>4. OwnIds'
  BY <1>1 DEF OwnIds, TypeOK
<1>5. LeaseAccounted'
  <2> SUFFICES ASSUME NEW e \in Days
               PROVE  /\ died'[e] <= clock'
                      /\ \/ lease'[e] = Absent
                         \/ \E q \in Runs : Holds(q, e)' /\ Mine(q, e)'
                         \/ /\ died'[e] # NoDeath
                            /\ lease'[e].leaseExpiresAt <= died'[e] + DayLeaseMs
    BY DEF LeaseAccounted
  <2>1. CASE lease'[e] = lease[e]
    <3>1. ASSUME NEW q \in Runs, Holds(q, e), Mine(q, e) PROVE run'[q] = run[q]
      <4>1. CASE q = r
        <5>1. e = d /\ lease[d].leaseId = run[r].leaseId /\ run[r].leaseId \in LeaseIds
          BY <3>1, <4>1 DEF Holds, Mine, RunsInTime, d
        <5>2. lease'[d].leaseId = NoLease
          BY <1>1, <5>1 DEF TypeOK
        <5> QED
          BY <2>1, <5>1, <5>2
      <4>2. CASE q # r
        BY <1>1, <4>2 DEF TypeOK
      <4> QED
        BY <4>1, <4>2
    <3> QED
      BY <1>1, <2>1, <3>1, Accounted
  <2>2. CASE lease'[e] # lease[e]
    <3>1. lease'[e] = Absent
      BY <1>1, <2>2 DEF TypeOK, Absent
    <3> QED
      BY <1>1, <3>1 DEF LeaseAccounted
  <2> QED
    BY <2>1, <2>2
<1>6. HolderLeased'
  <2> SUFFICES ASSUME NEW e \in Days
               PROVE  /\ Holds(Agg, e)' => Mine(Agg, e)'
                      /\ Holds(Reb, e)' =>
                           \/ Mine(Reb, e)'
                           \/ run'[Agg].pc = "idle" /\ run'[Reb].now <= cleanupEnd'
    BY DEF HolderLeased
  <2>1. \A q \in Runs : Holds(q, e)' => q # r
    BY <1>1 DEF Holds, TypeOK
  <2>2. \A q \in Runs : q # r => run'[q] = run[q]
    BY <1>1 DEF TypeOK
  <2>3. \A q \in Runs : Holds(q, e)' => Holds(q, e)
    BY <2>1, <2>2 DEF Holds
  <2>4. \A q \in Runs : Holds(q, e)' => e # d
    BY <1>1, <2>1, <2>3, Exclusion DEF Holds, MutualExclusion, d
  <2>5. e # d => lease'[e] = lease[e]
    BY <1>1 DEF TypeOK
  <2>6. run[Agg].pc = "idle" => run'[Agg].pc = "idle"
    BY <1>1 DEF TypeOK
  <2> QED
    BY <1>1, <2>1, <2>2, <2>3, <2>4, <2>5, <2>6 DEF HolderLeased, Mine
<1> QED
  BY <1>2, <1>3, <1>4, <1>5, <1>6

\* Ending an invocation, in the regular way or not, leaves the lease alone.
LEMMA EndStep ==
  ASSUME IInv, NEW r \in Runs, Finish(r) \/ Die(r) PROVE IInv'
<1> USE DayLeaseAssumption DEF IInv, Finish, Die
<1>1. /\ run' = [run EXCEPT ![r] = [pc |-> "idle", now |-> 0,
                                    day |-> NoDay, leaseId |-> NoLease]]
      /\ UNCHANGED <<clock, lease, cleanup, cleanupEnd>>
  BY DEF Idle
<1>6. died' \in [Days -> Nat \cup {NoDeath}]
  BY DEF TypeOK, RunsInTime
<1>2. TypeOK'
  BY <1>1, <1>6 DEF TypeOK, Invocations
<1>3. RunsInTime' /\ CleanupAlone'
  BY <1>1 DEF RunsInTime, CleanupAlone, TypeOK
<1>4. OwnIds'
  BY <1>1 DEF OwnIds, TypeOK
<1>7. LeaseAccounted'
  <2> SUFFICES ASSUME NEW d \in Days
               PROVE  /\ died'[d] <= clock'
                      /\ \/ lease'[d] = Absent
                         \/ \E q \in Runs : Holds(q, d)' /\ Mine(q, d)'
                         \/ /\ died'[d] # NoDeath
                            /\ lease'[d].leaseExpiresAt <= died'[d] + DayLeaseMs
    BY DEF LeaseAccounted
  <2>1. CASE Holds(r, d)
    <3>1. died'[d] = clock
      BY <2>1 DEF Holds, TypeOK
    <3>2. \A q \in Runs : Holds(q, d) => q = r
      BY <2>1, Exclusion DEF MutualExclusion
    <3>3. run[r].now \in Nat /\ run[r].now <= clock /\ clock \in Nat
      BY <2>1 DEF Holds, RunsInTime, TypeOK, Invocations
    <3>4. \/ lease[d] = Absent
          \/ lease[d].leaseExpiresAt = run[r].now + DayLeaseMs
          \/ /\ died[d] \in Nat /\ died[d] <= clock /\ lease[d].leaseExpiresAt \in Nat
             /\ lease[d].leaseExpiresAt <= died[d] + DayLeaseMs
      BY <3>2 DEF LeaseAccounted, Mine, TypeOK, Leases
    <3>5. clock # NoDeath
      BY <3>3 DEF NoDeath
    <3>6. lease[d] = Absent \/ lease[d].leaseExpiresAt <= clock + DayLeaseMs
      BY <3>3, <3>4
    <3> QED
      BY <1>1, <3>1, <3>3, <3>5, <3>6
  <2>2. CASE ~ Holds(r, d)
    <3>1. died'[d] = died[d]
      BY <2>2 DEF Holds, TypeOK
    <3>2. \A q \in Runs : Holds(q, d) => run'[q] = run[q]
      BY <1>1, <2>2 DEF Holds, TypeOK
    <3> QED
      BY <1>1, <3>1, <3>2, Accounted
  <2> QED
    BY <2>1, <2>2
<1>5. HolderLeased'
  <2>1. \A q \in Runs, e \in Days : Holds(q, e)' => q # r
    BY <1>1 DEF Holds, TypeOK
  <2>2. \A q \in Runs : q # r => run'[q] = run[q]
    BY <1>1 DEF TypeOK
  <2>3. run[Agg].pc = "idle" => run'[Agg].pc = "idle"
    BY <1>1 DEF TypeOK
  <2> QED
    BY <1>1, <2>1, <2>2, <2>3 DEF HolderLeased, Holds, Mine
<1> QED
  BY <1>2, <1>3, <1>4, <1>5, <1>7

LEMMA CleanupStep ==
  ASSUME IInv, CleanupQuery \/ CleanupDelete PROVE IInv'
<1> USE DayLeaseAssumption DEF IInv
<1>1. CASE CleanupQuery
  <2>1. TypeOK' /\ CleanupAlone'
    BY <1>1 DEF CleanupQuery, TypeOK, Cleanups, CleanupAlone
  <2> QED
    BY <1>1, <2>1
    DEF CleanupQuery, RunsInTime, OwnIds, HolderLeased, Holds, Mine, LeaseAccounted
<1>2. CASE CleanupDelete
  <2>1. \A d \in Days : lease'[d] = IF d \in cleanup.doomed
                                    THEN [leaseId |-> NoLease, leaseExpiresAt |-> 0]
                                    ELSE lease[d]
    BY <1>2 DEF CleanupDelete, Absent
  <2>2. TypeOK'
    BY <1>2 DEF CleanupDelete, TypeOK, Cleanups, Leases, Absent
  <2>3. RunsInTime' /\ OwnIds' /\ CleanupAlone'
    BY <1>2 DEF CleanupDelete, TypeOK, RunsInTime, OwnIds, CleanupAlone
  <2>4. LeaseAccounted'
    BY <1>2, <2>1 DEF CleanupDelete, LeaseAccounted, Holds, Mine, Absent
  <2>5. HolderLeased'
    BY <1>2 DEF CleanupDelete, CleanupAlone, HolderLeased, Holds, RunsInTime
  <2> QED
    BY <2>2, <2>3, <2>4, <2>5
<1> QED
  BY <1>1, <1>2

LEMMA NextIInv == IInv /\ [Next]_vars => IInv'
<1> SUFFICES ASSUME IInv, [Next]_vars PROVE IInv'
  OBVIOUS
<1>1. CASE Tick
  BY <1>1, TickStep
<1>2. CASE \E r \in Runs : Start(r)
  BY <1>2, StartStep
<1>3. CASE \E r \in Runs, d \in Days, id \in LeaseIds : Acquire(r, d, id)
  BY <1>3, AcquireStep
<1>4. CASE \E r \in Runs : Release(r)
  BY <1>4, ReleaseStep
<1>5. CASE \E r \in Runs : Finish(r) \/ Die(r)
  BY <1>5, EndStep
<1>6. CASE CleanupQuery \/ CleanupDelete
  BY <1>6, CleanupStep
<1>7. CASE UNCHANGED vars
  BY <1>7 DEF vars, IInv, TypeOK, RunsInTime, OwnIds, CleanupAlone, HolderLeased,
              Holds, Mine, LeaseAccounted
<1> QED
  BY <1>1, <1>2, <1>3, <1>4, <1>5, <1>6, <1>7 DEF Next

LEMMA Invariance == Spec => []IInv
  BY InitIInv, NextIInv, PTL DEF Spec

\* Every variable keeps the shape of its document or invocation.
THEOREM TypeCorrect == Spec => []TypeOK
  BY Invariance, PTL DEF IInv

\* The daily aggregation and the override rebuild never work on one day
\* together, whenever the schedulers' timeout is shorter than DAY_LEASE_MS and
\* than the distance between the retention job and the aggregation.
THEOREM LeaseExcludes == Spec => []MutualExclusion
  BY Invariance, Exclusion, PTL

\* Whoever is turned away from a day finds a run at work there, or started less than
\* DAY_LEASE_MS after a run died there: every lease is the lease of a live holder or
\* was left by a death, and the dead run had taken it before it died.
THEOREM RefusalHasACause == Spec => []RefusedForCause
<1>1. IInv => RefusedForCause
  <2> SUFFICES ASSUME IInv, NEW r \in Runs, NEW d \in Days,
                      run[r].pc = "running", Refused(r, d), \A q \in Runs : ~ Holds(q, d)
               PROVE  died[d] # NoDeath /\ run[r].now < died[d] + DayLeaseMs
    BY DEF RefusedForCause
  <2>1. run[r].now \in Nat /\ lease[d].leaseExpiresAt \in Nat /\ died[d] \in Nat \cup {NoDeath}
    BY DEF IInv, TypeOK, Invocations, Leases
  <2>2. lease[d].leaseExpiresAt > run[r].now
    BY DEF Refused
  <2>3. lease[d] # Absent
    BY <2>1, <2>2 DEF Absent
  <2>4. died[d] # NoDeath /\ lease[d].leaseExpiresAt <= died[d] + DayLeaseMs
    BY <2>3 DEF IInv, LeaseAccounted
  <2> QED
    BY DayLeaseAssumption, <2>1, <2>2, <2>4
<1> QED
  BY <1>1, Invariance, PTL

\* No run releases or overwrites the lease of a run at work on the day: a lease is
\* granted only where nobody is at work, a run releases only what it holds alone,
\* and the retention job deletes only while no aggregation runs.
THEOREM LeaseIsKept == Spec => HolderKeepsLease
<1>1. IInv /\ [Next]_vars =>
        [\A r \in Runs, d \in Days :
           /\ Holds(r, d) /\ lease[d].leaseId = run[r].leaseId
           /\ lease'[d] # lease[d]
           => \/ run'[r].pc = "running"
              \/ r = "rebuild" /\ cleanup.pc = "deleting" /\ d \in cleanup.doomed]_vars
  <2> SUFFICES ASSUME IInv, [Next]_vars, NEW r \in Runs, NEW d \in Days,
                      Holds(r, d), lease'[d] # lease[d]
               PROVE  \/ run'[r].pc = "running"
                      \/ /\ r = "rebuild" /\ cleanup.pc = "deleting"
                         /\ d \in cleanup.doomed
    OBVIOUS
  <2> USE DEF IInv
  <2>1. ASSUME NEW q \in Runs, NEW e \in Days, NEW id \in LeaseIds, Acquire(q, e, id)
        PROVE  FALSE
    <3>1. e = d
      BY <2>1 DEF Acquire, TypeOK
    <3> QED
      BY <2>1, <3>1, GrantedWasFree
  <2>2. ASSUME NEW q \in Runs, Release(q)
        PROVE  run'[r].pc = "running"
    <3>1. run[q].day = d /\ Holds(q, d)
      BY <2>2 DEF Release, Holds, TypeOK
    <3>2. q = r
      BY <3>1, Exclusion DEF MutualExclusion
    <3> QED
      BY <2>2, <3>2 DEF Release, Between, TypeOK
  <2>3. CASE CleanupDelete
    <3>1. cleanup.pc = "deleting" /\ d \in cleanup.doomed
      BY <2>3 DEF CleanupDelete
    <3>2. r = "rebuild"
      BY <3>1 DEF CleanupAlone, Holds
    <3> QED
      BY <3>1, <3>2
  <2>4. lease' = lease \/ (\E q \in Runs : Release(q)) \/ CleanupDelete
    BY <2>1 DEF Next, Tick, Start, Finish, Die, CleanupQuery, vars
  <2> QED
    BY <2>2, <2>3, <2>4
<1> QED
  BY <1>1, Invariance, PTL DEF Spec, HolderKeepsLease

(***************************************************************************)
(* Refinement of DayMutex.                                                 *)
(***************************************************************************)
HolderMap == [d \in Days |-> HoldersOf(d)]

LEMMA InitMutex == Init => Mutex!Init
  BY DEF Init, Idle, Mutex!Init, HoldersOf, Holds

LEMMA NextMutex ==
  ASSUME IInv, [Next]_vars
  PROVE  [Mutex!Next]_HolderMap
<1> SUFFICES HolderMap' # HolderMap => Mutex!Next
  OBVIOUS
<1> USE DEF IInv
<1>1. CASE \E r \in Runs, d \in Days, id \in LeaseIds : Acquire(r, d, id)
  <2>1. PICK r \in Runs, d \in Days, id \in LeaseIds : Acquire(r, d, id)
    BY <1>1
  <2>2. HoldersOf(d) = {}
    BY <2>1, GrantedWasFree DEF HoldersOf
  <2>3. \A q \in Runs, e \in Days :
           Holds(q, e)' <=> (Holds(q, e) \/ (q = r /\ e = d))
    BY <2>1 DEF Acquire, Holds, TypeOK
  <2>4. \A e \in Days : HoldersOf(e)' = IF e = d THEN {r} ELSE HoldersOf(e)
    BY <2>2, <2>3 DEF HoldersOf
  <2>5. Mutex!Enter(r, d)
    BY <2>2, <2>4 DEF Mutex!Enter
  <2> QED
    BY <2>5 DEF Mutex!Next
<1>2. CASE \E r \in Runs : Release(r) \/ Die(r)
  <2>1. PICK r \in Runs : Release(r) \/ Die(r)
    BY <1>2
  <2> DEFINE d == run[r].day
  <2>2. d \in Days /\ Holds(r, d)
    BY <2>1 DEF Release, Die, RunsInTime, Holds
  <2>3. HoldersOf(d) = {r}
    BY <2>2, Exclusion DEF HoldersOf, MutualExclusion
  <2>4. \A q \in Runs, e \in Days : Holds(q, e)' <=> (Holds(q, e) /\ q # r)
    BY <2>1 DEF Release, Die, Holds, TypeOK, Between, Idle
  <2>5. \A e \in Days : HoldersOf(e)' = IF e = d THEN {} ELSE HoldersOf(e)
    BY <2>2, <2>3, <2>4 DEF HoldersOf, Holds
  <2>6. Mutex!Leave(r, d)
    BY <2>2, <2>3, <2>5 DEF Mutex!Leave
  <2> QED
    BY <2>2, <2>6 DEF Mutex!Next
<1>3. CASE \E r \in Runs : Start(r) \/ Finish(r)
  <2>1. PICK r \in Runs : Start(r) \/ Finish(r)
    BY <1>3
  <2>2. \A q \in Runs, e \in Days : Holds(q, e)' <=> Holds(q, e)
    BY <2>1 DEF Start, Finish, Holds, TypeOK, Between, Idle
  <2> QED
    BY <2>2 DEF HolderMap, HoldersOf
<1>4. CASE run' = run
  BY <1>4 DEF HolderMap, HoldersOf, Holds
<1> QED
  BY <1>1, <1>2, <1>3, <1>4 DEF Next, Tick, CleanupQuery, CleanupDelete, vars

\* Taking, releasing and losing a lease is entering and leaving the day.
THEOREM LeaseImplementsMutex == Spec => MutexSpec
<1>1. Init => Mutex!Init
  BY InitMutex
<1>2. IInv /\ [Next]_vars => [Mutex!Next]_HolderMap
  BY NextMutex
<1> QED
  BY <1>1, <1>2, Invariance, PTL DEF Spec, MutexSpec, Mutex!Spec, HolderMap
=============================================================================
