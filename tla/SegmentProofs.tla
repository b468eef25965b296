---------------------------- MODULE SegmentProofs ----------------------------
(***************************************************************************)
(* Merging is a join of evidence, and what the capture stores is the join  *)
(* of what was delivered: for every session, every number of events and    *)
(* flushes, every order, batch and failure.                                *)
(***************************************************************************)
EXTENDS SegmentCapture, TLAPS

(***************************************************************************)
(* Merging.                                                                *)
(***************************************************************************)
\* A merged premium is known as soon as one of the two is, and then the better.
LEMMA PremiumJoin ==
  ASSUME NEW p \in Premiums, NEW q \in Premiums
  PROVE  /\ MergePremium(p, q) \in Premiums
         /\ MergePremium(p, q) \in {p, q}
         /\ PremiumCovers(MergePremium(p, q), p)
         /\ PremiumCovers(MergePremium(p, q), q)
BY DEF MergePremium, Premiums, PremiumCovers

\* The earlier of two dates, a null date being later than every other.
LEMMA MinJoin ==
  ASSUME NEW a \in Nat \cup {Absent}, NEW b \in Nat \cup {Absent}
  PROVE  /\ MinDate(a, b) \in {a, b}
         /\ a # Absent => MinDate(a, b) # Absent /\ MinDate(a, b) <= a
         /\ b # Absent => MinDate(a, b) # Absent /\ MinDate(a, b) <= b
BY DEF MinDate, Absent

\* The later of two dates.
LEMMA MaxJoin ==
  ASSUME NEW a \in Nat, NEW b \in Nat
  PROVE  MaxDate(a, b) \in {a, b} /\ a <= MaxDate(a, b) /\ b <= MaxDate(a, b)
BY DEF MaxDate

\* No segment that exists equals the null segment.
LEMMA SegmentsExist == NoSegment \notin Segments
BY DEF NoSegment, Segments, Absent

\* Every segment covers the null segment.
LEMMA CoversNothing ==
  ASSUME NEW x \in Segments \cup {NoSegment}
  PROVE  Covers(x, NoSegment)
BY DEF Covers, NoSegment, Segments, Absent, PremiumCovers, NoPairing

\* Covering is reflexive.
LEMMA CoversItself ==
  ASSUME NEW x \in Segments \cup {NoSegment}
  PROVE  Covers(x, x)
BY DEF Covers, NoSegment, Segments, Absent, PremiumCovers, NoPairing

\* Covering is transitive.
LEMMA CoversTransitive ==
  ASSUME NEW x \in Segments, NEW y \in Segments, NEW z \in Segments,
         Covers(z, y), Covers(y, x)
  PROVE  Covers(z, x)
BY DEF Covers, Segments, Absent, PremiumCovers, NoPairing, Premiums

\* A merge is a segment that covers both.
LEMMA MergeJoin ==
  ASSUME NEW x \in Segments \cup {NoSegment}, NEW y \in Segments
  PROVE  /\ Merge(x, y) \in Segments
         /\ Covers(Merge(x, y), x)
         /\ Covers(Merge(x, y), y)
<1>1. CASE x = NoSegment
  BY <1>1, CoversNothing, CoversItself DEF Merge
<1>2. CASE x # NoSegment
  <2>1. x \in Segments
    BY <1>2
  <2> DEFINE m == Merge(x, y)
  <2>2. /\ m.pairing = (IF x.pairing = NoPairing THEN y.pairing ELSE x.pairing)
        /\ m.createdAt = MinDate(x.createdAt, y.createdAt)
        /\ m.lastRelevantAt = MaxDate(x.lastRelevantAt, y.lastRelevantAt)
        /\ m.successAt = MinDate(x.successAt, y.successAt)
        /\ m.facts = x.facts \cup y.facts
        /\ m.babyPremium = MergePremium(x.babyPremium, y.babyPremium)
        /\ m.parentPremium = MergePremium(x.parentPremium, y.parentPremium)
        /\ m.sourceUpdateTime = MaxDate(x.sourceUpdateTime, y.sourceUpdateTime)
    BY <1>2 DEF Merge
  <2>3. /\ m.createdAt \in Nat /\ m.createdAt <= x.createdAt /\ m.createdAt <= y.createdAt
        /\ m.successAt \in Nat \cup {Absent}
        /\ x.successAt # Absent => m.successAt # Absent /\ m.successAt <= x.successAt
        /\ y.successAt # Absent => m.successAt # Absent /\ m.successAt <= y.successAt
    BY <2>1, <2>2, MinJoin DEF Segments, Absent
  <2>4. /\ m.lastRelevantAt \in Nat
        /\ x.lastRelevantAt <= m.lastRelevantAt /\ y.lastRelevantAt <= m.lastRelevantAt
        /\ m.sourceUpdateTime \in Nat
        /\ x.sourceUpdateTime <= m.sourceUpdateTime
        /\ y.sourceUpdateTime <= m.sourceUpdateTime
    BY <2>1, <2>2, MaxJoin DEF Segments
  <2>5. /\ m.babyPremium \in Premiums /\ m.parentPremium \in Premiums
        /\ PremiumCovers(m.babyPremium, x.babyPremium)
        /\ PremiumCovers(m.babyPremium, y.babyPremium)
        /\ PremiumCovers(m.parentPremium, x.parentPremium)
        /\ PremiumCovers(m.parentPremium, y.parentPremium)
    BY <2>1, <2>2, PremiumJoin DEF Segments
  <2>6. m \in Segments
    BY <1>2, <2>1, <2>2, <2>3, <2>4, <2>5 DEF Merge, Segments
  <2>7. Covers(m, x) /\ Covers(m, y)
    BY <2>1, <2>2, <2>3, <2>4, <2>5 DEF Covers, NoPairing, Segments
  <2>. QED
    BY <2>6, <2>7
<1>. QED
  BY <1>1, <1>2

\* So is what a batch makes of versions without a pairing.
LEMMA CoverJoin ==
  ASSUME NEW x \in Segments \cup {NoSegment}, NEW y \in Segments,
         x.pairing = NoPairing, y.pairing = NoPairing
  PROVE  /\ Cover(x, y) \in Segments
         /\ Cover(x, y).pairing = NoPairing
         /\ Covers(Cover(x, y), x)
         /\ Covers(Cover(x, y), y)
<1>1. CASE x = NoSegment
  BY <1>1, CoversNothing, CoversItself DEF Cover
<1>2. CASE x # NoSegment
  <2> DEFINE m == Merge(x, y)
             c == MaxDate(x.createdAt, y.createdAt)
  <2>1. m \in Segments /\ Covers(m, x) /\ Covers(m, y)
    BY MergeJoin
  <2>2. c \in Nat
    BY <1>2, MaxJoin DEF Segments
  <2>3. m.pairing = NoPairing
    BY <1>2 DEF Merge
  <2>4. Cover(x, y) = [m EXCEPT !.createdAt = c]
    BY <1>2 DEF Cover
  <2> HIDE DEF m, c
  <2>5. [m EXCEPT !.createdAt = c] \in Segments
    BY <2>1, <2>2 DEF Segments
  <2>. QED
    BY <2>1, <2>2, <2>3, <2>4, <2>5 DEF Covers, Segments
<1>. QED
  BY <1>1, <1>2

(***************************************************************************)
(* What one version says, and what is sound to store.                      *)
(***************************************************************************)
\* Evidence, whatever the key version.
Says(k, e) == IF k THEN Project(Source[e], 1) ELSE Coverage(Source[e])

\* The fields of a stored or incoming segment of a session with or without a
\* pairing key that SameWhateverTheOrder and TimesOrdered follow from: every
\* value stems from an event, and the dates are in order.
Sound(k, x) ==
  x # NoSegment =>
    /\ x.sourceUpdateTime = x.lastRelevantAt
    /\ k <=> x.pairing # NoPairing
    /\ k => /\ x.createdAt <= x.lastRelevantAt
            /\ x.successAt # Absent =>
                 x.createdAt <= x.successAt /\ x.successAt <= x.lastRelevantAt
            /\ \E e \in Events : x.createdAt = CreatedTime(Source[e])
            /\ \E e \in Events : x.lastRelevantAt = Source[e].observedAt
            /\ x.successAt # Absent => \E e \in Successful : x.successAt = Source[e].observedAt
            /\ \A fact \in x.facts : \E e \in Events : fact \in Source[e].facts
            /\ x.babyPremium \in {Source[e].babyPremium : e \in Events}
            /\ x.parentPremium \in {Source[e].parentPremium : e \in Events}

\* The trusted creation time is an instant no later than the observation.
LEMMA CreatedTimeType ==
  ASSUME NEW e \in Events
  PROVE  CreatedTime(Source[e]) \in Nat /\ CreatedTime(Source[e]) <= Source[e].observedAt
BY CaptureAssumption, MaxAgeAssumption DEF CreatedTime, Sources

\* The evidence of an event is a segment, sound, and the same up to the version.
LEMMA EvidenceSound ==
  ASSUME keyed \in BOOLEAN, NEW e \in Events, NEW v \in 1..MaxVersion
  PROVE  /\ Evidence(e, v) \in Segments
         /\ Sound(keyed, Evidence(e, v))
         /\ Covers(Evidence(e, v), Says(keyed, e))
         /\ ~ keyed => Evidence(e, v).pairing = NoPairing
         /\ Says(keyed, e) \in Segments
<1>1. Source[e] \in Sources
  BY CaptureAssumption
<1>2. SuccessTime(Source[e]) \in {Source[e].observedAt, Absent}
  BY DEF SuccessTime
<1>3. SuccessTime(Source[e]) # Absent => e \in Successful
  BY DEF SuccessTime, Successful
<1>4. CASE keyed
  <2>1. Project(Source[e], v) \in Segments /\ Project(Source[e], 1) \in Segments
    BY <1>1, <1>2, CreatedTimeType, CaptureAssumption DEF Project, Segments, Sources
  <2>2. Covers(Project(Source[e], v), Project(Source[e], 1))
    BY <1>1, <1>2, CreatedTimeType DEF Covers, Project, NoPairing, Sources, PremiumCovers, Absent
  <2>3. Sound(TRUE, Project(Source[e], v))
    BY <1>1, <1>2, <1>3, CreatedTimeType DEF Sound, Project, NoPairing, Sources, Absent
  <2>. QED
    BY <1>4, <2>1, <2>2, <2>3 DEF Evidence, Says
<1>5. CASE ~ keyed
  <2>1. Coverage(Source[e]) \in Segments
    BY <1>1, <1>2 DEF Coverage, Segments, Sources, NoPairing, Premiums
  <2>2. Sound(FALSE, Coverage(Source[e]))
    BY DEF Sound, Coverage
  <2>. QED
    BY <1>5, <2>1, <2>2, CoversItself DEF Evidence, Says, Coverage
<1>. QED
  BY <1>4, <1>5

\* Merging keeps soundness: the dates stay in order, the values stem from events.
LEMMA MergeSound ==
  ASSUME NEW k \in BOOLEAN, NEW x \in Segments \cup {NoSegment}, NEW y \in Segments,
         Sound(k, x), Sound(k, y)
  PROVE  Sound(k, Merge(x, y))
<1>1. CASE x = NoSegment
  BY <1>1 DEF Merge
<1>2. CASE x # NoSegment
  <2>1. x \in Segments /\ y # NoSegment
    BY <1>2, SegmentsExist
  <2> DEFINE m == Merge(x, y)
  <2>2. /\ m.pairing = (IF x.pairing = NoPairing THEN y.pairing ELSE x.pairing)
        /\ m.createdAt = MinDate(x.createdAt, y.createdAt)
        /\ m.lastRelevantAt = MaxDate(x.lastRelevantAt, y.lastRelevantAt)
        /\ m.successAt = MinDate(x.successAt, y.successAt)
        /\ m.facts = x.facts \cup y.facts
        /\ m.babyPremium = MergePremium(x.babyPremium, y.babyPremium)
        /\ m.parentPremium = MergePremium(x.parentPremium, y.parentPremium)
        /\ m.sourceUpdateTime = MaxDate(x.sourceUpdateTime, y.sourceUpdateTime)
    BY <1>2 DEF Merge
  <2>3. m.sourceUpdateTime = m.lastRelevantAt /\ (k <=> m.pairing # NoPairing)
    BY <1>2, <2>1, <2>2 DEF Sound
  <2>4. /\ m.createdAt \in {x.createdAt, y.createdAt}
        /\ m.createdAt <= x.createdAt /\ m.createdAt <= y.createdAt
        /\ m.successAt \in {x.successAt, y.successAt}
    BY <2>1, <2>2, MinJoin DEF Segments, Absent
  <2>5. /\ m.lastRelevantAt \in {x.lastRelevantAt, y.lastRelevantAt}
        /\ x.lastRelevantAt <= m.lastRelevantAt /\ y.lastRelevantAt <= m.lastRelevantAt
    BY <2>1, <2>2, MaxJoin DEF Segments
  <2>6. /\ m.babyPremium \in {x.babyPremium, y.babyPremium}
        /\ m.parentPremium \in {x.parentPremium, y.parentPremium}
    BY <2>1, <2>2, PremiumJoin DEF Segments
  <2>7. ASSUME k
        PROVE  /\ m.createdAt <= m.lastRelevantAt
               /\ m.successAt # Absent =>
                    m.createdAt <= m.successAt /\ m.successAt <= m.lastRelevantAt
    BY <1>2, <2>1, <2>4, <2>5, <2>7 DEF Sound, Segments, Absent
  <2>8. ASSUME k
        PROVE  /\ \E e \in Events : m.createdAt = CreatedTime(Source[e])
               /\ \E e \in Events : m.lastRelevantAt = Source[e].observedAt
               /\ m.successAt # Absent =>
                    \E e \in Successful : m.successAt = Source[e].observedAt
    BY <1>2, <2>1, <2>4, <2>5, <2>8 DEF Sound
  <2>9. ASSUME k
        PROVE  /\ \A fact \in m.facts : \E e \in Events : fact \in Source[e].facts
               /\ m.babyPremium \in {Source[e].babyPremium : e \in Events}
               /\ m.parentPremium \in {Source[e].parentPremium : e \in Events}
    BY <1>2, <2>1, <2>2, <2>6, <2>9 DEF Sound
  <2>. QED
    BY <2>3, <2>7, <2>8, <2>9 DEF Sound
<1>. QED
  BY <1>1, <1>2

\* One round of the loop keeps what the rounds before it gathered.
LEMMA BatchJoin ==
  ASSUME keyed \in BOOLEAN, NEW x \in Segments \cup {NoSegment}, Sound(keyed, x),
         NEW e \in Events, NEW v \in 1..MaxVersion
  PROVE  /\ Batch(x, Evidence(e, v)) \in Segments
         /\ Sound(keyed, Batch(x, Evidence(e, v)))
         /\ Covers(Batch(x, Evidence(e, v)), x)
         /\ Covers(Batch(x, Evidence(e, v)), Says(keyed, e))
<1> DEFINE y == Evidence(e, v)
<1>1. /\ y \in Segments /\ Sound(keyed, y) /\ Covers(y, Says(keyed, e))
      /\ Says(keyed, e) \in Segments
      /\ ~ keyed => y.pairing = NoPairing
  BY EvidenceSound
<1> HIDE DEF y
<1>2. CASE keyed
  <2>1. Batch(x, y) = Merge(x, y)
    BY <1>2 DEF Batch
  <2>2. /\ Merge(x, y) \in Segments /\ Covers(Merge(x, y), x) /\ Covers(Merge(x, y), y)
        /\ Sound(keyed, Merge(x, y))
    BY <1>1, MergeJoin, MergeSound
  <2>. QED
    BY <1>1, <2>1, <2>2, CoversTransitive DEF y
<1>3. CASE ~ keyed
  <2>1. x.pairing = NoPairing
    BY <1>3 DEF Sound, NoSegment
  <2>2. Batch(x, y) = Cover(x, y)
    BY <1>3 DEF Batch
  <2>3. /\ Cover(x, y) \in Segments /\ Covers(Cover(x, y), x) /\ Covers(Cover(x, y), y)
        /\ Cover(x, y).pairing = NoPairing
    BY <1>1, <1>3, <2>1, CoverJoin
  <2>4. Cover(x, y).sourceUpdateTime = Cover(x, y).lastRelevantAt
    <3>1. CASE x = NoSegment
      BY <1>1, <3>1, SegmentsExist DEF Cover, Sound
    <3>2. CASE x # NoSegment
      BY <1>1, <3>2, SegmentsExist DEF Cover, Sound, Merge
    <3>. QED
      BY <3>1, <3>2
  <2>5. Sound(keyed, Cover(x, y))
    BY <1>3, <2>3, <2>4 DEF Sound
  <2>. QED
    BY <1>1, <2>2, <2>3, <2>5, CoversTransitive DEF y
<1>. QED
  BY <1>2, <1>3

\* What the transaction leaves in the document, written or not.
LEMMA CommitJoin ==
  ASSUME NEW k \in BOOLEAN, NEW x \in Segments \cup {NoSegment}, NEW y \in Segments,
         Sound(k, x), Sound(k, y), NEW stored,
         stored = IF x # NoSegment /\ Signature(Merge(x, y)) = Signature(x)
                  THEN x ELSE Merge(x, y)
  PROVE  /\ stored \in Segments
         /\ Sound(k, stored)
         /\ Covers(stored, x)
         /\ Covers(stored, y)
         /\ x.pairing # NoPairing => stored.pairing = x.pairing
<1>1. /\ Merge(x, y) \in Segments /\ Covers(Merge(x, y), x) /\ Covers(Merge(x, y), y)
      /\ Sound(k, Merge(x, y))
  BY MergeJoin, MergeSound
<1>2. x.pairing # NoPairing => Merge(x, y).pairing = x.pairing
  BY DEF Merge, NoSegment
<1>3. CASE x # NoSegment /\ Signature(Merge(x, y)) = Signature(x)
  <2> DEFINE m == Merge(x, y)
  <2> HIDE DEF m
  <2>1. /\ m.pairing = x.pairing /\ m.createdAt = x.createdAt
        /\ m.lastRelevantAt = x.lastRelevantAt /\ m.successAt = x.successAt
        /\ m.facts = x.facts /\ m.babyPremium = x.babyPremium
        /\ m.parentPremium = x.parentPremium
    BY <1>3 DEF Signature, m
  <2>2. m.sourceUpdateTime = x.sourceUpdateTime
    BY <1>1, <1>3, <2>1, SegmentsExist DEF Sound, m
  <2>3. Covers(m, y)
    BY <1>1 DEF m
  <2>4. Covers(x, y)
    BY <2>1, <2>2, <2>3 DEF Covers
  <2>. QED
    BY <1>3, <2>4, CoversItself
<1>4. CASE ~ (x # NoSegment /\ Signature(Merge(x, y)) = Signature(x))
  BY <1>1, <1>2, <1>4
<1>. QED
  BY <1>3, <1>4

(***************************************************************************)
(* The inductive invariant.                                                *)
(***************************************************************************)
\* s has the evidence of every event in E.
HasAll(k, s, E) == \A e \in E : s \in Segments /\ Covers(s, Says(k, e))

\* Who waits on the entry has a snapshot in it.
EntryHolds ==
  /\ entry.waiters \subseteq entry.snapshots
  /\ entry.open => entry.snapshots # {}

\* A flush has gathered what it has merged so far, and after its transaction the
\* segment has what the flush was sent with.
FlushHolds ==
  \A f \in Flushes :
    /\ flush[f].waiters \subseteq flush[f].snapshots
    /\ flush[f].pc # "idle" => flush[f].snapshots # {}
    /\ Sound(keyed, flush[f].incoming)
    /\ flush[f].pc = "merge" =>
         HasAll(keyed, flush[f].incoming, flush[f].snapshots \ flush[f].todo)
    /\ flush[f].pc = "mark" => HasAll(keyed, segment, flush[f].snapshots)

\* The segment is sound and has the evidence of every delivery that ended well.
SegmentHolds ==
  /\ Sound(keyed, segment)
  /\ HasAll(keyed, segment, acked)

IInv == TypeOK /\ EntryHolds /\ FlushHolds /\ SegmentHolds

\* The invariant holds initially.
LEMMA InitIInv == Init => IInv
<1> SUFFICES ASSUME Init PROVE IInv
  OBVIOUS
<1>1. TypeOK
  BY CaptureAssumption
  DEF Init, TypeOK, Entries, NoEntry, FlushRecords, NoFlush
<1>2. EntryHolds
  BY DEF Init, EntryHolds, NoEntry
<1>3. FlushHolds
  BY DEF Init, FlushHolds, NoFlush, Sound
<1>4. SegmentHolds
  BY DEF Init, SegmentHolds, Sound, HasAll
<1>. QED
  BY <1>1, <1>2, <1>3, <1>4 DEF IInv

\* Evidence that is there stays when the segment only gains.
LEMMA HasAllGrows ==
  ASSUME NEW k \in BOOLEAN, NEW x \in Segments \cup {NoSegment}, NEW y \in Segments,
         NEW E, E \subseteq Events, HasAll(k, x, E), Covers(y, x),
         \A e \in Events : Says(k, e) \in Segments
  PROVE  HasAll(k, y, E)
<1> SUFFICES ASSUME NEW e \in E PROVE y \in Segments /\ Covers(y, Says(k, e))
  BY DEF HasAll
<1>1. x \in Segments /\ Covers(x, Says(k, e)) /\ Says(k, e) \in Segments
  BY DEF HasAll
<1>. QED
  BY <1>1, CoversTransitive

\* What an event says is a segment.
LEMMA SaysType ==
  ASSUME keyed \in BOOLEAN
  PROVE  \A e \in Events : Says(keyed, e) \in Segments
BY EvidenceSound, CaptureAssumption

\* A round of the loop.
LEMMA MergeSnapshotIInv ==
  ASSUME IInv, NEW f \in Flushes, NEW e \in Events, MergeSnapshot(f, e)
  PROVE  IInv'
<1> DEFINE old == flush[f].incoming
           new == Batch(old, Evidence(e, flush[f].version))
<1>1. /\ keyed \in BOOLEAN /\ flush \in [Flushes -> FlushRecords]
      /\ flush[f] \in FlushRecords /\ keyed' = keyed
  BY DEF IInv, TypeOK, MergeSnapshot
<1>2. /\ old \in Segments \cup {NoSegment} /\ Sound(keyed, old)
      /\ flush[f].version \in 1..MaxVersion
  BY <1>1 DEF IInv, FlushHolds, FlushRecords
<1>3. /\ new \in Segments /\ Sound(keyed, new) /\ Covers(new, old)
      /\ Covers(new, Says(keyed, e))
  BY <1>1, <1>2, BatchJoin
<1>4. HasAll(keyed, old, flush[f].snapshots \ flush[f].todo)
  BY DEF IInv, FlushHolds, MergeSnapshot
<1>5. flush[f].snapshots \subseteq Events
  BY <1>1 DEF FlushRecords
<1>6. HasAll(keyed, new, flush[f].snapshots \ flush[f].todo)
  BY <1>1, <1>2, <1>3, <1>4, <1>5, HasAllGrows, SaysType
<1>7. HasAll(keyed, new, flush[f].snapshots \ (flush[f].todo \ {e}))
  BY <1>3, <1>6 DEF HasAll
<1>8. flush' = [flush EXCEPT ![f] = [flush[f] EXCEPT !.todo = flush[f].todo \ {e},
                                                  !.incoming = new]]
  BY <1>1 DEF MergeSnapshot
<1> HIDE DEF new, old
<1>9. /\ flush'[f].pc = flush[f].pc /\ flush'[f].snapshots = flush[f].snapshots
      /\ flush'[f].waiters = flush[f].waiters /\ flush'[f].incoming = new
      /\ flush'[f].todo = flush[f].todo \ {e}
      /\ flush'[f] \in FlushRecords
      /\ \A g \in Flushes : g # f => flush'[g] = flush[g]
  BY <1>1, <1>3, <1>8 DEF FlushRecords
<1>10. TypeOK'
  BY <1>8, <1>9 DEF IInv, TypeOK, MergeSnapshot
<1>11. EntryHolds' /\ SegmentHolds'
  BY DEF IInv, EntryHolds, SegmentHolds, MergeSnapshot
<1>12. FlushHolds'
  BY <1>3, <1>7, <1>9 DEF IInv, FlushHolds, MergeSnapshot
<1>. QED
  BY <1>10, <1>11, <1>12 DEF IInv

\* The facts about the transaction: nothing but gains.
LEMMA CommitFacts ==
  ASSUME IInv, NEW f \in Flushes, Commit(f)
  PROVE  /\ segment' \in Segments
         /\ Sound(keyed, segment')
         /\ Covers(segment', segment)
         /\ HasAll(keyed, segment', flush[f].snapshots)
         /\ segment.pairing # NoPairing => segment'.pairing = segment.pairing
<1> DEFINE y == flush[f].incoming
<1>1. /\ keyed \in BOOLEAN /\ flush[f] \in FlushRecords
      /\ segment \in Segments \cup {NoSegment} /\ Sound(keyed, segment)
      /\ Sound(keyed, y)
  BY DEF IInv, TypeOK, SegmentHolds, FlushHolds
<1>2. flush[f].snapshots # {} /\ flush[f].snapshots \subseteq Events
  BY <1>1 DEF IInv, FlushHolds, Commit, FlushRecords
<1>3. HasAll(keyed, y, flush[f].snapshots)
  <2>1. HasAll(keyed, y, flush[f].snapshots \ flush[f].todo) /\ flush[f].todo = {}
    BY DEF IInv, FlushHolds, Commit
  <2>. QED
    BY <2>1 DEF HasAll
<1>4. y \in Segments
  BY <1>2, <1>3 DEF HasAll
<1>5. segment' = IF segment # NoSegment /\ Signature(Merge(segment, y)) = Signature(segment)
                 THEN segment ELSE Merge(segment, y)
  BY DEF Commit
<1> HIDE DEF y
<1>6. /\ segment' \in Segments /\ Sound(keyed, segment')
      /\ Covers(segment', segment) /\ Covers(segment', y)
      /\ segment.pairing # NoPairing => segment'.pairing = segment.pairing
  BY <1>1, <1>4, <1>5, CommitJoin
<1>7. HasAll(keyed, segment', flush[f].snapshots)
  BY <1>1, <1>2, <1>3, <1>4, <1>6, HasAllGrows, SaysType
<1>. QED
  BY <1>6, <1>7

\* The transaction.
LEMMA CommitIInv ==
  ASSUME IInv, NEW f \in Flushes, Commit(f)
  PROVE  IInv'
<1>1. /\ keyed \in BOOLEAN /\ flush \in [Flushes -> FlushRecords]
      /\ segment \in Segments \cup {NoSegment} /\ acked \subseteq Events
      /\ keyed' = keyed /\ acked' = acked
  BY DEF IInv, TypeOK, Commit
<1>2. /\ segment' \in Segments /\ Sound(keyed, segment') /\ Covers(segment', segment)
      /\ HasAll(keyed, segment', flush[f].snapshots)
  BY CommitFacts
<1>3. \A E \in SUBSET Events : HasAll(keyed, segment, E) => HasAll(keyed, segment', E)
  BY <1>1, <1>2, HasAllGrows, SaysType
<1>4. flush' = [flush EXCEPT ![f] = [flush[f] EXCEPT !.pc = "mark"]]
  BY DEF Commit
<1>5. /\ flush'[f] \in FlushRecords /\ flush'[f].pc = "mark"
      /\ flush'[f].snapshots = flush[f].snapshots /\ flush'[f].waiters = flush[f].waiters
      /\ flush'[f].incoming = flush[f].incoming
      /\ \A g \in Flushes : g # f => flush'[g] = flush[g]
      /\ \A g \in Flushes : flush[g].snapshots \subseteq Events
  BY <1>1, <1>4 DEF FlushRecords
<1>6. TypeOK'
  BY <1>2, <1>4, <1>5 DEF IInv, TypeOK, Commit
<1>7. EntryHolds'
  BY DEF IInv, EntryHolds, Commit
<1>8. SegmentHolds'
  BY <1>1, <1>2, <1>3 DEF IInv, SegmentHolds
<1>9. FlushHolds'
  <2> SUFFICES ASSUME NEW g \in Flushes
               PROVE  /\ flush'[g].waiters \subseteq flush'[g].snapshots
                      /\ flush'[g].pc # "idle" => flush'[g].snapshots # {}
                      /\ Sound(keyed, flush'[g].incoming)
                      /\ flush'[g].pc = "merge" =>
                           HasAll(keyed, flush'[g].incoming, flush'[g].snapshots \ flush'[g].todo)
                      /\ flush'[g].pc = "mark" => HasAll(keyed, segment', flush'[g].snapshots)
    BY <1>1 DEF FlushHolds
  <2>1. CASE g = f
    BY <1>2, <1>5, <2>1 DEF IInv, FlushHolds, Commit
  <2>2. CASE g # f
    BY <1>3, <1>5, <2>2 DEF IInv, FlushHolds
  <2>. QED
    BY <2>1, <2>2
<1>. QED
  BY <1>6, <1>7, <1>8, <1>9 DEF IInv

\* An event joins the entry.
LEMMA DeliverIInv ==
  ASSUME IInv, NEW e \in Events, Deliver(e)
  PROVE  IInv'
<1>1. TypeOK'
  BY DEF IInv, TypeOK, Deliver, Entries
<1>2. EntryHolds'
  BY DEF IInv, EntryHolds, Deliver
<1>3. FlushHolds' /\ SegmentHolds'
  BY DEF IInv, FlushHolds, SegmentHolds, Deliver
<1>. QED
  BY <1>1, <1>2, <1>3 DEF IInv

\* The entry becomes a flush.
LEMMA FlushStartIInv ==
  ASSUME IInv, NEW f \in Flushes, FlushStart(f)
  PROVE  IInv'
<1>1. /\ flush \in [Flushes -> FlushRecords] /\ entry \in Entries
      /\ entry.waiters \subseteq entry.snapshots /\ entry.snapshots # {}
  BY DEF IInv, TypeOK, EntryHolds, FlushStart
<1>2. /\ flush'[f] = [pc |-> "merge", version |-> entry.version,
                      snapshots |-> entry.snapshots, todo |-> entry.snapshots,
                      waiters |-> entry.waiters, incoming |-> NoSegment]
      /\ \A g \in Flushes : g # f => flush'[g] = flush[g]
      /\ flush' \in [Flushes -> FlushRecords]
  BY <1>1 DEF FlushStart, FlushRecords, Entries
<1>3. TypeOK'
  BY <1>1, <1>2, CaptureAssumption DEF IInv, TypeOK, FlushStart, Entries, NoEntry
<1>4. EntryHolds' /\ SegmentHolds'
  BY DEF IInv, EntryHolds, SegmentHolds, FlushStart, NoEntry
<1>5. FlushHolds'
  BY <1>1, <1>2 DEF IInv, FlushHolds, FlushStart, HasAll, Sound
<1>. QED
  BY <1>3, <1>4, <1>5 DEF IInv

\* An idle flush holds nothing.
LEMMA NoFlushHolds ==
  /\ NoFlush \in FlushRecords /\ NoFlush.pc = "idle"
  /\ NoFlush.waiters = {} /\ NoFlush.snapshots = {}
  /\ \A k : Sound(k, NoFlush.incoming)
BY CaptureAssumption DEF NoFlush, FlushRecords, Sound

\* A flush ends well: what it was sent with is in the segment.
LEMMA ResolveIInv ==
  ASSUME IInv, NEW f \in Flushes, Resolve(f)
  PROVE  IInv'
<1>1. /\ flush \in [Flushes -> FlushRecords] /\ flush[f] \in FlushRecords
      /\ flush' = [flush EXCEPT ![f] = NoFlush]
      /\ UNCHANGED <<keyed, version, due, entry, segment, faults>>
      /\ acked' = acked \cup flush[f].waiters
  BY DEF IInv, TypeOK, Resolve
<1>2. HasAll(keyed, segment, flush[f].snapshots) /\ flush[f].waiters \subseteq flush[f].snapshots
  BY DEF IInv, FlushHolds, Resolve
<1>3. TypeOK'
  BY <1>1, NoFlushHolds DEF IInv, TypeOK, FlushRecords
<1>4. EntryHolds'
  BY <1>1 DEF IInv, EntryHolds
<1>5. SegmentHolds'
  BY <1>1, <1>2 DEF IInv, SegmentHolds, HasAll
<1>6. FlushHolds'
  BY <1>1, NoFlushHolds DEF IInv, FlushHolds
<1>. QED
  BY <1>3, <1>4, <1>5, <1>6 DEF IInv

\* A flush fails: nothing is claimed of it any more.
LEMMA FlushFailsIInv ==
  ASSUME IInv, NEW f \in Flushes, FlushFails(f)
  PROVE  IInv'
<1>1. /\ flush \in [Flushes -> FlushRecords] /\ flush[f] \in FlushRecords
      /\ flush' = [flush EXCEPT ![f] = NoFlush]
      /\ UNCHANGED <<keyed, version, acked, entry, segment>>
      /\ due' = due \cup flush[f].waiters
      /\ faults' \in Nat
  BY DEF IInv, TypeOK, FlushFails, Fault
<1>2. TypeOK'
  BY <1>1, NoFlushHolds DEF IInv, TypeOK, FlushRecords
<1>3. EntryHolds' /\ SegmentHolds'
  BY <1>1 DEF IInv, EntryHolds, SegmentHolds
<1>4. FlushHolds'
  BY <1>1, NoFlushHolds DEF IInv, FlushHolds
<1>. QED
  BY <1>2, <1>3, <1>4 DEF IInv

\* A delivery times out: one waiter less.
LEMMA TimeOutIInv ==
  ASSUME IInv, NEW e \in Events, TimeOut(e)
  PROVE  IInv'
<1>1. /\ flush \in [Flushes -> FlushRecords] /\ entry \in Entries
      /\ entry' = [entry EXCEPT !.waiters = entry.waiters \ {e}]
      /\ flush' = [f \in Flushes |->
                     [flush[f] EXCEPT !.waiters = flush[f].waiters \ {e}]]
      /\ UNCHANGED <<keyed, version, acked, segment>>
      /\ due' = due \cup {e}
      /\ faults' \in Nat
  BY DEF IInv, TypeOK, TimeOut, Fault
<1>2. \A f \in Flushes :
        /\ flush'[f] \in FlushRecords /\ flush'[f].pc = flush[f].pc
        /\ flush'[f].snapshots = flush[f].snapshots /\ flush'[f].todo = flush[f].todo
        /\ flush'[f].incoming = flush[f].incoming
        /\ flush'[f].waiters \subseteq flush[f].waiters
  BY <1>1 DEF FlushRecords
<1>3. entry' \in Entries /\ EntryHolds'
  BY <1>1 DEF IInv, EntryHolds, Entries
<1>4. TypeOK'
  BY <1>1, <1>2, <1>3 DEF IInv, TypeOK
<1>5. SegmentHolds'
  BY <1>1 DEF IInv, SegmentHolds
<1>6. FlushHolds'
  BY <1>1, <1>2 DEF IInv, FlushHolds
<1>. QED
  BY <1>3, <1>4, <1>5, <1>6 DEF IInv

\* The instance dies: entry and flushes are gone.
LEMMA InstanceDiesIInv ==
  ASSUME IInv, InstanceDies
  PROVE  IInv'
<1>1. /\ entry' = NoEntry /\ flush' = [f \in Flushes |-> NoFlush]
      /\ UNCHANGED <<keyed, version, acked, segment>>
      /\ faults' \in Nat
  BY DEF IInv, TypeOK, InstanceDies, Fault
<1>2. due' \in SUBSET Events
  BY DEF IInv, TypeOK, InstanceDies, Entries, FlushRecords
<1>3. TypeOK'
  BY <1>1, <1>2, NoFlushHolds, CaptureAssumption DEF IInv, TypeOK, Entries, NoEntry
<1>4. EntryHolds' /\ SegmentHolds'
  BY <1>1 DEF IInv, EntryHolds, SegmentHolds, NoEntry
<1>5. FlushHolds'
  BY <1>1, NoFlushHolds DEF FlushHolds
<1>. QED
  BY <1>3, <1>4, <1>5 DEF IInv

\* The invariant says of what Eventarc has due, of the key version and of the
\* faults only their types.
LEMMA FrameIInv ==
  ASSUME IInv, UNCHANGED <<keyed, acked, entry, flush, segment>>,
         due' \in SUBSET Events, version' \in 1..MaxVersion, faults' \in Nat
  PROVE  IInv'
<1>1. TypeOK'
  BY DEF IInv, TypeOK
<1>2. EntryHolds' /\ FlushHolds' /\ SegmentHolds'
  BY DEF IInv, EntryHolds, FlushHolds, SegmentHolds
<1>. QED
  BY <1>1, <1>2 DEF IInv

\* Every step keeps the invariant.
LEMMA StepIInv == IInv /\ [Next]_vars => IInv'
<1> SUFFICES ASSUME IInv, [Next]_vars PROVE IInv'
  OBVIOUS
<1>1. CASE \E e \in Events : Deliver(e)
  BY <1>1, DeliverIInv
<1>2. CASE \E f \in Flushes : FlushStart(f)
  BY <1>2, FlushStartIInv
<1>3. CASE \E f \in Flushes, e \in Events : MergeSnapshot(f, e)
  BY <1>3, MergeSnapshotIInv
<1>4. CASE \E f \in Flushes : Commit(f)
  BY <1>4, CommitIInv
<1>5. CASE \E f \in Flushes : Resolve(f)
  BY <1>5, ResolveIInv
<1>6. CASE \E f \in Flushes : FlushFails(f)
  BY <1>6, FlushFailsIInv
<1>7. CASE \E e \in Events : TimeOut(e)
  BY <1>7, TimeOutIInv
<1>8. CASE InstanceDies
  BY <1>8, InstanceDiesIInv
<1>9. CASE \E e \in Events : Duplicate(e)
  BY <1>9, FrameIInv DEF Duplicate, Fault, IInv, TypeOK
<1>10. CASE Rotate
  BY <1>10, FrameIInv, CaptureAssumption DEF Rotate, IInv, TypeOK
<1>11. CASE UNCHANGED vars
  BY <1>11, FrameIInv DEF vars, IInv, TypeOK
<1>. QED
  BY <1>1, <1>2, <1>3, <1>4, <1>5, <1>6, <1>7, <1>8, <1>9, <1>10, <1>11 DEF Next

\* The invariant holds of every reachable state.
LEMMA Invariant == Spec => []IInv
BY InitIInv, StepIInv, PTL DEF Spec

(***************************************************************************)
(* Theorems.                                                               *)
(***************************************************************************)
\* Every reachable state of the capture is well typed.
THEOREM TypeCorrect == Spec => []TypeOK
<1>1. IInv => TypeOK
  BY DEF IInv
<1>. QED
  BY <1>1, Invariant, PTL

\* A delivery that ended well has its evidence in the segment.
THEOREM NoEvidenceLost == Spec => []AckedEvidenceStored
<1>1. IInv => AckedEvidenceStored
  <2> SUFFICES ASSUME IInv, NEW e \in acked
               PROVE  segment # NoSegment /\ Covers(segment, Evidence(e, 1))
    BY DEF AckedEvidenceStored
  <2>1. segment \in Segments /\ Covers(segment, Says(keyed, e))
    BY DEF IInv, SegmentHolds, HasAll
  <2>. QED
    BY <2>1, SegmentsExist DEF Says, Evidence
<1>. QED
  BY <1>1, Invariant, PTL

\* A paired segment begins before it succeeds and succeeds before it is last seen.
THEOREM DatesInOrder == Spec => []TimesOrdered
<1>1. IInv => TimesOrdered
  BY DEF IInv, SegmentHolds, Sound, TimesOrdered, NoSegment
<1>. QED
  BY <1>1, Invariant, PTL

\* The segment only gains evidence and keeps its pseudonym.
THEOREM CaptureIsMonotone == Spec => EvidenceGrows
<1> DEFINE Gain == /\ Covers(segment', segment)
                   /\ segment.pairing # NoPairing => segment'.pairing = segment.pairing
<1>1. ASSUME IInv, Next
      PROVE  Gain
  <2>1. CASE \E f \in Flushes : Commit(f)
    BY <1>1, <2>1, CommitFacts
  <2>2. CASE UNCHANGED segment
    BY <1>1, <2>2, CoversItself DEF IInv, TypeOK
  <2>. QED
    BY <1>1, <2>1, <2>2
    DEF Next, Deliver, FlushStart, MergeSnapshot, Resolve, FlushFails, TimeOut,
        InstanceDies, Duplicate, Rotate
<1>2. IInv /\ [Next]_vars => [Gain]_vars
  BY <1>1
<1>. QED
  BY <1>2, Invariant, PTL DEF Spec, EvidenceGrows

\* A member below all others is the least, one above all others the greatest.
LEMMA LeastIs ==
  ASSUME NEW S, S \subseteq Int, NEW m \in S, \A y \in S : m <= y
  PROVE  Least(S) = m
<1>1. PICK c \in S : c = Least(S) /\ \A y \in S : c <= y
  BY DEF Least
<1>2. c <= m /\ m <= c /\ c \in Int /\ m \in Int
  BY <1>1
<1>. QED
  BY <1>1, <1>2

\* The same for the greatest.
LEMMA GreatestIs ==
  ASSUME NEW S, S \subseteq Int, NEW m \in S, \A y \in S : m >= y
  PROVE  Greatest(S) = m
<1>1. PICK c \in S : c = Greatest(S) /\ \A y \in S : c >= y
  BY DEF Greatest
<1>2. c <= m /\ m <= c /\ c \in Int /\ m \in Int
  BY <1>1
<1>. QED
  BY <1>1, <1>2

\* A premium that one of the versions carries and that covers all of them is the
\* best of them.
LEMMA BestIs ==
  ASSUME NEW P \in SUBSET Premiums, NEW p \in P, \A q \in P : PremiumCovers(p, q)
  PROVE  Best(P) = p
BY DEF Best, Premiums, PremiumCovers

\* Once every version has been captured the segment of a paired session is the
\* summary of all versions at once.
THEOREM CaptureIsAJoin == Spec => []SameWhateverTheOrder
<1>1. ASSUME IInv, keyed, acked = Events, Events # {}
      PROVE  /\ segment.createdAt = Least({CreatedTime(Source[e]) : e \in Events})
             /\ segment.lastRelevantAt = Greatest({Source[e].observedAt : e \in Events})
             /\ segment.successAt = IF Successful = {} THEN Absent
                                    ELSE Least({Source[e].observedAt : e \in Successful})
             /\ segment.facts = UNION {Source[e].facts : e \in Events}
             /\ segment.babyPremium = Best({Source[e].babyPremium : e \in Events})
             /\ segment.parentPremium = Best({Source[e].parentPremium : e \in Events})
  <2>1. PICK e0 \in Events : TRUE
    BY <1>1
  <2>2. /\ segment \in Segments
        /\ \A e \in Events : Covers(segment, Project(Source[e], 1))
    BY <1>1, <2>1 DEF IInv, SegmentHolds, HasAll, Says
  <2>3. segment # NoSegment /\ segment.pairing # NoPairing
    BY <1>1, <2>2, SegmentsExist DEF IInv, SegmentHolds, Sound
  <2>4. /\ \E e \in Events : segment.createdAt = CreatedTime(Source[e])
        /\ \E e \in Events : segment.lastRelevantAt = Source[e].observedAt
        /\ segment.successAt # Absent =>
             \E e \in Successful : segment.successAt = Source[e].observedAt
        /\ \A fact \in segment.facts : \E e \in Events : fact \in Source[e].facts
        /\ segment.babyPremium \in {Source[e].babyPremium : e \in Events}
        /\ segment.parentPremium \in {Source[e].parentPremium : e \in Events}
    BY <1>1, <2>3 DEF IInv, SegmentHolds, Sound
  <2>5. \A e \in Events : Source[e] \in Sources
    BY CaptureAssumption
  <2>6. \A e \in Events :
          /\ segment.createdAt <= CreatedTime(Source[e])
          /\ Source[e].observedAt <= segment.lastRelevantAt
          /\ SuccessTime(Source[e]) # Absent =>
               segment.successAt # Absent /\ segment.successAt <= SuccessTime(Source[e])
          /\ Source[e].facts \subseteq segment.facts
          /\ PremiumCovers(segment.babyPremium, Source[e].babyPremium)
          /\ PremiumCovers(segment.parentPremium, Source[e].parentPremium)
    BY <2>2 DEF Covers, Project, NoPairing
  <2>7. segment.createdAt = Least({CreatedTime(Source[e]) : e \in Events})
    <3> DEFINE S == {CreatedTime(Source[e]) : e \in Events}
    <3>1. S \subseteq Int /\ segment.createdAt \in S /\ \A y \in S : segment.createdAt <= y
      BY <2>4, <2>6, CreatedTimeType
    <3> HIDE DEF S
    <3>2. Least(S) = segment.createdAt
      BY <3>1, LeastIs
    <3>. QED
      BY <3>2 DEF S
  <2>8. segment.lastRelevantAt = Greatest({Source[e].observedAt : e \in Events})
    <3> DEFINE S == {Source[e].observedAt : e \in Events}
    <3>1. S \subseteq Int /\ segment.lastRelevantAt \in S
          /\ \A y \in S : segment.lastRelevantAt >= y
      BY <2>2, <2>4, <2>5, <2>6 DEF Sources, Segments
    <3> HIDE DEF S
    <3>2. Greatest(S) = segment.lastRelevantAt
      BY <3>1, GreatestIs
    <3>. QED
      BY <3>2 DEF S
  <2>10. segment.facts = UNION {Source[e].facts : e \in Events}
    BY <2>4, <2>6
  <2>11. segment.babyPremium = Best({Source[e].babyPremium : e \in Events})
    <3> DEFINE P == {Source[e].babyPremium : e \in Events}
    <3>1. P \in SUBSET Premiums /\ segment.babyPremium \in P
          /\ \A q \in P : PremiumCovers(segment.babyPremium, q)
      BY <2>4, <2>5, <2>6 DEF Sources
    <3> HIDE DEF P
    <3>2. Best(P) = segment.babyPremium
      BY <3>1, BestIs
    <3>. QED
      BY <3>2 DEF P
  <2>12. segment.parentPremium = Best({Source[e].parentPremium : e \in Events})
    <3> DEFINE P == {Source[e].parentPremium : e \in Events}
    <3>1. P \in SUBSET Premiums /\ segment.parentPremium \in P
          /\ \A q \in P : PremiumCovers(segment.parentPremium, q)
      BY <2>4, <2>5, <2>6 DEF Sources
    <3> HIDE DEF P
    <3>2. Best(P) = segment.parentPremium
      BY <3>1, BestIs
    <3>. QED
      BY <3>2 DEF P
  <2>9. segment.successAt = IF Successful = {} THEN Absent
                             ELSE Least({Source[e].observedAt : e \in Successful})
    <3>1. CASE Successful = {}
      BY <2>4, <3>1
    <3>2. CASE Successful # {}
      <4> DEFINE S == {Source[e].observedAt : e \in Successful}
      <4>1. \A e \in Successful : /\ e \in Events
                                  /\ SuccessTime(Source[e]) = Source[e].observedAt
                                  /\ Source[e].observedAt # Absent
        BY <2>5 DEF Successful, SuccessTime, Sources, Absent
      <4>2. segment.successAt # Absent
        BY <2>6, <3>2, <4>1
      <4>3. S \subseteq Int /\ segment.successAt \in S /\ \A y \in S : segment.successAt <= y
        BY <2>4, <2>5, <2>6, <4>1, <4>2 DEF Sources
      <4> HIDE DEF S
      <4>4. Least(S) = segment.successAt
        BY <4>3, LeastIs
      <4>. QED
        BY <3>2, <4>4 DEF S
    <3>. QED
      BY <3>1, <3>2
  <2>. QED
    BY <2>7, <2>8, <2>9, <2>10, <2>11, <2>12
<1>2. IInv => SameWhateverTheOrder
  BY <1>1 DEF SameWhateverTheOrder
<1>. QED
  BY <1>2, Invariant, PTL
=============================================================================
