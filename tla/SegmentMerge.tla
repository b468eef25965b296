----------------------------- MODULE SegmentMerge -----------------------------
(***************************************************************************)
(* One raw session's analytics segment and how evidence is merged into it  *)
(* (functions/lib/session_analytics_helpers.js: buildSegmentProjection,    *)
(* mergeSegment, segmentEvidenceSignature; session_analytics_service.js:   *)
(* the coverage record of captureSessionSnapshots).                        *)
(*                                                                         *)
(* Instants are naturals.  The pseudonym of the pairing is identified with *)
(* the key version it was computed under: one raw session keeps its        *)
(* pairingDocKey.  The Boolean fields of a segment are the set of those    *)
(* that are true.  Days are left out: createdDay, successDay and           *)
(* continuedDays are functions of the three dates.                         *)
(***************************************************************************)
EXTENDS Integers

CONSTANT MaxAge   \* MAX_RAW_SESSION_AGE_MS

ASSUME MaxAgeAssumption == MaxAge \in Nat

\* A date that is null.
Absent == -1

\* pairingId: null.
NoPairing == 0

\* What makes a segment successful.
SuccessFacts == {"everConnected", "signalingCleared", "activeTurnObserved"}

Facts == SuccessFacts \cup {"fullReconnect", "explicitUserEnd"}

Premiums == {"missing", "false", "true"}

\* A version of the sessions document, as an event carries it; createdAt is
\* the client's.
Sources == [observedAt : Nat, createdAt : Int, facts : SUBSET Facts,
            babyPremium : Premiums, parentPremium : Premiums]

Segments == [pairing : Nat, createdAt : Nat, lastRelevantAt : Nat,
             successAt : Nat \cup {Absent}, facts : SUBSET Facts,
             babyPremium : Premiums, parentPremium : Premiums,
             sourceUpdateTime : Nat]

\* null, or a document that does not exist.
NoSegment == [pairing |-> NoPairing, createdAt |-> 0, lastRelevantAt |-> 0,
              successAt |-> Absent, facts |-> {}, babyPremium |-> "missing",
              parentPremium |-> "missing", sourceUpdateTime |-> Absent]

\* Mutant of MinDate: the date that is there already stays.
MinDateFirst(a, b) == IF a = Absent THEN b ELSE a

MinDate(a, b) == IF a = Absent THEN b
                 ELSE IF b = Absent \/ a < b THEN a ELSE b

MaxDate(a, b) == IF a < b THEN b ELSE a

\* Mutant of MergePremium: the later known value wins.
MergePremiumLatest(p, q) == IF q = "missing" THEN p ELSE q

MergePremium(p, q) ==
  IF "true" \in {p, q} THEN "true" ELSE IF "false" \in {p, q} THEN "false" ELSE "missing"

SuccessTime(source) ==
  IF source.facts \cap SuccessFacts # {} THEN source.observedAt ELSE Absent

\* Mutant of CreatedTime: the client's createdAt is taken as it is.
CreatedTimeTrusted(source) == MaxDate(source.createdAt, 0)

\* The client's createdAt counts only inside the session's lifetime.
CreatedTime(source) ==
  IF source.createdAt \in 0..source.observedAt
     /\ source.createdAt >= source.observedAt - MaxAge
  THEN source.createdAt ELSE source.observedAt

\* buildSegmentProjection.
Project(source, version) ==
  [pairing |-> version, createdAt |-> CreatedTime(source),
   lastRelevantAt |-> source.observedAt, successAt |-> SuccessTime(source),
   facts |-> source.facts, babyPremium |-> source.babyPremium,
   parentPremium |-> source.parentPremium, sourceUpdateTime |-> source.observedAt]

\* mergeSegment.
Merge(existing, incoming) ==
  IF existing = NoSegment THEN incoming
  ELSE LET x == existing  y == incoming IN
    [pairing |-> IF x.pairing = NoPairing THEN y.pairing ELSE x.pairing,
     createdAt |-> MinDate(x.createdAt, y.createdAt),
     lastRelevantAt |-> MaxDate(x.lastRelevantAt, y.lastRelevantAt),
     successAt |-> MinDate(x.successAt, y.successAt),
     facts |-> x.facts \cup y.facts,
     babyPremium |-> MergePremium(x.babyPremium, y.babyPremium),
     parentPremium |-> MergePremium(x.parentPremium, y.parentPremium),
     sourceUpdateTime |-> MaxDate(x.sourceUpdateTime, y.sourceUpdateTime)]

\* segmentEvidenceSignature: everything but the source version.
Signature(x) ==
  <<x.pairing, x.createdAt, x.lastRelevantAt, x.successAt, x.facts,
    x.babyPremium, x.parentPremium>>

\* The record of a document without a usable pairingDocKey, from one version:
\* no premium, no reconnect, no end.
Coverage(source) ==
  [pairing |-> NoPairing, createdAt |-> source.observedAt,
   lastRelevantAt |-> source.observedAt, successAt |-> SuccessTime(source),
   facts |-> source.facts \cap SuccessFacts,
   babyPremium |-> "missing", parentPremium |-> "missing",
   sourceUpdateTime |-> source.observedAt]

\* ... and from several in one batch: created when last observed.
Cover(x, y) ==
  IF x = NoSegment THEN y
  ELSE [Merge(x, y) EXCEPT !.createdAt = MaxDate(x.createdAt, y.createdAt)]

PremiumCovers(q, p) == p = "missing" \/ q = "true" \/ p = q

\* Segment y has at least the evidence of segment x.  What a coverage record
\* calls createdAt is not evidence: it depends on the batches.
Covers(y, x) ==
  /\ x.pairing # NoPairing => y.pairing # NoPairing /\ y.createdAt <= x.createdAt
  /\ x.lastRelevantAt <= y.lastRelevantAt
  /\ x.successAt # Absent => y.successAt # Absent /\ y.successAt <= x.successAt
  /\ x.facts \subseteq y.facts
  /\ PremiumCovers(y.babyPremium, x.babyPremium)
  /\ PremiumCovers(y.parentPremium, x.parentPremium)
  /\ x.sourceUpdateTime <= y.sourceUpdateTime
=============================================================================
