---------------------------- MODULE SegmentCapture ----------------------------
(***************************************************************************)
(* The capture of one raw session's evidence (functions/index.js:          *)
(* captureSessionAnalyticsSegment, enqueueSessionAnalyticsCapture;         *)
(* session_analytics_service.js: captureSessionSnapshots).  Eventarc       *)
(* delivers every relevant version of the session at least once and in any *)
(* order to the one instance (maxInstances: 1).  Versions that arrive      *)
(* before eight quiet seconds have passed share a debounce entry; a flush  *)
(* takes the entry out of the map, merges its snapshots and merges the     *)
(* result into the segment in a transaction; the deliveries that wait on   *)
(* the entry end with the flush.                                           *)
(*                                                                         *)
(* The markers that follow the transaction are the subject of DirtyDays;   *)
(* capture is enabled throughout (disabled, it drops what it is sent).     *)
(***************************************************************************)
EXTENDS SegmentMerge

CONSTANTS
  Events,      \* the relevant versions of the session
  Source,      \* [Events -> Sources]
  Flushes,     \* flushes that may overlap
  MaxVersion,  \* bound on hmacKeyVersion
  MaxFaults    \* bound on failures, timeouts, dead instances and duplicates

ASSUME CaptureAssumption ==
  /\ Source \in [Events -> Sources]
  /\ MaxVersion \in Nat \ {0}
  /\ MaxFaults \in Nat

VARIABLES
  keyed,     \* the session has a pairingDocKey; the rules pin it
  version,   \* hmacKeyVersion as the instance's config cache has it
  due,       \* events Eventarc has still to deliver, or deliver again
  acked,     \* events whose delivery has ended well at least once
  entry,     \* _sessionAnalyticsPendingCaptures.get(sessionId)
  flush,     \* the flushes in hand
  segment,   \* session_analytics_segments/{sessionId}
  faults

vars == <<keyed, version, due, acked, entry, flush, segment, faults>>

Entries == [open : BOOLEAN, version : 1..MaxVersion, snapshots : SUBSET Events,
            waiters : SUBSET Events]

NoEntry == [open |-> FALSE, version |-> 1, snapshots |-> {}, waiters |-> {}]

\* "merge": the snapshots in todo are still to be merged into incoming; "mark":
\* the transaction has committed.
FlushRecords == [pc : {"idle", "merge", "mark"}, version : 1..MaxVersion,
                 snapshots : SUBSET Events, todo : SUBSET Events,
                 waiters : SUBSET Events, incoming : Segments \cup {NoSegment}]

NoFlush == [pc |-> "idle", version |-> 1, snapshots |-> {}, todo |-> {},
            waiters |-> {}, incoming |-> NoSegment]

Init ==
  /\ keyed \in BOOLEAN
  /\ version = 1
  /\ due = Events
  /\ acked = {}
  /\ entry = NoEntry
  /\ flush = [f \in Flushes |-> NoFlush]
  /\ segment = NoSegment
  /\ faults = 0

(***************************************************************************)
(* The debounce.                                                           *)
(***************************************************************************)
\* Mutant of Deliver: the entry stays in the map while it is flushed, and an
\* event that arrives meanwhile waits for that flush.
DeliverIntoFlush(e) ==
  /\ e \in due
  /\ due' = due \ {e}
  /\ IF \E f \in Flushes : flush[f].pc # "idle"
     THEN /\ flush' = [f \in Flushes |->
                         IF flush[f].pc = "idle" THEN flush[f]
                         ELSE [flush[f] EXCEPT !.waiters = @ \cup {e}]]
          /\ UNCHANGED entry
     ELSE /\ entry' = [open |-> TRUE, version |-> version,
                       snapshots |-> entry.snapshots \cup {e},
                       waiters |-> entry.waiters \cup {e}]
          /\ UNCHANGED flush
  /\ UNCHANGED <<keyed, version, acked, segment, faults>>

\* enqueueSessionAnalyticsCapture; the entry keeps the config of its first event.
Deliver(e) ==
  /\ e \in due
  /\ due' = due \ {e}
  /\ entry' = [open |-> TRUE, version |-> IF entry.open THEN entry.version ELSE version,
               snapshots |-> entry.snapshots \cup {e},
               waiters |-> entry.waiters \cup {e}]
  /\ UNCHANGED <<keyed, version, acked, flush, segment, faults>>

\* The timer fires; the entry leaves the map before anything is read.
FlushStart(f) ==
  /\ entry.open
  /\ flush[f].pc = "idle"
  /\ flush' = [flush EXCEPT ![f] = [pc |-> "merge", version |-> entry.version,
                                    snapshots |-> entry.snapshots,
                                    todo |-> entry.snapshots,
                                    waiters |-> entry.waiters,
                                    incoming |-> NoSegment]]
  /\ entry' = NoEntry
  /\ UNCHANGED <<keyed, version, due, acked, segment, faults>>

(***************************************************************************)
(* captureSessionSnapshots.                                                *)
(***************************************************************************)
\* What one version of the session says.
Evidence(e, v) == IF keyed THEN Project(Source[e], v) ELSE Coverage(Source[e])

Batch(x, y) == IF keyed THEN Merge(x, y) ELSE Cover(x, y)

\* One round of the loop over the snapshots; deliveries arrive in any order,
\* and so do the rounds.
MergeSnapshot(f, e) ==
  /\ flush[f].pc = "merge"
  /\ e \in flush[f].todo
  /\ flush' = [flush EXCEPT ![f].todo = @ \ {e},
                            ![f].incoming = Batch(@, Evidence(e, flush[f].version))]
  /\ UNCHANGED <<keyed, version, due, acked, entry, segment, faults>>

\* The transaction; evidence that changes nothing is not written.
Commit(f) ==
  LET merged == Merge(segment, flush[f].incoming)
  IN /\ flush[f].pc = "merge"
     /\ flush[f].todo = {}
     /\ segment' = IF segment # NoSegment /\ Signature(merged) = Signature(segment)
                   THEN segment ELSE merged
     /\ flush' = [flush EXCEPT ![f].pc = "mark"]
     /\ UNCHANGED <<keyed, version, due, acked, entry, faults>>

\* The markers are written and the entry's promise resolves.
Resolve(f) ==
  /\ flush[f].pc = "mark"
  /\ acked' = acked \cup flush[f].waiters
  /\ flush' = [flush EXCEPT ![f] = NoFlush]
  /\ UNCHANGED <<keyed, version, due, entry, segment, faults>>

(***************************************************************************)
(* What may go wrong.                                                      *)
(***************************************************************************)
Fault ==
  /\ faults < MaxFaults
  /\ faults' = faults + 1

\* Mutants of FlushFails: without retry; the failed flush stays in hand.
FlushFailsUnretried(f) ==
  /\ Fault
  /\ flush[f].pc # "idle"
  /\ flush' = [flush EXCEPT ![f] = NoFlush]
  /\ UNCHANGED <<keyed, version, due, acked, entry, segment>>

FlushFailsStuck(f) ==
  /\ Fault
  /\ flush[f].pc # "idle"
  /\ due' = due \cup flush[f].waiters
  /\ flush' = [flush EXCEPT ![f].pc = "failed"]
  /\ UNCHANGED <<keyed, version, acked, entry, segment>>

\* The transaction or a marker throws: every waiter fails and is delivered
\* again (retry: true).
FlushFails(f) ==
  /\ Fault
  /\ flush[f].pc # "idle"
  /\ due' = due \cup flush[f].waiters
  /\ flush' = [flush EXCEPT ![f] = NoFlush]
  /\ UNCHANGED <<keyed, version, acked, entry, segment>>

\* A delivery reaches its 120 s; its snapshot stays where it is.
TimeOut(e) ==
  /\ Fault
  /\ \/ e \in entry.waiters
     \/ \E f \in Flushes : e \in flush[f].waiters
  /\ due' = due \cup {e}
  /\ entry' = [entry EXCEPT !.waiters = @ \ {e}]
  /\ flush' = [f \in Flushes |-> [flush[f] EXCEPT !.waiters = @ \ {e}]]
  /\ UNCHANGED <<keyed, version, acked, segment>>

\* The map and the flushes are gone; the deliveries fail.
InstanceDies ==
  /\ Fault
  /\ due' = due \cup entry.waiters \cup UNION {flush[f].waiters : f \in Flushes}
  /\ entry' = NoEntry
  /\ flush' = [f \in Flushes |-> NoFlush]
  /\ UNCHANGED <<keyed, version, acked, segment>>

\* At-least-once delivery.
Duplicate(e) ==
  /\ Fault
  /\ e \in acked
  /\ due' = due \cup {e}
  /\ UNCHANGED <<keyed, version, acked, entry, flush, segment>>

\* The config cache reads a new hmacKeyVersion.
Rotate ==
  /\ version < MaxVersion
  /\ version' = version + 1
  /\ UNCHANGED <<keyed, due, acked, entry, flush, segment, faults>>

Next ==
  \/ \E e \in Events : Deliver(e)
  \/ \E f \in Flushes : FlushStart(f)
  \/ \E f \in Flushes, e \in Events : MergeSnapshot(f, e)
  \/ \E f \in Flushes : Commit(f)
  \/ \E f \in Flushes : Resolve(f)
  \/ \E f \in Flushes : FlushFails(f)
  \/ \E e \in Events : TimeOut(e)
  \/ InstanceDies
  \/ \E e \in Events : Duplicate(e)
  \/ Rotate

Spec == Init /\ [][Next]_vars

\* Eventarc delivers what is due; its backoff (10 s and more) leaves the eight
\* quiet seconds a timer needs; a flush goes on until it ends or fails.
Fairness ==
  /\ \A e \in Events : WF_vars(Deliver(e))
  /\ \A f \in Flushes :
       /\ WF_vars(FlushStart(f))
       /\ \A e \in Events : WF_vars(MergeSnapshot(f, e))
       /\ WF_vars(Commit(f))
       /\ WF_vars(Resolve(f))

FairSpec == Spec /\ Fairness

(***************************************************************************)
(* Properties.                                                             *)
(***************************************************************************)
\* Every variable has the shape the code gives it.
TypeOK ==
  /\ keyed \in BOOLEAN
  /\ version \in 1..MaxVersion
  /\ due \in SUBSET Events
  /\ acked \in SUBSET Events
  /\ entry \in Entries
  /\ flush \in [Flushes -> FlushRecords]
  /\ segment \in Segments \cup {NoSegment}
  /\ faults \in Nat

\* "An event racing with this flush gets its own trailing capture": a delivery
\* that has ended well has its evidence in the segment, whatever batch, flush,
\* timeout or dead instance it went through.
AckedEvidenceStored ==
  \A e \in acked : segment # NoSegment /\ Covers(segment, Evidence(e, 1))

Least(S) == CHOOSE x \in S : \A y \in S : x <= y

Greatest(S) == CHOOSE x \in S : \A y \in S : x >= y

Best(premiums) == IF "true" \in premiums THEN "true"
                  ELSE IF "false" \in premiums THEN "false" ELSE "missing"

Successful == {e \in Events : Source[e].facts \cap SuccessFacts # {}}

\* "Monotone merge makes the two writes safe in any order": when every version
\* has been captured, the segment of a paired session is the summary of all
\* versions at once, whatever the order, the batches, the duplicates and the
\* failures on the way.
SameWhateverTheOrder ==
  keyed /\ acked = Events /\ Events # {} =>
    /\ segment.createdAt = Least({CreatedTime(Source[e]) : e \in Events})
    /\ segment.lastRelevantAt = Greatest({Source[e].observedAt : e \in Events})
    /\ segment.successAt = IF Successful = {} THEN Absent
                           ELSE Least({Source[e].observedAt : e \in Successful})
    /\ segment.facts = UNION {Source[e].facts : e \in Events}
    /\ segment.babyPremium = Best({Source[e].babyPremium : e \in Events})
    /\ segment.parentPremium = Best({Source[e].parentPremium : e \in Events})

\* What groupSegments relies on: a paired segment begins before it succeeds and
\* succeeds before it is last seen, although the client's createdAt may be any
\* number.
TimesOrdered ==
  segment.pairing # NoPairing =>
    /\ segment.createdAt <= segment.lastRelevantAt
    /\ segment.successAt # Absent =>
         segment.createdAt <= segment.successAt /\ segment.successAt <= segment.lastRelevantAt

\* A stored segment only gains evidence, and its pseudonym is never replaced, not
\* even by a flush that projects with a later key version.
EvidenceGrows ==
  [][/\ Covers(segment', segment)
     /\ segment.pairing # NoPairing => segment'.pairing = segment.pairing]_vars

\* Every relevant version is captured in the end.
EveryEventAcked == \A e \in Events : <>(e \in acked)
=============================================================================
