----------------------------- MODULE DirtyDays ------------------------------
(***************************************************************************)
(* The dirty-day marker protocol of the session analytics, for one day     *)
(* (functions/lib/session_analytics_service.js).  Captures store evidence  *)
(* in segment documents and then raise the marker of the day; the          *)
(* aggregation queries the segments, writes the daily aggregate and lowers *)
(* the marker when it is no newer than the aggregation's start.  The       *)
(* markers of different days are separate documents written by separate    *)
(* calls, so a capture that dies between two of them is, for each day, one *)
(* that dies before or after its write: one day shows every case.          *)
(*                                                                         *)
(* An event is one Eventarc delivery with the evidence it carries; it is   *)
(* redelivered (retry: true) until a capture of it ends well.  Merging is  *)
(* a union of evidence: what merging computes is the subject of a module   *)
(* of its own.                                                             *)
(***************************************************************************)
EXTENDS Integers, FiniteSets

CONSTANTS
  Events,       \* deliveries, each with its own piece of evidence
  Sessions,     \* segment documents
  SessionOf,    \* [Events -> Sessions]
  Workers,      \* captures that may overlap (concurrency: 80)
  CompleteAt,   \* the day's end + 24 h: isCompleteDay from here on
  MaxFailures,  \* bound on captures and aggregations that die
  MaxClock,     \* bound on the clock, in Tick only
  NoEvent

ASSUME DirtyDaysAssumption ==
  /\ SessionOf \in [Events -> Sessions]
  /\ NoEvent \notin Events
  /\ CompleteAt \in Nat /\ MaxFailures \in Nat /\ MaxClock \in Nat

\* An absent marker: older than any instant.
Never == -1

VARIABLES
  clock,
  segment,    \* session_analytics_segments/{sessionId}
  dirtyAt,    \* session_analytics_dirty_days/{day}.dirtyAt, Never if absent
  daily,      \* the evidence reflected in session_analytics_daily/{day}
  pending,    \* events not yet acknowledged
  capture,    \* the capture in hand of each worker
  agg,        \* the aggregation run
  failures

vars == <<clock, segment, dirtyAt, daily, pending, capture, agg, failures>>

Segments == [evidence : SUBSET Events, capturedAt : Nat]

\* "commit": now sampled, fact transaction to run; "refresh" and "repair": the
\* transaction has committed, changed or unchanged; "set" and "ensure": the
\* same with dirtyObservedAt sampled.
Captures == [pc : {"idle", "commit", "refresh", "repair", "set", "ensure"},
             event : Events \cup {NoEvent}, now : Nat,
             capturedAt : Nat, dirtyObservedAt : Nat]

NoCapture == [pc |-> "idle", event |-> NoEvent, now |-> 0,
              capturedAt |-> 0, dirtyObservedAt |-> 0]

Aggregations == [pc : {"idle", "query", "write", "clear"}, now : Nat,
                 found : SUBSET Events]

NoAggregation == [pc |-> "idle", now |-> 0, found |-> {}]

Init ==
  /\ clock = 0
  /\ segment = [s \in Sessions |-> [evidence |-> {}, capturedAt |-> 0]]
  /\ dirtyAt = Never
  /\ daily = {}
  /\ pending = Events
  /\ capture = [w \in Workers |-> NoCapture]
  /\ agg = NoAggregation
  /\ failures = 0

Tick ==
  /\ clock < MaxClock
  /\ clock' = clock + 1
  /\ UNCHANGED <<segment, dirtyAt, daily, pending, capture, agg, failures>>

(***************************************************************************)
(* captureSessionSnapshots.  Every Firestore call is a round trip: what    *)
(* comes after it is later than what was sampled before it.                *)
(***************************************************************************)
InHand(e) == \E w \in Workers : capture[w].event = e

CaptureStart(w, e) ==
  /\ capture[w].pc = "idle"
  /\ e \in pending
  /\ ~ InHand(e)
  /\ capture' = [capture EXCEPT ![w] = [NoCapture EXCEPT !.pc = "commit", !.event = e,
                                                         !.now = clock]]
  /\ UNCHANGED <<clock, segment, dirtyAt, daily, pending, agg, failures>>

\* The fact transaction: merge, and store only evidence that changes.
CaptureCommit(w) ==
  LET c == capture[w]
      s == SessionOf[c.event]
      known == c.event \in segment[s].evidence
  IN /\ c.pc = "commit"
     /\ clock > c.now
     /\ segment' = IF known THEN segment
                   ELSE [segment EXCEPT ![s] = [evidence |-> @.evidence \cup {c.event},
                                                capturedAt |-> c.now]]
     /\ capture' = [capture EXCEPT ![w].pc = IF known THEN "repair" ELSE "refresh",
                                   ![w].capturedAt = segment'[s].capturedAt]
     /\ UNCHANGED <<clock, dirtyAt, daily, pending, agg, failures>>

\* dirtyObservedAt = new Date(), only after the commit.
CaptureSample(w) ==
  /\ capture[w].pc \in {"refresh", "repair"}
  /\ capture' = [capture EXCEPT ![w].pc = IF @ = "refresh" THEN "set" ELSE "ensure",
                                ![w].dirtyObservedAt = clock]
  /\ UNCHANGED <<clock, segment, dirtyAt, daily, pending, agg, failures>>

\* markDirtyDays(.., refresh = true): a blind set, whatever the marker holds.
MarkDirty(w) ==
  /\ capture[w].pc = "set"
  /\ clock > capture[w].dirtyObservedAt
  /\ dirtyAt' = capture[w].dirtyObservedAt
  /\ pending' = pending \ {capture[w].event}
  /\ capture' = [capture EXCEPT ![w] = NoCapture]
  /\ UNCHANGED <<clock, segment, daily, agg, failures>>

\* Mutant of EnsureDirty: any marker that is there will do.
EnsureDirtyIfAbsent(w) ==
  /\ capture[w].pc = "ensure"
  /\ clock > capture[w].dirtyObservedAt
  /\ dirtyAt' = IF dirtyAt # Never THEN dirtyAt ELSE capture[w].dirtyObservedAt
  /\ pending' = pending \ {capture[w].event}
  /\ capture' = [capture EXCEPT ![w] = NoCapture]
  /\ UNCHANGED <<clock, segment, daily, agg, failures>>

\* ensureDirtyDaysAtLeast: a retry writes only over a marker older than the
\* stored fact.
EnsureDirty(w) ==
  /\ capture[w].pc = "ensure"
  /\ clock > capture[w].dirtyObservedAt
  /\ dirtyAt' = IF dirtyAt >= capture[w].capturedAt THEN dirtyAt
                ELSE capture[w].dirtyObservedAt
  /\ pending' = pending \ {capture[w].event}
  /\ capture' = [capture EXCEPT ![w] = NoCapture]
  /\ UNCHANGED <<clock, segment, daily, agg, failures>>

\* Mutant of CaptureFails: the worker is never free again.
CaptureFailsStuck(w) ==
  /\ capture[w].pc # "idle"
  /\ failures < MaxFailures
  /\ failures' = failures + 1
  /\ capture' = [capture EXCEPT ![w].pc = "failed"]
  /\ UNCHANGED <<clock, segment, dirtyAt, daily, pending, agg>>

\* An exception or a dead instance: Eventarc redelivers the event.
CaptureFails(w) ==
  /\ capture[w].pc # "idle"
  /\ failures < MaxFailures
  /\ failures' = failures + 1
  /\ capture' = [capture EXCEPT ![w] = NoCapture]
  /\ UNCHANGED <<clock, segment, dirtyAt, daily, pending, agg>>

(***************************************************************************)
(* runScheduledAggregation and aggregateDayUnlocked for this day.  One run *)
(* at a time works on it: see DayLease.                                    *)
(***************************************************************************)
Complete(now) == now >= CompleteAt

\* The day is taken up while it is yesterday (and not yet complete), later
\* only for its marker.
AggStart ==
  /\ agg.pc = "idle"
  /\ dirtyAt # Never \/ ~ Complete(clock)
  /\ agg' = [NoAggregation EXCEPT !.pc = "query", !.now = clock]
  /\ UNCHANGED <<clock, segment, dirtyAt, daily, pending, capture, failures>>

\* Mutant of AggQuery: an incremental query, for segments stored since the
\* marker was raised.
AggQuerySinceMarker ==
  /\ agg.pc = "query"
  /\ clock > agg.now
  /\ LET found == UNION {segment[s].evidence :
                           s \in {t \in Sessions : segment[t].capturedAt >= dirtyAt}}
     IN agg' = [agg EXCEPT !.found = found,
                           !.pc = IF found = {} THEN "clear" ELSE "write"]
  /\ UNCHANGED <<clock, segment, dirtyAt, daily, pending, capture, failures>>

\* querySegmentsForDay, after the config, marker and lease round trips.
AggQuery ==
  /\ agg.pc = "query"
  /\ clock > agg.now
  /\ LET found == UNION {segment[s].evidence : s \in Sessions}
     IN agg' = [agg EXCEPT !.found = found,
                           !.pc = IF found = {} THEN "clear" ELSE "write"]
  /\ UNCHANGED <<clock, segment, dirtyAt, daily, pending, capture, failures>>

AggWrite ==
  /\ agg.pc = "write"
  /\ daily' = agg.found
  /\ agg' = [agg EXCEPT !.pc = "clear"]
  /\ UNCHANGED <<clock, segment, dirtyAt, pending, capture, failures>>

\* clearDirtyDayIfHandled(day, now), for a complete day only.
AggClear ==
  /\ agg.pc = "clear"
  /\ dirtyAt' = IF Complete(agg.now) /\ dirtyAt <= agg.now THEN Never ELSE dirtyAt
  /\ agg' = NoAggregation
  /\ UNCHANGED <<clock, segment, daily, pending, capture, failures>>

\* The run dies, or the clear fails and its error is swallowed.
AggFails ==
  /\ agg.pc # "idle"
  /\ failures < MaxFailures
  /\ failures' = failures + 1
  /\ agg' = NoAggregation
  /\ UNCHANGED <<clock, segment, dirtyAt, daily, pending, capture>>

Next ==
  \/ Tick
  \/ \E w \in Workers, e \in Events : CaptureStart(w, e)
  \/ \E w \in Workers : CaptureCommit(w)
  \/ \E w \in Workers : CaptureSample(w)
  \/ \E w \in Workers : MarkDirty(w)
  \/ \E w \in Workers : EnsureDirty(w)
  \/ \E w \in Workers : CaptureFails(w)
  \/ AggStart
  \/ AggQuery
  \/ AggWrite
  \/ AggClear
  \/ AggFails

Spec == Init /\ [][Next]_vars

(***************************************************************************)
(* Properties.                                                             *)
(***************************************************************************)
\* Every variable has the shape the code gives it.
TypeOK ==
  /\ clock \in Nat
  /\ segment \in [Sessions -> Segments]
  /\ dirtyAt \in Nat \cup {Never}
  /\ daily \in SUBSET Events
  /\ pending \in SUBSET Events
  /\ capture \in [Workers -> Captures]
  /\ agg \in Aggregations
  /\ failures \in Nat

Stored == UNION {segment[s].evidence : s \in Sessions}

\* "A late capture keeps its dirty marker when it arrives after the running
\* aggregation began and is therefore retried": evidence that is stored and
\* acknowledged but missing from the daily aggregate of a complete day has a
\* marker that brings the day back to an aggregation.
NoLostEvidence ==
  \A e \in Stored :
    \/ e \in daily
    \/ e \in pending
    \/ dirtyAt # Never
    \/ ~ Complete(clock)
    \/ agg.pc = "write" /\ e \in agg.found

\* The daily aggregate never loses evidence it has shown: a run that queried
\* early never overwrites what a later run wrote.
AggregateGrows == [][daily \subseteq daily']_vars
=============================================================================
