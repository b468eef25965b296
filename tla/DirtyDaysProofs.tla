--------------------------- MODULE DirtyDaysProofs --------------------------
(***************************************************************************)
(* Proofs about the dirty-day markers.  That the daily aggregate only      *)
(* grows is true whatever overlaps.  That no evidence is lost is not: it   *)
(* needs captures that do not overlap each other (Serial), which is the    *)
(* case the comment in the code speaks of, or markers that no write moves  *)
(* back (Forward) and captures that do not die past their commit.  How     *)
(* they interleave with the aggregation, where that dies, and how many     *)
(* segments and deliveries there are is free in both.                      *)
(***************************************************************************)
EXTENDS DirtyDays, TLAPS

\* One capture at a time.
Serial == \A v, w \in Workers : v = w

Queried == agg.pc \in {"write", "clear"}

\* Stored, but after the running aggregation read the segments.
Late == {e \in Stored : Queried /\ e \notin agg.found}

(***************************************************************************)
(* What holds however many captures overlap.                               *)
(***************************************************************************)
\* Evidence is filed under its session.
FiledUnderSession ==
  \A s \in Sessions : \A e \in segment[s].evidence : SessionOf[e] = s

\* What is shown, or is about to be, is stored; a run about to write has all
\* that is shown, and one that has written shows all it found.
ShownIsStored ==
  /\ daily \subseteq Stored
  /\ Queried => agg.found \subseteq Stored
  /\ agg.pc = "write" => daily \subseteq agg.found
  /\ agg.pc = "clear" => agg.found \subseteq daily

\* A worker that is not idle has an event in hand.
HoldsAnEvent == \A w \in Workers : capture[w].pc # "idle" => capture[w].event \in Events

AggInv == TypeOK /\ HoldsAnEvent /\ FiledUnderSession /\ ShownIsStored

(***************************************************************************)
(* What needs captures that do not overlap.                                *)
(***************************************************************************)
\* An event in hand is not acknowledged; once past its transaction it is
\* stored, and capturedAt is still what the segment says.
HeldEvents ==
  \A w \in Workers : capture[w].pc # "idle" =>
    LET c == capture[w] IN
    /\ c.event \in pending
    /\ c.pc # "commit" =>
         /\ c.event \in segment[SessionOf[c.event]].evidence
         /\ c.capturedAt = segment[SessionOf[c.event]].capturedAt

\* Every sampled instant is past: the marker is older than the clock, and
\* older than the start of a capture that has not committed.
InstantsPast ==
  /\ dirtyAt < clock
  /\ Queried => agg.now < clock
  /\ \A w \in Workers :
       /\ capture[w].pc = "commit" => dirtyAt < capture[w].now
       /\ capture[w].pc \in {"set", "ensure"} => capture[w].dirtyObservedAt <= clock

\* A marker at least as young as a segment with late evidence is younger than
\* the run, and so is one about to be written.
LateMarkers ==
  \A e \in Late :
    /\ dirtyAt >= segment[SessionOf[e]].capturedAt => dirtyAt > agg.now
    /\ e \notin pending => dirtyAt > agg.now
    /\ \A w \in Workers : capture[w].pc \in {"set", "ensure"} =>
         capture[w].dirtyObservedAt > agg.now

\* What is stored and acknowledged is shown or has a marker.
Marked == \A e \in Stored : e \in daily \/ e \in pending \/ dirtyAt # Never

SerialInv == HeldEvents /\ InstantsPast /\ LateMarkers /\ Marked

IInv == AggInv /\ SerialInv

(***************************************************************************)
(* Lemmas.                                                                 *)
(***************************************************************************)
\* Stored evidence is that of the events filed in their own segment.
LEMMA StoredEvents ==
  ASSUME TypeOK, FiledUnderSession
  PROVE  /\ Stored \subseteq Events
         /\ \A e : e \in Stored <=> e \in Events /\ e \in segment[SessionOf[e]].evidence
  BY DirtyDaysAssumption DEF TypeOK, Segments, FiledUnderSession, Stored

\* The transaction adds the event in hand to what is stored and nothing else.
LEMMA CommitStores ==
  ASSUME TypeOK, NEW w \in Workers, capture[w].event \in Events, CaptureCommit(w)
  PROVE  Stored' = Stored \cup {capture[w].event}
<1> DEFINE e == capture[w].event
           s == SessionOf[e]
<1>1. s \in Sessions /\ segment \in [Sessions -> Segments]
  BY DirtyDaysAssumption DEF TypeOK
<1>2. CASE e \in segment[s].evidence
  <2>1. segment' = segment
    BY <1>2 DEF CaptureCommit
  <2>2. e \in Stored
    BY <1>1, <1>2 DEF Stored
  <2> QED BY <2>1, <2>2 DEF Stored
<1>3. CASE e \notin segment[s].evidence
  <2>1. segment' = [segment EXCEPT ![s] = [evidence |-> @.evidence \cup {e},
                                           capturedAt |-> capture[w].now]]
    BY <1>3 DEF CaptureCommit
  <2>2. segment'[s].evidence = segment[s].evidence \cup {e}
    BY <1>1, <2>1
  <2>3. \A t \in Sessions : t # s => segment'[t] = segment[t]
    BY <1>1, <2>1
  <2> QED BY <1>1, <2>2, <2>3 DEF Stored
<1> QED BY <1>2, <1>3

(***************************************************************************)
(* The invariant that does not depend on overlap.                          *)
(***************************************************************************)
LEMMA TypeStep == TypeOK /\ HoldsAnEvent /\ [Next]_vars => TypeOK' /\ HoldsAnEvent'
<1> SUFFICES ASSUME TypeOK, HoldsAnEvent, [Next]_vars
             PROVE  TypeOK' /\ HoldsAnEvent'
  OBVIOUS
<1> USE DirtyDaysAssumption DEF TypeOK, HoldsAnEvent, Never
<1>1. CASE Tick
  BY <1>1 DEF Tick
<1>2. ASSUME NEW w \in Workers, NEW e \in Events, CaptureStart(w, e)
      PROVE  TypeOK' /\ HoldsAnEvent'
  BY <1>2 DEF CaptureStart, Captures, NoCapture
<1>3. ASSUME NEW w \in Workers, CaptureCommit(w)
      PROVE  TypeOK' /\ HoldsAnEvent'
  <2> DEFINE e == capture[w].event
             s == SessionOf[e]
  <2>1. e \in Events /\ s \in Sessions /\ capture[w].now \in Nat
    BY <1>3 DEF CaptureCommit, Captures
  <2>2. segment' \in [Sessions -> Segments]
    <3>1. [evidence |-> segment[s].evidence \cup {e}, capturedAt |-> capture[w].now]
            \in Segments
      BY <2>1 DEF Segments
    <3> QED BY <1>3, <2>1, <3>1 DEF CaptureCommit
  <2>3. segment'[s].capturedAt \in Nat
    BY <2>1, <2>2 DEF Segments
  <2>4. PICK p \in {"repair", "refresh"}, n \in Nat :
          capture' = [capture EXCEPT ![w].pc = p, ![w].capturedAt = n]
    BY <1>3, <2>3 DEF CaptureCommit
  <2>5. [[capture[w] EXCEPT !.pc = p] EXCEPT !.capturedAt = n] \in Captures
    BY DEF Captures
  <2>6. capture' = [capture EXCEPT ![w] = [[@ EXCEPT !.pc = p] EXCEPT !.capturedAt = n]]
    BY <2>4
  <2>7. capture' \in [Workers -> Captures]
    BY <2>5, <2>6
  <2>8. \A v \in Workers : capture'[v].event = capture[v].event
    BY <2>6 DEF Captures
  <2>9. HoldsAnEvent'
    BY <2>1, <2>6, <2>8
  <2>10. UNCHANGED <<clock, dirtyAt, daily, pending, agg, failures>>
    BY <1>3 DEF CaptureCommit
  <2> QED BY <2>2, <2>7, <2>9, <2>10
<1>4. ASSUME NEW w \in Workers, CaptureSample(w)
      PROVE  TypeOK' /\ HoldsAnEvent'
  <2>1. PICK p \in {"set", "ensure"} :
          capture' = [capture EXCEPT ![w] = [[@ EXCEPT !.pc = p]
                                                EXCEPT !.dirtyObservedAt = clock]]
    BY <1>4 DEF CaptureSample
  <2>2. [[capture[w] EXCEPT !.pc = p] EXCEPT !.dirtyObservedAt = clock] \in Captures
    BY DEF Captures
  <2>3. capture[w].event \in Events
    BY <1>4 DEF CaptureSample
  <2>4. \A v \in Workers : capture'[v].event = capture[v].event
    BY <2>1 DEF Captures
  <2>5. capture' \in [Workers -> Captures] /\ HoldsAnEvent'
    BY <2>1, <2>2, <2>3, <2>4
  <2> QED BY <1>4, <2>5 DEF CaptureSample
<1>5. ASSUME NEW w \in Workers, MarkDirty(w) \/ EnsureDirty(w) \/ CaptureFails(w)
      PROVE  TypeOK' /\ HoldsAnEvent'
  BY <1>5 DEF MarkDirty, EnsureDirty, CaptureFails, Captures, NoCapture
<1>6. CASE AggStart
  BY <1>6 DEF AggStart, Aggregations, NoAggregation
<1>7. CASE AggQuery
  <2>1. UNION {segment[s].evidence : s \in Sessions} \subseteq Events
    BY DEF Segments
  <2> QED BY <1>7, <2>1 DEF AggQuery, Aggregations
<1>8. CASE AggWrite
  BY <1>8 DEF AggWrite, Aggregations
<1>9. CASE AggClear \/ AggFails
  BY <1>9 DEF AggClear, AggFails, Aggregations, NoAggregation
<1>10. CASE UNCHANGED vars
  BY <1>10 DEF vars
<1> QED BY <1>1, <1>2, <1>3, <1>4, <1>5, <1>6, <1>7, <1>8, <1>9, <1>10 DEF Next

\* Filing and showing survive every step, whatever overlaps.
LEMMA ShownStep ==
  AggInv /\ [Next]_vars => FiledUnderSession' /\ ShownIsStored'
<1> SUFFICES ASSUME AggInv, [Next]_vars
             PROVE  FiledUnderSession' /\ ShownIsStored'
  OBVIOUS
<1> USE DEF AggInv
<1>1. ASSUME NEW w \in Workers, CaptureCommit(w)
      PROVE  FiledUnderSession' /\ ShownIsStored'
  <2> DEFINE e == capture[w].event
             s == SessionOf[e]
  <2>1. e \in Events /\ s \in Sessions /\ segment \in [Sessions -> Segments]
    BY <1>1, DirtyDaysAssumption DEF CaptureCommit, TypeOK, HoldsAnEvent, Captures
  <2>2. FiledUnderSession'
    BY <1>1, <2>1 DEF CaptureCommit, FiledUnderSession
  <2>3. Stored \subseteq Stored' /\ UNCHANGED <<daily, agg>>
    BY <1>1, <2>1, CommitStores DEF CaptureCommit
  <2>4. ShownIsStored'
    BY <2>3 DEF ShownIsStored, Queried
  <2> QED BY <2>2, <2>4
<1>2. CASE UNCHANGED <<segment, daily, agg>>
  BY <1>2 DEF FiledUnderSession, ShownIsStored, Queried, Stored
<1>3. CASE AggQuery
  <2>1. agg'.found = Stored /\ agg' = [agg EXCEPT !.found = agg'.found, !.pc = agg'.pc]
    BY <1>3 DEF AggQuery, Stored, TypeOK, Aggregations
  <2>2. agg'.pc = IF agg'.found = {} THEN "clear" ELSE "write"
    BY <1>3 DEF AggQuery, TypeOK, Aggregations
  <2>3. Stored' = Stored /\ UNCHANGED <<segment, daily>>
    BY <1>3 DEF AggQuery, Stored
  <2> QED BY <2>1, <2>2, <2>3 DEF FiledUnderSession, ShownIsStored, Queried
<1>4. CASE AggWrite
  <2>1. agg.pc = "write" /\ daily' = agg.found /\ agg' = [agg EXCEPT !.pc = "clear"]
    BY <1>4 DEF AggWrite
  <2>2. Stored' = Stored /\ UNCHANGED segment
    BY <1>4 DEF AggWrite, Stored
  <2>3. agg'.pc = "clear" /\ agg'.found = agg.found
    BY <2>1 DEF TypeOK, Aggregations
  <2> QED BY <2>1, <2>2, <2>3 DEF FiledUnderSession, ShownIsStored, Queried
<1>5. CASE AggStart \/ AggClear \/ AggFails
  <2>1. agg'.pc \in {"idle", "query"} /\ segment' = segment /\ daily' = daily
    <3>1. CASE AggStart
      BY <3>1 DEF AggStart, NoAggregation
    <3>2. CASE AggClear
      BY <3>2 DEF AggClear, NoAggregation
    <3>3. CASE AggFails
      BY <3>3 DEF AggFails, NoAggregation
    <3> QED BY <1>5, <3>1, <3>2, <3>3
  <2>2. Stored' = Stored
    BY <2>1 DEF Stored
  <2> QED BY <2>1, <2>2 DEF FiledUnderSession, ShownIsStored, Queried
<1> QED BY <1>1, <1>2, <1>3, <1>4, <1>5 DEF Next, vars, Tick, CaptureStart,
         CaptureSample, MarkDirty, EnsureDirty, CaptureFails

LEMMA AggInvariance == Spec => []AggInv
<1>1. Init => AggInv
  <2> SUFFICES ASSUME Init PROVE AggInv
    OBVIOUS
  <2>1. TypeOK /\ HoldsAnEvent
    BY DirtyDaysAssumption DEF Init, TypeOK, HoldsAnEvent, Segments, Captures, NoCapture,
       Aggregations, NoAggregation, Never
  <2>2. FiledUnderSession /\ ShownIsStored
    BY DEF Init, FiledUnderSession, ShownIsStored, Queried, NoAggregation
  <2> QED BY <2>1, <2>2 DEF AggInv
<1>2. AggInv /\ [Next]_vars => AggInv'
  BY TypeStep, ShownStep DEF AggInv
<1> QED BY <1>1, <1>2, PTL DEF Spec

\* Every variable keeps the shape the code gives it.
THEOREM TypeCorrect == Spec => []TypeOK
<1>1. AggInv => TypeOK
  BY DEF AggInv
<1> QED BY <1>1, AggInvariance, PTL

\* The daily aggregate never loses evidence it has shown, even when captures
\* overlap: aggregateDayUnlocked overwrites the day only with a query that came
\* after everything the day shows was stored.
THEOREM AggregateOnlyGrows == Spec => AggregateGrows
<1>1. AggInv /\ [Next]_vars => [daily \subseteq daily']_vars
  <2> SUFFICES ASSUME AggInv, Next PROVE daily \subseteq daily'
    OBVIOUS
  <2>1. CASE AggWrite
    BY <2>1 DEF AggWrite, AggInv, ShownIsStored
  <2>2. CASE ~ AggWrite
    <3>1. daily' = daily
      BY <2>2 DEF Next, Tick, CaptureStart, CaptureCommit, CaptureSample, MarkDirty,
         EnsureDirty, CaptureFails, AggStart, AggQuery, AggClear, AggFails
    <3> QED BY <3>1
  <2> QED BY <2>1, <2>2
<1> QED BY <1>1, AggInvariance, PTL DEF Spec, AggregateGrows

(***************************************************************************)
(* The invariant of captures one at a time, one lemma per conjunct that a  *)
(* step can disturb.                                                       *)
(***************************************************************************)
\* What a committing capture leaves behind.
LEMMA CommitSteps ==
  ASSUME IInv, NEW w \in Workers, CaptureCommit(w)
  PROVE  LET e == capture[w].event
             s == SessionOf[e]
         IN /\ e \in Events /\ e \in pending /\ s \in Sessions
            /\ capture[w].now \in Nat
            /\ e \in segment'[s].evidence
            /\ capture'[w].event = e
            /\ capture'[w].pc \in {"refresh", "repair"}
            /\ capture'[w].capturedAt = segment'[s].capturedAt
            /\ \A t \in Sessions : t # s => segment'[t] = segment[t]
            /\ e \notin segment[s].evidence => segment'[s].capturedAt = capture[w].now
            /\ e \in segment[s].evidence => segment' = segment
            /\ Stored' = Stored \cup {e}
<1> DEFINE e == capture[w].event
           s == SessionOf[e]
<1> USE DEF IInv, AggInv
<1>1. capture \in [Workers -> Captures] /\ segment \in [Sessions -> Segments]
  BY DEF TypeOK
<1>2. e \in Events /\ e \in pending /\ s \in Sessions /\ capture[w].now \in Nat
  BY <1>1, DirtyDaysAssumption DEF CaptureCommit, HoldsAnEvent, SerialInv, HeldEvents, Captures
<1>3. Stored' = Stored \cup {e}
  BY <1>2, CommitStores
<1>4. capture'[w].event = e /\ capture'[w].capturedAt = segment'[s].capturedAt
  BY <1>1 DEF CaptureCommit, Captures
<1>5. capture'[w].pc \in {"refresh", "repair"}
  BY <1>1 DEF CaptureCommit, Captures
<1>6. CASE e \in segment[s].evidence
  BY <1>2, <1>3, <1>4, <1>5, <1>6 DEF CaptureCommit
<1>7. CASE e \notin segment[s].evidence
  <2>1. segment' = [segment EXCEPT ![s] = [evidence |-> @.evidence \cup {e},
                                           capturedAt |-> capture[w].now]]
    BY <1>7 DEF CaptureCommit
  <2>2. /\ segment'[s].evidence = segment[s].evidence \cup {e}
        /\ segment'[s].capturedAt = capture[w].now
        /\ \A t \in Sessions : t # s => segment'[t] = segment[t]
    BY <1>1, <1>2, <2>1
  <2> QED BY <1>2, <1>3, <1>4, <1>5, <1>7, <2>2
<1> QED BY <1>6, <1>7

LEMMA HeldStep ==
  ASSUME Serial, IInv, [Next]_vars
  PROVE  HeldEvents'
<1> USE DEF IInv, AggInv, SerialInv
<1>0. capture \in [Workers -> Captures] /\ segment \in [Sessions -> Segments]
  BY DEF TypeOK
<1>1. ASSUME NEW w \in Workers, NEW e \in Events, CaptureStart(w, e)
      PROVE  HeldEvents'
  <2>1. capture'[w].pc = "commit" /\ capture'[w].event = e /\ e \in pending
    BY <1>0, <1>1 DEF CaptureStart, NoCapture
  <2>2. Workers = {w}
    BY DEF Serial
  <2> QED BY <1>1, <2>1, <2>2 DEF CaptureStart, HeldEvents
<1>2. ASSUME NEW w \in Workers, CaptureCommit(w)
      PROVE  HeldEvents'
  <2>1. Workers = {w} /\ pending' = pending
    BY <1>2 DEF Serial, CaptureCommit
  <2> QED BY <1>2, <2>1, CommitSteps DEF HeldEvents
<1>3. ASSUME NEW w \in Workers, CaptureSample(w)
      PROVE  HeldEvents'
  <2>1. /\ capture[w].pc \in {"refresh", "repair"}
        /\ capture'[w].event = capture[w].event
        /\ capture'[w].capturedAt = capture[w].capturedAt
    BY <1>0, <1>3 DEF CaptureSample, Captures
  <2>2. Workers = {w} /\ pending' = pending /\ segment' = segment
    BY <1>3 DEF Serial, CaptureSample
  <2> QED BY <2>1, <2>2 DEF HeldEvents
<1>4. ASSUME NEW w \in Workers, MarkDirty(w) \/ EnsureDirty(w) \/ CaptureFails(w)
      PROVE  HeldEvents'
  <2>1. capture'[w].pc = "idle"
    BY <1>0, <1>4 DEF MarkDirty, EnsureDirty, CaptureFails, NoCapture
  <2>2. Workers = {w}
    BY DEF Serial
  <2> QED BY <2>1, <2>2 DEF HeldEvents
<1>5. CASE UNCHANGED <<segment, pending, capture>>
  BY <1>5 DEF HeldEvents
<1> QED BY <1>1, <1>2, <1>3, <1>4, <1>5 DEF Next, vars, Tick, AggStart, AggQuery,
         AggWrite, AggClear, AggFails

LEMMA InstantsStep ==
  ASSUME Serial, IInv, [Next]_vars
  PROVE  InstantsPast'
<1> USE DEF IInv, AggInv, SerialInv, Never
<1>0. /\ capture \in [Workers -> Captures] /\ agg \in Aggregations
      /\ clock \in Nat /\ dirtyAt \in Nat \cup {Never}
  BY DEF TypeOK
<1>1. CASE Tick
  BY <1>0, <1>1 DEF Tick, InstantsPast, Queried, Captures, Aggregations
<1>2. ASSUME NEW w \in Workers, NEW e \in Events, CaptureStart(w, e)
      PROVE  InstantsPast'
  <2>1. capture'[w].pc = "commit" /\ capture'[w].now = clock
    BY <1>0, <1>2 DEF CaptureStart, NoCapture
  <2>2. Workers = {w} /\ UNCHANGED <<clock, dirtyAt, agg>>
    BY <1>2 DEF Serial, CaptureStart
  <2> QED BY <2>1, <2>2 DEF InstantsPast, Queried
<1>3. ASSUME NEW w \in Workers, CaptureCommit(w)
      PROVE  InstantsPast'
  <2>1. Workers = {w} /\ UNCHANGED <<clock, dirtyAt, agg>>
    BY <1>3 DEF Serial, CaptureCommit
  <2> QED BY <1>3, <2>1, CommitSteps DEF InstantsPast, Queried
<1>4. ASSUME NEW w \in Workers, CaptureSample(w)
      PROVE  InstantsPast'
  <2>1. capture'[w].pc \in {"set", "ensure"} /\ capture'[w].dirtyObservedAt = clock
    BY <1>0, <1>4 DEF CaptureSample, Captures
  <2>2. Workers = {w} /\ UNCHANGED <<clock, dirtyAt, agg>>
    BY <1>4 DEF Serial, CaptureSample
  <2> QED BY <1>0, <2>1, <2>2 DEF InstantsPast, Queried
<1>5. ASSUME NEW w \in Workers, MarkDirty(w) \/ EnsureDirty(w) \/ CaptureFails(w)
      PROVE  InstantsPast'
  <2>1. capture'[w].pc = "idle"
    BY <1>0, <1>5 DEF MarkDirty, EnsureDirty, CaptureFails, NoCapture
  <2>2. Workers = {w} /\ UNCHANGED <<clock, agg>>
    BY <1>5 DEF Serial, MarkDirty, EnsureDirty, CaptureFails
  <2>3. dirtyAt' < clock
    BY <1>5 DEF MarkDirty, EnsureDirty, CaptureFails, InstantsPast
  <2> QED BY <2>1, <2>2, <2>3 DEF InstantsPast, Queried
<1>6. CASE AggQuery
  <2>1. agg'.now < clock /\ UNCHANGED <<clock, dirtyAt, capture>>
    BY <1>0, <1>6 DEF AggQuery, Aggregations
  <2> QED BY <2>1 DEF InstantsPast
<1>7. CASE AggWrite
  <2>1. agg'.now = agg.now /\ agg.pc = "write" /\ UNCHANGED <<clock, dirtyAt, capture>>
    BY <1>0, <1>7 DEF AggWrite, Aggregations
  <2> QED BY <2>1 DEF InstantsPast, Queried
<1>8. CASE AggStart \/ AggFails
  <2>1. agg'.pc \in {"idle", "query"} /\ clock' = clock /\ dirtyAt' = dirtyAt
        /\ capture' = capture
    <3>1. CASE AggStart
      BY <3>1 DEF AggStart, NoAggregation
    <3>2. CASE AggFails
      BY <3>2 DEF AggFails, NoAggregation
    <3> QED BY <1>8, <3>1, <3>2
  <2> QED BY <2>1 DEF InstantsPast, Queried
<1>9. CASE AggClear
  <2>1. agg'.pc = "idle" /\ UNCHANGED <<clock, capture>> /\ dirtyAt' \in {dirtyAt, Never}
    BY <1>9 DEF AggClear, NoAggregation
  <2> QED BY <1>0, <2>1 DEF InstantsPast, Queried, Captures
<1>10. CASE UNCHANGED vars
  BY <1>10 DEF vars, InstantsPast, Queried
<1> QED BY <1>1, <1>2, <1>3, <1>4, <1>5, <1>6, <1>7, <1>8, <1>9, <1>10 DEF Next

LEMMA LateStep ==
  ASSUME Serial, IInv, [Next]_vars
  PROVE  LateMarkers'
<1> USE DEF IInv, AggInv, SerialInv
<1>0. /\ capture \in [Workers -> Captures] /\ agg \in Aggregations
      /\ segment \in [Sessions -> Segments]
      /\ clock \in Nat /\ dirtyAt \in Nat \cup {Never}
  BY DEF TypeOK
<1>1. ASSUME NEW w \in Workers, NEW e \in Events, CaptureStart(w, e)
      PROVE  LateMarkers'
  <2>1. capture'[w].pc = "commit"
    BY <1>0, <1>1 DEF CaptureStart, NoCapture
  <2>2. Workers = {w} /\ UNCHANGED <<segment, dirtyAt, pending, agg>> /\ Late' = Late
    BY <1>1 DEF Serial, CaptureStart, Late, Stored, Queried
  <2> QED BY <2>1, <2>2 DEF LateMarkers
<1>2. ASSUME NEW w \in Workers, CaptureCommit(w)
      PROVE  LateMarkers'
  <2> DEFINE d == capture[w].event
  <2>1. Workers = {w} /\ UNCHANGED <<dirtyAt, pending, agg>>
    BY <1>2 DEF Serial, CaptureCommit
  <2>2. Stored' = Stored \cup {d} /\ d \in pending /\ capture'[w].pc \in {"refresh", "repair"}
    BY <1>2, CommitSteps
  <2> SUFFICES ASSUME NEW e \in Late'
               PROVE  /\ dirtyAt >= segment'[SessionOf[e]].capturedAt => dirtyAt > agg.now
                      /\ e \notin pending => dirtyAt > agg.now
    BY <2>1, <2>2 DEF LateMarkers
  <2>3. e \in Late \/ e = d
    BY <2>1, <2>2 DEF Late, Queried
  <2>4. e \notin pending => dirtyAt > agg.now
    BY <2>2, <2>3 DEF LateMarkers
  <2>5. CASE d \in segment[SessionOf[d]].evidence
    <3>1. segment' = segment /\ d \in Stored
      BY <1>2, <2>5, CommitSteps DEF Stored
    <3>2. e \in Late
      BY <2>1, <2>3, <3>1 DEF Late, Queried
    <3> QED BY <2>4, <3>1, <3>2 DEF LateMarkers
  <2>6. CASE d \notin segment[SessionOf[d]].evidence
    <3>1. segment'[SessionOf[d]].capturedAt = capture[w].now /\ capture[w].now \in Nat
      BY <1>2, <2>6, CommitSteps
    <3>2. dirtyAt < capture[w].now
      BY <1>2 DEF CaptureCommit, InstantsPast
    <3>3. CASE SessionOf[e] = SessionOf[d]
      BY <1>0, <2>4, <3>1, <3>2, <3>3 DEF Never
    <3>4. CASE SessionOf[e] # SessionOf[d]
      <4>1. e \in Late
        BY <2>3, <3>4
      <4>2. SessionOf[e] \in Sessions
        BY <4>1, StoredEvents, DirtyDaysAssumption DEF Late
      <4>3. segment'[SessionOf[e]] = segment[SessionOf[e]]
        BY <1>2, <3>4, <4>2, CommitSteps
      <4> QED BY <2>4, <4>1, <4>3 DEF LateMarkers
    <3> QED BY <3>3, <3>4
  <2> QED BY <2>5, <2>6
<1>3. ASSUME NEW w \in Workers, CaptureSample(w)
      PROVE  LateMarkers'
  <2>1. capture'[w].dirtyObservedAt = clock
    BY <1>0, <1>3 DEF CaptureSample, Captures
  <2>2. Workers = {w} /\ UNCHANGED <<segment, dirtyAt, pending, agg>> /\ Late' = Late
    BY <1>3 DEF Serial, CaptureSample, Late, Stored, Queried
  <2>3. \A e \in Late : clock > agg.now
    BY <1>0 DEF Late, InstantsPast, Aggregations
  <2> QED BY <2>1, <2>2, <2>3 DEF LateMarkers
<1>4. ASSUME NEW w \in Workers, MarkDirty(w) \/ EnsureDirty(w)
      PROVE  LateMarkers'
  <2>1. capture'[w].pc = "idle"
    BY <1>0, <1>4 DEF MarkDirty, EnsureDirty, NoCapture
  <2>2. Workers = {w} /\ segment' = segment /\ agg' = agg /\ Late' = Late
    BY <1>4 DEF Serial, MarkDirty, EnsureDirty, Late, Stored, Queried
  <2> SUFFICES ASSUME NEW e \in Late
               PROVE  /\ dirtyAt' >= segment[SessionOf[e]].capturedAt => dirtyAt' > agg.now
                      /\ e \notin pending' => dirtyAt' > agg.now
    BY <2>1, <2>2 DEF LateMarkers
  <2>3. capture[w].dirtyObservedAt > agg.now
    BY <1>4 DEF MarkDirty, EnsureDirty, LateMarkers
  <2>4. CASE dirtyAt' = capture[w].dirtyObservedAt
    BY <2>3, <2>4
  <2>5. CASE dirtyAt' # capture[w].dirtyObservedAt
    <3>1. /\ dirtyAt' = dirtyAt /\ pending' = pending \ {capture[w].event}
          /\ dirtyAt >= capture[w].capturedAt /\ capture[w].pc = "ensure"
      BY <1>4, <2>5 DEF MarkDirty, EnsureDirty
    <3>2. CASE e = capture[w].event
      <4>1. capture[w].capturedAt = segment[SessionOf[e]].capturedAt
        BY <3>1, <3>2 DEF HeldEvents
      <4> QED BY <3>1, <4>1 DEF LateMarkers
    <3>3. CASE e # capture[w].event
      BY <3>1, <3>3 DEF LateMarkers
    <3> QED BY <3>2, <3>3
  <2> QED BY <2>4, <2>5
<1>5. ASSUME NEW w \in Workers, CaptureFails(w)
      PROVE  LateMarkers'
  <2>1. capture'[w].pc = "idle"
    BY <1>0, <1>5 DEF CaptureFails, NoCapture
  <2>2. Workers = {w} /\ UNCHANGED <<segment, dirtyAt, pending, agg>> /\ Late' = Late
    BY <1>5 DEF Serial, CaptureFails, Late, Stored, Queried
  <2> QED BY <2>1, <2>2 DEF LateMarkers
<1>6. CASE AggQuery
  <2>1. agg'.found = Stored /\ Stored' = Stored
    BY <1>0, <1>6 DEF AggQuery, Stored, Aggregations
  <2> QED BY <2>1 DEF LateMarkers, Late
<1>7. CASE AggWrite
  <2>1. /\ agg'.now = agg.now /\ agg'.found = agg.found /\ agg.pc = "write"
        /\ UNCHANGED <<segment, dirtyAt, pending, capture>>
    BY <1>0, <1>7 DEF AggWrite, Aggregations
  <2>2. Late' \subseteq Late
    BY <2>1 DEF Late, Stored, Queried
  <2> QED BY <2>1, <2>2 DEF LateMarkers
<1>8. CASE AggStart \/ AggClear \/ AggFails
  <2>1. agg'.pc \in {"idle", "query"}
    <3>1. CASE AggStart
      BY <3>1 DEF AggStart, NoAggregation
    <3>2. CASE AggClear \/ AggFails
      BY <3>2 DEF AggClear, AggFails, NoAggregation
    <3> QED BY <1>8, <3>1, <3>2
  <2> QED BY <2>1 DEF LateMarkers, Late, Queried
<1>9. CASE UNCHANGED <<segment, dirtyAt, pending, capture, agg>>
  BY <1>9 DEF LateMarkers, Late, Stored, Queried
<1> QED BY <1>1, <1>2, <1>3, <1>4, <1>5, <1>6, <1>7, <1>8, <1>9 DEF Next, vars, Tick

LEMMA MarkedStep ==
  ASSUME Serial, IInv, [Next]_vars
  PROVE  Marked'
<1> USE DEF IInv, AggInv, SerialInv, Never
<1>0. /\ capture \in [Workers -> Captures] /\ agg \in Aggregations
      /\ segment \in [Sessions -> Segments] /\ dirtyAt \in Nat \cup {Never}
  BY DEF TypeOK
<1>1. ASSUME NEW w \in Workers, CaptureCommit(w)
      PROVE  Marked'
  <2>1. UNCHANGED <<dirtyAt, pending, daily>>
    BY <1>1 DEF CaptureCommit
  <2> QED BY <1>1, <2>1, CommitSteps DEF Marked
<1>2. ASSUME NEW w \in Workers, MarkDirty(w) \/ EnsureDirty(w)
      PROVE  Marked'
  <2>1. capture[w].capturedAt \in Nat /\ capture[w].dirtyObservedAt \in Nat
    BY <1>0 DEF Captures
  <2>2. dirtyAt' \in {capture[w].dirtyObservedAt, dirtyAt}
        /\ (dirtyAt' # capture[w].dirtyObservedAt => dirtyAt >= capture[w].capturedAt)
    BY <1>2 DEF MarkDirty, EnsureDirty
  <2>3. dirtyAt' # Never
    BY <1>0, <2>1, <2>2
  <2> QED BY <2>3 DEF Marked
<1>3. CASE AggWrite
  <2>1. daily \subseteq daily' /\ UNCHANGED <<dirtyAt, pending>> /\ Stored' = Stored
    BY <1>3 DEF AggWrite, ShownIsStored, Stored
  <2> QED BY <2>1 DEF Marked
<1>4. CASE AggClear
  <2>1. UNCHANGED <<daily, pending>> /\ Stored' = Stored /\ agg.pc = "clear"
    BY <1>4 DEF AggClear, Stored
  <2>2. CASE dirtyAt' = dirtyAt
    BY <2>1, <2>2 DEF Marked
  <2>3. CASE dirtyAt' # dirtyAt
    <3>1. dirtyAt <= agg.now
      BY <1>4, <2>3 DEF AggClear
    <3>2. \A e \in Late : e \in pending
      BY <1>0, <3>1 DEF LateMarkers, Aggregations
    <3>3. \A e \in Stored : e \in daily \/ e \in Late
      BY <2>1 DEF ShownIsStored, Late, Queried
    <3> QED BY <2>1, <3>2, <3>3 DEF Marked
  <2> QED BY <2>2, <2>3
<1>5. CASE UNCHANGED <<segment, dirtyAt, daily, pending>>
  BY <1>5 DEF Marked, Stored
<1> QED BY <1>1, <1>2, <1>3, <1>4, <1>5 DEF Next, vars, Tick, CaptureStart,
         CaptureSample, CaptureFails, AggStart, AggQuery, AggFails

LEMMA Invariance ==
  ASSUME Serial
  PROVE  Spec => []IInv
<1>1. Init => SerialInv
  <2> SUFFICES ASSUME Init PROVE SerialInv
    OBVIOUS
  <2>1. HeldEvents /\ InstantsPast
    BY DEF Init, HeldEvents, InstantsPast, NoCapture, NoAggregation, Queried, Never
  <2>2. LateMarkers /\ Marked
    BY DEF Init, LateMarkers, Marked, Late, Stored
  <2> QED BY <2>1, <2>2 DEF SerialInv
<1>2. AggInv /\ AggInv' /\ SerialInv /\ [Next]_vars => SerialInv'
  BY HeldStep, InstantsStep, LateStep, MarkedStep DEF SerialInv, IInv
<1> QED BY <1>1, <1>2, AggInvariance, PTL DEF Spec, IInv

\* With captures one at a time, evidence that is stored and acknowledged but
\* missing from the daily aggregate of a complete day always has a marker,
\* wherever captures and aggregations die: what the comment on the dirty days
\* says of a late capture.  Captures that overlap break it (see the finding).
THEOREM EvidenceIsMarked ==
  ASSUME Serial
  PROVE  Spec => []NoLostEvidence
<1>1. IInv => NoLostEvidence
  BY DEF IInv, SerialInv, Marked, NoLostEvidence
<1> QED BY <1>1, Invariance, PTL

(***************************************************************************)
(* Captures that overlap.  The marker that goes back is the cause: as long *)
(* as every write leaves a marker no older than the one it finds, and      *)
(* captures die before their transaction commits if they die, any number   *)
(* of them may overlap.                                                    *)
(***************************************************************************)
Forward == dirtyAt' # Never => dirtyAt <= dirtyAt'

DiesEarly == \A w \in Workers : CaptureFails(w) => capture[w].pc = "commit"

\* An event is in one worker's hand, and its evidence is stored from that one's
\* commit on: no capture finds its own evidence there, and stored evidence is
\* pending only in the hand of a worker.
HeldOnce ==
  /\ \A v, w \in Workers :
       capture[v].pc # "idle" /\ capture[w].event = capture[v].event => v = w
  /\ \A w \in Workers : capture[w].pc # "idle" =>
       /\ capture[w].event \in pending
       /\ capture[w].pc \in {"commit", "refresh", "set"}
       /\ capture[w].pc = "commit" => capture[w].event \notin Stored
  /\ \A e \in Stored \cap pending :
       \E w \in Workers : capture[w].pc # "idle" /\ capture[w].event = e

\* A capture past its commit will raise the marker beyond the running aggregation.
OnTheWay(e) ==
  \E w \in Workers :
    /\ capture[w].event = e
    /\ \/ capture[w].pc = "refresh"
       \/ capture[w].pc = "set" /\ capture[w].dirtyObservedAt > agg.now

LateOnTheWay ==
  /\ Queried => agg.now < clock
  /\ \A e \in Late : dirtyAt > agg.now \/ OnTheWay(e)

OverlapInv == HeldOnce /\ LateOnTheWay /\ Marked

\* What a step of a capture does to the worker, and what it leaves alone.
LEMMA OverlapCommit ==
  ASSUME AggInv, HeldOnce, NEW w \in Workers, CaptureCommit(w)
  PROVE  /\ capture[w].event \in pending /\ capture[w].event \in Events
         /\ Stored' = Stored \cup {capture[w].event}
         /\ capture'[w].pc = "refresh" /\ capture'[w].event = capture[w].event
         /\ \A v \in Workers \ {w} : capture'[v] = capture[v]
<1> USE DEF AggInv
<1>1. capture \in [Workers -> Captures] /\ capture[w].pc = "commit"
  BY DEF TypeOK, CaptureCommit
<1>2. capture[w].event \in pending /\ capture[w].event \in Events
      /\ capture[w].event \notin Stored
  BY <1>1 DEF HeldOnce, HoldsAnEvent
<1>3. Stored' = Stored \cup {capture[w].event}
  BY <1>2, CommitStores
<1>4. capture[w].event \notin segment[SessionOf[capture[w].event]].evidence
  BY <1>2, StoredEvents
<1>5. capture' = [capture EXCEPT ![w].pc = "refresh",
                                 ![w].capturedAt = segment'[SessionOf[capture[w].event]].capturedAt]
  BY <1>4 DEF CaptureCommit
<1> QED BY <1>1, <1>2, <1>3, <1>5 DEF Captures

LEMMA OverlapSample ==
  ASSUME AggInv, HeldOnce, NEW w \in Workers, CaptureSample(w)
  PROVE  /\ capture[w].pc = "refresh"
         /\ capture'[w].pc = "set" /\ capture'[w].event = capture[w].event
         /\ capture'[w].dirtyObservedAt = clock
         /\ \A v \in Workers \ {w} : capture'[v] = capture[v]
<1>1. capture \in [Workers -> Captures] /\ capture[w].pc = "refresh"
  BY DEF AggInv, TypeOK, CaptureSample, HeldOnce
<1>2. capture' = [capture EXCEPT ![w].pc = "set", ![w].dirtyObservedAt = clock]
  BY <1>1 DEF CaptureSample
<1> QED BY <1>1, <1>2 DEF Captures

\* A capture that ends frees its worker; no other is disturbed.
LEMMA OverlapEnd ==
  ASSUME AggInv, NEW w \in Workers, MarkDirty(w) \/ EnsureDirty(w) \/ CaptureFails(w)
  PROVE  /\ capture'[w] = NoCapture
         /\ \A v \in Workers \ {w} : capture'[v] = capture[v]
         /\ UNCHANGED <<clock, segment, daily, agg>> /\ Stored' = Stored
  BY DEF AggInv, TypeOK, MarkDirty, EnsureDirty, CaptureFails, Stored

LEMMA HeldOnceStep ==
  ASSUME AggInv, OverlapInv, [Next]_vars, [Forward /\ DiesEarly]_vars
  PROVE  HeldOnce'
<1> USE DEF AggInv, OverlapInv
<1>0. /\ capture \in [Workers -> Captures] /\ NoEvent \notin Events
      /\ \A w \in Workers : capture[w].pc # "idle" => capture[w].event \in Events
  BY DirtyDaysAssumption DEF TypeOK, HoldsAnEvent
<1>1. ASSUME NEW w \in Workers, NEW e \in Events, CaptureStart(w, e)
      PROVE  HeldOnce'
  <2>1. /\ capture'[w].pc = "commit" /\ capture'[w].event = e
        /\ \A v \in Workers \ {w} : capture'[v] = capture[v] /\ capture[v].event # e
        /\ UNCHANGED pending /\ Stored' = Stored
        /\ e \in pending /\ ~ InHand(e) /\ capture[w].pc = "idle"
    BY <1>0, <1>1 DEF CaptureStart, NoCapture, InHand, Stored
  <2>2. e \notin Stored
    BY <2>1 DEF HeldOnce
  <2> QED BY <2>1, <2>2 DEF HeldOnce
<1>2. ASSUME NEW w \in Workers, CaptureCommit(w)
      PROVE  HeldOnce'
  <2>1. pending' = pending /\ capture[w].pc = "commit"
    BY <1>2 DEF CaptureCommit
  <2>2. \A v \in Workers : capture'[v].event = capture[v].event
                           /\ (capture'[v].pc = "idle" <=> capture[v].pc = "idle")
    BY <1>2, <2>1, OverlapCommit
  <2>3. \A v \in Workers : capture'[v].pc = "commit" => capture[v].event \notin Stored'
    BY <1>2, <2>1, OverlapCommit DEF HeldOnce
  <2>4. \A f \in Stored' \cap pending :
          \E v \in Workers : capture'[v].pc # "idle" /\ capture'[v].event = f
    BY <1>2, <2>1, <2>2, OverlapCommit DEF HeldOnce
  <2> QED BY <1>2, <2>1, <2>2, <2>3, <2>4, OverlapCommit DEF HeldOnce
<1>3. ASSUME NEW w \in Workers, CaptureSample(w)
      PROVE  HeldOnce'
  <2>1. pending' = pending /\ Stored' = Stored
    BY <1>3 DEF CaptureSample, Stored
  <2> QED BY <1>3, <2>1, OverlapSample DEF HeldOnce
<1>4. ASSUME NEW w \in Workers, MarkDirty(w) \/ EnsureDirty(w)
      PROVE  HeldOnce'
  <2>1. pending' = pending \ {capture[w].event} /\ capture[w].pc # "idle"
    BY <1>4 DEF MarkDirty, EnsureDirty
  <2>2. \A v \in Workers \ {w} : capture[v].event # capture[w].event
    BY <2>1 DEF HeldOnce
  <2>3. capture'[w].pc = "idle" /\ capture'[w].event = NoEvent
    BY <1>4, OverlapEnd DEF NoCapture
  <2>4. \A v \in Workers \ {w} : capture'[v].pc # "idle" => capture'[v].event # NoEvent
    BY <1>0, <1>4, OverlapEnd
  <2> QED BY <1>4, <2>1, <2>2, <2>3, <2>4, OverlapEnd DEF HeldOnce
<1>5. ASSUME NEW w \in Workers, CaptureFails(w)
      PROVE  HeldOnce'
  <2>1. pending' = pending /\ failures' = failures + 1 /\ capture[w].pc # "idle"
    BY <1>5 DEF CaptureFails
  <2>2. capture[w].pc = "commit"
    BY <1>5, <2>1 DEF DiesEarly, vars, TypeOK
  <2>3. capture'[w].pc = "idle" /\ capture'[w].event = NoEvent
    BY <1>5, OverlapEnd DEF NoCapture
  <2>4. \A v \in Workers \ {w} : capture'[v].pc # "idle" => capture'[v].event # NoEvent
    BY <1>0, <1>5, OverlapEnd
  <2>5. capture[w].event \notin Stored
    BY <2>2 DEF HeldOnce
  <2> QED BY <1>5, <2>1, <2>3, <2>4, <2>5, OverlapEnd DEF HeldOnce
<1>6. CASE UNCHANGED <<segment, pending, capture>>
  BY <1>6 DEF HeldOnce, Stored
<1> QED BY <1>1, <1>2, <1>3, <1>4, <1>5, <1>6 DEF Next, vars, Tick, AggStart, AggQuery,
         AggWrite, AggClear, AggFails

LEMMA OnTheWayStep ==
  ASSUME AggInv, OverlapInv, [Next]_vars, [Forward /\ DiesEarly]_vars
  PROVE  LateOnTheWay'
<1> USE DEF AggInv, OverlapInv
<1>0. /\ capture \in [Workers -> Captures] /\ agg \in Aggregations
      /\ clock \in Nat /\ dirtyAt \in Nat \cup {Never}
  BY DEF TypeOK
<1>1. CASE Tick
  <2>1. /\ clock' = clock + 1 /\ UNCHANGED <<dirtyAt, agg, capture, segment>>
        /\ Late' = Late
    BY <1>1 DEF Tick, Late, Queried, Stored
  <2>2. \A f \in Late : OnTheWay(f)' <=> OnTheWay(f)
    BY <2>1 DEF OnTheWay
  <2>3. Queried' => agg'.now < clock'
    BY <1>0, <2>1 DEF LateOnTheWay, Queried, Aggregations
  <2> QED BY <2>1, <2>2, <2>3 DEF LateOnTheWay
<1>2. ASSUME NEW w \in Workers, NEW e \in Events, CaptureStart(w, e)
      PROVE  LateOnTheWay'
  <2>1. /\ capture[w].pc = "idle" /\ \A v \in Workers \ {w} : capture'[v] = capture[v]
        /\ UNCHANGED <<clock, dirtyAt, agg>> /\ Late' = Late
    BY <1>0, <1>2 DEF CaptureStart, Late, Stored, Queried
  <2>2. \A f \in Late : OnTheWay(f) => OnTheWay(f)'
    BY <2>1 DEF OnTheWay
  <2> QED BY <2>1, <2>2 DEF LateOnTheWay, Queried
<1>3. ASSUME NEW w \in Workers, CaptureCommit(w)
      PROVE  LateOnTheWay'
  <2> DEFINE d == capture[w].event
  <2>1. UNCHANGED <<clock, dirtyAt, agg>> /\ capture[w].pc = "commit"
    BY <1>3 DEF CaptureCommit
  <2>2. \A f \in Late' : f \in Late \/ f = d
    BY <1>3, <2>1, OverlapCommit DEF Late, Queried
  <2>3. capture'[w].pc = "refresh" /\ capture'[w].event = d
    BY <1>3, OverlapCommit
  <2>4. \A f \in Late : OnTheWay(f) => OnTheWay(f)'
    BY <1>3, <2>1, OverlapCommit DEF OnTheWay
  <2>5. ASSUME NEW f \in Late' PROVE dirtyAt' > agg'.now \/ OnTheWay(f)'
    <3>1. CASE f = d
      BY <2>3, <3>1 DEF OnTheWay
    <3>2. CASE f \in Late
      BY <2>1, <2>4, <3>2 DEF LateOnTheWay
    <3> QED BY <2>2, <3>1, <3>2
  <2>6. Queried' => agg'.now < clock'
    BY <2>1 DEF LateOnTheWay, Queried
  <2> QED BY <2>5, <2>6 DEF LateOnTheWay
<1>4. ASSUME NEW w \in Workers, CaptureSample(w)
      PROVE  LateOnTheWay'
  <2>1. UNCHANGED <<clock, dirtyAt, agg>> /\ Late' = Late
    BY <1>4 DEF CaptureSample, Late, Stored, Queried
  <2>2. \A f \in Late : clock > agg.now
    BY <1>0 DEF Late, LateOnTheWay, Aggregations
  <2>3. \A f \in Late : OnTheWay(f) => OnTheWay(f)'
    BY <1>4, <2>1, <2>2, OverlapSample DEF OnTheWay
  <2> QED BY <2>1, <2>3 DEF LateOnTheWay, Queried
\* The marker written is beyond the run, or no older than one that was.
<1>5. ASSUME NEW w \in Workers, MarkDirty(w) \/ EnsureDirty(w)
      PROVE  LateOnTheWay'
  <2>1. UNCHANGED <<clock, agg>> /\ Late' = Late
    BY <1>5, OverlapEnd DEF Late, Queried
  <2>2. /\ capture[w].pc = "set" /\ dirtyAt' = capture[w].dirtyObservedAt
        /\ dirtyAt' \in Nat /\ agg.now \in Nat
    BY <1>0, <1>5 DEF MarkDirty, EnsureDirty, HeldOnce, Captures, Aggregations
  <2>3. dirtyAt <= dirtyAt'
    BY <1>0, <2>2 DEF Forward, vars, Never
  <2>4. ASSUME NEW f \in Late PROVE dirtyAt' > agg.now \/ OnTheWay(f)'
    <3>1. CASE dirtyAt > agg.now
      BY <1>0, <2>2, <2>3, <3>1 DEF Never
    <3>2. CASE OnTheWay(f)
      <4>1. PICK v \in Workers :
              /\ capture[v].event = f
              /\ \/ capture[v].pc = "refresh"
                 \/ capture[v].pc = "set" /\ capture[v].dirtyObservedAt > agg.now
        BY <3>2 DEF OnTheWay
      <4>2. CASE v = w
        BY <2>2, <4>1, <4>2
      <4>3. CASE v # w
        BY <1>5, <2>1, <4>1, <4>3, OverlapEnd DEF OnTheWay
      <4> QED BY <4>2, <4>3
    <3> QED BY <3>1, <3>2 DEF LateOnTheWay
  <2> QED BY <2>1, <2>4 DEF LateOnTheWay, Queried
<1>6. ASSUME NEW w \in Workers, CaptureFails(w)
      PROVE  LateOnTheWay'
  <2>1. UNCHANGED <<clock, dirtyAt, agg>> /\ Late' = Late
    BY <1>6, OverlapEnd DEF CaptureFails, Late, Queried
  <2>2. capture[w].pc = "commit"
    <3>1. failures' # failures
      BY <1>6 DEF CaptureFails, TypeOK
    <3> QED BY <1>6, <3>1 DEF DiesEarly, vars
  <2>3. \A f \in Late : OnTheWay(f) => OnTheWay(f)'
    BY <1>6, <2>1, <2>2, OverlapEnd DEF OnTheWay
  <2> QED BY <2>1, <2>3 DEF LateOnTheWay, Queried
<1>7. CASE AggQuery
  <2>1. /\ agg'.found = Stored /\ Stored' = Stored /\ agg'.now < clock /\ clock' = clock
    BY <1>0, <1>7 DEF AggQuery, Stored, Aggregations
  <2> QED BY <2>1 DEF LateOnTheWay, Late
<1>8. CASE AggWrite
  <2>1. /\ agg'.now = agg.now /\ agg'.found = agg.found /\ agg.pc = "write"
        /\ UNCHANGED <<clock, segment, dirtyAt, capture>>
    BY <1>0, <1>8 DEF AggWrite, Aggregations
  <2>2. Late' \subseteq Late
    BY <2>1 DEF Late, Stored, Queried
  <2> QED BY <2>1, <2>2 DEF LateOnTheWay, OnTheWay, Queried
<1>9. CASE AggStart \/ AggClear \/ AggFails
  <2>1. agg'.pc \in {"idle", "query"}
    <3>1. CASE AggStart
      BY <3>1 DEF AggStart, NoAggregation
    <3>2. CASE AggClear \/ AggFails
      BY <3>2 DEF AggClear, AggFails, NoAggregation
    <3> QED BY <1>9, <3>1, <3>2
  <2> QED BY <2>1 DEF LateOnTheWay, Late, Queried
<1>10. CASE UNCHANGED vars
  BY <1>10 DEF vars, LateOnTheWay, OnTheWay, Late, Stored, Queried
<1> QED BY <1>1, <1>2, <1>3, <1>4, <1>5, <1>6, <1>7, <1>8, <1>9, <1>10 DEF Next

LEMMA OverlapMarkedStep ==
  ASSUME AggInv, OverlapInv, [Next]_vars
  PROVE  Marked'
<1> USE DEF AggInv, OverlapInv, Never
<1>0. /\ capture \in [Workers -> Captures] /\ agg \in Aggregations
      /\ dirtyAt \in Nat \cup {Never}
  BY DEF TypeOK
<1>1. ASSUME NEW w \in Workers, CaptureCommit(w)
      PROVE  Marked'
  <2>1. UNCHANGED <<dirtyAt, pending, daily>>
    BY <1>1 DEF CaptureCommit
  <2> QED BY <1>1, <2>1, OverlapCommit DEF Marked
<1>2. ASSUME NEW w \in Workers, MarkDirty(w) \/ EnsureDirty(w)
      PROVE  Marked'
  <2>1. dirtyAt' \in Nat
    BY <1>0, <1>2 DEF MarkDirty, EnsureDirty, Captures, HeldOnce
  <2> QED BY <2>1 DEF Marked
<1>3. CASE AggWrite
  <2>1. daily \subseteq daily' /\ UNCHANGED <<dirtyAt, pending>> /\ Stored' = Stored
    BY <1>3 DEF AggWrite, ShownIsStored, Stored
  <2> QED BY <2>1 DEF Marked
<1>4. CASE AggClear
  <2>1. UNCHANGED <<daily, pending>> /\ Stored' = Stored /\ agg.pc = "clear"
    BY <1>4 DEF AggClear, Stored
  <2>2. CASE dirtyAt' = dirtyAt
    BY <2>1, <2>2 DEF Marked
  <2>3. CASE dirtyAt' # dirtyAt
    <3>1. ~ (dirtyAt > agg.now)
      BY <1>0, <1>4, <2>3 DEF AggClear, Aggregations
    <3>2. \A e \in Late : e \in pending
      BY <3>1 DEF LateOnTheWay, OnTheWay, HeldOnce
    <3>3. \A e \in Stored : e \in daily \/ e \in Late
      BY <2>1 DEF ShownIsStored, Late, Queried
    <3> QED BY <2>1, <3>2, <3>3 DEF Marked
  <2> QED BY <2>2, <2>3
<1>5. CASE UNCHANGED <<segment, dirtyAt, daily, pending>>
  BY <1>5 DEF Marked, Stored
<1> QED BY <1>1, <1>2, <1>3, <1>4, <1>5 DEF Next, vars, Tick, CaptureStart,
         CaptureSample, CaptureFails, AggStart, AggQuery, AggFails

\* However many captures of the day overlap, no evidence is lost as long as no
\* write of markDirtyDays moves the marker back and no capture dies between its
\* commit and its marker: the two causes of the finding are the only ones.
THEOREM ForwardMarkersSuffice ==
  Spec /\ [][Forward /\ DiesEarly]_vars => []NoLostEvidence
<1>1. Init => OverlapInv
  <2> SUFFICES ASSUME Init PROVE OverlapInv
    OBVIOUS
  <2>1. Stored = {} /\ \A w \in Workers : capture[w].pc = "idle"
    BY DEF Init, Stored, NoCapture
  <2>2. ~ Queried
    BY DEF Init, Queried, NoAggregation
  <2> QED BY <2>1, <2>2 DEF OverlapInv, HeldOnce, LateOnTheWay, Marked, Late
<1>2. AggInv /\ OverlapInv /\ [Next]_vars /\ [Forward /\ DiesEarly]_vars => OverlapInv'
  BY HeldOnceStep, OnTheWayStep, OverlapMarkedStep DEF OverlapInv
<1>3. OverlapInv => NoLostEvidence
  BY DEF OverlapInv, Marked, NoLostEvidence
<1> QED BY <1>1, <1>2, <1>3, AggInvariance, PTL DEF Spec
=============================================================================
