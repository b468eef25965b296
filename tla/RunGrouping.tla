---------------------------- MODULE RunGrouping ----------------------------
(***************************************************************************)
(* How the segments of one pairing become the counts of a day              *)
(* (functions/lib/session_analytics_helpers.js: groupSegments,             *)
(* buildPairingDaySummaries; session_analytics_service.js:                 *)
(* querySegmentsForDay, dirtyDaysForSegment).  A run is a chain of         *)
(* segments, each of which begins soon after what came before it; it       *)
(* counts on the day of its first success.  A day is computed from a       *)
(* window of segments around it, not from all of them.                     *)
(*                                                                         *)
(* Instants are integers and days have one length: the day on which the    *)
(* clocks change is left out.  Segments of a pairing begin at different    *)
(* milliseconds, so createdAt names a segment.                             *)
(***************************************************************************)
EXTENDS Integers, FiniteSets, FiniteSetsExt

CONSTANTS
  DayLength,
  NormalGap,  \* NORMAL_RECONNECT_GAP_MS
  FullGap,    \* FULL_RECONNECT_GAP_MS
  Lookahead   \* SUCCESSOR_LOOKAHEAD_MS

ASSUME GroupingAssumption ==
  /\ DayLength \in Nat \ {0}
  /\ {NormalGap, FullGap, Lookahead} \subseteq Nat
  /\ NormalGap <= FullGap /\ FullGap < DayLength

\* An absent successAt.
Never == -1

DayOf(t) == t \div DayLength
DayStart(d) == d * DayLength
DayEnd(d) == (d + 1) * DayLength

\* The fields of a segment the counts depend on.  access is "premium" when a
\* side says so, "trial" when both sides say they are not premium.
Accesses == {"unknown", "trial", "premium"}

Segments == [createdAt : Nat, lastRelevantAt : Nat, successAt : Nat \cup {Never},
             fullReconnect : BOOLEAN, explicitUserEnd : BOOLEAN, access : Accesses]

IsSuccessful(segment) == segment.successAt # Never

\* A run is the set of its segments, in the order of createdAt.
Latest(group) == CHOOSE s \in group : \A t \in group : t.createdAt <= s.createdAt

Successful(group) == {s \in group : IsSuccessful(s)}

\* The latest of a group, which need not be its last segment's.
GroupRelevantAt(group) == Max({s.lastRelevantAt : s \in group})

\* Whether the next segment belongs to the run.
Continues(group, segment) ==
  LET previous == Latest(group)
  IN /\ ~previous.explicitUserEnd
     /\ \/ segment.createdAt - GroupRelevantAt(group) <= NormalGap
        \/ /\ previous.fullReconnect
           /\ segment.createdAt - previous.lastRelevantAt <= FullGap

Earlier(segments, s) == {t \in segments : t.createdAt < s.createdAt}

\* groupSegments: in the order of createdAt, each segment joins the run of the
\* one before it or begins a run.  Run[s] is the run of s as far as s.
GroupSegments(segments) ==
  LET Run[s \in segments] ==
        LET earlier == Earlier(segments, s)
            current == Run[Latest(earlier)]
        IN IF earlier # {} /\ Continues(current, s) THEN current \cup {s} ELSE {s}
  IN {Run[s] : s \in {t \in segments : \A u \in segments : t \in Run[u] => u = t}}

SuccessDay(group) == DayOf(Min({s.successAt : s \in Successful(group)}))

\* The successful runs that count on a day.
RunsOf(segments, d) ==
  {g \in GroupSegments(segments) : Successful(g) # {} /\ SuccessDay(g) = d}

\* Premium shows on any segment of the run, trial only on a successful one.
Access(group) ==
  IF \E s \in group : s.access = "premium" THEN "premium"
  ELSE IF \E s \in Successful(group) : s.access = "trial" THEN "trial"
  ELSE "unknown"

(***************************************************************************)
(* The segments a day is computed from.                                    *)
(***************************************************************************)
\* The four queries: createdDay, successDay, the last FullGap before the day,
\* and continuedDays.
InWindow(s, d) ==
  \/ DayOf(s.createdAt) = d
  \/ IsSuccessful(s) /\ DayOf(s.successAt) = d
  \/ DayStart(d) - FullGap <= s.lastRelevantAt /\ s.lastRelevantAt < DayStart(d)
  \/ DayOf(s.createdAt) < d /\ d <= DayOf(s.lastRelevantAt)

\* successorDeadlineForDay: how long the runs of the day wait for a successor;
\* before "floor" if none does.
SuccessorDeadline(segments, d, floor) ==
  LET Deadline(group) ==
        IF Latest(group).fullReconnect THEN Latest(group).lastRelevantAt + FullGap
        ELSE GroupRelevantAt(group) + NormalGap
      open == {g \in RunsOf(segments, d) : ~Latest(g).explicitUserEnd}
  IN IF open = {} THEN floor - 1 ELSE Max({Deadline(g) : g \in open})

\* Mutant of QuerySegmentsForDay: successors are read once, not transitively.
QuerySegmentsOnce(segments, d) ==
  LET window == {s \in segments : InWindow(s, d)}
      deadline == Min({SuccessorDeadline(window, d, DayEnd(d)), DayEnd(d) + Lookahead})
  IN window \cup {s \in segments : s.createdAt \in DayEnd(d)..deadline}

\* querySegmentsForDay: the window, then successors for as long as a run of the
\* day may still have one; all those created before the cursor have been read.
QuerySegmentsForDay(segments, d) ==
  LET Limit == DayEnd(d) + Lookahead
      Before(cursor) ==
        {s \in segments : \/ InWindow(s, d)
                          \/ DayEnd(d) <= s.createdAt /\ s.createdAt < cursor}
      Read[cursor \in DayEnd(d)..Limit + 1] ==
        LET read == Before(cursor)
            deadline == Min({SuccessorDeadline(read, d, cursor), Limit})
        IN IF deadline < cursor THEN read ELSE Read[deadline + 1]
  IN Read[DayEnd(d)]

\* buildPairingDaySummaries, as far as the daily counts go.
Summary(segments, d) ==
  LET counted == RunsOf(segments, d)
      runs(access) == Cardinality({g \in counted : Access(g) = access})
  IN [rawDocuments |-> Cardinality({s \in segments : DayOf(s.createdAt) = d}),
      premiumRuns |-> runs("premium"),
      trialRuns |-> runs("trial"),
      unknownAccessRuns |-> runs("unknown")]

NoSummary == [rawDocuments |-> 0, premiumRuns |-> 0, trialRuns |-> 0,
              unknownAccessRuns |-> 0]

(***************************************************************************)
(* The days a changed segment makes dirty.                                 *)
(***************************************************************************)
\* Mutant of DirtyDaysForSegment: only the days the segment itself touches.
DirtyDaysOfSegment(s) ==
  {DayOf(s.createdAt), DayOf(s.lastRelevantAt)}
    \cup (IF IsSuccessful(s) THEN {DayOf(s.successAt)} ELSE {})

\* dirtyDaysForSegment: a segment that begins within FullGap of midnight may
\* continue a run of the day before.
DirtyDaysForSegment(s) ==
  LET created == DayOf(s.createdAt)
  IN {created, DayOf(s.lastRelevantAt)}
       \cup (IF IsSuccessful(s) THEN {DayOf(s.successAt)} ELSE {})
       \cup (IF s.createdAt <= DayStart(created) + FullGap THEN {created - 1} ELSE {})
=============================================================================
