# Verification of the Baby Monitor Timmy core

TLA+ models of the backend in `functions/` and of the protocol it shares with its
clients, TLC configurations that check them on small instances, and TLAPS proofs of
the properties that carry the most weight. Paths below are relative to the
repository; `IDX` is `functions/index.js`, `SVC` is
`functions/lib/session_analytics_service.js`, `HLP` is
`functions/lib/session_analytics_helpers.js`.

## 1. Inventory

The repository is a set of Firebase Cloud Functions over Firestore, the Firestore
rules, and a Dart package with the pairing client. Cloud Functions invocations run
concurrently, may be killed between any two awaits, and are retried by clients,
Eventarc or Cloud Scheduler. The hard behaviours are therefore everywhere the same:
what was read before an await and is used after it, what was written before a crash,
and what two invocations do to one document.

| Component | State | Operations | Talks to | Correct when |
|---|---|---|---|---|
| Web Companion lease (IDX 2993-3256, `firestore.rules` 25-52) | `web_client_sessions/{webUid}`, `web_client_mobiles/{mobileUid}`, Auth claims | registerMobileClient, authorizeWebClient, refreshWebClientAuth, rule hasActiveWebSession | Auth, store verification, rules | one active browser per mobile; access ends with the lease and with the cap; only an authorization revives a session |
| Segment capture (IDX 1327-1425, SVC 217-346, HLP 111-345) | in-memory debounce entries, `session_analytics_segments` | enqueue, flush, captureSessionSnapshots, mergeSegment | dirty markers | a paired segment is a function of the evidence delivered, whatever its order, batches and duplicates |
| Dirty-day markers (SVC 142-193, 519-527) | `session_analytics_dirty_days/{day}` | markDirtyDays, ensureDirtyDaysAtLeast, clearDirtyDayIfHandled | capture, aggregation | stored evidence missing from the day's aggregate has a marker |
| Daily aggregation (SVC 368-424, 626-729, 889-903) | `session_analytics_pairing_days`, `session_analytics_daily` | runScheduledAggregation, aggregateDay | segments, overrides, markers, lease | the aggregate grows with the evidence; a day without a marker shows what its segments say; every day is settled in the end |
| Day lease (SVC 474-517) | `session_analytics_day_leases/{day}` | acquire, release, withDayLease | aggregation, rebuild, retention | exclusion; a run is turned away only where one is at work or died less than one lease before it started |
| Overrides and rebuild jobs (SVC 731-887, 1113-1217) | `session_analytics_overrides`, `..._rebuild_jobs` | createOverride, claimRebuildJob, processNextRebuildJob | lease, aggregation | once all jobs are done every materialised day shows the overrides; every job ends |
| Analytics retention (SVC 1219-1250) | all analytics collections | cleanupExpiredAnalytics | lease, markers | deletes nothing in use |
| Run grouping (HLP 347-514, SVC 119-140, 348-424) | none (pure) | groupSegments, classifyPairingDay, buildPairingDaySummaries, querySegmentsForDay | aggregation | a run counts on one day, once, with the evidence of all its segments |
| Gift codes (IDX 3260-3502) | `gift_codes/{nonce}`, Play expiry | mint, redeem, check | Play, cleanup | one month for one recipient and one for the sharer |
| Campaign codes (IDX 3507-3610) | `campaign_codes`, `campaign_redemptions`, Play expiry | redeemCampaignCode, the admin's edits | Play | one grant per token, quota, cap |
| Premium grant tokens (IDX 2876-2935, `functions/scripts/create_grant_token.js`) | `premium_grant_tokens` | create, verify | none | a token is consumed once |
| Stale cleanup (IDX 1900-2000, `functions/lib/cleanup_helpers.js`) | sessions, pairings, gift codes | cleanupStaleSessions | pairing, gift codes | deletes nothing that became live again |
| TURN delivery (IDX 74-81, 179-181, 274-1212) | per-instance config and load caches, `admin/turn_config` | getTurnCredentials, setTurnConfigAdmin, getTurnConfigAdmin, checkTurnHealth, getLocalTurnStatus, getLocalTurnLoadAdmin | Cloudflare, the local router's REST API | a saved config is used within the cache time; a dead router is not handed out, a live one not skipped |
| Rate limiter (IDX) | per-instance maps | checkRateLimit | every callable | at most max calls per window and instance |
| Pairing (Dart package) | `pairing_codes`, `pairings` | create code, join, handshake | rules | both sides end with one pairing, or none |
| Signaling crypto (Dart package) | none | key derivation, AES | pairing | byte-level; not modelled |
| Admin listings, reports, statistics (IDX) | reports | list, delete, snapshot | none | no protocol; not modelled |

`PROJECT.json` lists every component with its status and every hazard with its line.

## 2. Plan

Order: first what decides access (WebLease), then the analytics pipeline from its
locks outward (DayLease, DirtyDays, RebuildJobs), then the codes that hand out paid
time (GiftCodes, CampaignCodes), then what the pipeline feeds on (SegmentCapture), then
the caches behind the TURN credentials (TurnDelivery) and what the pipeline counts, over
many days (RunGrouping, DailyRuns). All of these are done; the rest of the repository has
no protocol to model, or only half of one (section 7). Each component has
its proofs beside it (`...Proofs`; those of `DayLease` and `DailyRuns`, the two halves of the
scheduled aggregation, are in `AggregationProofs`): every invariant, action property and
refinement that a run checks is a theorem there (NoLostEvidence for captures one at a
time, or under a condition on the marker). Section 5 says what stays with TLC.

Composition. `DayLease` is shown to implement the abstract `DayMutex`; `RebuildJobs`
and `DirtyDays` use exactly what DayMutex promises (one holder of a day) and not the
lease's clockwork. `DirtyDays` takes merging for a union of evidence, which is what
`SegmentProofs` shows of `SegmentMerge`. `DailyRuns` in turn takes a capture and the
aggregation of a day for single steps, which is the grain at which `DirtyDays` shows that
nothing is lost between them. `GiftCodes` and `CampaignCodes` both drive Play through the same
compare-and-set on the expiry, which is all either knows of the other.

## 3. The modules

Every await of the code is a step of the model. A call in flight is a record whose
`pc` says which await it stands at and whose other fields hold what it has read or
sampled; between two steps every other call, the clock and a crash may come. A
transaction is one step: Firestore transactions are serializable, and a retried
transaction re-reads. A `set` with `merge` changes the fields it names of the document
as it is then; a full `set` replaces it.

**WebLease.** `AuthorizeStart`, `AuthorizeCommit` (the transaction of
writeActiveWebClientSession), `AuthorizeClaims` (setClientClaims) are
authorizeWebClient; `RefreshRead`, `RefreshCompute`, `RefreshWrite`/`RefreshExpire` are
refreshWebClientAuth, whose get and set are not in a transaction.
`RefreshIdToken` is the Auth SDK: until it runs, a client presents its old claims.
`HasActiveWebSession` is the rule. The premium proof, the rate limit and the pairing
key are guards that have passed. `refreshedAt` and `authorizedAt` record when the
commit landed.

**DayMutex, DayLease.** Two runs (aggregation and rebuild: `maxInstances: 1`,
`concurrency: 1`, so neither overlaps itself) take the lease of one day after another,
always with the instant their invocation started as `now`; the retention job deletes
expired leases by a query and a later batch. `Die` ends a run anywhere; a run that
reaches `Timeout` can only die. Whether a run is turned away (`Refused`) is decided by the
instant its invocation started, not by the time of the attempt; the ghost `died` keeps when
a run last died on each day. Two facts about the deployment are assumptions of the
module: `timeoutSeconds` (540 s) is shorter than the lease (15 min), and the aggregation
(04:15) starts more than `Timeout` after a retention run has ended (00:10 with its
retries within 3 h, or 06:10). The second matters: the retention batch deletes blindly,
so it can delete a lease that a *rebuild* took after the query; the model shows this
happens, and that it is harmless only because no aggregation is then near.

**DirtyDays.** One day, several sessions and deliveries. A capture commits its segment,
samples `dirtyAt`, then writes the marker: blindly when the evidence changed
(`MarkDirty`), by a transaction that never lowers it when the evidence was already there
(`EnsureDirty`). The aggregation fixes its start, queries, writes, and clears the marker
if it is no newer than the start. A delivery stays `pending` until a capture of it ends
well. A call to Firestore takes at least one tick of the clock between what is sampled
and what is written. Merging is the union of evidence.

**SegmentMerge, SegmentCapture.** One raw session. `SegmentMerge` holds the pure part:
what one version of the document says (`Project`; `Coverage` without a pairing key),
`Merge`, `Cover` and the `Signature` that decides whether a write is due.
`SegmentCapture` is the instance: `Deliver` puts a version into the debounce entry,
`FlushStart` is the timer, `MergeSnapshot` one round of the loop, `Commit` the
transaction, `Resolve` the end of the markers and of every delivery that waits. The loop
runs without an await; its rounds are steps so that what it has gathered can be stated,
and they touch nothing another step reads. A delivery may time out while its snapshot
stays in the entry or the flush, and is then delivered again.

**RunGrouping, DailyRuns.** One pairing over several days. `RunGrouping` is the pure part:
`GroupSegments` chains segments into runs (a run is the set of its segments, in the order
of createdAt), `Summary` counts the runs of a day,
`QuerySegmentsForDay` is the window a day is computed from (`InWindow` the four queries,
`Read` the loop that follows successors), `DirtyDaysForSegment` the days a changed segment
touches. In `DailyRuns`, `Capture` stores a version of a session and marks its days,
possibly late; `RunStart` fixes the days of an aggregation (yesterday and the dirty days
read), `AggregateDay` writes one and clears its marker if the day ended 24 hours ago and
the marker is not newer than the run (`fresh`), `ClearFails`, `DayBusy` and `DayThrows` are
the ways that goes wrong, `RunMissed` a day without a run. Abstractions: a day has one
length; time stands still during a run (540 s of a day); sessions are named by their
createdAt, which lets two of one pairing overlap but not begin together; `access` stands
for the two premium fields, and a version says of both sides what it says of one; `ran`
and `todo` are the program counter of the scheduler.

**RebuildJobs.** One pairing. Overrides are numbered by `createdAt`, which is sampled
before their transaction, so they commit in any order. `Claim` is claimRebuildJob with
the choice of the job; `LoadOverrides` runs once per invocation, before any lease;
`TakeDay`, `SkipDay`, `RebuildDocs`, `RebuildDaily` are one day under its lease, `Save`
the end of the chunk. `AggTake` to `AggDaily` are the aggregation as far as overrides
go, with the fingerprint that lets it skip a summary: the fingerprint is the override the
aggregation last wrote, which a rebuild leaves in place. Abstractions: a claim turns
stale in some finite time (one instance, and `Timeout` is shorter than REBUILD_LEASE_MS);
a bounded override lies at or before today, as normalizeOverrideRange demands. The
retention job deletes the two documents of a day that has expired (`Expires`, `DeleteDocs`,
`DeleteDaily`) between any two steps of a rebuild; segments are gone months before, so
nothing aggregates such a day. Reading the documents and updating the summaries is one step:
an update of a document deleted in between fails and reads again, which is the step taken
later. The retention of overrides and jobs is left out, and so is the first day an override
may begin on, since that day may expire before the override is committed. An aggregation that dies between the summaries and
the first daily aggregate of a day leaves the day unmaterialised: its dirty marker brings
it back (DirtyDays), which this module does not show.

**TurnDelivery.** The calls in flight on an instance share its two caches. A call of
getTurnCredentials reads the config (`TurnBegin`, `ConfigRead`, `ConfigGot`), then tries
the providers: `Proceed` runs from one await to the next, past every provider that is
switched off, excluded, of no known type or has nothing to offer (`PassedOver`), and ends at Cloudflare, at a probe of the local router, at its
credentials, or with an answer. `ProbeAnswers` is the headers of `/load`, which end the
timeout, `ProbeEnds` the body, `ProbeFails` everything else; `CredentialsFail` is the
HMAC fallback, which makes credentials whether the router lives or not. The admin's
calls are `SaveBegin`, `SaveSet`, `SaveCached` (the document, then the cache), `ReadBegin`
(a read past the cache) and `LoadBegin`, `LoadEnds`, `LoadFails`. Entries are dated as the
code dates them: a read and a probe from before they began, a save and an admin's answer
from after. `Stored` is what sanitizing, sorting and renumbering make of the admin's
input, `BuildProviderList` puts the builtins back. URLs and secrets are there or not;
what is answered is not kept, since the properties speak of when it is decided. Nothing
but the timeouts of the code bounds a call there; Firestore, Cloudflare and bodies are
given bounds of their own, without which no staleness bound could hold.

**GiftCodes, CampaignCodes.** Each await of redeemGiftCode and redeemCampaignCode is a
step. Play is external: `PlayDefer` moves the expiry if it still is the expected one and
refuses otherwise. The ledger is not in the code: `defers` counts what Play granted per code or
token, `granted` what it granted for the campaign.
The cleanup deletes gift codes; nothing deletes campaign redemptions
(`docs/referral-system.md` 5.3 says 90 days; `cleanup_helpers.js` returns false for
them). Debug tokens, which skip Play, are not modelled.

## 4. The runs

| Run | Question | Bounds and why they are enough |
|---|---|---|
| `WebLease` | one active browser, lease and cap, revival | one mobile, two browsers, two overlapping authorizations, one refresh; lease 1, cap 2, clock to 3, so that refreshes happen before, at and after both limits. One session id: a browser's old token then still matches a new session, which only admits more. The theorems cover every instance |
| `DayLease` | exclusion, nobody turned away without cause, implements DayMutex | two days, four leases, lease 2, timeout 1, gap 2, clock to 6: a lease is taken, abandoned, turns away, expires, is deleted by retention and taken again. `RefusedForCause` is exact: with one tick less TLC refutes it |
| `DirtyDays` | no lost evidence | two sessions, three deliveries, one capture at a time, one death, clock to 8; day complete from 2 |
| `DirtyDays_overlap` | finding | the same with two captures at a time and no deaths |
| `GiftCodes` | records match grants, sharer granted once, cap | one code, three subscriptions, two calls, clock to 2 with a TTL of 1 |
| `GiftCodes_single` | finding | the same without time |
| `CampaignCodes` | records, count, cap, overshoot | three tokens, two calls, quota 2, one call that stops |
| `CampaignCodes_token` | finding | one token, two calls, no quota |
| `DailyRuns` | settled days are current, windows are exact, every day is settled | three sessions (before, just after and well after a midnight, the last outliving the day they may belong to), three versions, captured at once or a day late, four days of four units, gaps 1 and 2, lookahead and settling time one day, a session observed for one day at most (raw sessions are deleted after 24 hours), one marker read per run and one mishap (late capture, missed run, busy day, throw, failed clear). A run can begin before its day's window, cross midnight, be continued transitively and be changed after its day was settled. With one marker per run the limit of 35 bites at the second dirty day |
| `RebuildJobs` | settled days follow the overrides; deleted days stay deleted; every job ends | two days (today is never materialised, so one is, and it may expire), two overrides, chunks of one day, so that every job takes several invocations, three aggregations, two failures |
| `TurnDelivery` | config and verdicts are acted on while they are young | one instance, three calls of any kind, two at a time, two configs (the local router after Cloudflare, or switched off beside a static provider; without a config it comes first), the router up at first and two changes of it, so that it can die and recover. Config cache 2, verdicts 2 and 1, probe and everything else 1: a failure lives less than an answer, and a timed-out probe is stored expired, as with the real times (5 min; 30 s and 5 s; 6 s). Calls arrive until 3, one tick beyond `VerdictAge`, so a verdict kept for ever would be acted on. A second instance would add only saves this one does not see, which a save that fails after its write already is. The bounds on a router that was up, overloaded or refused are reached exactly: one tick less and TLC refutes them |
| `SegmentCapture` | nothing acknowledged is lost, order does not matter, everything is captured | three versions (created, connected, ended with a createdAt of the future and another premium), paired or not; two overlapping flushes, two key versions, one fault of any kind. Two faults over the same events exceed what TLC finishes; the theorems cover them |

Deadlock is not checked where the bounded system really stops: deliveries, failures or
days are used up (DirtyDays, DailyRuns, RebuildJobs, SegmentCapture), every call has ended
(TurnDelivery), or every code is spent and the clock stands
still (GiftCodes).

`TurnDelivery.cfg` has a VIEW. Once no more calls arrive the clock matters to a state only through
the ages of what it holds, and an age beyond what anything compares it with does not matter
at all: a cache entry that has expired never hits again, and a ghost older than the
longest span of a property says the same for ever. `Ages` keeps the rest (and the clock itself while
calls still arrive, since `LastCall` compares it), so two states it identifies have the
same steps and the same verdict on every property.

Fairness is assumed only in `RebuildJobs`, `SegmentCapture` and `DailyRuns`. In the first, the scheduler fires every five
minutes for ever, so a claimable job is claimed; an invocation and an aggregation that
have started go on until they end or die; a dead lease runs out. The number of
aggregations is bounded because one runs a day while a rebuild runs every five minutes.
In the second, Eventarc delivers what is due, a timer fires and a flush goes on until it
ends or fails. A timer is reset by every delivery, so this needs eight quiet seconds: a
session has finitely many relevant versions, and redeliveries back off for at least ten
seconds. Faults are bounded; a capture that fails for ever is given up by Eventarc too. In the third, time passes,
Cloud Scheduler fires every day, and a run that has started comes to the end of its days
(`NextDay`). Mishaps are bounded: a day that throws for ever, as one beyond the safety cap
does, keeps the days sorted after it from being visited for ever, which the documentation
accepts (docs/session_analytics.md:62, "fails the aggregation visibly"). The clock stops at
`LastHour`; from then on a run stands for that of any later day.

## 5. What is proved

For every value of the constants, that is for every number of mobiles, browsers, codes,
tokens, overrides, days, events, instances and calls in flight, every interleaving of
their awaits, every length of lease, cap, cache and timeout, and any number of failures.
What is assumed of the constants is named in each module (`...Assumption`) and evaluated
by TLC; section 3 and the entries below say what of it is a fact about the deployment.

* `WebLease`: TypeOK, OneActivePerMobile, AccessWithinAuthorization,
  SilentBrowserLosesAccess, OnlyAuthorizationActivates. The inductive invariant is
  TypeOK together with
  - `CallsInThePast`: a call in flight names documents that exist and holds no instant of
    the future, so what it writes late is no later than what it could write now;
  - `ActiveIsPointed`: an active session is the one its mobile's pointer names. This is
    what makes the revocation by pointer sufficient, and OneActivePerMobile follows;
  - `CapsBounded`: a document's cap lies at most MaxAuth after its authorization and its
    lease at most Lease after its last refresh.
* `DayLease`: TypeOK, MutualExclusion, RefusedForCause, HolderKeepsLease, and MutexSpec,
  that the lease implements DayMutex. The inductive invariant adds
  - `RunsInTime`: a live run is no older than the timeout;
  - `OwnIds`: the two runs never bear the same lease id;
  - `CleanupAlone`: while the retention job has leases marked for deletion, no
    aggregation runs;
  - `HolderLeased`: a run at work on a day owns its lease document, except a rebuild that
    lost it to the retention job; that one started before the job ended, so it is dead
    when the aggregation may start;
  - `LeaseAccounted`: a lease document belongs to the run at work on the day, or expires
    within DAY_LEASE_MS after a run died there: it was granted from the start of an
    invocation that was still alive then. RefusedForCause is what this says of whom the
    document turns away.
  HolderKeepsLease follows because a lease is granted only on a day nobody is at work on
  (`GrantedWasFree`) and released only by the one that is. The refinement maps the holders of a day to the runs at work on it; every step is an
  Enter, a Leave or a stutter of DayMutex.
* `SegmentCapture`: TypeOK, AckedEvidenceStored, SameWhateverTheOrder, TimesOrdered,
  EvidenceGrows. First, about the operators alone: `Covers` is reflexive and transitive
  (`CoversItself`, `CoversTransitive`), a merge covers both of its sides (`MergeJoin`,
  `CoverJoin`), and every value of a merge is a value of a side (`MergeSound`). The
  inductive invariant then says
  - `EntryHolds`: who waits on the entry has a snapshot in it;
  - `FlushHolds`: a flush has gathered the snapshots it has been through, and after its
    transaction the segment covers all it was sent with. It survives the commits of
    other flushes because a commit only gains;
  - `SegmentHolds`: the segment covers every delivery that ended well and holds no value
    that no version carries.
  SameWhateverTheOrder follows: covering everything and inventing nothing leaves one
  value for each field.

* `DirtyDays`: TypeOK and AggregateGrows whatever overlaps, NoLostEvidence for one
  capture of the day at a time (`Serial`) and any number of deliveries, deaths and
  aggregations. The hypothesis is needed: `DirtyDays_overlap` loses evidence with two
  (finding 1). The inductive invariant has a part that needs no hypothesis,
  - `ShownIsStored`: what a run has found is stored and, when it writes, covers what the
    day shows;
  and one that does,
  - `HeldEvents`: a capture past its transaction still finds its event stored with the
    `capturedAt` it remembers, which is what lets it decide between a blind write and a
    repair;
  - `InstantsPast`: the marker is older than the clock and than the start of a capture
    that has not committed, so what that capture writes later is newer;
  - `LateMarkers`: for evidence stored after the running aggregation's query, the marker
    is younger than the run, or will be once its capture has written it, so the run's
    clearing leaves it alone;
  - `Marked`: evidence that is stored and missing from a complete day is marked, or its
    delivery is pending.
  `ForwardMarkersSuffice` then says what is wrong with captures that overlap: any number of
  them loses nothing if every write of the marker leaves one no older than it finds
  (`Forward`) and captures that die do so before their commit (`DiesEarly`), however
  aggregations interleave and die. The blind set of markDirtyDays does not ensure the first,
  and nothing can ensure the second. Its invariant is `HeldOnce` (an event is in one hand,
  so no capture takes the path of a retry) and `LateOnTheWay` (evidence the running
  aggregation missed has a marker younger than the run, or a capture that will write one).
  TLC finds no violation with two overlapping captures, two deaths and four clock steps
  (264,006 states under these hypotheses, so they are satisfied) or one death and six
  (2,530,467).
* `GiftCodes`: TypeOK, RecordedMeansGranted, SharerGrantedOnce, CapRespected. The
  inductive invariant adds
  - `CallsNamed`: a redemption past its check names the sharer of a minted code, not
    itself;
  - `FlipIsPaid`, `RecipientPaid`: a deferral comes before the flip and the flip before
    the record;
  - `OneWinner`: at most one redemption of a code is past the flip, and the document is
    no longer active then. The retention job may delete the document under it, so the
    winner is remembered by the call and not by the document alone;
  - `SharerLedger`: how often Play deferred the sharer, by how far that one redemption
    has come. SharerGrantedOnce is not inductive without it, since a retry of the
    sharer's deferral looks at no document;
  - `PendingWithinCap`: an expiry about to be sent stays under the cap, because the clock
    only moved on since it was compared.
* `CampaignCodes`: TypeOK, CountTracksGrants, OvershootBounded, CapRespected, for every
  finite set of calls in flight. The inductive invariant adds
  - `CountLedger`: every grant is counted, about to be, or lost with a call that stopped;
  - `AdmissionLedger`: the redemptions the quota let in have their place under the bound
    before they are granted. Without them the bound is not inductive, since a deferral
    looks at no quota. The bound is Calls - 1 because the call that is let in is not one
    of those that overlap it (`RoomForOneMore`).
* `RebuildJobs`: TypeOK, SettledDaysFollowOverrides, OneOpenOverride,
  OnlyAggregationCreates. The inductive invariant adds
  - `RunOnJob`, `AggUnderLease`: whoever writes a day holds its lease, and an invocation
    is never behind its job's saved cursor;
  - `LoadedFresh`, `AggFresh`: overrides loaded before a lease are wrong only for days
    that a job created since has to visit;
  - `HalfRebuilt`, `HalfAggregated`: what a day shows between its two writes. None of this
    speaks of days that have expired, from which the retention job takes what it likes;
  - `DaysRight`: a materialised day shows the overrides or is due to a job, the one at
    work included, which will visit it again from its saved cursor if it dies;
  - `OpenIsUnique`, `UntouchedDays`, `JobsNamed`.
* `TurnDelivery`: TypeOK, ConfigNotStale, DeadRouterNotServed, LiveRouterNotSkipped. The
  constants are assumed to have `FailTTL <= LoadTTL` (5 s and 30 s, IDX 549-550) and
  finite inputs of the admin. First, about the operators alone: `BuildProviderList` is a
  sequence of known providers (`ListIsSeq`), and what `Proceed` ends at says what was
  passed over before it (`ProceedIs`). The inductive invariant then relates each date to an
  instant at which the entry was true:
  - `CallsInFlight`: a call is never past the end of what it waits for, and one that
    tries a provider has it at the head of what is left;
  - `ConfigsHeld`: a config that was read has been the stored one since the read began,
    one that was written since the write began, and a cached one since at most StoreTime
    before its date;
  - `VerdictsSeen`: a verdict was true at most BodyTime before its date. A failure is dated
    from before its probe and was true when it ended, ProbeTimeout later if it timed out.
  The two bounds on the router follow from where a call comes from (`CallAsks`): it acts
  on a cache entry that hits, or on its own probe.

* `DailyRuns`: DailyTypeOK, SettledDayCurrent, WindowExact, for any number of sessions and
  versions, any evidence, delays, lengths of days, gaps and lookahead, and any missed,
  busy, throwing and half-finished runs. First, about the operators alone. The recursions
  of groupSegments and querySegmentsForDay have the value their equations say (`RunToIs`,
  `ReadFromIs`), by induction over the order of createdAt and, downward, over the cursors;
  a theorem cannot take the induction hypothesis as an operator here, so the inductions
  are over sets (`InductiveSet`, `SegmentInduction`, `CursorInduction`). A segment that is
  not read has not changed what is read (`QueryWithout`), and a merge leaves a segment in
  the window of every day it was in (`MergeIs`). The inductive invariant then adds
  - `CapturesSound`: finitely many segments, each named by its session, with its instants
    in order. That there are finitely many is what makes the counts numbers;
  - `RunsAtTheHour`: a run does not outlast its hour, so a day it finds over for 24 hours
    is past `SettledFrom`;
  - `MarkersKept`, `UnmarkedEmpty`: until then every day that a segment touches is marked,
    and one without a marker has nothing to show;
  - `SummaryHasSegment`: a day with a summary has a segment in its window for good, so the
    aggregation that finds none and writes nothing leaves nothing behind;
  - `SettledDayCurrent` itself. A capture that does not mark a settled day either is not
    read by it, and then nothing it reads has changed, or brings in a segment that begins
    elsewhere and outlived the day.
  WindowExact is not about steps but about which segments can be stored. Whether a segment
  continues the run of the one before it depends on earlier segments only, so the runs are
  the classes of an equivalence (`GroupsAreClasses`), and every segment is in one run and
  no other, overlapping sessions included (`EachSegmentInOneRun`, a theorem of its own).
  When sessions do not overlap (`Orderly`), the segment before alone decides (`JoinsIs`);
  then what a day
  has read when its loop ends is an interval of the segments (`WindowIs`), whose runs are
  those of all segments cut at its ends (`ClassInWindow`); and a run of the day that is
  neither `BegunBefore` nor `GoesBeyond` is not cut, since the first segment missing
  from it would begin before the deadline the loop has waited for (`RunRead`).
  `SettledDaysTrue` puts the two halves together: outside the exceptions they name, a day
  without a marker shows what all segments of the pairing say of it.

Not proved, and only model-checked:

* EveryEventAcked, JobsEnd, EveryDaySettled: liveness under fairness, which needs ENABLED.
* NoLostEvidence for overlapping captures without a further hypothesis, which fails (finding 1).
* WindowExact for sessions that overlap, which fails (section 6).

## 6. Findings

Each is a run that TLC refutes, with the documentation it contradicts.

1. `DirtyDays_overlap`: two captures of one day write the marker in the opposite order of
   their samples; a running aggregation that missed the newer evidence clears the
   marker, and the evidence waits for the next change of that day.
2. `GiftCodes_single`: Play defers before the code is flipped, so both of two racing
   recipients keep a month.
3. `CampaignCodes_token`: the reservation transaction refuses only a record already applied
   (IDX 3572). Of two overlapping redemptions of one token, the second, which read the
   record before the first deferred and the expiry after it, finds the record only reserved,
   reserves it again and defers again. (A call that finds the record applied would do the
   same, since the refusal is swallowed at IDX 3585; the run does not need it.)

Seen while modelling and not given a run of their own:

* Finding 1 has a second cause, which needs a death as well as an overlap. `capturedAt`
  is sampled when a capture starts, not when its transaction commits (SVC 310). A capture
  that started early, committed after a run's query and died before its marker is repaired
  by its redelivery; that one finds a marker another capture wrote in between, not older
  than `capturedAt`, leaves it (SVC 333), and the run then clears it. There is
  no third cause: for any number of overlapping captures `NoLostEvidence` holds when no write
  moves the marker back and no capture dies past its commit (`ForwardMarkersSuffice`).
* The pointer of a mobile outlives its browser's move to another mobile, so the first
  mobile's next authorization revokes the second one's session (IDX 3024), where
  docs/security-contract.md:117 speaks of "the previously active browser for that mobile
  UID".
* successorDeadlineForDay (SVC 361) takes the last segment's full-reconnect deadline
  instead of the later of both deadlines. When an older session of the run was heard of
  after the last one, a segment that groupSegments would add is not read, and its premium
  is lost to the run, although "late Premium/Testphase evidence stays with the original
  logical run" (docs/session_analytics.md:58). `WindowExact` without `Orderly` fails this
  way within three versions.
* The window of a day begins ten minutes before midnight (SVC 371). A run whose success
  was last heard of before that, and that goes on after midnight through an unsuccessful
  full reconnect, counts on both days (`BegunBefore`).
* A day is settled at 04:15 two days later, but a session is still heard of up to 24 hours
  after its creation. One that began later than 00:10 of the next day and continues a run
  of this day does not mark it (SVC 119-140), so what it learns after 04:15, premium for
  one, is not counted, although "late Premium/Testphase evidence stays with the original
  logical run" (docs/session_analytics.md:58). No late capture is needed. A session
  that began before the day could do the same only with a version more than 24 hours late.
  `SettledDayCurrent` without its second disjunct fails; the disjunct says exactly which segments may do it, and the theorem that no
  others do.
* Segments expire 34 days after their own last capture. An aggregation resumed after a
  long pause may find some of a day's segments gone, and then lowers its counts instead of
  keeping the summary (docs/session_analytics.md:64 speaks of preserving it).
* A refresh in flight when its browser is replaced still extends the lease of the
  revoked document (the status keeps the browser out).
* A gift redemption that stops after the deferral is granted again on retry, from the
  moved expiry. The campaign quota is checked before and counted after the deferral
  (`OvershootBounded` says by how much it can be exceeded).
* The coverage record of a session without a pairing key is created when its batch was
  last observed, so its createdAt, and with it its createdDay, depends on how the
  versions were batched, and may lie after its successAt (TimesOrdered and
  SameWhateverTheOrder speak of paired segments only).
* A probe of the local router times out after 6 s and its verdict lasts 5 s from its
  start, so it is stored expired and every call waits 6 s on a silent router, where IDX
  543 says failures are cached for about 5 s. A local router saved without URLs hides
  the configured public ones, because the stored entry wins over the builtin it is
  merged with.

## 7. Not modelled, and why

* Store verification and JWS parsing, cryptography, formatting: byte-level work with no
  protocol. Callers see store verification as a guard.
* Admin listings, statistics, problem reports, diagnostics: single reads and writes.
* The Firestore rules other than the web session: predicates on one request.
* Pairing (meeting point, handshake) and the cleanup of pairings: this repository has the
  Dart calls that read and write the documents and the job that deletes old ones. Which
  phone makes which call when, what it retries and what it does with an answer is in the
  apps, so a model would have to invent the half that decides its properties.
* Premium grant tokens: one transaction consumes a token, and nothing else writes it after
  the operator's script has created it; there is no other step to interleave.
* The rate limiter: a counter in one instance's memory, used without an await. Every
  model takes it as a guard that has passed.
* The classification of a pairing day: thresholds over two counts. That an override
  replaces its result is in `RebuildJobs`.
* Retention of analytics: its deletion of leases is in `DayLease`, what it means for
  rebuilds in `RebuildJobs`; elsewhere it comes a month after the last step of interest.
* Of the analytics config only the key version is modelled: `captureEnabled` off drops
  what is delivered on purpose, and `aggregationEnabled` off is a run that is missed.
