---------------------------- MODULE CampaignCodes ----------------------------
(***************************************************************************)
(* Campaign codes (functions/index.js: redeemCampaignCode), for one        *)
(* campaign.  A redemption reads the campaign, reads its own redemption    *)
(* record, reads the Play expiry, reserves the record in a transaction,    *)
(* defers in Play, marks the record, counts the redemption.  A call may    *)
(* stop at any of these awaits; the client retries, and redemptions of one *)
(* token or of many may overlap.                                           *)
(*                                                                         *)
(* Play is external: deferring moves the expiry only while it still is the *)
(* expected one.  The ledgers "defers" and "granted" are not in the code:  *)
(* they count what Play granted, by subscription and in all.               *)
(***************************************************************************)
EXTENDS Integers, FiniteSets

CONSTANTS
  Tokens,       \* Play subscriptions (purchase tokens)
  Calls,        \* redeemCampaignCode invocations in flight at one time
  NoToken,
  DeferDays,    \* deferDays of the campaign, or the default 30
  MaxRedemptions,
  MaxFuture,    \* admin/referral_config.maxFutureExtensionDays
  Ends,         \* the campaign's expiresAt
  MaxStart,     \* latest expiry a subscription starts with
  MaxFailures,  \* bound on calls that stop half-way
  MaxClock      \* bound on the clock, in Tick only

ASSUME CampaignAssumption ==
  /\ DeferDays \in Nat \ {0}
  /\ {MaxRedemptions, MaxFuture, Ends, MaxStart, MaxFailures, MaxClock} \subseteq Nat
  /\ IsFiniteSet(Calls)
  /\ NoToken \notin Tokens

VARIABLES
  clock,
  expiry,      \* Play: expiryTimeMillis of each subscription
  active,      \* campaign_codes/{slug}.active, which the admin edits
  count,       \* campaign_codes/{slug}.redemptionCount
  redemption,  \* campaign_redemptions/{slug}_{tokenHash}
  call,        \* redemptions in flight
  failures,
  defers,      \* ledger: times Play deferred a subscription for the campaign
  granted      \* ledger: times it did for any subscription

ledger == <<defers, granted>>

vars == <<clock, expiry, active, count, redemption, call, failures, ledger>>

\* "found": campaign read; "eligible": record read, campaign checked; "reserve":
\* expiry and cap checked; "defer": reserved; "record": deferred; "count":
\* recorded.
Redemptions == [pc : {"idle", "found", "eligible", "reserve", "defer", "record", "count"},
                token : Tokens \cup {NoToken}, open : BOOLEAN, expected : Nat]

NoRedemption == [pc |-> "idle", token |-> NoToken, open |-> FALSE, expected |-> 0]

Init ==
  /\ clock = 0
  /\ expiry \in [Tokens -> 0..MaxStart]
  /\ active = TRUE
  /\ count = 0
  /\ redemption = [t \in Tokens |-> "none"]
  /\ call = [k \in Calls |-> NoRedemption]
  /\ failures = 0
  /\ defers = [t \in Tokens |-> 0]
  /\ granted = 0

Tick ==
  /\ clock < MaxClock
  /\ clock' = clock + 1
  /\ UNCHANGED <<expiry, active, count, redemption, call, failures, ledger>>

\* The admin switches the campaign on or off (rules: write if isAdmin()).
EditCampaign ==
  /\ active' = ~active
  /\ UNCHANGED <<clock, expiry, count, redemption, call, failures, ledger>>

Goto(k, pc) == call' = [call EXCEPT ![k].pc = pc]

End(k) == call' = [call EXCEPT ![k] = NoRedemption]

\* Mutant of LimitReached: one redemption too many.
LimitExceeded == MaxRedemptions > 0 /\ count > MaxRedemptions

\* hasReachedRedemptionLimit; MaxRedemptions = 0 stands for no limit.
LimitReached == MaxRedemptions > 0 /\ count >= MaxRedemptions

\* campaignRef.get(): what the checks below look at from here on.
ReadCampaign(k, t) ==
  /\ call[k].pc = "idle"
  /\ call' = [call EXCEPT ![k] = [pc |-> "found", token |-> t,
                                  open |-> active /\ ~LimitReached,
                                  expected |-> 0]]
  /\ UNCHANGED <<clock, expiry, active, count, redemption, failures, ledger>>

\* redeemRef.get(): a token already served gets its idempotent answer, before
\* any check of the campaign.
AnswerAgain(k) ==
  /\ call[k].pc = "found"
  /\ redemption[call[k].token] = "applied"
  /\ End(k)
  /\ UNCHANGED <<clock, expiry, active, count, redemption, failures, ledger>>

\* Mutant of CheckCampaign: the record of an earlier redemption is not looked at.
CheckCampaignOnly(k) ==
  /\ call[k].pc = "found"
  /\ IF call[k].open /\ Ends >= clock THEN Goto(k, "eligible") ELSE End(k)
  /\ UNCHANGED <<clock, expiry, active, count, redemption, failures, ledger>>

CheckCampaign(k) ==
  /\ call[k].pc = "found"
  /\ redemption[call[k].token] # "applied"
  /\ IF call[k].open /\ Ends >= clock THEN Goto(k, "eligible") ELSE End(k)
  /\ UNCHANGED <<clock, expiry, active, count, redemption, failures, ledger>>

\* wouldExceedFutureExpiryLimit, for a deferral from "current".
WithinCap(current) == current + DeferDays <= clock + MaxFuture

\* getPlaySubscription and the future-extension cap.
ReadSubscription(k) ==
  LET current == expiry[call[k].token]
  IN /\ call[k].pc = "eligible"
     /\ IF current >= clock /\ WithinCap(current)
        THEN call' = [call EXCEPT ![k].pc = "reserve", ![k].expected = current]
        ELSE End(k)
     /\ UNCHANGED <<clock, expiry, active, count, redemption, failures, ledger>>

\* Mutant of Reserve: a status nobody reads.
ReservePending(k) ==
  LET t == call[k].token
  IN /\ call[k].pc = "reserve"
     /\ redemption' = IF redemption[t] = "applied" THEN redemption
                      ELSE [redemption EXCEPT ![t] = "pending"]
     /\ Goto(k, "defer")
     /\ UNCHANGED <<clock, expiry, active, count, failures, ledger>>

\* A record that is only reserved excludes nobody: the transaction writes it again.
\* On an applied one it throws "already-applied", which is swallowed outside, so that
\* the call goes on to defer either way.
Reserve(k) ==
  LET t == call[k].token
  IN /\ call[k].pc = "reserve"
     /\ redemption' = IF redemption[t] = "applied" THEN redemption
                      ELSE [redemption EXCEPT ![t] = "reserved"]
     /\ Goto(k, "defer")
     /\ UNCHANGED <<clock, expiry, active, count, failures, ledger>>

\* Mutant of PlayDefer: the expected expiry is not compared.
PlayDeferBlindly(k) ==
  LET t == call[k].token
  IN /\ call[k].pc = "defer"
     /\ expiry' = [expiry EXCEPT ![t] = @ + DeferDays]
     /\ defers' = [defers EXCEPT ![t] = @ + 1]
     /\ granted' = granted + 1
     /\ Goto(k, "record")
     /\ UNCHANGED <<clock, active, count, redemption, failures>>

\* deferPlaySubscription, accepted by Play.
PlayDefer(k) ==
  LET t == call[k].token
  IN /\ call[k].pc = "defer"
     /\ expiry[t] = call[k].expected
     /\ expiry' = [expiry EXCEPT ![t] = @ + DeferDays]
     /\ defers' = [defers EXCEPT ![t] = @ + 1]
     /\ granted' = granted + 1
     /\ Goto(k, "record")
     /\ UNCHANGED <<clock, active, count, redemption, failures>>

\* The expected expiry has moved on: Play refuses, the call throws.
PlayRefuses(k) ==
  /\ call[k].pc = "defer"
  /\ expiry[call[k].token] # call[k].expected
  /\ End(k)
  /\ UNCHANGED <<clock, expiry, active, count, redemption, failures, ledger>>

Record(k) ==
  /\ call[k].pc = "record"
  /\ redemption' = [redemption EXCEPT ![call[k].token] = "applied"]
  /\ Goto(k, "count")
  /\ UNCHANGED <<clock, expiry, active, count, failures, ledger>>

\* Mutant of Count: the count is set to the number of records marked applied.
CountRecords(k) ==
  /\ call[k].pc = "count"
  /\ count' = Cardinality({t \in Tokens : redemption[t] = "applied"})
  /\ End(k)
  /\ UNCHANGED <<clock, expiry, active, redemption, failures, ledger>>

\* FieldValue.increment(1).
Count(k) ==
  /\ call[k].pc = "count"
  /\ count' = count + 1
  /\ End(k)
  /\ UNCHANGED <<clock, expiry, active, redemption, failures, ledger>>

\* A failed await, a lost response, a dead instance.
RedeemFails(k) ==
  /\ call[k].pc # "idle"
  /\ failures < MaxFailures
  /\ failures' = failures + 1
  /\ End(k)
  /\ UNCHANGED <<clock, expiry, active, count, redemption, ledger>>

Next ==
  \/ Tick
  \/ EditCampaign
  \/ \E k \in Calls, t \in Tokens : ReadCampaign(k, t)
  \/ \E k \in Calls : AnswerAgain(k)
  \/ \E k \in Calls : CheckCampaign(k)
  \/ \E k \in Calls : ReadSubscription(k)
  \/ \E k \in Calls : Reserve(k)
  \/ \E k \in Calls : PlayDefer(k)
  \/ \E k \in Calls : PlayRefuses(k)
  \/ \E k \in Calls : Record(k)
  \/ \E k \in Calls : Count(k)
  \/ \E k \in Calls : RedeemFails(k)

Spec == Init /\ [][Next]_vars

(***************************************************************************)
(* Properties.                                                             *)
(***************************************************************************)
\* Every variable has the shape the code gives it.
TypeOK ==
  /\ clock \in Nat
  /\ expiry \in [Tokens -> Nat]
  /\ active \in BOOLEAN
  /\ count \in Nat
  /\ redemption \in [Tokens -> {"none", "reserved", "applied"}]
  /\ call \in [Calls -> Redemptions]
  /\ failures \in Nat
  /\ defers \in [Tokens -> Nat]
  /\ granted \in Nat

\* redemptionCount never runs ahead of what Play granted, and lags behind it
\* only by the calls between the deferral and the count and by those that
\* stopped there: overlapping increments are not lost.
CountTracksGrants ==
  LET uncounted == {k \in Calls : call[k].pc \in {"record", "count"}}
  IN /\ count <= granted
     /\ granted <= count + Cardinality(uncounted) + failures

\* "The backend rejects any defer that would move the resulting Play expiry
\* beyond a configurable global limit": redemptions that read the same expiry
\* never stack past the cap, and each grants exactly the campaign's days.
CapRespected ==
  [][\A t \in Tokens :
       expiry'[t] # expiry[t] =>
         /\ expiry'[t] <= clock + MaxFuture
         /\ expiry'[t] = expiry[t] + DeferDays]_vars

\* The quota is checked on a snapshot and counted after the deferral, so
\* redemptions that overlap or stop before the count exceed it, but by no more
\* than one redemption for each other call in flight and each that stopped.
OvershootBounded ==
  MaxRedemptions > 0 =>
    granted <= MaxRedemptions + (Cardinality(Calls) - 1) + failures

\* docs/referral-system.md 5.2: "single redemption per purchase token".
OncePerToken == \A t \in Tokens : defers[t] <= 1
=============================================================================
