------------------------------ MODULE GiftCodes ------------------------------
(***************************************************************************)
(* Gift codes (functions/index.js: mintGiftCode, redeemGiftCode,           *)
(* deferPlaySubscription; cleanup_helpers.js for gift_codes).  A redemption *)
(* reads the recipient's Play expiry, reads the code, defers the           *)
(* recipient in Play, then flips the code in a transaction, then defers    *)
(* the sharer and notes that it did: seven awaits with nothing held across *)
(* them.  A call may stop at any of them; clients retry.                   *)
(*                                                                         *)
(* Play is external: deferring moves the expiry only while it still is the *)
(* expected one.  A subscription is identified with its purchase token and *)
(* the account that owns it.  The "defers" ledger is not in the code: it   *)
(* counts what Play granted for each code.                                 *)
(***************************************************************************)
EXTENDS Integers, FiniteSets

CONSTANTS
  Codes,      \* nonces
  Subs,       \* Play subscriptions (purchase tokens)
  Calls,      \* redeemGiftCode invocations in flight at one time
  NoSub, NoCode,
  Defer,      \* GIFT_DEFER_DAYS
  Ttl,        \* GIFT_CODE_TTL_MS
  MaxFuture,  \* admin/referral_config.maxFutureExtensionDays
  MaxStart,   \* latest expiry a subscription starts with
  MaxClock    \* bound on the clock, in Tick only

ASSUME GiftAssumption ==
  /\ Defer \in Nat \ {0}
  /\ {Ttl, MaxFuture, MaxStart, MaxClock} \subseteq Nat
  /\ MaxStart <= MaxFuture
  /\ NoSub \notin Subs /\ NoCode \notin Codes

VARIABLES
  clock,
  expiry,  \* Play: expiryTimeMillis of each subscription
  gift,    \* gift_codes/{nonce}
  call,    \* redemptions in flight
  defers   \* ledger: times Play deferred a subscription for a code

vars == <<clock, expiry, gift, call, defers>>

Gifts == [status : {"none", "active", "redeemed", "deleted"},
          sharer : Subs \cup {NoSub}, recipient : Subs \cup {NoSub},
          expiresAt : Nat, sharerDeferApplied : BOOLEAN]

NoGift == [status |-> "none", sharer |-> NoSub, recipient |-> NoSub,
           expiresAt |-> 0, sharerDeferApplied |-> FALSE]

\* "read": recipient's expiry known; "defer": code and cap checked; "flip":
\* recipient deferred; "sharer": code flipped; "sharerDefer": sharer's expiry
\* known; "mark": sharer deferred.
Redemptions == [pc : {"idle", "read", "defer", "flip", "sharer", "sharerDefer", "mark"},
                code : Codes \cup {NoCode}, sub : Subs \cup {NoSub},
                sharer : Subs \cup {NoSub}, expected : Nat]

NoRedemption == [pc |-> "idle", code |-> NoCode, sub |-> NoSub, sharer |-> NoSub,
                 expected |-> 0]

Init ==
  /\ clock = 0
  /\ expiry \in [Subs -> 0..MaxStart]
  /\ gift = [g \in Codes |-> NoGift]
  /\ call = [k \in Calls |-> NoRedemption]
  /\ defers = [g \in Codes |-> [s \in Subs |-> 0]]

Tick ==
  /\ clock < MaxClock
  /\ clock' = clock + 1
  /\ UNCHANGED <<expiry, gift, call, defers>>

\* mintGiftCode: the sharer's subscription has not run out.
Mint(g, s) ==
  /\ gift[g].status = "none"
  /\ expiry[s] >= clock
  /\ gift' = [gift EXCEPT ![g] = [status |-> "active", sharer |-> s,
                                  recipient |-> NoSub, expiresAt |-> clock + Ttl,
                                  sharerDeferApplied |-> FALSE]]
  /\ UNCHANGED <<clock, expiry, call, defers>>

\* cleanupStaleSessions on gift_codes: whatever the status.  The fields a
\* deleted document had are kept for the properties only; no step reads them.
CleanupGift(g) ==
  /\ gift[g].status \in {"active", "redeemed"}
  /\ gift[g].expiresAt < clock
  /\ gift' = [gift EXCEPT ![g].status = "deleted"]
  /\ UNCHANGED <<clock, expiry, call, defers>>

(***************************************************************************)
(* redeemGiftCode.                                                         *)
(***************************************************************************)
Goto(k, pc) == call' = [call EXCEPT ![k].pc = pc]

End(k) == call' = [call EXCEPT ![k] = NoRedemption]

\* wouldExceedFutureExpiryLimit, for a deferral from "current".
WithinCap(current) == current + Defer <= clock + MaxFuture

\* getPlaySubscription of the recipient.
RedeemStart(k, g, s) ==
  /\ call[k].pc = "idle"
  /\ expiry[s] >= clock
  /\ call' = [call EXCEPT ![k] = [pc |-> "read", code |-> g, sub |-> s,
                                  sharer |-> NoSub, expected |-> expiry[s]]]
  /\ UNCHANGED <<clock, expiry, gift, defers>>

\* Mutant of RedeemCheck: the code is flipped before the recipient is deferred.
RedeemCheckFlipsFirst(k) ==
  LET c == call[k]
      pre == gift[c.code]
  IN /\ c.pc = "read"
     /\ pre.status = "active"
     /\ pre.expiresAt >= clock
     /\ pre.sharer # c.sub
     /\ WithinCap(c.expected)
     /\ call' = [call EXCEPT ![k].pc = "flip", ![k].sharer = pre.sharer]
     /\ UNCHANGED <<clock, expiry, gift, defers>>

\* The snapshot read "to surface friendly errors", and the cap; a code that
\* fails a check ends the call (RedeemFails).
RedeemCheck(k) ==
  LET c == call[k]
      pre == gift[c.code]
  IN /\ c.pc = "read"
     /\ pre.status = "active"
     /\ pre.expiresAt >= clock
     /\ pre.sharer # c.sub
     /\ WithinCap(c.expected)
     /\ call' = [call EXCEPT ![k].pc = "defer", ![k].sharer = pre.sharer]
     /\ UNCHANGED <<clock, expiry, gift, defers>>

\* Mutant of PlayDefer: the expected expiry is not compared.
PlayDeferBlindly(g, s, expected) ==
  /\ expiry' = [expiry EXCEPT ![s] = @ + Defer]
  /\ defers' = [defers EXCEPT ![g][s] = @ + 1]

\* deferPlaySubscription(expected, expected + Defer), accepted by Play.
PlayDefer(g, s, expected) ==
  /\ expiry[s] = expected
  /\ expiry' = [expiry EXCEPT ![s] = expected + Defer]
  /\ defers' = [defers EXCEPT ![g][s] = @ + 1]

DeferRecipient(k) ==
  /\ call[k].pc = "defer"
  /\ PlayDefer(call[k].code, call[k].sub, call[k].expected)
  /\ Goto(k, "flip")
  /\ UNCHANGED <<clock, gift>>

\* Mutants of Flip: a status the other functions do not know; a refusal that is
\* swallowed.
FlipToUsed(k) ==
  LET c == call[k]
  IN /\ c.pc = "flip"
     /\ gift[c.code].status = "active"
     /\ gift' = [gift EXCEPT ![c.code].status = "used",
                             ![c.code].recipient = c.sub]
     /\ Goto(k, "sharer")
     /\ UNCHANGED <<clock, expiry, defers>>

FlipSwallowed(k) ==
  LET c == call[k]
  IN /\ c.pc = "flip"
     /\ gift' = IF gift[c.code].status # "active" THEN gift
                ELSE [gift EXCEPT ![c.code].status = "redeemed",
                                  ![c.code].recipient = c.sub]
     /\ Goto(k, "sharer")
     /\ UNCHANGED <<clock, expiry, defers>>

\* The transaction that marks the redemption.
Flip(k) ==
  LET c == call[k]
  IN /\ c.pc = "flip"
     /\ gift[c.code].status = "active"
     /\ gift' = [gift EXCEPT ![c.code].status = "redeemed",
                             ![c.code].recipient = c.sub]
     /\ Goto(k, "sharer")
     /\ UNCHANGED <<clock, expiry, defers>>

\* Best-effort: an inactive sharer or one at the cap is skipped (RedeemFails).
ReadSharer(k) ==
  LET current == expiry[call[k].sharer]
  IN /\ call[k].pc = "sharer"
     /\ current > clock
     /\ WithinCap(current)
     /\ call' = [call EXCEPT ![k].pc = "sharerDefer", ![k].expected = current]
     /\ UNCHANGED <<clock, expiry, gift, defers>>

DeferSharer(k) ==
  /\ call[k].pc = "sharerDefer"
  /\ PlayDefer(call[k].code, call[k].sharer, call[k].expected)
  /\ Goto(k, "mark")
  /\ UNCHANGED <<clock, gift>>

\* ref.update fails on a document the cleanup has deleted, and is swallowed.
MarkSharer(k) ==
  LET g == call[k].code
  IN /\ call[k].pc = "mark"
     /\ gift' = IF gift[g].status = "deleted" THEN gift
                ELSE [gift EXCEPT ![g].sharerDeferApplied = TRUE]
     /\ End(k)
     /\ UNCHANGED <<clock, expiry, defers>>

\* A failed check, a refused or failed Play call, a lost response, a dead
\* instance: the call ends, what it did stays.
RedeemFails(k) ==
  /\ call[k].pc # "idle"
  /\ End(k)
  /\ UNCHANGED <<clock, expiry, gift, defers>>

Next ==
  \/ Tick
  \/ \E g \in Codes, s \in Subs : Mint(g, s)
  \/ \E g \in Codes : CleanupGift(g)
  \/ \E k \in Calls, g \in Codes, s \in Subs : RedeemStart(k, g, s)
  \/ \E k \in Calls : RedeemCheck(k)
  \/ \E k \in Calls : DeferRecipient(k)
  \/ \E k \in Calls : Flip(k)
  \/ \E k \in Calls : ReadSharer(k)
  \/ \E k \in Calls : DeferSharer(k)
  \/ \E k \in Calls : MarkSharer(k)
  \/ \E k \in Calls : RedeemFails(k)

Spec == Init /\ [][Next]_vars

(***************************************************************************)
(* Properties.                                                             *)
(***************************************************************************)
\* Every variable has the shape the code gives it.
TypeOK ==
  /\ clock \in Nat
  /\ expiry \in [Subs -> Nat]
  /\ gift \in [Codes -> Gifts]
  /\ call \in [Calls -> Redemptions]
  /\ defers \in [Codes -> [Subs -> Nat]]

\* A code that says "redeemed" names a recipient Play has deferred for it, and
\* one that says sharerDeferApplied has a deferred sharer: no order of crashes
\* and retries records a month nobody got.
RecordedMeansGranted ==
  \A g \in Codes :
    /\ gift[g].status = "redeemed" =>
         gift[g].recipient \in Subs /\ defers[g][gift[g].recipient] > 0
    /\ gift[g].sharerDeferApplied => defers[g][gift[g].sharer] > 0

\* However many redemptions of a code race, stop and are retried, its sharer is
\* deferred at most once, and only after a recipient redeemed it: the flip
\* decides one winner, and only the winner goes on to the sharer.
SharerGrantedOnce ==
  \A g \in Codes :
    gift[g].status # "none" =>
      /\ defers[g][gift[g].sharer] <= 1
      /\ defers[g][gift[g].sharer] = 1 => gift[g].recipient # NoSub

\* "The backend rejects any defer that would move the resulting Play expiry
\* beyond a configurable global limit": concurrent redemptions that read the
\* same expiry, or an old one, never stack past the cap, and no deferral moves
\* an expiry by more or less than one gift.
CapRespected ==
  [][\A s \in Subs :
       expiry'[s] # expiry[s] =>
         /\ expiry'[s] <= clock + MaxFuture
         /\ expiry'[s] = expiry[s] + Defer]_vars

\* docs/referral-system.md 2.3: gift codes are "single-use": one subscription
\* besides the sharer's gets a month out of a code.
SingleUse ==
  \A g \in Codes :
    Cardinality({s \in Subs : s # gift[g].sharer /\ defers[g][s] > 0}) <= 1
=============================================================================
