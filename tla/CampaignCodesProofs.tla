------------------------- MODULE CampaignCodesProofs -------------------------
(***************************************************************************)
(* Safety of the campaign codes for every set of subscriptions, every      *)
(* finite set of redemptions in flight, every quota and every cap.         *)
(***************************************************************************)
EXTENDS CampaignCodes, FiniteSetTheorems, TLAPS

\* Deferred in Play, not yet counted.
Uncounted == {k \in Calls : call[k].pc \in {"record", "count"}}

\* Let in by the quota, not yet deferred in Play.
Admitted == {k \in Calls : call[k].open /\ call[k].pc \in
                             {"found", "eligible", "reserve", "defer"}}

\* What a redemption carries across its awaits: its token, a campaign that was
\* open once it passed the check, an expiry within the cap once it passed that.
CallsInOrder ==
  \A k \in Calls :
    /\ call[k].pc # "idle" => call[k].token \in Tokens
    /\ call[k].pc \in {"eligible", "reserve", "defer"} => call[k].open
    /\ call[k].pc \in {"reserve", "defer"} =>
         call[k].expected + DeferDays <= clock + MaxFuture

\* Every grant is counted, about to be, or lost with a call that stopped.
CountLedger ==
  /\ count + Cardinality(Uncounted) <= granted
  /\ granted <= count + Cardinality(Uncounted) + failures

\* The redemptions let in have their place under the bound before they are
\* granted: without them the bound is not inductive, since a deferral looks at
\* no quota.
AdmissionLedger ==
  MaxRedemptions > 0 =>
    granted + Cardinality(Admitted)
      <= MaxRedemptions + (Cardinality(Calls) - 1) + failures

IInv == TypeOK /\ CallsInOrder /\ CountLedger /\ AdmissionLedger

\* The sets the ledgers count are finite, and disjoint.
LEMMA LedgersFinite ==
  /\ IsFiniteSet(Uncounted) /\ Cardinality(Uncounted) \in Nat
  /\ IsFiniteSet(Admitted) /\ Cardinality(Admitted) \in Nat
  /\ Cardinality(Calls) \in Nat
  /\ \A S \in SUBSET Calls : IsFiniteSet(S) /\ Cardinality(S) \in Nat
<1>1. \A S \in SUBSET Calls : IsFiniteSet(S) /\ Cardinality(S) \in Nat
  BY CampaignAssumption, FS_Subset, FS_CardinalityType
<1>2. Uncounted \in SUBSET Calls /\ Admitted \in SUBSET Calls
  BY DEF Uncounted, Admitted
<1> QED
  BY <1>1, <1>2

\* With an idle call left over, the calls of the two ledgers are not all.
LEMMA RoomForOneMore ==
  ASSUME NEW k \in Calls, call[k].pc = "idle"
  PROVE  Cardinality(Admitted) + Cardinality(Uncounted) <= Cardinality(Calls) - 1
<1>1. IsFiniteSet(Calls) /\ IsFiniteSet(Calls \ {k})
  BY CampaignAssumption, FS_RemoveElement
<1>2. Cardinality(Calls \ {k}) = Cardinality(Calls) - 1
  BY CampaignAssumption, FS_RemoveElement
<1>3. Admitted \cap Uncounted = {}
  BY DEF Admitted, Uncounted
<1>4. Cardinality(Admitted \cup Uncounted)
        = Cardinality(Admitted) + Cardinality(Uncounted)
  <2>1. Cardinality(Admitted \cup Uncounted)
          = Cardinality(Admitted) + Cardinality(Uncounted) - Cardinality({})
    BY <1>3, LedgersFinite, FS_Union
  <2>2. Cardinality({}) = 0
    BY FS_EmptySet
  <2> QED
    BY <2>1, <2>2, LedgersFinite
<1>5. Admitted \cup Uncounted \in SUBSET (Calls \ {k})
  BY DEF Admitted, Uncounted
<1>6. Cardinality(Admitted \cup Uncounted) <= Cardinality(Calls \ {k})
  BY <1>1, <1>5, FS_Subset
<1> QED
  BY <1>2, <1>4, <1>6

\* A step that grants and counts nothing and lets nobody in.
LEMMA LedgersKept ==
  ASSUME IInv, UNCHANGED <<count, granted, failures>>,
         Uncounted' = Uncounted, Admitted' \subseteq Admitted
  PROVE  CountLedger' /\ AdmissionLedger'
<1>1. CountLedger'
  BY DEF IInv, CountLedger
<1>2. /\ Cardinality(Admitted') <= Cardinality(Admitted)
      /\ Cardinality(Admitted') \in Nat
      /\ Cardinality(Admitted) \in Nat
      /\ Cardinality(Calls) \in Nat
  <2>1. Admitted' \in SUBSET Calls /\ Admitted' \in SUBSET Admitted
    BY DEF Admitted
  <2> QED
    BY <2>1, LedgersFinite, FS_Subset
<1>3. AdmissionLedger'
  <2>1. granted \in Nat /\ failures \in Nat /\ MaxRedemptions \in Nat
    BY CampaignAssumption DEF IInv, TypeOK
  <2> QED
    BY <1>2, <2>1 DEF IInv, AdmissionLedger
<1> QED
  BY <1>1, <1>3

LEMMA InitIInv == Init => IInv
<1> SUFFICES ASSUME Init PROVE IInv
  OBVIOUS
<1> USE CampaignAssumption DEF Init
<1>1. TypeOK
  BY DEF TypeOK, Redemptions, NoRedemption
<1>2. CallsInOrder
  BY DEF CallsInOrder, NoRedemption
<1>3. Uncounted = {} /\ Admitted = {}
  BY DEF Uncounted, Admitted, NoRedemption
<1>4. Cardinality(Uncounted) = 0 /\ Cardinality(Admitted) = 0
  BY <1>3, FS_EmptySet
<1>5. CountLedger /\ AdmissionLedger
  BY <1>4, LedgersFinite DEF CountLedger, AdmissionLedger
<1> QED
  BY <1>1, <1>2, <1>5 DEF IInv

\* The clock and the admin's switch.
LEMMA AroundStep ==
  ASSUME IInv, Tick \/ EditCampaign \/ UNCHANGED vars
  PROVE  IInv'
<1> USE CampaignAssumption DEF IInv
<1>1. /\ call' = call
      /\ clock' \in Nat /\ clock <= clock'
      /\ UNCHANGED <<count, granted, failures>>
  BY DEF Tick, EditCampaign, vars, ledger, TypeOK
<1>2. TypeOK'
  BY <1>1 DEF Tick, EditCampaign, vars, ledger, TypeOK
<1>3. CallsInOrder'
  BY <1>1 DEF CallsInOrder, TypeOK, Redemptions
<1>4. CountLedger' /\ AdmissionLedger'
  BY <1>1, LedgersKept DEF Uncounted, Admitted
<1> QED
  BY <1>2, <1>3, <1>4

\* campaignRef.get(): the only step that lets a redemption in, and it found the
\* count below the quota.
LEMMA ReadCampaignStep ==
  ASSUME IInv, NEW k \in Calls, NEW t \in Tokens, ReadCampaign(k, t)
  PROVE  IInv'
<1> USE CampaignAssumption DEF IInv
<1>1. /\ call' \in [Calls -> Redemptions]
      /\ call'[k].pc = "found"
      /\ call'[k].token = t
      /\ call'[k].open = (active /\ ~LimitReached)
      /\ \A l \in Calls \ {k} : call'[l] = call[l]
      /\ call[k].pc = "idle"
  BY DEF ReadCampaign, TypeOK, Redemptions
<1>2. UNCHANGED <<clock, expiry, active, count, redemption, failures, defers, granted>>
  BY DEF ReadCampaign, ledger
<1>3. TypeOK'
  BY <1>1, <1>2 DEF TypeOK
<1>4. CallsInOrder'
  BY <1>1, <1>2 DEF CallsInOrder
<1>5. Uncounted' = Uncounted
  BY <1>1 DEF Uncounted
<1>6. CountLedger' /\ AdmissionLedger'
  <2>1. CASE ~ call'[k].open
    <3>1. Admitted' \subseteq Admitted
      BY <1>1, <2>1 DEF Admitted
    <3> QED
      BY <1>2, <1>5, <3>1, LedgersKept
  <2>2. CASE call'[k].open
    <3>1. Admitted' = Admitted \cup {k} /\ k \notin Admitted
      BY <1>1, <2>2 DEF Admitted
    <3>2. Cardinality(Admitted') = Cardinality(Admitted) + 1
      BY <3>1, LedgersFinite, FS_AddElement
    <3>3. Cardinality(Admitted) + Cardinality(Uncounted) <= Cardinality(Calls) - 1
      BY <1>1, RoomForOneMore
    <3>4. /\ granted \in Nat /\ failures \in Nat /\ count \in Nat
          /\ MaxRedemptions \in Nat
          /\ Cardinality(Admitted) \in Nat
          /\ Cardinality(Uncounted) \in Nat
          /\ Cardinality(Calls) \in Nat
      BY LedgersFinite DEF TypeOK
    <3>5. MaxRedemptions > 0 => count < MaxRedemptions
      <4>1. ~ LimitReached
        BY <1>1, <2>2, Zenon
      <4> QED
        BY <3>4, <4>1 DEF LimitReached
    <3>6. CountLedger'
      BY <1>2, <1>5 DEF CountLedger
    <3>7. AdmissionLedger'
      <4>1. granted <= count + Cardinality(Uncounted) + failures
        BY DEF CountLedger
      <4>2. SUFFICES ASSUME MaxRedemptions > 0
                     PROVE  granted + (Cardinality(Admitted) + 1)
                              <= MaxRedemptions + (Cardinality(Calls) - 1) + failures
        BY <1>2, <3>2 DEF AdmissionLedger
      <4> QED
        BY <3>3, <3>4, <3>5, <4>1, <4>2
    <3> QED
      BY <3>6, <3>7
  <2> QED
    BY <2>1, <2>2
<1> QED
  BY <1>3, <1>4, <1>6

\* A call that ends without having granted anything, and one that goes on
\* before the deferral.
LEMMA BeforeGrantStep ==
  ASSUME IInv, NEW k \in Calls,
         \/ AnswerAgain(k) \/ CheckCampaign(k) \/ ReadSubscription(k)
         \/ Reserve(k) \/ PlayRefuses(k)
  PROVE  IInv'
<1> USE CampaignAssumption DEF IInv
<1> DEFINE c == call[k]
<1>0. /\ c \in Redemptions
      /\ c.pc \in {"found", "eligible", "reserve", "defer"}
      /\ c.token \in Tokens
  BY DEF AnswerAgain, CheckCampaign, ReadSubscription, Reserve, PlayRefuses,
         TypeOK, CallsInOrder
<1>1. /\ call' \in [Calls -> Redemptions]
      /\ \A l \in Calls \ {k} : call'[l] = call[l]
      /\ \/ call'[k] = NoRedemption
         \/ /\ call'[k].pc \in {"eligible", "reserve", "defer"}
            /\ call'[k].token = c.token
            /\ call'[k].open
            /\ c.open
            /\ call'[k].pc \in {"reserve", "defer"} =>
                 call'[k].expected + DeferDays <= clock + MaxFuture
  <2>1. CASE call' = [call EXCEPT ![k] = NoRedemption]
    BY <2>1 DEF TypeOK, NoRedemption, Redemptions
  <2>2. CASE CheckCampaign(k) /\ c.open /\ call' = [call EXCEPT ![k].pc = "eligible"]
    BY <1>0, <2>2 DEF TypeOK, Redemptions
  <2>3. CASE /\ ReadSubscription(k)
             /\ WithinCap(expiry[c.token])
             /\ call' = [call EXCEPT ![k].pc = "reserve",
                                     ![k].expected = expiry[c.token]]
    BY <1>0, <2>3 DEF ReadSubscription, WithinCap, TypeOK, Redemptions, CallsInOrder
  <2>4. CASE Reserve(k)
    BY <1>0, <2>4 DEF Reserve, Goto, TypeOK, Redemptions, CallsInOrder
  <2> QED
    BY <2>1, <2>2, <2>3, <2>4 DEF AnswerAgain, CheckCampaign, ReadSubscription,
       PlayRefuses, Goto, End
<1>2. /\ UNCHANGED <<clock, expiry, active, count, failures, defers, granted>>
      /\ redemption' \in [Tokens -> {"none", "reserved", "applied"}]
  BY <1>0 DEF AnswerAgain, CheckCampaign, ReadSubscription, Reserve, PlayRefuses,
              ledger, TypeOK
<1>3. TypeOK'
  BY <1>1, <1>2 DEF TypeOK
<1>4. CallsInOrder'
  BY <1>0, <1>1, <1>2 DEF CallsInOrder, NoRedemption
<1>5. Uncounted' = Uncounted
  BY <1>0, <1>1 DEF Uncounted, NoRedemption
<1>6. Admitted' \subseteq Admitted
  BY <1>0, <1>1 DEF Admitted, NoRedemption
<1> QED
  BY <1>2, <1>3, <1>4, <1>5, <1>6, LedgersKept

\* The grant: a redemption leaves the admitted ones and waits to be counted.
LEMMA PlayDeferStep ==
  ASSUME IInv, NEW k \in Calls, PlayDefer(k)
  PROVE  IInv'
<1> USE CampaignAssumption DEF IInv
<1> DEFINE c == call[k]
<1>0. c \in Redemptions /\ c.pc = "defer" /\ c.token \in Tokens /\ c.open
  BY DEF PlayDefer, TypeOK, CallsInOrder
<1>1. /\ call' \in [Calls -> Redemptions]
      /\ call'[k].pc = "record"
      /\ call'[k].token = c.token
      /\ \A l \in Calls \ {k} : call'[l] = call[l]
  BY <1>0 DEF PlayDefer, Goto, TypeOK, Redemptions
<1>2. UNCHANGED <<clock, active, count, redemption, failures>> /\ granted' = granted + 1
  BY DEF PlayDefer
<1>3. TypeOK'
  <2>1. expiry' \in [Tokens -> Nat] /\ defers' \in [Tokens -> Nat]
    BY <1>0 DEF PlayDefer, TypeOK
  <2> QED
    BY <1>1, <1>2, <2>1 DEF TypeOK
<1>4. CallsInOrder'
  BY <1>0, <1>1, <1>2 DEF CallsInOrder
<1>5. /\ Uncounted' = Uncounted \cup {k} /\ k \notin Uncounted
      /\ Admitted' = Admitted \ {k} /\ k \in Admitted
  BY <1>0, <1>1 DEF Uncounted, Admitted
<1>6. /\ Cardinality(Uncounted') = Cardinality(Uncounted) + 1
      /\ Cardinality(Admitted') = Cardinality(Admitted) - 1
  BY <1>5, LedgersFinite, FS_AddElement, FS_RemoveElement
<1>7. /\ granted \in Nat /\ failures \in Nat /\ count \in Nat
      /\ Cardinality(Admitted) \in Nat
      /\ Cardinality(Uncounted) \in Nat
      /\ Cardinality(Calls) \in Nat
  BY LedgersFinite DEF TypeOK
<1>8. CountLedger'
  BY <1>2, <1>6, <1>7 DEF CountLedger
<1>9. AdmissionLedger'
  BY <1>2, <1>6, <1>7 DEF AdmissionLedger
<1> QED
  BY <1>3, <1>4, <1>8, <1>9

LEMMA RecordStep ==
  ASSUME IInv, NEW k \in Calls, Record(k)
  PROVE  IInv'
<1> USE CampaignAssumption DEF IInv
<1>0. call[k].pc = "record" /\ call[k].token \in Tokens
  BY DEF Record, CallsInOrder
<1>1. /\ call' \in [Calls -> Redemptions]
      /\ call'[k].pc = "count"
      /\ call'[k].token = call[k].token
      /\ \A l \in Calls \ {k} : call'[l] = call[l]
  BY DEF Record, Goto, TypeOK, Redemptions
<1>2. UNCHANGED <<clock, expiry, active, count, failures, defers, granted>>
  BY DEF Record, ledger
<1>3. TypeOK'
  BY <1>0, <1>1, <1>2 DEF Record, TypeOK
<1>4. CallsInOrder'
  BY <1>0, <1>1, <1>2 DEF CallsInOrder
<1>5. Uncounted' = Uncounted /\ Admitted' = Admitted
  BY <1>0, <1>1 DEF Uncounted, Admitted
<1> QED
  BY <1>2, <1>3, <1>4, <1>5, LedgersKept

\* FieldValue.increment(1): one call leaves the uncounted ones.
LEMMA CountStep ==
  ASSUME IInv, NEW k \in Calls, Count(k)
  PROVE  IInv'
<1> USE CampaignAssumption DEF IInv
<1>0. call[k].pc = "count"
  BY DEF Count
<1>1. /\ call' \in [Calls -> Redemptions]
      /\ call'[k] = NoRedemption
      /\ \A l \in Calls \ {k} : call'[l] = call[l]
  BY DEF Count, End, TypeOK, NoRedemption, Redemptions
<1>2. /\ UNCHANGED <<clock, expiry, active, redemption, failures, defers, granted>>
      /\ count' = count + 1
  BY DEF Count, ledger
<1>3. TypeOK'
  BY <1>1, <1>2 DEF TypeOK
<1>4. CallsInOrder'
  BY <1>1, <1>2 DEF CallsInOrder, NoRedemption
<1>5. /\ Uncounted' = Uncounted \ {k} /\ k \in Uncounted
      /\ Admitted' = Admitted
  BY <1>0, <1>1 DEF Uncounted, Admitted, NoRedemption
<1>6. Cardinality(Uncounted') = Cardinality(Uncounted) - 1
  BY <1>5, LedgersFinite, FS_RemoveElement
<1>7. /\ granted \in Nat /\ failures \in Nat /\ count \in Nat
      /\ Cardinality(Uncounted) \in Nat
  BY LedgersFinite DEF TypeOK
<1>8. CountLedger'
  BY <1>2, <1>6, <1>7 DEF CountLedger
<1>9. AdmissionLedger'
  BY <1>2, <1>5 DEF AdmissionLedger
<1> QED
  BY <1>3, <1>4, <1>8, <1>9

\* A call that stops half-way: what it did stays, and a grant it did not count
\* is made up for by the failure.
LEMMA RedeemFailsStep ==
  ASSUME IInv, NEW k \in Calls, RedeemFails(k)
  PROVE  IInv'
<1> USE CampaignAssumption DEF IInv
<1>1. /\ call' \in [Calls -> Redemptions]
      /\ call'[k] = NoRedemption
      /\ \A l \in Calls \ {k} : call'[l] = call[l]
  BY DEF RedeemFails, End, TypeOK, NoRedemption, Redemptions
<1>2. /\ UNCHANGED <<clock, expiry, active, redemption, count, defers, granted>>
      /\ failures' = failures + 1
  BY DEF RedeemFails, ledger
<1>3. TypeOK'
  BY <1>1, <1>2 DEF TypeOK
<1>4. CallsInOrder'
  BY <1>1, <1>2 DEF CallsInOrder, NoRedemption
<1>5. /\ Uncounted' = Uncounted \ {k}
      /\ Admitted' = Admitted \ {k}
  BY <1>1 DEF Uncounted, Admitted, NoRedemption
<1>6. /\ Cardinality(Uncounted') \in {Cardinality(Uncounted), Cardinality(Uncounted) - 1}
      /\ Cardinality(Admitted') \in {Cardinality(Admitted), Cardinality(Admitted) - 1}
  BY <1>5, LedgersFinite, FS_RemoveElement
<1>7. /\ granted \in Nat /\ failures \in Nat /\ count \in Nat
      /\ Cardinality(Admitted) \in Nat
      /\ Cardinality(Uncounted) \in Nat
      /\ Cardinality(Calls) \in Nat
  BY LedgersFinite DEF TypeOK
<1>8. CountLedger'
  BY <1>2, <1>6, <1>7 DEF CountLedger
<1>9. AdmissionLedger'
  BY <1>2, <1>6, <1>7 DEF AdmissionLedger
<1> QED
  BY <1>3, <1>4, <1>8, <1>9

LEMMA NextIInv ==
  ASSUME IInv, [Next]_vars
  PROVE  IInv'
<1>1. CASE Tick \/ EditCampaign \/ UNCHANGED vars
  BY <1>1, AroundStep
<1>2. CASE \E k \in Calls, t \in Tokens : ReadCampaign(k, t)
  BY <1>2, ReadCampaignStep
<1>3. CASE \E k \in Calls : \/ AnswerAgain(k) \/ CheckCampaign(k)
                            \/ ReadSubscription(k) \/ Reserve(k) \/ PlayRefuses(k)
  BY <1>3, BeforeGrantStep
<1>4. CASE \E k \in Calls : PlayDefer(k)
  BY <1>4, PlayDeferStep
<1>5. CASE \E k \in Calls : Record(k)
  BY <1>5, RecordStep
<1>6. CASE \E k \in Calls : Count(k)
  BY <1>6, CountStep
<1>7. CASE \E k \in Calls : RedeemFails(k)
  BY <1>7, RedeemFailsStep
<1> QED
  BY <1>1, <1>2, <1>3, <1>4, <1>5, <1>6, <1>7 DEF Next

LEMMA Invariance == Spec => []IInv
  BY InitIInv, NextIInv, PTL DEF Spec

\* Every variable keeps the shape of its document, call or ledger.
THEOREM TypeCorrect == Spec => []TypeOK
  BY Invariance, PTL DEF IInv

\* redemptionCount never runs ahead of what Play granted, and lags behind it
\* only by the calls between the deferral and the count and by those that
\* stopped, for any number of redemptions in flight.
THEOREM CountIsHonest == Spec => []CountTracksGrants
<1>1. IInv => CountTracksGrants
  <2> SUFFICES ASSUME IInv PROVE CountTracksGrants
    OBVIOUS
  <2>1. Cardinality(Uncounted) \in Nat /\ count \in Nat /\ granted \in Nat
    BY LedgersFinite DEF IInv, TypeOK
  <2>2. count <= granted /\ granted <= count + Cardinality(Uncounted) + failures
    BY <2>1 DEF IInv, CountLedger
  <2> QED
    BY <2>2 DEF CountTracksGrants, Uncounted
<1> QED
  BY <1>1, Invariance, PTL

\* The quota is exceeded by no more than one redemption for each other call in
\* flight and each that stopped.
THEOREM OvershootCapped == Spec => []OvershootBounded
<1>1. IInv => OvershootBounded
  <2> SUFFICES ASSUME IInv, MaxRedemptions > 0
               PROVE  granted <= MaxRedemptions + (Cardinality(Calls) - 1) + failures
    BY DEF OvershootBounded
  <2>1. /\ Cardinality(Admitted) \in Nat /\ Cardinality(Calls) \in Nat
        /\ granted \in Nat /\ failures \in Nat /\ MaxRedemptions \in Nat
    BY LedgersFinite, CampaignAssumption DEF IInv, TypeOK
  <2> QED
    BY <2>1 DEF IInv, AdmissionLedger
<1> QED
  BY <1>1, Invariance, PTL

\* One grant moves an expiry by the campaign's days and never past the cap.
THEOREM CapHolds == Spec => CapRespected
<1> DEFINE Capped == \A t \in Tokens :
                       expiry'[t] # expiry[t] =>
                         /\ expiry'[t] <= clock + MaxFuture
                         /\ expiry'[t] = expiry[t] + DeferDays
<1>1. IInv /\ [Next]_vars => [Capped]_vars
  <2> SUFFICES ASSUME IInv, Next PROVE Capped
    OBVIOUS
  <2>1. CASE \E k \in Calls : PlayDefer(k)
    <3>1. PICK k \in Calls : PlayDefer(k)
      BY <2>1
    <3>2. /\ call[k].expected + DeferDays <= clock + MaxFuture
          /\ expiry[call[k].token] = call[k].expected
          /\ expiry' = [expiry EXCEPT ![call[k].token] = @ + DeferDays]
      BY <3>1 DEF PlayDefer, IInv, CallsInOrder
    <3> QED
      BY <3>2 DEF IInv, TypeOK
  <2>2. CASE expiry' = expiry
    BY <2>2
  <2> QED
    BY <2>1, <2>2 DEF Next, Tick, EditCampaign, ReadCampaign, AnswerAgain,
       CheckCampaign, ReadSubscription, Reserve, PlayRefuses, Record, Count, RedeemFails
<1> QED
  BY <1>1, Invariance, PTL DEF Spec, CapRespected
=============================================================================
