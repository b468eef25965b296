--------------------------- MODULE GiftCodesProofs ---------------------------
(***************************************************************************)
(* Safety of the gift codes for every set of codes, subscriptions and      *)
(* redemptions in flight, every month, every life of a code and every cap. *)
(***************************************************************************)
EXTENDS GiftCodes, TLAPS

\* Past the flip: only the redemption whose transaction won gets here.
AfterFlip == {"sharer", "sharerDefer", "mark"}

\* Past the friendly check, which is where a redemption learns the sharer.
Checked == {"defer", "flip"} \cup AfterFlip

\* A document names who minted it and, once redeemed, who redeemed it.
GiftsNamed ==
  \A g \in Codes :
    /\ gift[g].status # "none" => gift[g].sharer \in Subs
    /\ gift[g].status = "redeemed" => gift[g].recipient \in Subs
    /\ gift[g].status = "none" => ~ gift[g].sharerDeferApplied

\* Nothing was granted for a code nobody minted.
NothingBeforeMint ==
  \A g \in Codes, s \in Subs : gift[g].status = "none" => defers[g][s] = 0

\* What a redemption carries across its awaits: its code and its recipient and,
\* past the check, the sharer of that code, who is somebody else.
CallsNamed ==
  \A k \in Calls :
    /\ call[k].pc # "idle" => call[k].code \in Codes /\ call[k].sub \in Subs
    /\ call[k].pc \in Checked =>
         /\ gift[call[k].code].status # "none"
         /\ call[k].sharer = gift[call[k].code].sharer
         /\ call[k].sharer # call[k].sub

\* A deferral about to be sent stays under the cap: the clock only moved on
\* since the cap was checked.
PendingWithinCap ==
  \A k \in Calls :
    call[k].pc \in {"defer", "sharerDefer"} =>
      call[k].expected + Defer <= clock + MaxFuture

\* A redemption at the transaction has had its recipient deferred.
FlipIsPaid ==
  \A k \in Calls :
    call[k].pc = "flip" => defers[call[k].code][call[k].sub] > 0

RecipientPaid ==
  \A g \in Codes :
    gift[g].status = "redeemed" => defers[g][gift[g].recipient] > 0

\* The flip has one winner: a code is past it for one redemption at most, and
\* that one finds the document no longer active.
OneWinner ==
  /\ \A k \in Calls :
       call[k].pc \in AfterFlip =>
         /\ gift[call[k].code].status \in {"redeemed", "deleted"}
         /\ gift[call[k].code].recipient \in Subs
  /\ \A k, l \in Calls :
       call[k].pc \in AfterFlip /\ call[l].pc \in AfterFlip
         /\ call[k].code = call[l].code => k = l

\* How often the sharer was deferred, by how far the winner has come.
SharerLedger ==
  /\ \A g \in Codes :
       gift[g].status # "none" =>
         /\ gift[g].status = "active" => defers[g][gift[g].sharer] = 0
         /\ defers[g][gift[g].sharer] <= 1
         /\ defers[g][gift[g].sharer] > 0 => gift[g].recipient \in Subs
         /\ gift[g].sharerDeferApplied => defers[g][gift[g].sharer] > 0
  /\ \A k \in Calls :
       /\ call[k].pc \in {"sharer", "sharerDefer"} =>
            defers[call[k].code][call[k].sharer] = 0
       /\ call[k].pc = "mark" => defers[call[k].code][call[k].sharer] > 0

IInv ==
  /\ TypeOK
  /\ GiftsNamed
  /\ NothingBeforeMint
  /\ CallsNamed
  /\ PendingWithinCap
  /\ FlipIsPaid
  /\ RecipientPaid
  /\ OneWinner
  /\ SharerLedger

LEMMA InitIInv == Init => IInv
<1> SUFFICES ASSUME Init PROVE IInv
  OBVIOUS
<1> USE GiftAssumption DEF Init
<1>1. TypeOK
  BY DEF TypeOK, Gifts, NoGift, Redemptions, NoRedemption
<1>2. GiftsNamed /\ NothingBeforeMint /\ RecipientPaid
  BY DEF GiftsNamed, NothingBeforeMint, RecipientPaid, NoGift
<1>3. CallsNamed /\ PendingWithinCap /\ FlipIsPaid
  BY DEF CallsNamed, PendingWithinCap, FlipIsPaid, NoRedemption, Checked, AfterFlip
<1>4. OneWinner /\ SharerLedger
  BY DEF OneWinner, SharerLedger, NoRedemption, NoGift, AfterFlip
<1> QED
  BY <1>1, <1>2, <1>3, <1>4 DEF IInv

\* Time only makes more room under the cap.
LEMMA TickStep ==
  ASSUME IInv, Tick
  PROVE  IInv'
<1> USE GiftAssumption DEF IInv
<1>1. TypeOK'
  BY DEF Tick, TypeOK
<1>2. PendingWithinCap'
  BY DEF Tick, TypeOK, PendingWithinCap, Redemptions
<1>3. GiftsNamed' /\ NothingBeforeMint' /\ RecipientPaid'
  BY DEF Tick, GiftsNamed, NothingBeforeMint, RecipientPaid
<1>4. CallsNamed' /\ FlipIsPaid'
  BY DEF Tick, CallsNamed, FlipIsPaid
<1>5. OneWinner' /\ SharerLedger'
  BY DEF Tick, OneWinner, SharerLedger
<1> QED
  BY <1>1, <1>2, <1>3, <1>4, <1>5

LEMMA MintStep ==
  ASSUME IInv, NEW g \in Codes, NEW s \in Subs, Mint(g, s)
  PROVE  IInv'
<1> USE GiftAssumption DEF IInv
<1>1. /\ clock + Ttl \in Nat
      /\ gift' \in [Codes -> Gifts]
      /\ gift'[g].status = "active"
      /\ gift'[g].sharer = s
      /\ ~ gift'[g].sharerDeferApplied
      /\ \A h \in Codes \ {g} : gift'[h] = gift[h]
  BY DEF Mint, TypeOK, Gifts
<1>2. TypeOK'
  BY <1>1 DEF Mint, TypeOK
<1>3. GiftsNamed' /\ NothingBeforeMint' /\ RecipientPaid'
  BY <1>1 DEF Mint, GiftsNamed, NothingBeforeMint, RecipientPaid
<1>4. \A k \in Calls : call[k].pc \in Checked => call[k].code \in Codes \ {g}
  BY DEF Mint, CallsNamed, Checked, AfterFlip
<1>5. CallsNamed' /\ PendingWithinCap' /\ FlipIsPaid'
  BY <1>1, <1>4 DEF Mint, CallsNamed, PendingWithinCap, FlipIsPaid
<1>6. OneWinner'
  BY <1>1, <1>4 DEF Mint, OneWinner, Checked
<1>7. SharerLedger'
  <2>1. defers[g][s] = 0
    BY DEF Mint, NothingBeforeMint
  <2> QED
    BY <1>1, <2>1 DEF Mint, SharerLedger
<1> QED
  BY <1>2, <1>3, <1>5, <1>6, <1>7

LEMMA CleanupGiftStep ==
  ASSUME IInv, NEW g \in Codes, CleanupGift(g)
  PROVE  IInv'
<1> USE GiftAssumption DEF IInv
<1>1. /\ gift' \in [Codes -> Gifts]
      /\ gift'[g].status = "deleted"
      /\ gift'[g].sharer = gift[g].sharer
      /\ gift'[g].recipient = gift[g].recipient
      /\ gift'[g].sharerDeferApplied = gift[g].sharerDeferApplied
      /\ gift[g].status # "none"
      /\ \A h \in Codes \ {g} : gift'[h] = gift[h]
  BY DEF CleanupGift, TypeOK, Gifts
<1>2. TypeOK'
  BY <1>1 DEF CleanupGift, TypeOK
<1>3. GiftsNamed' /\ NothingBeforeMint' /\ RecipientPaid'
  BY <1>1 DEF CleanupGift, GiftsNamed, NothingBeforeMint, RecipientPaid
<1>4. CallsNamed' /\ PendingWithinCap' /\ FlipIsPaid'
  BY <1>1 DEF CleanupGift, CallsNamed, PendingWithinCap, FlipIsPaid
<1>5. OneWinner'
  BY <1>1 DEF CleanupGift, OneWinner
<1>6. SharerLedger'
  BY <1>1 DEF CleanupGift, SharerLedger
<1> QED
  BY <1>2, <1>3, <1>4, <1>5, <1>6

LEMMA RedeemStartStep ==
  ASSUME IInv, NEW k \in Calls, NEW g \in Codes, NEW s \in Subs,
         RedeemStart(k, g, s)
  PROVE  IInv'
<1> USE GiftAssumption DEF IInv
<1>1. /\ call' \in [Calls -> Redemptions]
      /\ call'[k].pc = "read" /\ call'[k].code = g /\ call'[k].sub = s
      /\ \A l \in Calls \ {k} : call'[l] = call[l]
  BY DEF RedeemStart, TypeOK, Redemptions
<1>2. TypeOK' /\ GiftsNamed' /\ NothingBeforeMint' /\ RecipientPaid'
  BY <1>1 DEF RedeemStart, TypeOK, GiftsNamed, NothingBeforeMint, RecipientPaid
<1>3. CallsNamed'
  BY <1>1 DEF RedeemStart, CallsNamed, Checked, AfterFlip
<1>4. PendingWithinCap' /\ FlipIsPaid'
  BY <1>1 DEF RedeemStart, PendingWithinCap, FlipIsPaid
<1>5. OneWinner'
  BY <1>1 DEF RedeemStart, OneWinner, AfterFlip
<1>6. SharerLedger'
  BY <1>1 DEF RedeemStart, SharerLedger
<1> QED
  BY <1>2, <1>3, <1>4, <1>5, <1>6

LEMMA RedeemFailsStep ==
  ASSUME IInv, NEW k \in Calls, RedeemFails(k)
  PROVE  IInv'
<1> USE GiftAssumption DEF IInv
<1>1. /\ call' \in [Calls -> Redemptions]
      /\ call'[k].pc = "idle"
      /\ \A l \in Calls \ {k} : call'[l] = call[l]
  BY DEF RedeemFails, End, NoRedemption, TypeOK, Redemptions
<1>2. TypeOK' /\ GiftsNamed' /\ NothingBeforeMint' /\ RecipientPaid'
  BY <1>1 DEF RedeemFails, TypeOK, GiftsNamed, NothingBeforeMint, RecipientPaid
<1>3. CallsNamed'
  BY <1>1 DEF RedeemFails, CallsNamed, Checked, AfterFlip
<1>4. PendingWithinCap' /\ FlipIsPaid'
  BY <1>1 DEF RedeemFails, PendingWithinCap, FlipIsPaid
<1>5. OneWinner'
  BY <1>1 DEF RedeemFails, OneWinner, AfterFlip
<1>6. SharerLedger'
  BY <1>1 DEF RedeemFails, SharerLedger
<1> QED
  BY <1>2, <1>3, <1>4, <1>5, <1>6

LEMMA RedeemCheckStep ==
  ASSUME IInv, NEW k \in Calls, RedeemCheck(k)
  PROVE  IInv'
<1> USE GiftAssumption DEF IInv
<1> DEFINE c == call[k]
<1>0. c.code \in Codes /\ c.sub \in Subs
  BY DEF RedeemCheck, CallsNamed
<1>1. /\ call' \in [Calls -> Redemptions]
      /\ call'[k].pc = "defer"
      /\ call'[k].code = c.code
      /\ call'[k].sub = c.sub
      /\ call'[k].expected = c.expected
      /\ call'[k].sharer = gift[c.code].sharer
      /\ \A l \in Calls \ {k} : call'[l] = call[l]
  <2>1. gift[c.code].sharer \in Subs
    BY <1>0 DEF RedeemCheck, GiftsNamed
  <2> QED
    BY <2>1 DEF RedeemCheck, TypeOK, Redemptions
<1>2. TypeOK' /\ GiftsNamed' /\ NothingBeforeMint' /\ RecipientPaid'
  BY <1>1 DEF RedeemCheck, TypeOK, GiftsNamed, NothingBeforeMint, RecipientPaid
<1>3. CallsNamed'
  BY <1>0, <1>1 DEF RedeemCheck, CallsNamed, Checked, AfterFlip
<1>4. PendingWithinCap' /\ FlipIsPaid'
  BY <1>1 DEF RedeemCheck, PendingWithinCap, FlipIsPaid, WithinCap
<1>5. OneWinner'
  BY <1>1 DEF RedeemCheck, OneWinner, AfterFlip
<1>6. SharerLedger'
  BY <1>1 DEF RedeemCheck, SharerLedger
<1> QED
  BY <1>2, <1>3, <1>4, <1>5, <1>6

\* The recipient's month: the sharer's count does not move, since the check
\* made sure that the recipient is somebody else.
LEMMA DeferRecipientStep ==
  ASSUME IInv, NEW k \in Calls, DeferRecipient(k)
  PROVE  IInv'
<1> USE GiftAssumption DEF IInv
<1> DEFINE c == call[k]
<1>0. /\ c.code \in Codes /\ c.sub \in Subs
      /\ gift[c.code].status # "none"
      /\ c.sharer = gift[c.code].sharer
      /\ c.sharer # c.sub
      /\ c.expected \in Nat
  BY DEF DeferRecipient, CallsNamed, Checked, TypeOK, Redemptions
<1>1. /\ call' \in [Calls -> Redemptions]
      /\ call'[k].pc = "flip"
      /\ call'[k].code = c.code
      /\ call'[k].sub = c.sub
      /\ call'[k].sharer = c.sharer
      /\ \A l \in Calls \ {k} : call'[l] = call[l]
  BY DEF DeferRecipient, Goto, TypeOK, Redemptions
<1>2. /\ defers' \in [Codes -> [Subs -> Nat]]
      /\ defers'[c.code][c.sub] = defers[c.code][c.sub] + 1
      /\ \A g \in Codes, s \in Subs :
           ~ (g = c.code /\ s = c.sub) => defers'[g][s] = defers[g][s]
  BY <1>0 DEF DeferRecipient, PlayDefer, TypeOK
<1>3. \A g \in Codes, s \in Subs :
        /\ defers[g][s] \in Nat
        /\ defers[g][s] > 0 => defers'[g][s] > 0
  BY <1>2 DEF TypeOK
<1>4. TypeOK'
  <2>1. expiry' \in [Subs -> Nat]
    BY <1>0 DEF DeferRecipient, PlayDefer, TypeOK
  <2> QED
    BY <1>1, <1>2, <2>1 DEF DeferRecipient, TypeOK
<1>5. gift' = gift /\ clock' = clock
  BY DEF DeferRecipient
<1>6. GiftsNamed' /\ NothingBeforeMint'
  BY <1>0, <1>2, <1>5 DEF GiftsNamed, NothingBeforeMint
<1>7. RecipientPaid'
  BY <1>3, <1>5 DEF RecipientPaid, GiftsNamed
<1>8. CallsNamed' /\ PendingWithinCap'
  BY <1>0, <1>1, <1>5 DEF CallsNamed, PendingWithinCap, Checked
<1>9. FlipIsPaid'
  BY <1>0, <1>1, <1>2, <1>3, <1>5 DEF FlipIsPaid, CallsNamed, TypeOK
<1>10. OneWinner'
  BY <1>1, <1>5 DEF OneWinner, AfterFlip
<1>11. \A g \in Codes :
         gift[g].status # "none" =>
           defers'[g][gift[g].sharer] = defers[g][gift[g].sharer]
  BY <1>0, <1>2 DEF GiftsNamed
<1>12. \A l \in Calls :
         call[l].pc \in AfterFlip =>
           /\ gift[call[l].code].status # "none"
           /\ call[l].code \in Codes
           /\ call[l].sharer = gift[call[l].code].sharer
  BY DEF CallsNamed, Checked, AfterFlip
<1>13. SharerLedger'
  BY <1>1, <1>5, <1>11, <1>12 DEF SharerLedger, AfterFlip
<1> QED
  BY <1>4, <1>6, <1>7, <1>8, <1>9, <1>10, <1>13

\* The transaction: the code was active, so no redemption is past it yet.
LEMMA FlipStep ==
  ASSUME IInv, NEW k \in Calls, Flip(k)
  PROVE  IInv'
<1> USE GiftAssumption DEF IInv
<1> DEFINE c == call[k]
<1>0. /\ c.code \in Codes /\ c.sub \in Subs
      /\ c.sharer = gift[c.code].sharer
      /\ gift[c.code].status = "active"
      /\ defers[c.code][c.sub] > 0
  BY DEF Flip, CallsNamed, Checked, FlipIsPaid
<1>1. /\ call' \in [Calls -> Redemptions]
      /\ call'[k].pc = "sharer"
      /\ call'[k].code = c.code
      /\ call'[k].sub = c.sub
      /\ call'[k].sharer = c.sharer
      /\ \A l \in Calls \ {k} : call'[l] = call[l]
  BY DEF Flip, Goto, TypeOK, Redemptions
<1>2. /\ gift' \in [Codes -> Gifts]
      /\ gift'[c.code].status = "redeemed"
      /\ gift'[c.code].recipient = c.sub
      /\ gift'[c.code].sharer = gift[c.code].sharer
      /\ gift'[c.code].sharerDeferApplied = gift[c.code].sharerDeferApplied
      /\ \A g \in Codes \ {c.code} : gift'[g] = gift[g]
  BY <1>0 DEF Flip, TypeOK, Gifts
<1>3. clock' = clock /\ defers' = defers
  BY DEF Flip
<1>4. TypeOK'
  BY <1>1, <1>2 DEF Flip, TypeOK
<1>5. GiftsNamed' /\ NothingBeforeMint' /\ RecipientPaid'
  BY <1>0, <1>2, <1>3 DEF GiftsNamed, NothingBeforeMint, RecipientPaid
<1>6. PendingWithinCap' /\ FlipIsPaid'
  BY <1>1, <1>3 DEF PendingWithinCap, FlipIsPaid
<1>10. CallsNamed'
  <2>1. \A g \in Codes : /\ gift'[g].sharer = gift[g].sharer
                         /\ gift[g].status # "none" => gift'[g].status # "none"
    BY <1>2
  <2>2. /\ c.pc \in Checked /\ c.sharer # c.sub
        /\ gift[c.code].status # "none"
    BY DEF Flip, Checked, CallsNamed
  <2>3. \A l \in Calls : call[l].pc \in Checked => call[l].code \in Codes
    BY DEF CallsNamed, Checked, AfterFlip
  <2> QED
    BY <1>0, <1>1, <2>1, <2>2, <2>3 DEF CallsNamed
<1>7. \A l \in Calls : call[l].pc \in AfterFlip => call[l].code \in Codes \ {c.code}
  BY <1>0 DEF OneWinner, CallsNamed, AfterFlip
<1>8. OneWinner'
  BY <1>0, <1>1, <1>2, <1>7 DEF OneWinner, AfterFlip
<1>9. SharerLedger'
  BY <1>0, <1>1, <1>2, <1>3, <1>7 DEF SharerLedger, AfterFlip
<1> QED
  BY <1>4, <1>5, <1>6, <1>8, <1>9, <1>10

LEMMA ReadSharerStep ==
  ASSUME IInv, NEW k \in Calls, ReadSharer(k)
  PROVE  IInv'
<1> USE GiftAssumption DEF IInv
<1> DEFINE c == call[k]
<1>0. c.code \in Codes /\ c.sub \in Subs /\ c.sharer \in Subs
  BY DEF ReadSharer, CallsNamed, GiftsNamed, Checked, AfterFlip
<1>1. /\ call' \in [Calls -> Redemptions]
      /\ call'[k].pc = "sharerDefer"
      /\ call'[k].code = c.code
      /\ call'[k].sub = c.sub
      /\ call'[k].sharer = c.sharer
      /\ call'[k].expected = expiry[c.sharer]
      /\ \A l \in Calls \ {k} : call'[l] = call[l]
  BY <1>0 DEF ReadSharer, TypeOK, Redemptions
<1>2. TypeOK' /\ GiftsNamed' /\ NothingBeforeMint' /\ RecipientPaid'
  BY <1>1 DEF ReadSharer, TypeOK, GiftsNamed, NothingBeforeMint, RecipientPaid
<1>3. CallsNamed'
  BY <1>0, <1>1 DEF ReadSharer, CallsNamed, Checked, AfterFlip
<1>4. PendingWithinCap' /\ FlipIsPaid'
  BY <1>1 DEF ReadSharer, PendingWithinCap, FlipIsPaid, WithinCap
<1>5. OneWinner'
  BY <1>1 DEF ReadSharer, OneWinner, AfterFlip
<1>6. SharerLedger'
  BY <1>1 DEF ReadSharer, SharerLedger
<1> QED
  BY <1>2, <1>3, <1>4, <1>5, <1>6

\* The sharer's month: this redemption is the only one past the flip, and the
\* sharer's count was still zero.
LEMMA DeferSharerStep ==
  ASSUME IInv, NEW k \in Calls, DeferSharer(k)
  PROVE  IInv'
<1> USE GiftAssumption DEF IInv
<1> DEFINE c == call[k]
<1>0. /\ c.code \in Codes /\ c.sub \in Subs /\ c.sharer \in Subs
      /\ gift[c.code].status \in {"redeemed", "deleted"}
      /\ gift[c.code].recipient \in Subs
      /\ c.sharer = gift[c.code].sharer
      /\ c.expected \in Nat
      /\ defers[c.code][c.sharer] = 0
  BY DEF DeferSharer, CallsNamed, GiftsNamed, OneWinner, SharerLedger, Checked,
         AfterFlip, TypeOK, Redemptions
<1>1. /\ call' \in [Calls -> Redemptions]
      /\ call'[k].pc = "mark"
      /\ call'[k].code = c.code
      /\ call'[k].sub = c.sub
      /\ call'[k].sharer = c.sharer
      /\ \A l \in Calls \ {k} : call'[l] = call[l]
  BY DEF DeferSharer, Goto, TypeOK, Redemptions
<1>2. /\ defers' \in [Codes -> [Subs -> Nat]]
      /\ defers'[c.code][c.sharer] = 1
      /\ \A g \in Codes, s \in Subs :
           ~ (g = c.code /\ s = c.sharer) => defers'[g][s] = defers[g][s]
  BY <1>0 DEF DeferSharer, PlayDefer, TypeOK
<1>3. \A g \in Codes, s \in Subs :
        /\ defers[g][s] \in Nat
        /\ defers[g][s] > 0 => defers'[g][s] > 0
  BY <1>2 DEF TypeOK
<1>4. TypeOK'
  <2>1. expiry' \in [Subs -> Nat]
    BY <1>0 DEF DeferSharer, PlayDefer, TypeOK
  <2> QED
    BY <1>1, <1>2, <2>1 DEF DeferSharer, TypeOK
<1>5. gift' = gift /\ clock' = clock
  BY DEF DeferSharer
<1>6. GiftsNamed' /\ NothingBeforeMint'
  BY <1>0, <1>2, <1>5 DEF GiftsNamed, NothingBeforeMint
<1>7. RecipientPaid'
  BY <1>3, <1>5 DEF RecipientPaid, GiftsNamed
<1>8. CallsNamed' /\ PendingWithinCap'
  BY <1>0, <1>1, <1>5 DEF CallsNamed, PendingWithinCap, Checked, AfterFlip,
                          DeferSharer
<1>9. FlipIsPaid'
  BY <1>0, <1>1, <1>3, <1>5 DEF FlipIsPaid, CallsNamed
<1>10. OneWinner'
  BY <1>0, <1>1, <1>5 DEF OneWinner, AfterFlip, DeferSharer
<1>11. \A l \in Calls \ {k} :
         call[l].pc \in AfterFlip =>
           /\ call[l].code \in Codes \ {c.code}
           /\ gift[call[l].code].status # "none"
           /\ call[l].sharer = gift[call[l].code].sharer
           /\ call[l].sharer \in Subs
  BY DEF OneWinner, CallsNamed, GiftsNamed, Checked, AfterFlip, DeferSharer
<1>12. \A l \in Calls \ {k} :
         call[l].pc \in AfterFlip =>
           defers'[call[l].code][call[l].sharer] = defers[call[l].code][call[l].sharer]
  BY <1>2, <1>11
<1>13. SharerLedger'
  BY <1>0, <1>1, <1>2, <1>5, <1>11, <1>12 DEF SharerLedger, GiftsNamed, AfterFlip
<1> QED
  BY <1>4, <1>6, <1>7, <1>8, <1>9, <1>10, <1>13

LEMMA MarkSharerStep ==
  ASSUME IInv, NEW k \in Calls, MarkSharer(k)
  PROVE  IInv'
<1> USE GiftAssumption DEF IInv
<1> DEFINE g == call[k].code
<1>0. /\ g \in Codes
      /\ gift[g].status \in {"redeemed", "deleted"}
      /\ call[k].sharer = gift[g].sharer
      /\ defers[g][gift[g].sharer] > 0
  BY DEF MarkSharer, CallsNamed, OneWinner, SharerLedger, Checked, AfterFlip
<1>1. /\ call' \in [Calls -> Redemptions]
      /\ call'[k].pc = "idle"
      /\ \A l \in Calls \ {k} : call'[l] = call[l]
  BY DEF MarkSharer, End, NoRedemption, TypeOK, Redemptions
<1>2. /\ gift' \in [Codes -> Gifts]
      /\ \A h \in Codes :
           /\ gift'[h].status = gift[h].status
           /\ gift'[h].sharer = gift[h].sharer
           /\ gift'[h].recipient = gift[h].recipient
           /\ gift'[h].sharerDeferApplied =>
                h = g \/ gift[h].sharerDeferApplied
  BY <1>0 DEF MarkSharer, TypeOK, Gifts
<1>3. clock' = clock /\ defers' = defers /\ expiry' = expiry
  BY DEF MarkSharer
<1>4. TypeOK'
  BY <1>1, <1>2, <1>3 DEF TypeOK
<1>5. GiftsNamed' /\ NothingBeforeMint' /\ RecipientPaid'
  BY <1>0, <1>2, <1>3 DEF GiftsNamed, NothingBeforeMint, RecipientPaid
<1>6. CallsNamed'
  BY <1>1, <1>2 DEF CallsNamed, Checked, AfterFlip
<1>7. PendingWithinCap' /\ FlipIsPaid'
  BY <1>1, <1>3 DEF PendingWithinCap, FlipIsPaid
<1>8. OneWinner'
  <2>1. \A l \in Calls : call[l].pc \in AfterFlip => call[l].code \in Codes
    BY DEF CallsNamed, AfterFlip
  <2> QED
    BY <1>1, <1>2, <2>1 DEF OneWinner, AfterFlip
<1>9. SharerLedger'
  BY <1>0, <1>1, <1>2, <1>3 DEF SharerLedger
<1> QED
  BY <1>4, <1>5, <1>6, <1>7, <1>8, <1>9

LEMMA StepIInv ==
  ASSUME IInv, [Next]_vars
  PROVE  IInv'
<1>1. CASE UNCHANGED vars
  <2>1. TypeOK' /\ GiftsNamed' /\ NothingBeforeMint'
    BY <1>1 DEF IInv, vars, TypeOK, GiftsNamed, NothingBeforeMint
  <2>2. CallsNamed' /\ PendingWithinCap' /\ FlipIsPaid' /\ RecipientPaid'
    BY <1>1 DEF IInv, vars, CallsNamed, PendingWithinCap, FlipIsPaid, RecipientPaid
  <2>3. OneWinner' /\ SharerLedger'
    BY <1>1 DEF IInv, vars, OneWinner, SharerLedger
  <2> QED
    BY <2>1, <2>2, <2>3 DEF IInv
<1> QED
  BY <1>1, TickStep, MintStep, CleanupGiftStep, RedeemStartStep, RedeemCheckStep,
     DeferRecipientStep, FlipStep, ReadSharerStep, DeferSharerStep, MarkSharerStep,
     RedeemFailsStep DEF Next

LEMMA Invariance == Spec => []IInv
<1> QED
  BY InitIInv, StepIInv, PTL DEF Spec

\* The variables keep the shape the code gives them.
THEOREM TypeCorrect == Spec => []TypeOK
<1>1. IInv => TypeOK
  BY DEF IInv
<1> QED
  BY <1>1, Invariance, PTL

\* No order of crashes and retries records a month that nobody got.
THEOREM RecordsAreTrue == Spec => []RecordedMeansGranted
<1>1. IInv => RecordedMeansGranted
  BY DEF IInv, RecordedMeansGranted, GiftsNamed, RecipientPaid, SharerLedger
<1> QED
  BY <1>1, Invariance, PTL

\* The sharer of a code is deferred at most once, and only after a redemption.
THEOREM SharerOnce == Spec => []SharerGrantedOnce
<1>1. IInv => SharerGrantedOnce
  BY GiftAssumption DEF IInv, SharerGrantedOnce, SharerLedger
<1> QED
  BY <1>1, Invariance, PTL

\* One deferral moves an expiry by one gift and never past the cap.
THEOREM CapHolds == Spec => CapRespected
<1> DEFINE Capped == \A s \in Subs :
                       expiry'[s] # expiry[s] =>
                         /\ expiry'[s] <= clock + MaxFuture
                         /\ expiry'[s] = expiry[s] + Defer
<1>1. ASSUME IInv, NEW g, NEW s, NEW e \in Nat, PlayDefer(g, s, e),
             e + Defer <= clock + MaxFuture
      PROVE  Capped
  BY <1>1, GiftAssumption DEF IInv, TypeOK, PlayDefer
<1>2. ASSUME IInv, NEW k \in Calls, DeferRecipient(k) \/ DeferSharer(k)
      PROVE  Capped
  <2>1. /\ call[k].expected \in Nat
        /\ call[k].expected + Defer <= clock + MaxFuture
    BY <1>2 DEF IInv, TypeOK, Redemptions, PendingWithinCap, DeferRecipient,
                DeferSharer
  <2>2. CASE DeferRecipient(k)
    BY <2>1, <2>2, <1>2, <1>1 DEF DeferRecipient
  <2>3. CASE DeferSharer(k)
    BY <2>1, <2>3, <1>2, <1>1 DEF DeferSharer
  <2> QED
    BY <1>2, <2>2, <2>3
<1>3. ASSUME IInv, [Next]_vars
      PROVE  [Capped]_vars
  <2>1. CASE UNCHANGED expiry
    BY <2>1
  <2>2. CASE \E k \in Calls : DeferRecipient(k) \/ DeferSharer(k)
    BY <2>2, <1>2, <1>3
  <2> QED
    BY <1>3, <2>1, <2>2 DEF Next, vars, Tick, Mint, CleanupGift, RedeemStart,
       RedeemCheck, Flip, ReadSharer, MarkSharer, RedeemFails
<1> QED
  BY <1>3, Invariance, PTL DEF Spec, CapRespected
=============================================================================
