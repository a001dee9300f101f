---------------------------- MODULE HandoffProofs ----------------------------
(***************************************************************************)
(* The gate's safety for any number of calls, presentations, payments and  *)
(* restarts, any StaleAfter and any length of run; the server's: its       *)
(* handlers drive the gate only through its operations, so what is proved  *)
(* of the gate holds in the server, and the feed is an audit, for any      *)
(* number of requests, interleaved, dropped and restarted at will; and the *)
(* surfaces': "There is no second code path" (commands.rs:3-7), so whatever *)
(* the page and the OKX bridge do is a behaviour of the server.  And what  *)
(* only the surfaces promise, for any number of requests, intents and      *)
(* clicks.                                                                 *)
(***************************************************************************)
EXTENDS HandoffSurfaces, TLAPS

---------------------------------------------------------------------------
(* The gate.                                                               *)

Recorded(c) == pc[c] = "receipted"

\* A call's captured clock is never ahead of the wall clock, and a call in
\* flight began in this process.
FramesInPast ==
  /\ \A c \in Calls : pc[c] # "idle" => frame[c].now <= clock /\ frame[c].boot <= boot
  /\ \A c \in Calls : pc[c] \in InFlight => frame[c].boot = boot

\* Every receipt, kept or held, is the one its call made.
ReceiptsAreRecorded ==
  /\ \A r \in treasury : Recorded(r.id) /\ r = NewReceipt(r.id)
  /\ \A p \in Presentations : held[p] # Nothing =>
       Recorded(held[p].id) /\ held[p] = NewReceipt(held[p].id)

\* What redeem answered agrees with what it removed.
AnswersAgree == \A p \in Presentations :
  /\ result[p] \in {"none", "unknown"} <=> held[p] = Nothing
  /\ result[p] = "redeemed" => held[p].intent = asked[p]

\* A call that got past /verify has a payment, a posted one has been sent, and a
\* call that got past /settle moved the money of its payment.
MoneyMoved ==
  /\ \A c \in posted : pc[c] # "idle" /\ frame[c].payment \in Payments
  /\ \A c \in Calls : pc[c] \in {"verifying", "settling"} => frame[c].payment \in Payments
  /\ backend = "facilitator" =>
       \A c \in Calls : pc[c] \in {"cleared", "receipted"} =>
         frame[c].payment \in Payments /\ chargedBy[frame[c].payment] = c

\* The inductive invariant.  SingleUse and FreshReceiptRedeemable are not
\* inductive by themselves: a treasury could hold a receipt somebody already
\* took, or a task could sweep by a clock from the future.
GateInv ==
  /\ GateTypeOK
  /\ FramesInPast
  /\ ReceiptsAreRecorded
  /\ AnswersAgree
  /\ MoneyMoved
  /\ SingleUse
  /\ FreshReceiptRedeemable

---------------------------------------------------------------------------

\* The gate starts in the invariant.
LEMMA InitEstablishes == GateInit => GateInv
  BY GateAssumption, ReceiptAssumption
  DEF GateInit, GateInv, GateTypeOK, Pcs, Results, FramesInPast, ReceiptsAreRecorded,
      AnswersAgree, MoneyMoved, SingleUse, FreshReceiptRedeemable, InFlight, Burned

\* What a recorded call made is a receipt, and is named after the call.
LEMMA RecordedReceipt ==
  ASSUME GateTypeOK, NEW c \in Calls, pc[c] # "idle"
  PROVE  /\ NewReceipt(c) \in Receipt
         /\ NewReceipt(c).id = c
         /\ NewReceipt(c).intent = frame[c].intent
         /\ NewReceipt(c).cleared_at = frame[c].now
  BY DEF GateTypeOK, NewReceipt, Receipt, Frame

\* A settle call begins: it captures the clock of this moment and this process.
LEMMA SettlePreserves ==
  ASSUME GateInv, NEW c \in Calls, NEW i \in Intents,
         NEW p \in Payments \union {Nothing}, Settle(c, i, p)
  PROVE  GateInv'
  <1> DEFINE f == [intent |-> i, payment |-> p, now |-> clock, boot |-> boot]
  <1> USE GateAssumption DEF GateInv, Settle, redeemVars, facilitatorVars
  <1>1. pc'[c] \in {"cleared", "failed", "verifying"} /\ frame'[c] = f /\ f \in Frame
    BY DEF GateTypeOK, FirstAwait, Frame
  <1>2. \A d \in Calls \ {c} : pc'[d] = pc[d] /\ frame'[d] = frame[d]
    BY DEF GateTypeOK
  <1>3. GateTypeOK'
    BY <1>1 DEF GateTypeOK, FirstAwait, Pcs
  <1>4. FramesInPast'
    BY <1>1, <1>2 DEF FramesInPast, GateTypeOK, InFlight
  <1>5. ~Recorded(c)
    BY DEF Recorded
  <1>6. \A d \in Calls : Recorded(d) => NewReceipt(d)' = NewReceipt(d) /\ Recorded(d)'
    BY <1>2, <1>5 DEF Recorded, NewReceipt
  <1>7. ReceiptsAreRecorded'
    BY <1>6 DEF ReceiptsAreRecorded, GateTypeOK, Receipt
  <1>8. AnswersAgree'
    BY DEF AnswersAgree
  <1>9. MoneyMoved'
    <2>1. c \notin posted
      BY DEF MoneyMoved
    <2>2. /\ pc'[c] = "verifying" => p \in Payments
          /\ backend = "facilitator" => pc'[c] \in {"failed", "verifying"}
      BY DEF GateTypeOK, FirstAwait
    <2> QED  BY <1>1, <1>2, <2>1, <2>2 DEF MoneyMoved, GateTypeOK
  <1>10. SingleUse'
    BY DEF SingleUse, Burned
  <1>11. FreshReceiptRedeemable'
    BY <1>1, <1>2, <1>6 DEF FreshReceiptRedeemable, Burned, NewReceipt
  <1> QED  BY <1>3, <1>4, <1>7, <1>8, <1>9, <1>10, <1>11

\* /verify accepts: the call posts /settle.
LEMMA VerifyAcceptsPreserves ==
  ASSUME GateInv, NEW c \in Calls, VerifyAccepts(c)
  PROVE  GateInv'
  <1> USE GateAssumption DEF GateInv, VerifyAccepts, redeemVars, facilitatorVars
  <1>1. GateTypeOK'
    BY DEF GateTypeOK, Pcs
  <1>2. FramesInPast'
    BY DEF FramesInPast, GateTypeOK, InFlight
  <1>3. \A d \in Calls : /\ Recorded(d)' <=> Recorded(d)
                         /\ NewReceipt(d)' = NewReceipt(d)
    BY DEF Recorded, NewReceipt, GateTypeOK
  <1>4. ReceiptsAreRecorded' /\ AnswersAgree' /\ SingleUse'
    BY <1>3 DEF ReceiptsAreRecorded, AnswersAgree, SingleUse, Burned, GateTypeOK, Receipt
  <1>5. MoneyMoved'
    BY DEF MoneyMoved, GateTypeOK, Confirmed
  <1>6. FreshReceiptRedeemable'
    BY <1>3 DEF FreshReceiptRedeemable, Burned, Recorded
  <1> QED  BY <1>1, <1>2, <1>4, <1>5, <1>6

\* /settle succeeded: this call moved the money of its payment.
LEMMA SettleConfirmedPreserves ==
  ASSUME GateInv, NEW c \in Calls, SettleConfirmed(c)
  PROVE  GateInv'
  <1> USE GateAssumption DEF GateInv, SettleConfirmed, redeemVars, facilitatorVars
  <1>1. GateTypeOK'
    BY DEF GateTypeOK, Pcs
  <1>2. FramesInPast'
    BY DEF FramesInPast, GateTypeOK, InFlight
  <1>3. \A d \in Calls : /\ Recorded(d)' <=> Recorded(d)
                         /\ NewReceipt(d)' = NewReceipt(d)
    BY DEF Recorded, NewReceipt, GateTypeOK
  <1>4. ReceiptsAreRecorded' /\ AnswersAgree' /\ SingleUse'
    BY <1>3 DEF ReceiptsAreRecorded, AnswersAgree, SingleUse, Burned, GateTypeOK, Receipt
  <1>5. MoneyMoved'
    BY DEF MoneyMoved, GateTypeOK, Confirmed
  <1>6. FreshReceiptRedeemable'
    BY <1>3 DEF FreshReceiptRedeemable, Burned, Recorded
  <1> QED  BY <1>1, <1>2, <1>4, <1>5, <1>6

\* A call that fails has recorded nothing.
LEMMA SettleFailsPreserves ==
  ASSUME GateInv, NEW c \in Calls, SettleFails(c)
  PROVE  GateInv'
  <1> USE GateAssumption DEF GateInv, SettleFails, redeemVars, facilitatorVars
  <1>1. GateTypeOK'
    BY DEF GateTypeOK, Pcs
  <1>2. FramesInPast'
    BY DEF FramesInPast, GateTypeOK, InFlight
  <1>3. \A d \in Calls : /\ Recorded(d)' <=> Recorded(d)
                         /\ NewReceipt(d)' = NewReceipt(d)
    BY DEF Recorded, NewReceipt, GateTypeOK
  <1>4. ReceiptsAreRecorded' /\ AnswersAgree' /\ SingleUse'
    BY <1>3 DEF ReceiptsAreRecorded, AnswersAgree, SingleUse, Burned, GateTypeOK, Receipt
  <1>5. MoneyMoved'
    BY DEF MoneyMoved, GateTypeOK, Confirmed
  <1>6. FreshReceiptRedeemable'
    BY <1>3 DEF FreshReceiptRedeemable, Burned, Recorded
  <1> QED  BY <1>1, <1>2, <1>4, <1>5, <1>6

\* Neither has a call whose client disconnects.
LEMMA DropSettlePreserves ==
  ASSUME GateInv, NEW c \in Calls, DropSettle(c)
  PROVE  GateInv'
  <1> USE GateAssumption DEF GateInv, DropSettle, redeemVars, facilitatorVars
  <1>1. GateTypeOK'
    BY DEF GateTypeOK, Pcs
  <1>2. FramesInPast'
    BY DEF FramesInPast, GateTypeOK, InFlight
  <1>3. \A d \in Calls : /\ Recorded(d)' <=> Recorded(d)
                         /\ NewReceipt(d)' = NewReceipt(d)
    BY DEF Recorded, NewReceipt, GateTypeOK
  <1>4. ReceiptsAreRecorded' /\ AnswersAgree' /\ SingleUse'
    BY <1>3 DEF ReceiptsAreRecorded, AnswersAgree, SingleUse, Burned, GateTypeOK, Receipt
  <1>5. MoneyMoved'
    BY DEF MoneyMoved, GateTypeOK, Confirmed
  <1>6. FreshReceiptRedeemable'
    BY <1>3 DEF FreshReceiptRedeemable, Burned, Recorded
  <1> QED  BY <1>1, <1>2, <1>4, <1>5, <1>6

\* The facilitator charges a payment nobody was charged for, or declines.
LEMMA FacilitatorPreserves ==
  ASSUME GateInv, NEW c \in Calls, Charge(c) \/ Decline(c)
  PROVE  GateInv'
  <1> USE DEF GateInv, Charge, Decline, callVars, redeemVars
  <1>1. GateTypeOK' /\ FramesInPast' /\ ReceiptsAreRecorded' /\ AnswersAgree'
    BY DEF GateTypeOK, FramesInPast, ReceiptsAreRecorded, AnswersAgree, Recorded,
           NewReceipt, MoneyMoved
  <1>2. MoneyMoved'
    BY GateAssumption DEF MoneyMoved, GateTypeOK
  <1>3. SingleUse' /\ FreshReceiptRedeemable'
    BY DEF SingleUse, FreshReceiptRedeemable, Burned, NewReceipt
  <1> QED  BY <1>1, <1>2, <1>3

\* A receipt is recorded.  It is nobody's yet, and the sweep before the insertion
\* goes by a clock that is not ahead of the wall clock.
LEMMA RecordPreserves ==
  ASSUME GateInv, NEW c \in Calls, Record(c)
  PROVE  GateInv'
  <1> USE GateAssumption DEF GateInv, Record, redeemVars, facilitatorVars
  <1>1. /\ NewReceipt(c) \in Receipt /\ NewReceipt(c).id = c
        /\ \A d \in Calls : NewReceipt(d)' = NewReceipt(d)
        /\ frame[c].now <= clock /\ frame[c].boot = boot
    BY RecordedReceipt DEF FramesInPast, InFlight, NewReceipt
  <1>2. \A d \in Calls : Recorded(d)' <=> d = c \/ Recorded(d)
    BY DEF Recorded, GateTypeOK
  <1>3. ~Recorded(c) /\ ~Burned(c) /\ \A r \in treasury : r.id # c
    BY DEF Recorded, Burned, ReceiptsAreRecorded
  <1>4. treasury' \subseteq treasury \union {NewReceipt(c)}
    BY DEF EvictStale
  <1>5. GateTypeOK'
    BY <1>1, <1>3, <1>4 DEF GateTypeOK, Pcs
  <1>6. FramesInPast'
    BY DEF FramesInPast, GateTypeOK, InFlight
  <1>7. ReceiptsAreRecorded' /\ AnswersAgree'
    BY <1>1, <1>2, <1>4 DEF ReceiptsAreRecorded, AnswersAgree, GateTypeOK, Receipt
  <1>8. MoneyMoved'
    BY DEF MoneyMoved, GateTypeOK
  <1>9. SingleUse'
    BY <1>1, <1>3, <1>4 DEF SingleUse, Burned
  <1>10. FreshReceiptRedeemable'
    <2> SUFFICES ASSUME NEW d \in Calls, Recorded(d)', frame[d].boot = boot, ~Burned(d),
                        clock - frame[d].now < StaleAfter
                 PROVE  NewReceipt(d) \in treasury'
      BY <1>1 DEF FreshReceiptRedeemable, Burned, Recorded
    <2>1. CASE d = c
      BY <2>1
    <2>2. CASE d # c
      <3>1. NewReceipt(d) \in treasury
        BY <1>2, <2>2 DEF FreshReceiptRedeemable, Recorded
      <3>2. NewReceipt(d).cleared_at = frame[d].now /\ frame[d].now \in Nat
            /\ frame[c].now \in Nat /\ clock \in Nat
        BY <1>2, <2>2 DEF NewReceipt, GateTypeOK, Frame, Recorded
      <3>3. frame[c].now - frame[d].now < StaleAfter
        BY <1>1, <3>2
      <3> QED  BY <3>1, <3>2, <3>3 DEF EvictStale
    <2> QED  BY <2>1, <2>2
  <1> QED  BY <1>5, <1>6, <1>7, <1>8, <1>9, <1>10

\* A presentation of an id the treasury does not hold changes only its answer.
LEMMA RedeemUnknownPreserves ==
  ASSUME GateInv, NEW p \in Presentations, NEW id \in Calls, NEW i \in Intents,
         RedeemUnknown(p, id, i)
  PROVE  GateInv'
  <1> USE DEF GateInv, RedeemUnknown, callVars, facilitatorVars
  <1>1. GateTypeOK'
    BY DEF GateTypeOK, Results
  <1>2. FramesInPast' /\ ReceiptsAreRecorded' /\ MoneyMoved'
    BY DEF FramesInPast, ReceiptsAreRecorded, MoneyMoved, Recorded, NewReceipt
  <1>3. AnswersAgree'
    BY DEF AnswersAgree, GateTypeOK
  <1>4. SingleUse' /\ FreshReceiptRedeemable'
    BY DEF SingleUse, FreshReceiptRedeemable, Burned, NewReceipt
  <1> QED  BY <1>1, <1>2, <1>3, <1>4

\* A presentation that finds its receipt takes it out of the treasury.
LEMMA RedeemKnownPreserves ==
  ASSUME GateInv, NEW p \in Presentations, NEW id \in Calls, NEW i \in Intents,
         RedeemKnown(p, id, i)
  PROVE  GateInv'
  <1> USE GateAssumption, ReceiptAssumption
      DEF GateInv, RedeemKnown, callVars, facilitatorVars
  <1>1. PICK r \in treasury :
          /\ r.id = id
          /\ treasury' = treasury \ {r}
          /\ held' = [held EXCEPT ![p] = r]
          /\ result' = [result EXCEPT ![p] = IF BoundTo(r, i) THEN "redeemed" ELSE "mismatch"]
          /\ asked' = [asked EXCEPT ![p] = i]
    BY DEF Without
  <1>2. r \in Receipt /\ r # Nothing /\ held[p] = Nothing /\ ~Burned(id)
    BY <1>1 DEF GateTypeOK, AnswersAgree, SingleUse
  <1>3. \A c \in Calls : Burned(c)' <=> Burned(c) \/ c = id
    BY <1>1, <1>2 DEF Burned, GateTypeOK
  <1>4. \A s \in treasury : s.id = id => s = r
    BY <1>1 DEF GateTypeOK
  <1>5. GateTypeOK'
    BY <1>1, <1>2 DEF GateTypeOK, Results
  <1>6. FramesInPast' /\ MoneyMoved'
    BY DEF FramesInPast, MoneyMoved
  <1>7. ReceiptsAreRecorded'
    BY <1>1 DEF ReceiptsAreRecorded, Recorded, NewReceipt, GateTypeOK
  <1>8. AnswersAgree'
    BY <1>1, <1>2 DEF AnswersAgree, GateTypeOK, BoundTo
  <1>9. SingleUse'
    <2>1. \A s \in treasury' : s.id \in Calls /\ s.id # id /\ ~Burned(s.id)
      BY <1>1, <1>4 DEF SingleUse, GateTypeOK, Receipt
    <2>2. \A q \in Presentations \ {p} : held'[q] = held[q] /\ (held[q] # Nothing => held[q].id # id)
      BY <1>1, <1>2 DEF Burned, GateTypeOK
    <2>3. held'[p] = r
      BY <1>1 DEF GateTypeOK
    <2> QED  BY <1>1, <1>3, <2>1, <2>2, <2>3 DEF SingleUse
  <1>10. FreshReceiptRedeemable'
    <2>1. \A c \in Calls : pc[c] # "idle" => NewReceipt(c)' = NewReceipt(c) /\ NewReceipt(c).id = c
      BY RecordedReceipt DEF NewReceipt
    <2> QED  BY <1>1, <1>3, <2>1 DEF FreshReceiptRedeemable
  <1> QED  BY <1>5, <1>6, <1>7, <1>8, <1>9, <1>10

\* Time passes: a receipt can only stop being fresh.
LEMMA TickPreserves ==
  ASSUME GateInv, Tick
  PROVE  GateInv'
  <1> USE GateAssumption DEF GateInv, Tick, callVars, facilitatorVars, redeemVars
  <1>1. GateTypeOK' /\ clock \in Nat /\ clock' = clock + 1
    BY DEF GateTypeOK
  <1>2. \A c \in Calls : pc[c] # "idle" => frame[c].now \in Nat
    BY DEF GateTypeOK, Frame
  <1>3. FramesInPast'
    BY <1>1, <1>2 DEF FramesInPast
  <1>4. ReceiptsAreRecorded' /\ AnswersAgree' /\ MoneyMoved' /\ SingleUse'
    BY DEF ReceiptsAreRecorded, AnswersAgree, MoneyMoved, SingleUse, Burned, Recorded,
           NewReceipt
  <1>5. FreshReceiptRedeemable'
    BY <1>1, <1>2 DEF FreshReceiptRedeemable, Burned, NewReceipt
  <1> QED  BY <1>1, <1>3, <1>4, <1>5

\* The process restarts: nothing recorded belongs to the new one.
LEMMA RestartPreserves ==
  ASSUME GateInv, Restart
  PROVE  GateInv'
  <1> USE GateAssumption DEF GateInv, Restart, facilitatorVars, redeemVars
  <1>1. GateTypeOK'
    BY DEF GateTypeOK, Pcs, InFlight
  <1>2. \A c \in Calls : (pc[c] = "idle" <=> pc'[c] = "idle") /\ pc'[c] \notin InFlight
    BY DEF GateTypeOK, InFlight, Pcs
  <1>3. FramesInPast'
    BY <1>2 DEF FramesInPast, GateTypeOK, Frame
  <1>4. \A c \in Calls : (Recorded(c)' <=> Recorded(c)) /\ NewReceipt(c)' = NewReceipt(c)
    BY DEF Recorded, NewReceipt, InFlight
  <1>5. ReceiptsAreRecorded' /\ AnswersAgree' /\ SingleUse'
    BY <1>4 DEF ReceiptsAreRecorded, AnswersAgree, SingleUse, Burned, GateTypeOK, Receipt
  <1>6. MoneyMoved'
    BY <1>2 DEF MoneyMoved, InFlight, GateTypeOK
  <1>7. FreshReceiptRedeemable'
    <2> SUFFICES ASSUME NEW c \in Calls, pc'[c] = "receipted" PROVE frame[c].boot # boot'
      BY DEF FreshReceiptRedeemable
    <2>1. frame[c].boot <= boot /\ frame[c].boot \in Nat /\ boot \in Nat
      BY <1>2 DEF FramesInPast, GateTypeOK, Frame
    <2> QED  BY <2>1
  <1> QED  BY <1>1, <1>3, <1>5, <1>6, <1>7

---------------------------------------------------------------------------

\* Every step of the gate preserves the invariant: one case per action.
LEMMA NextPreserves == GateInv /\ [GateNext]_gateVars => GateInv'
  <1> SUFFICES ASSUME GateInv, [GateNext]_gateVars PROVE GateInv'
    OBVIOUS
  <1>1. CASE SettleStep
    BY <1>1, SettlePreserves, SettleConfirmedPreserves, SettleFailsPreserves,
       DropSettlePreserves, RecordPreserves DEF SettleStep
  <1>2. CASE Facilitator
    BY <1>2, VerifyAcceptsPreserves, FacilitatorPreserves DEF Facilitator
  <1>3. CASE \E p \in Presentations, id \in Calls, i \in Intents : Redeem(p, id, i)
    BY <1>3, RedeemUnknownPreserves, RedeemKnownPreserves DEF Redeem
  <1>4. CASE Tick
    BY <1>4, TickPreserves
  <1>5. CASE Restart
    BY <1>5, RestartPreserves
  <1>6. CASE UNCHANGED gateVars
    BY <1>6 DEF gateVars, GateInv, GateTypeOK, FramesInPast, ReceiptsAreRecorded,
       AnswersAgree, MoneyMoved, SingleUse, FreshReceiptRedeemable, Recorded, Burned, NewReceipt
  <1> QED  BY <1>1, <1>2, <1>3, <1>4, <1>5, <1>6 DEF GateNext

\* The inductive invariant holds of every behaviour of the gate.
THEOREM GateInvariant == GateSpec => []GateInv
  BY InitEstablishes, NextPreserves, PTL DEF GateSpec

\* The gate's variables keep their types: above all, the treasury never holds two
\* receipts under one id.
THEOREM GateTypeCorrect == GateSpec => []GateTypeOK
  <1>1. GateInv => GateTypeOK
    BY DEF GateInv
  <1> QED  BY <1>1, GateInvariant, PTL

\* A receipt is taken at most once and is gone from then on (X402Gate::redeem).
THEOREM ReceiptsAreSingleUse == GateSpec => []SingleUse
  <1>1. GateInv => SingleUse
    BY DEF GateInv
  <1> QED  BY <1>1, GateInvariant, PTL

\* Whoever passes the guard passes with a receipt recorded for the intent asked
\* for, and, under a live facilitator, with the money of a payment of its own.
THEOREM RedemptionsArePaid == GateSpec => []RedemptionIsPaid
  <1>1. GateInv => RedemptionIsPaid
    <2> SUFFICES ASSUME GateInv, NEW p \in Presentations, result[p] = "redeemed"
                 PROVE  LET c == held[p].id
                        IN  /\ pc[c] = "receipted" /\ frame[c].intent = asked[p]
                            /\ backend = "facilitator" => chargedBy[frame[c].payment] = c
      BY DEF RedemptionIsPaid
    <2>1. held[p] # Nothing /\ held[p].intent = asked[p]
      BY DEF GateInv, AnswersAgree
    <2>2. held[p].id \in Calls
      BY <2>1 DEF GateInv, GateTypeOK, Receipt
    <2> QED  BY <2>1, <2>2, RecordedReceipt DEF GateInv, ReceiptsAreRecorded, Recorded, MoneyMoved
  <1> QED  BY <1>1, GateInvariant, PTL

\* A charge whose answer was lost buys no receipt, and no other call over its payment
\* gets one (settle_intent).
THEOREM LostChargesBuyNothing == GateSpec => []LostChargeBuysNothing
  <1>1. GateInv => LostChargeBuysNothing
    <2> SUFFICES ASSUME GateInv, backend = "facilitator", NEW p \in Payments,
                        chargedBy[p] # Nothing, pc[chargedBy[p]] \in {"failed", "dropped"},
                        NEW c \in Calls, frame[c] # Nothing, frame[c].payment = p
                 PROVE  /\ pc[c] \notin {"cleared", "receipted"}
                        /\ \A r \in treasury : r.id # c
      BY DEF LostChargeBuysNothing
    <2>1. pc[c] \notin {"cleared", "receipted"}
      BY DEF GateInv, MoneyMoved
    <2> QED  BY <2>1 DEF GateInv, ReceiptsAreRecorded, Recorded
  <1> QED  BY <1>1, GateInvariant, PTL

\* A receipt younger than StaleAfter, recorded by this process and never
\* presented, is in the treasury, however the sweeps interleave (evict_stale).
THEOREM FreshReceiptsAreKept == GateSpec => []FreshReceiptRedeemable
  <1>1. GateInv => FreshReceiptRedeemable
    BY DEF GateInv
  <1> QED  BY <1>1, GateInvariant, PTL


---------------------------------------------------------------------------
(* The gate implements the ledger (ReceiptLedger).                         *)

\* The ledger's variables, as the gate's state shows them.
Accounts == [c \in Calls |-> Account(c)]
Purposes == [c \in Calls |-> IF Recorded(c) THEN frame[c].intent ELSE Nothing]
Grants == [p \in Presentations |->
             IF result[p] = "redeemed"
             THEN [receipt |-> held[p].id, intent |-> asked[p]] ELSE Nothing]

\* A receipt's account, read from the gate's invariant.
LEMMA AccountCases ==
  ASSUME GateInv, NEW c \in Calls
  PROVE  /\ Account(c) = "open" <=> \E r \in treasury : r.id = c
         /\ (\E r \in treasury : r.id = c) => Recorded(c) /\ ~Burned(c)
         /\ Account(c) = "unissued" <=> ~Recorded(c)
         /\ Account(c) \in {"unissued", "open", "spent", "void"}
  <1>1. \A r \in treasury : r.id = c => Recorded(c) /\ ~Burned(c)
    BY DEF GateInv, ReceiptsAreRecorded, SingleUse
  <1>2. \A p \in Presentations : result[p] = "redeemed" => held[p] # Nothing
    BY DEF GateInv, AnswersAgree
  <1>3. \A p \in Presentations : held[p] # Nothing /\ held[p].id = c => Recorded(c)
    BY DEF GateInv, ReceiptsAreRecorded
  <1> QED  BY <1>1, <1>2, <1>3 DEF Account, Recorded

\* A step that moves no receipt and records none leaves the ledger alone.
LEMMA Stutter ==
  ASSUME treasury' = treasury, held' = held, result' = result, asked' = asked,
         \A c \in Calls : /\ Recorded(c)' <=> Recorded(c)
                          /\ Recorded(c) => frame'[c].intent = frame[c].intent
  PROVE  UNCHANGED <<Accounts, Purposes, Grants>>
  <1>1. \A c \in Calls : Account(c)' = Account(c)
    BY DEF Account, Recorded
  <1>2. Accounts' = Accounts
    BY <1>1 DEF Accounts
  <1>3. Purposes' = Purposes /\ Grants' = Grants
    BY DEF Purposes, Grants
  <1> QED  BY <1>2, <1>3

\* Recording a receipt issues it and voids what the sweep took.
LEMMA RecordIssues ==
  ASSUME GateInv, GateInv', NEW c \in Calls, Record(c)
  PROVE  Ledger!Issue
  <1> DEFINE V == {d \in Calls : Account(d) = "open" /\ \A r \in treasury' : r.id # d}
  <1>1. treasury' \subseteq treasury \union {NewReceipt(c)} /\ NewReceipt(c) \in treasury'
        /\ NewReceipt(c).id = c /\ frame[c].intent \in Intents
    BY RecordedReceipt DEF Record, EvictStale, NewReceipt, GateInv, GateTypeOK, Frame
  <1>2. /\ \A d \in Calls : Recorded(d)' <=> d = c \/ Recorded(d)
        /\ ~Recorded(c) /\ frame' = frame
        /\ held' = held /\ result' = result /\ asked' = asked
    BY DEF Recorded, GateInv, GateTypeOK, Record, redeemVars
  <1>3. Account(c) = "unissued" /\ Account(c)' = "open"
    BY <1>1, <1>2, AccountCases DEF Account
  <1>4. ASSUME NEW d \in Calls, d # c
        PROVE  Account(d)' = IF d \in V THEN "void" ELSE Account(d)
    <2>1. \A r \in treasury' : r.id = d => r \in treasury
      BY <1>1, <1>4
    <2>2. CASE d \in V
      BY <1>2, <2>2, <2>1, AccountCases DEF Account, Recorded, Burned, GateInv, AnswersAgree
    <2>3. CASE d \notin V
      BY <1>2, <2>3, <2>1, <1>4, AccountCases DEF Account, Recorded
    <2> QED  BY <2>2, <2>3
  <1>5. Accounts' = [Ledger!Void(Accounts, V) EXCEPT ![c] = "open"]
    BY <1>3, <1>4 DEF Accounts, Ledger!Void
  <1>6. Purposes' = [Purposes EXCEPT ![c] = frame[c].intent] /\ Grants' = Grants
    BY <1>2 DEF Purposes, Grants
  <1>7. V \in SUBSET Ledger!Open
    BY DEF Ledger!Open
  <1> QED  BY <1>1, <1>3, <1>5, <1>6, <1>7 DEF Ledger!Issue, Accounts, Purposes, Grants, Recorded

\* A presentation that finds its receipt spends it, or burns it for nothing.
LEMMA RedeemSpends ==
  ASSUME GateInv, GateInv', NEW p \in Presentations, NEW id \in Calls, NEW i \in Intents,
         RedeemKnown(p, id, i)
  PROVE  Ledger!Spend \/ Ledger!Lose
  <1>1. PICK r \in treasury :
          /\ r.id = id
          /\ treasury' = treasury \ {r}
          /\ held' = [held EXCEPT ![p] = r]
          /\ result' = [result EXCEPT ![p] = IF BoundTo(r, i) THEN "redeemed" ELSE "mismatch"]
          /\ asked' = [asked EXCEPT ![p] = i]
    BY DEF RedeemKnown, Without
  <1>2. /\ result[p] = "none" /\ pc' = pc /\ frame' = frame
        /\ held[p] = Nothing
        /\ \A s \in treasury : s.id = id => s = r
        /\ Recorded(id) /\ ~Burned(id) /\ r.intent = frame[id].intent
    BY <1>1, RecordedReceipt
    DEF RedeemKnown, callVars, GateInv, GateTypeOK, AnswersAgree, SingleUse,
        ReceiptsAreRecorded, Recorded
  <1>3. /\ held'[p] = r /\ asked'[p] = i
        /\ result'[p] = IF BoundTo(r, i) THEN "redeemed" ELSE "mismatch"
        /\ \A q \in Presentations \ {p} :
             held'[q] = held[q] /\ result'[q] = result[q] /\ asked'[q] = asked[q]
    BY <1>1 DEF GateInv, GateTypeOK
  <1>4. Account(id) = "open"
    BY <1>1, AccountCases
  <1>5. ASSUME NEW d \in Calls, d # id
        PROVE  Account(d)' = Account(d)
    BY <1>1, <1>2, <1>3, <1>5 DEF Account
  <1>6. Account(id)' = IF BoundTo(r, i) THEN "spent" ELSE "void"
    <2>1. \A s \in treasury' : s.id # id
      BY <1>1, <1>2
    <2>2. \A q \in Presentations \ {p} : ~(result[q] = "redeemed" /\ held[q].id = id)
      BY <1>2 DEF Burned, GateInv, AnswersAgree
    <2> QED  BY <1>1, <1>2, <1>3, <2>1, <2>2 DEF Account, Recorded
  <1>7. Purposes' = Purposes
    BY <1>2 DEF Purposes, Recorded
  <1>8. CASE BoundTo(r, i)
    <2>1. Accounts' = [Accounts EXCEPT ![id] = "spent"]
      BY <1>5, <1>6, <1>8 DEF Accounts
    <2>2. Purposes[id] = i
      BY <1>2, <1>8 DEF Purposes, BoundTo
    <2>3. Grants' = [Grants EXCEPT ![p] = [receipt |-> id, intent |-> i]]
      BY <1>1, <1>3, <1>8 DEF Grants
    <2>4. Grants[p] = Nothing /\ id \in Ledger!Open
      BY <1>2, <1>4 DEF Grants, Ledger!Open
    <2> QED  BY <2>1, <2>2, <2>3, <2>4, <1>7
             DEF Ledger!Spend, Accounts, Purposes, Grants, Recorded
  <1>9. CASE ~BoundTo(r, i)
    <2>1. Accounts' = Ledger!Void(Accounts, {id})
      BY <1>5, <1>6, <1>9 DEF Accounts, Ledger!Void
    <2>2. Grants' = Grants
      BY <1>2, <1>3, <1>9 DEF Grants
    <2>3. {id} \in SUBSET Ledger!Open
      BY <1>4 DEF Ledger!Open
    <2> QED  BY <2>1, <2>2, <2>3, <1>7 DEF Ledger!Lose, Accounts, Purposes, Grants, Recorded
  <1> QED  BY <1>8, <1>9

\* A presentation of an unknown id is no step of the ledger.
LEMMA UnknownStutters ==
  ASSUME GateInv, NEW p \in Presentations, NEW id \in Calls, NEW i \in Intents,
         RedeemUnknown(p, id, i)
  PROVE  UNCHANGED <<Accounts, Purposes, Grants>>
  <1>1. /\ pc' = pc /\ frame' = frame /\ treasury' = treasury /\ held' = held
        /\ \A q \in Presentations : result'[q] = "redeemed" <=> result[q] = "redeemed"
        /\ \A q \in Presentations : result[q] = "redeemed" => asked'[q] = asked[q]
    BY DEF RedeemUnknown, callVars, GateInv, GateTypeOK
  <1>2. \A c \in Calls : Account(c)' = Account(c)
    BY <1>1 DEF Account
  <1> QED  BY <1>1, <1>2 DEF Accounts, Purposes, Grants, Recorded

\* A restart loses every open receipt.
LEMMA RestartLoses ==
  ASSUME GateInv, GateInv', Restart
  PROVE  Ledger!Lose
  <1>1. /\ treasury' = {} /\ frame' = frame /\ held' = held /\ result' = result
        /\ asked' = asked
        /\ \A c \in Calls : Recorded(c)' <=> Recorded(c)
    BY DEF Restart, redeemVars, Recorded, InFlight
  <1>2. \A c \in Calls : Account(c)' = IF Account(c) = "open" THEN "void" ELSE Account(c)
    <2> SUFFICES ASSUME NEW c \in Calls
                 PROVE  Account(c)' = IF Account(c) = "open" THEN "void" ELSE Account(c)
      OBVIOUS
    <2>1. CASE \E r \in treasury : r.id = c
      BY <1>1, <2>1, AccountCases DEF Account, Recorded, Burned, GateInv, AnswersAgree
    <2>2. CASE ~\E r \in treasury : r.id = c
      BY <1>1, <2>2, AccountCases DEF Account, Recorded
    <2> QED  BY <2>1, <2>2
  <1>3. Accounts' = Ledger!Void(Accounts, Ledger!Open)
    BY <1>2 DEF Accounts, Ledger!Void, Ledger!Open
  <1>4. Purposes' = Purposes /\ Grants' = Grants
    BY <1>1 DEF Purposes, Grants
  <1> QED  BY <1>3, <1>4 DEF Ledger!Lose, Ledger!Open, Accounts, Purposes, Grants, Recorded

---------------------------------------------------------------------------

\* Every step of the gate is a step of the ledger or leaves it alone.
LEMMA StepSimulates ==
  ASSUME GateInv, GateInv', [GateNext]_gateVars
  PROVE  [Ledger!LedgerNext]_Ledger!ledgerVars
  <1> DEFINE Same == UNCHANGED <<Accounts, Purposes, Grants>>
  <1>1. ASSUME Same PROVE UNCHANGED Ledger!ledgerVars
    BY <1>1 DEF Ledger!ledgerVars, Accounts, Purposes, Grants, Recorded
  <1>2. ASSUME NEW c \in Calls, NEW i \in Intents, NEW p \in Payments \union {Nothing},
               Settle(c, i, p)
        PROVE  Same
    BY <1>2, Stutter DEF Settle, Recorded, redeemVars, GateInv, GateTypeOK, FirstAwait
  <1>3. ASSUME NEW c \in Calls,
               VerifyAccepts(c) \/ SettleConfirmed(c) \/ SettleFails(c) \/ DropSettle(c)
        PROVE  Same
    BY <1>3, Stutter DEF VerifyAccepts, SettleConfirmed, SettleFails, DropSettle, Recorded,
                         redeemVars, GateInv, GateTypeOK
  <1>4. ASSUME NEW c \in Calls, Charge(c) \/ Decline(c) PROVE Same
    BY <1>4, Stutter DEF Charge, Decline, Recorded, callVars, redeemVars
  <1>5. ASSUME Tick PROVE Same
    BY <1>5, Stutter DEF Tick, Recorded, callVars, redeemVars
  <1>6. ASSUME UNCHANGED gateVars PROVE Same
    BY <1>6, Stutter DEF gateVars, Recorded
  <1>7. CASE SettleStep
    BY <1>7, <1>1, <1>2, <1>3, RecordIssues DEF SettleStep, Ledger!LedgerNext
  <1>8. CASE Facilitator
    BY <1>8, <1>1, <1>3, <1>4 DEF Facilitator
  <1>9. CASE \E p \in Presentations, id \in Calls, i \in Intents : Redeem(p, id, i)
    BY <1>9, <1>1, RedeemSpends, UnknownStutters DEF Redeem, Ledger!LedgerNext
  <1>10. CASE Tick
    BY <1>10, <1>1, <1>5
  <1>11. CASE Restart
    BY <1>11, RestartLoses DEF Ledger!LedgerNext
  <1>12. CASE UNCHANGED gateVars
    BY <1>12, <1>1, <1>6
  <1> QED  BY <1>7, <1>8, <1>9, <1>10, <1>11, <1>12 DEF GateNext

\* The gate starts as an empty ledger.
LEMMA InitSimulates == GateInit => Ledger!LedgerInit
  BY DEF GateInit, Ledger!LedgerInit, Account

\* The gate implements the ledger: whatever settles, sweeps, crashes and
\* presentations interleave, a receipt is issued once and spent at most once, by
\* one presentation, for the intent it was bought for.
THEOREM GateImplementsLedger == GateSpec => ImplementsLedger
  <1>1. GateInv /\ GateInv' /\ [GateNext]_gateVars => [Ledger!LedgerNext]_Ledger!ledgerVars
    BY StepSimulates
  <1> QED  BY <1>1, InitSimulates, GateInvariant, PTL
           DEF GateSpec, ImplementsLedger, Ledger!LedgerSpec

---------------------------------------------------------------------------
(* The server over the gate.                                               *)

\* Every step of the server is a step of the gate, or leaves the gate alone.
LEMMA ServerStepIsGateStep == [HandoffNext]_handoffVars => [GateNext]_gateVars
<1> SUFFICES ASSUME [HandoffNext]_handoffVars PROVE [GateNext]_gateVars
  OBVIOUS
<1>1. CASE (SettleStep \/ Facilitator \/ Tick) /\ UNCHANGED serverVars
  BY <1>1 DEF GateNext
<1>2. CASE \E c \in Calls : AnswerSettled(c) \/ AnswerFailed(c)
  BY <1>2 DEF AnswerSettled, AnswerFailed
<1>3. CASE \E i \in Intents : AgentAnnounce(i)
  BY <1>3 DEF AgentAnnounce
<1>4. CASE ExecuteStep
  <2>1. PICK e \in Presentations :
          \/ RefuseUnpaid(e)
          \/ \E id \in Calls, i \in Intents : Guard(e, id, i)
          \/ RefusePresented(e)
          \/ RejectBody(e)
          \/ \E body \in Intents : RecheckFails(e, body) \/ Mint(e, body)
          \/ DropExecute(e)
          \/ TellCredential(e)
          \/ TellSettlement(e)
    BY <1>4 DEF ExecuteStep
  <2>2. CASE \E id \in Calls, i \in Intents : Guard(e, id, i)
    BY <2>2 DEF Guard, GateNext
  <2>3. CASE ~ \E id \in Calls, i \in Intents : Guard(e, id, i)
    BY <2>1, <2>3 DEF RefuseUnpaid, RefusePresented, RejectBody, RecheckFails, Mint,
                      DropExecute, TellCredential, TellSettlement
  <2> QED BY <2>2, <2>3
<1>5. CASE RestartServer
  BY <1>5 DEF RestartServer, GateNext
<1>6. CASE UNCHANGED handoffVars
  BY <1>6 DEF handoffVars
<1> QED BY <1>1, <1>2, <1>3, <1>4, <1>5, <1>6 DEF HandoffNext

\* The handlers use the gate as GateSpec lets them (server.rs, payment_guard of
\* x402.rs), so every theorem about the gate is one about the server.
THEOREM ServerRunsTheGate == HandoffSpec => GateSpec
<1>1. HandoffInit => GateInit
  BY DEF HandoffInit
<1> QED BY <1>1, ServerStepIsGateStep, PTL DEF HandoffSpec, GateSpec

---------------------------------------------------------------------------
(* FeedIsAudit.                                                            *)

\* A call answered 200 is one whose receipt was recorded, and a receipt whose call
\* was answered, in this process, has its payment line.
PaymentsTold ==
  /\ \A c \in Calls : answer[c] = 200 => pc[c] = "receipted"
  /\ \A r \in treasury : answer[r.id] = 200 => Told("payment", r.id)

\* A request past the guard holds a receipt whose payment line is in the feed.
GuardedArePaid == \A e \in Presentations :
  stage[e] \in {"guarded", "minted", "packaged"} =>
    held[e] # Nothing /\ Told("payment", held[e].id)

\* Credential lines are those of the requests that posted one.
CredentialsTold ==
  /\ \A e \in Presentations : stage[e] = "packaged" => Told("credential", e)
  /\ \A n \in DOMAIN feed : feed[n].kind = "credential" =>
       feed[n].of \in Presentations /\ stage[feed[n].of] \in {"packaged", "done"}

\* FeedIsAudit alone is not inductive: nothing in it says that a request about to
\* post its line has its payment line behind it.
AuditInv == /\ HandoffTypeOK
            /\ PaymentsTold
            /\ GuardedArePaid
            /\ CredentialsTold
            /\ FeedIsAudit

\* A posted line is told, and what was told stays told, where it was.
LEMMA PostTells ==
  ASSUME feed \in Seq(Line), NEW k \in Kinds, NEW x \in Calls \union Presentations \union Intents,
         Post(k, x)
  PROVE  /\ feed' \in Seq(Line)
         /\ DOMAIN feed = 1..Len(feed) /\ DOMAIN feed' = 1..(Len(feed) + 1)
         /\ Len(feed) \in Nat
         /\ \A n \in DOMAIN feed : feed'[n] = feed[n]
         /\ feed'[Len(feed) + 1] = [kind |-> k, of |-> x]
         /\ Told(k, x)'
         /\ \A j, y : Told(j, y) => Told(j, y)'
<1> DEFINE line == [kind |-> k, of |-> x]
<1>1. line \in Line
  BY DEF Line
<1>2. feed' = Append(feed, line)
  BY DEF Post
<1>3. /\ feed' \in Seq(Line)
      /\ DOMAIN feed = 1..Len(feed) /\ DOMAIN feed' = 1..(Len(feed) + 1)
      /\ Len(feed) \in Nat
      /\ \A n \in DOMAIN feed : feed'[n] = feed[n]
      /\ feed'[Len(feed) + 1] = line
  BY <1>1, <1>2
<1>4. Told(k, x)'
  BY <1>3 DEF Told
<1>5. \A j, y : Told(j, y) => Told(j, y)'
  BY <1>3 DEF Told
<1> QED BY <1>3, <1>4, <1>5

\* The server starts in the invariant.
LEMMA AuditInit == HandoffInit => AuditInv
  BY DEF HandoffInit, GateInit, AuditInv, HandoffTypeOK, PaymentsTold, GuardedArePaid,
         CredentialsTold, FeedIsAudit, Told, Stages, Statuses

\* A line that is neither a credential nor a settlement line disturbs no match.
LEMMA OtherLinesAreHarmless ==
  ASSUME AuditInv, NEW k \in Kinds \ {"credential", "settlement"},
         NEW x \in Calls \union Presentations \union Intents,
         Post(k, x), UNCHANGED held
  PROVE  FeedIsAudit'
<1>1. /\ DOMAIN feed = 1..Len(feed) /\ DOMAIN feed' = 1..(Len(feed) + 1)
      /\ Len(feed) \in Nat
      /\ \A n \in DOMAIN feed : feed'[n] = feed[n]
      /\ feed'[Len(feed) + 1] = [kind |-> k, of |-> x]
  <2>1. feed \in Seq(Line) /\ k \in Kinds
    BY DEF AuditInv, HandoffTypeOK
  <2> QED BY <2>1, PostTells
<1>2. \A n \in DOMAIN feed' : feed'[n].kind \in {"credential", "settlement"} =>
        n \in DOMAIN feed /\ feed'[n] = feed[n]
  <2>1. feed'[Len(feed) + 1].kind = k
    BY <1>1
  <2> QED BY <1>1, <2>1
<1>3. ASSUME NEW n \in DOMAIN feed', feed'[n].kind = "settlement"
      PROVE  \E m \in 1..(n-1) : feed'[m] = [kind |-> "credential", of |-> feed'[n].of]
  <2>1. PICK m \in 1..(n-1) : feed[m] = [kind |-> "credential", of |-> feed[n].of]
    BY <1>2, <1>3 DEF AuditInv, FeedIsAudit
  <2>2. m \in DOMAIN feed
    BY <1>1, <1>2, <1>3
  <2> QED BY <1>1, <1>2, <1>3, <2>1, <2>2
<1>4. ASSUME NEW n \in DOMAIN feed', feed'[n].kind = "credential"
      PROVE  /\ held'[feed'[n].of] # Nothing
             /\ \E m \in 1..(n-1) : feed'[m] = [kind |-> "payment", of |-> held'[feed'[n].of].id]
  <2>1. held[feed[n].of] # Nothing
    BY <1>2, <1>4 DEF AuditInv, FeedIsAudit
  <2>2. PICK m \in 1..(n-1) : feed[m] = [kind |-> "payment", of |-> held[feed[n].of].id]
    BY <1>2, <1>4 DEF AuditInv, FeedIsAudit
  <2>3. m \in DOMAIN feed
    BY <1>1, <1>2, <1>4
  <2> QED BY <1>1, <1>2, <1>4, <2>1, <2>2, <2>3
<1>5. ASSUME NEW m \in DOMAIN feed', NEW n \in DOMAIN feed', m # n,
             feed'[m].kind = "credential", feed'[n].kind = "credential"
      PROVE  held'[feed'[m].of] # held'[feed'[n].of]
  BY <1>2, <1>5 DEF AuditInv, FeedIsAudit
<1> QED BY <1>3, <1>4, <1>5 DEF FeedIsAudit

\* What a step of a settle call, of the facilitator or of the clock may do to what
\* the feed is about: it takes nothing from a request, it un-records nothing, and a
\* receipt it adds is of a call that had not recorded one.
LEMMA GateStepFacts ==
  ASSUME GateInv, SettleStep \/ Facilitator \/ Tick
  PROVE  /\ held' = held
         /\ \A c \in Calls : pc[c] = "receipted" => pc'[c] = "receipted"
         /\ \A r \in treasury' : r \in treasury \/ (r.id \in Calls /\ pc[r.id] = "cleared")
<1> USE DEF GateInv, GateTypeOK, Pcs
<1>1. CASE \E c \in Calls, i \in Intents, p \in Payments \union {Nothing} : Settle(c, i, p)
  BY <1>1 DEF Settle, redeemVars
<1>2. CASE \E c \in Calls : SettleConfirmed(c) \/ SettleFails(c) \/ DropSettle(c)
  BY <1>2 DEF SettleConfirmed, SettleFails, DropSettle, redeemVars
<1>3. CASE \E c \in Calls : Record(c)
  <2>1. PICK c \in Calls : Record(c)
    BY <1>3
  <2>2. NewReceipt(c).id = c
    BY DEF NewReceipt
  <2> QED BY <2>1, <2>2 DEF Record, EvictStale, redeemVars
<1>4. CASE Facilitator
  BY <1>4 DEF Facilitator, VerifyAccepts, Charge, Decline, redeemVars, callVars
<1>5. CASE Tick
  BY <1>5 DEF Tick, redeemVars, callVars
<1> QED BY <1>1, <1>2, <1>3, <1>4, <1>5 DEF SettleStep

\* Those steps preserve the invariant.
LEMMA GateStepPreserves ==
  ASSUME AuditInv, GateInv, SettleStep \/ Facilitator \/ Tick, UNCHANGED serverVars
  PROVE  AuditInv'
<1>1. /\ held' = held
      /\ \A c \in Calls : pc[c] = "receipted" => pc'[c] = "receipted"
      /\ \A r \in treasury' : r \in treasury \/ (r.id \in Calls /\ pc[r.id] = "cleared")
  BY GateStepFacts
<1>2. feed' = feed /\ stage' = stage /\ answer' = answer
  BY DEF serverVars
<1>3. PaymentsTold'
  BY <1>1, <1>2 DEF AuditInv, PaymentsTold, Told
<1>4. HandoffTypeOK' /\ GuardedArePaid' /\ CredentialsTold' /\ FeedIsAudit'
  BY <1>1, <1>2 DEF AuditInv, HandoffTypeOK, GuardedArePaid, CredentialsTold, FeedIsAudit, Told
<1> QED BY <1>3, <1>4 DEF AuditInv

\* A settle call's answer: its line first, then the status.
LEMMA AnswerPreserves ==
  ASSUME AuditInv, GateInv, NEW c \in Calls, AnswerSettled(c) \/ AnswerFailed(c)
  PROVE  AuditInv'
<1>1. PICK k \in {"payment", "restriction"}, status \in {200, 502} :
        /\ Post(k, c) /\ Answer(c, status)
        /\ status = 200 => k = "payment" /\ pc[c] = "receipted"
  BY DEF AnswerSettled, AnswerFailed
<1>2. /\ stage' = stage /\ held' = held /\ pc' = pc /\ treasury' = treasury
  BY DEF AnswerSettled, AnswerFailed, gateVars
<1>3. feed \in Seq(Line) /\ k \in Kinds
  BY DEF AuditInv, HandoffTypeOK, Kinds
<1>4. /\ feed' \in Seq(Line)
      /\ DOMAIN feed = 1..Len(feed) /\ DOMAIN feed' = 1..(Len(feed) + 1)
      /\ Len(feed) \in Nat
      /\ \A n \in DOMAIN feed : feed'[n] = feed[n]
      /\ feed'[Len(feed) + 1] = [kind |-> k, of |-> c]
      /\ Told(k, c)'
      /\ \A j, y : Told(j, y) => Told(j, y)'
  BY <1>1, <1>3, PostTells
<1>5. answer' = [answer EXCEPT ![c] = status]
  BY <1>1 DEF Answer
<1>6. HandoffTypeOK'
  BY <1>2, <1>4, <1>5 DEF AuditInv, HandoffTypeOK, Statuses
<1>7. PaymentsTold'
  <2>1. \A d \in Calls : answer'[d] = 200 => pc'[d] = "receipted"
    BY <1>1, <1>2, <1>5 DEF AuditInv, HandoffTypeOK, PaymentsTold
  <2>2. \A r \in treasury : r.id \in Calls
    BY DEF GateInv, GateTypeOK, Receipt
  <2>3. ASSUME NEW r \in treasury', answer'[r.id] = 200
        PROVE  Told("payment", r.id)'
    <3>1. CASE r.id = c
      BY <1>1, <1>4, <1>5, <2>2, <2>3, <3>1 DEF AuditInv, HandoffTypeOK
    <3>2. CASE r.id # c
      <4>1. Told("payment", r.id)
        BY <1>2, <1>5, <2>2, <2>3, <3>2 DEF AuditInv, HandoffTypeOK, PaymentsTold
      <4> QED BY <1>4, <4>1
    <3> QED BY <3>1, <3>2
  <2> QED BY <2>1, <2>3, <1>2 DEF PaymentsTold, Told
<1>8. GuardedArePaid'
  BY <1>2, <1>4 DEF AuditInv, GuardedArePaid, Told
<1>9. CredentialsTold'
  BY <1>1, <1>2, <1>4 DEF AuditInv, CredentialsTold, Told
<1>10. FeedIsAudit'
  BY <1>1, <1>2, <1>3, OtherLinesAreHarmless
<1> QED BY <1>6, <1>7, <1>8, <1>9, <1>10 DEF AuditInv

\* A line that tells of no receipt and no credential, while at most one request
\* that has posted nothing is finished off: announcements and refusals.
LEMMA NarrationPreserves ==
  ASSUME AuditInv, GateInv, NEW k \in {"intent", "restriction"},
         NEW x \in Calls \union Presentations \union Intents,
         Post(k, x), UNCHANGED gateVars,
         \/ UNCHANGED <<stage, answer>>
         \/ \E e \in Presentations : stage[e] \in {"idle", "refusing"} /\ Answer(e, 402) /\ Goto(e, "done")
  PROVE  AuditInv'
<1>1. held' = held /\ pc' = pc /\ treasury' = treasury
  BY DEF gateVars
<1>2. feed \in Seq(Line) /\ k \in Kinds /\ k \in Kinds \ {"credential", "settlement"}
  BY DEF AuditInv, HandoffTypeOK, Kinds
<1>3. /\ feed' \in Seq(Line)
      /\ DOMAIN feed = 1..Len(feed) /\ DOMAIN feed' = 1..(Len(feed) + 1)
      /\ Len(feed) \in Nat
      /\ \A n \in DOMAIN feed : feed'[n] = feed[n]
      /\ feed'[Len(feed) + 1] = [kind |-> k, of |-> x]
      /\ \A j, y : Told(j, y) => Told(j, y)'
  BY <1>2, PostTells
<1>4. /\ stage' \in [Presentations -> Stages]
      /\ answer' \in [Calls \union Presentations -> Statuses]
      /\ \A c \in Calls : answer'[c] = answer[c]
      /\ \A e \in Presentations : stage'[e] = stage[e]
                                  \/ (stage[e] \in {"idle", "refusing"} /\ stage'[e] = "done")
  BY ServerAssumption DEF AuditInv, HandoffTypeOK, Answer, Goto, Stages, Statuses
<1>5. HandoffTypeOK'
  BY <1>3, <1>4 DEF HandoffTypeOK
<1>6. PaymentsTold'
  <2>1. \A r \in treasury : r.id \in Calls
    BY DEF GateInv, GateTypeOK, Receipt
  <2>2. \A r \in treasury' : answer'[r.id] = 200 => Told("payment", r.id)'
    BY <1>1, <1>3, <1>4, <2>1 DEF AuditInv, PaymentsTold
  <2>3. \A c \in Calls : answer'[c] = 200 => pc'[c] = "receipted"
    BY <1>1, <1>4 DEF AuditInv, PaymentsTold
  <2> QED BY <2>2, <2>3 DEF PaymentsTold, Told
<1>7. GuardedArePaid'
  <2>1. ASSUME NEW e \in Presentations, stage'[e] \in {"guarded", "minted", "packaged"}
        PROVE  held'[e] # Nothing /\ Told("payment", held[e].id)'
    <3>1. stage[e] = stage'[e]
      BY <1>4, <2>1
    <3>2. held[e] # Nothing /\ Told("payment", held[e].id)
      BY <2>1, <3>1 DEF AuditInv, GuardedArePaid
    <3> QED BY <1>1, <1>3, <3>2 DEF Told
  <2> QED BY <2>1 DEF GuardedArePaid, Told
<1>8. CredentialsTold'
  <2>1. \A e \in Presentations : stage'[e] = "packaged" => Told("credential", e)'
    BY <1>3, <1>4 DEF AuditInv, CredentialsTold
  <2>2. \A n \in DOMAIN feed' : feed'[n].kind = "credential" => n \in DOMAIN feed
    <3>1. feed'[Len(feed) + 1].kind = k
      BY <1>3
    <3> QED BY <1>2, <1>3, <3>1
  <2>3. \A n \in DOMAIN feed' : feed'[n].kind = "credential" =>
          feed'[n].of \in Presentations /\ stage'[feed'[n].of] \in {"packaged", "done"}
    BY <1>3, <1>4, <2>2 DEF AuditInv, CredentialsTold
  <2> QED BY <2>1, <2>3 DEF CredentialsTold, Told
<1>9. FeedIsAudit'
  BY <1>1, <1>2, OtherLinesAreHarmless
<1> QED BY <1>5, <1>6, <1>7, <1>8, <1>9 DEF AuditInv

\* The guard: whoever it lets through holds a receipt whose payment line was
\* posted before its id could be known.
LEMMA GuardPreserves ==
  ASSUME AuditInv, GateInv, NEW e \in Presentations, NEW id \in Calls, NEW i \in Intents,
         Guard(e, id, i)
  PROVE  AuditInv'
<1>1. /\ feed' = feed /\ answer' = answer /\ pc' = pc
      /\ stage[e] = "idle"
      /\ stage' = [stage EXCEPT ![e] = IF result'[e] = "redeemed" THEN "guarded" ELSE "refusing"]
      /\ treasury' \subseteq treasury
      /\ \A d \in Presentations \ {e} : held'[d] = held[d]
  BY DEF Guard, Goto, Redeem, RedeemUnknown, RedeemKnown, callVars, Without, GateInv, GateTypeOK
<1>2. result'[e] = "redeemed" => held'[e] # Nothing /\ Told("payment", held'[e].id)
  <2> SUFFICES ASSUME result'[e] = "redeemed"
               PROVE  held'[e] # Nothing /\ Told("payment", held'[e].id)
    OBVIOUS
  <2>1. RedeemKnown(e, id, i)
    BY DEF Guard, Redeem, RedeemUnknown, GateInv, GateTypeOK
  <2>2. PICK r \in treasury : r.id = id /\ held' = [held EXCEPT ![e] = r]
    BY <2>1 DEF RedeemKnown
  <2>3. held'[e] = r /\ r # Nothing
    BY <2>2, ReceiptAssumption DEF GateInv, GateTypeOK
  <2>4. answer[id] = 200
    BY <2>2 DEF Guard, Presentable, GateInv, ReceiptsAreRecorded, Recorded
  <2> QED BY <2>2, <2>3, <2>4 DEF AuditInv, PaymentsTold
<1>3. \A n \in DOMAIN feed : feed[n].kind = "credential" => feed[n].of \in Presentations \ {e}
  BY <1>1 DEF AuditInv, CredentialsTold
<1>4. HandoffTypeOK'
  BY <1>1 DEF AuditInv, HandoffTypeOK, Stages
<1>5. PaymentsTold'
  BY <1>1 DEF AuditInv, PaymentsTold, Told
<1>6. GuardedArePaid'
  <2>1. ASSUME NEW d \in Presentations, stage'[d] \in {"guarded", "minted", "packaged"}
        PROVE  held'[d] # Nothing /\ Told("payment", held'[d].id)
    <3>1. CASE d = e
      BY <1>1, <1>2, <2>1, <3>1 DEF AuditInv, HandoffTypeOK
    <3>2. CASE d # e
      BY <1>1, <2>1, <3>2 DEF AuditInv, HandoffTypeOK, GuardedArePaid
    <3> QED BY <3>1, <3>2
  <2> QED BY <1>1, <2>1 DEF GuardedArePaid, Told
<1>7. CredentialsTold'
  BY <1>1, <1>3 DEF AuditInv, HandoffTypeOK, CredentialsTold, Told
<1>8. FeedIsAudit'
  BY <1>1, <1>3 DEF AuditInv, FeedIsAudit
<1> QED BY <1>4, <1>5, <1>6, <1>7, <1>8 DEF AuditInv

\* From the guard to the end of the body: nothing is posted.
LEMMA BodyPreserves ==
  ASSUME AuditInv, GateInv, NEW e \in Presentations,
         \/ RejectBody(e) \/ DropExecute(e)
         \/ \E body \in Intents : RecheckFails(e, body) \/ Mint(e, body)
  PROVE  AuditInv'
<1>1. /\ feed' = feed /\ held' = held /\ pc' = pc /\ treasury' = treasury
      /\ stage[e] = "guarded"
      /\ \E s \in {"done", "dropped", "minted"} : stage' = [stage EXCEPT ![e] = s]
      /\ answer' = answer \/ \E status \in {400, 402} : answer' = [answer EXCEPT ![e] = status]
  BY DEF RejectBody, DropExecute, RecheckFails, Mint, Answer, Goto, gateVars
<1>2. /\ stage' \in [Presentations -> Stages]
      /\ answer' \in [Calls \union Presentations -> Statuses]
      /\ \A x \in Calls \union Presentations : answer'[x] = 200 => answer[x] = 200
      /\ \A d \in Presentations : stage'[d] = stage[d]
                                  \/ (stage[d] = "guarded" /\ stage'[d] \in {"done", "dropped", "minted"})
  BY <1>1 DEF AuditInv, HandoffTypeOK, Stages, Statuses
<1>3. HandoffTypeOK'
  BY <1>1, <1>2 DEF AuditInv, HandoffTypeOK
<1>4. \A r \in treasury : r.id \in Calls
  BY DEF GateInv, GateTypeOK, Receipt
<1>5. PaymentsTold'
  BY <1>1, <1>2, <1>4 DEF AuditInv, PaymentsTold, Told
<1>6. GuardedArePaid' /\ CredentialsTold'
  BY <1>1, <1>2 DEF AuditInv, GuardedArePaid, CredentialsTold, Told
<1>7. FeedIsAudit'
  BY <1>1 DEF AuditInv, FeedIsAudit
<1> QED BY <1>3, <1>5, <1>6, <1>7 DEF AuditInv

\* The credential line: its payment line is behind it, and its receipt is nobody
\* else's, because receipts are single-use.
LEMMA TellCredentialPreserves ==
  ASSUME AuditInv, GateInv, NEW e \in Presentations, TellCredential(e)
  PROVE  AuditInv'
<1>1. /\ held' = held /\ pc' = pc /\ treasury' = treasury /\ answer' = answer
      /\ stage[e] = "minted" /\ stage' = [stage EXCEPT ![e] = "packaged"]
      /\ Post("credential", e)
  BY DEF TellCredential, Goto, gateVars
<1>2. feed \in Seq(Line) /\ "credential" \in Kinds
  BY DEF AuditInv, HandoffTypeOK, Kinds
<1>3. /\ feed' \in Seq(Line)
      /\ DOMAIN feed = 1..Len(feed) /\ DOMAIN feed' = 1..(Len(feed) + 1)
      /\ Len(feed) \in Nat
      /\ \A n \in DOMAIN feed : feed'[n] = feed[n]
      /\ feed'[Len(feed) + 1] = [kind |-> "credential", of |-> e]
      /\ Told("credential", e)'
      /\ \A j, y : Told(j, y) => Told(j, y)'
  BY <1>1, <1>2, PostTells
<1>4. \A n \in DOMAIN feed' : feed'[n].kind = "credential" =>
        \/ n = Len(feed) + 1 /\ feed'[n].of = e
        \/ n \in DOMAIN feed /\ feed'[n] = feed[n] /\ feed[n].of \in Presentations \ {e}
  BY <1>1, <1>3 DEF AuditInv, CredentialsTold
<1>5. HandoffTypeOK'
  BY <1>1, <1>3 DEF AuditInv, HandoffTypeOK, Stages
<1>6. PaymentsTold'
  <2>1. \A r \in treasury' : answer'[r.id] = 200 => Told("payment", r.id)'
    BY <1>1, <1>3 DEF AuditInv, PaymentsTold
  <2> QED BY <1>1, <2>1 DEF AuditInv, PaymentsTold, Told
<1>7. GuardedArePaid'
  <2>1. ASSUME NEW d \in Presentations, stage'[d] \in {"guarded", "minted", "packaged"}
        PROVE  held'[d] # Nothing /\ Told("payment", held[d].id)'
    <3>1. held[d] # Nothing /\ Told("payment", held[d].id)
      BY <1>1, <2>1 DEF AuditInv, HandoffTypeOK, GuardedArePaid
    <3> QED BY <1>1, <1>3, <3>1 DEF Told
  <2> QED BY <2>1 DEF GuardedArePaid, Told
<1>8. CredentialsTold'
  <2>1. \A d \in Presentations : stage'[d] = "packaged" => Told("credential", d)'
    BY <1>1, <1>3 DEF AuditInv, HandoffTypeOK, CredentialsTold
  <2>2. \A n \in DOMAIN feed' : feed'[n].kind = "credential" =>
          feed'[n].of \in Presentations /\ stage'[feed'[n].of] \in {"packaged", "done"}
    BY <1>1, <1>4 DEF AuditInv, HandoffTypeOK, CredentialsTold
  <2> QED BY <2>1, <2>2 DEF CredentialsTold, Told
<1>9. FeedIsAudit'
  <2>1. ASSUME NEW n \in DOMAIN feed', feed'[n].kind = "settlement"
        PROVE  \E m \in 1..(n-1) : feed'[m] = [kind |-> "credential", of |-> feed'[n].of]
    <3>0. feed'[Len(feed) + 1].kind = "credential"
      BY <1>3
    <3>1. n \in DOMAIN feed /\ feed'[n] = feed[n]
      BY <1>3, <2>1, <3>0
    <3>2. PICK m \in 1..(n-1) : feed[m] = [kind |-> "credential", of |-> feed[n].of]
      BY <2>1, <3>1 DEF AuditInv, FeedIsAudit
    <3>3. m \in DOMAIN feed
      BY <1>3, <3>1
    <3> QED BY <1>3, <3>1, <3>2, <3>3
  <2>2. ASSUME NEW n \in DOMAIN feed', feed'[n].kind = "credential"
        PROVE  /\ held'[feed'[n].of] # Nothing
               /\ \E m \in 1..(n-1) : feed'[m] = [kind |-> "payment", of |-> held'[feed'[n].of].id]
    <3>1. CASE n = Len(feed) + 1 /\ feed'[n].of = e
      <4>1. held[e] # Nothing /\ Told("payment", held[e].id)
        BY <1>1 DEF AuditInv, GuardedArePaid
      <4>2. PICK m \in DOMAIN feed : feed[m] = [kind |-> "payment", of |-> held[e].id]
        BY <4>1 DEF Told
      <4>3. m \in 1..(n-1) /\ feed'[m] = feed[m]
        BY <1>3, <3>1
      <4> QED BY <1>1, <3>1, <4>1, <4>2, <4>3
    <3>2. CASE n \in DOMAIN feed /\ feed'[n] = feed[n]
      <4>1. held[feed[n].of] # Nothing
        BY <2>2, <3>2 DEF AuditInv, FeedIsAudit
      <4>2. PICK m \in 1..(n-1) : feed[m] = [kind |-> "payment", of |-> held[feed[n].of].id]
        BY <2>2, <3>2 DEF AuditInv, FeedIsAudit
      <4>3. m \in DOMAIN feed
        BY <1>3, <3>2
      <4> QED BY <1>1, <1>3, <3>2, <4>1, <4>2, <4>3
    <3> QED BY <1>4, <2>2, <3>1, <3>2
  <2>3. ASSUME NEW m \in DOMAIN feed', NEW n \in DOMAIN feed', m # n,
               feed'[m].kind = "credential", feed'[n].kind = "credential"
        PROVE  held'[feed'[m].of] # held'[feed'[n].of]
    <3>1. ASSUME NEW d \in Presentations \ {e}, held[d] # Nothing
          PROVE  held[d] # held[e]
      <4>1. held[e] # Nothing
        BY <1>1 DEF AuditInv, GuardedArePaid
      <4> QED BY <3>1, <4>1 DEF GateInv, SingleUse
    <3>2. CASE m \in DOMAIN feed /\ n \in DOMAIN feed
      BY <1>1, <1>3, <2>3, <3>2 DEF AuditInv, FeedIsAudit
    <3>3. CASE ~(m \in DOMAIN feed /\ n \in DOMAIN feed)
      <4>1. \A j \in DOMAIN feed : feed[j].kind = "credential" => held[feed[j].of] # Nothing
        BY DEF AuditInv, FeedIsAudit
      <4> QED BY <1>1, <1>3, <1>4, <2>3, <3>1, <3>3, <4>1
    <3> QED BY <3>2, <3>3
  <2> QED BY <2>1, <2>2, <2>3 DEF FeedIsAudit
<1> QED BY <1>5, <1>6, <1>7, <1>8, <1>9 DEF AuditInv

\* The settlement line: the credential line of the same request is behind it.
LEMMA TellSettlementPreserves ==
  ASSUME AuditInv, GateInv, NEW e \in Presentations, TellSettlement(e)
  PROVE  AuditInv'
<1>1. /\ held' = held /\ pc' = pc /\ treasury' = treasury
      /\ stage[e] = "packaged" /\ stage' = [stage EXCEPT ![e] = "done"]
      /\ answer' = [answer EXCEPT ![e] = 200]
      /\ Post("settlement", e)
  BY DEF TellSettlement, Answer, Goto, gateVars
<1>2. feed \in Seq(Line) /\ "settlement" \in Kinds
  BY DEF AuditInv, HandoffTypeOK, Kinds
<1>3. /\ feed' \in Seq(Line)
      /\ DOMAIN feed = 1..Len(feed) /\ DOMAIN feed' = 1..(Len(feed) + 1)
      /\ Len(feed) \in Nat
      /\ \A n \in DOMAIN feed : feed'[n] = feed[n]
      /\ feed'[Len(feed) + 1] = [kind |-> "settlement", of |-> e]
      /\ \A j, y : Told(j, y) => Told(j, y)'
  BY <1>1, <1>2, PostTells
<1>4. feed'[Len(feed) + 1].kind = "settlement" /\ feed'[Len(feed) + 1].of = e
  BY <1>3
<1>5. \A n \in DOMAIN feed' : n = Len(feed) + 1 \/ (n \in DOMAIN feed /\ feed'[n] = feed[n])
  BY <1>3
<1>6. \A n \in DOMAIN feed' : feed'[n].kind = "credential" => n \in DOMAIN feed /\ feed'[n] = feed[n]
  BY <1>4, <1>5
<1>7. HandoffTypeOK'
  BY <1>1, <1>3 DEF AuditInv, HandoffTypeOK, Stages, Statuses
<1>8. PaymentsTold'
  <2>1. \A c \in Calls : answer'[c] = answer[c]
    BY <1>1, ServerAssumption DEF AuditInv, HandoffTypeOK
  <2>2. \A r \in treasury : r.id \in Calls
    BY DEF GateInv, GateTypeOK, Receipt
  <2>3. \A r \in treasury' : answer'[r.id] = 200 => Told("payment", r.id)'
    BY <1>1, <1>3, <2>1, <2>2 DEF AuditInv, PaymentsTold
  <2>4. \A c \in Calls : answer'[c] = 200 => pc'[c] = "receipted"
    BY <1>1, <2>1 DEF AuditInv, PaymentsTold
  <2> QED BY <2>3, <2>4 DEF PaymentsTold, Told
<1>9. GuardedArePaid'
  <2>1. ASSUME NEW d \in Presentations, stage'[d] \in {"guarded", "minted", "packaged"}
        PROVE  held'[d] # Nothing /\ Told("payment", held[d].id)'
    <3>1. held[d] # Nothing /\ Told("payment", held[d].id)
      BY <1>1, <2>1 DEF AuditInv, HandoffTypeOK, GuardedArePaid
    <3> QED BY <1>1, <1>3, <3>1 DEF Told
  <2> QED BY <1>1, <2>1 DEF GuardedArePaid, Told
<1>10. CredentialsTold'
  <2>1. \A d \in Presentations : stage'[d] = "packaged" => Told("credential", d)'
    BY <1>1, <1>3 DEF AuditInv, HandoffTypeOK, CredentialsTold
  <2>2. \A n \in DOMAIN feed' : feed'[n].kind = "credential" =>
          feed'[n].of \in Presentations /\ stage'[feed'[n].of] \in {"packaged", "done"}
    BY <1>1, <1>6 DEF AuditInv, HandoffTypeOK, CredentialsTold
  <2> QED BY <2>1, <2>2 DEF CredentialsTold, Told
<1>11. FeedIsAudit'
  <2>1. ASSUME NEW n \in DOMAIN feed', feed'[n].kind = "settlement"
        PROVE  \E m \in 1..(n-1) : feed'[m] = [kind |-> "credential", of |-> feed'[n].of]
    <3>1. CASE n = Len(feed) + 1
      <4>1. PICK m \in DOMAIN feed : feed[m] = [kind |-> "credential", of |-> e]
        BY <1>1 DEF AuditInv, CredentialsTold, Told
      <4>2. m \in 1..(n-1) /\ feed'[m] = feed[m]
        BY <1>3, <3>1
      <4> QED BY <1>4, <3>1, <4>1, <4>2
    <3>2. CASE n \in DOMAIN feed /\ feed'[n] = feed[n]
      <4>1. PICK m \in 1..(n-1) : feed[m] = [kind |-> "credential", of |-> feed[n].of]
        BY <2>1, <3>2 DEF AuditInv, FeedIsAudit
      <4>2. m \in DOMAIN feed
        BY <1>3, <3>2
      <4> QED BY <1>3, <3>2, <4>1, <4>2
    <3> QED BY <1>5, <3>1, <3>2
  <2>2. ASSUME NEW n \in DOMAIN feed', feed'[n].kind = "credential"
        PROVE  /\ held'[feed'[n].of] # Nothing
               /\ \E m \in 1..(n-1) : feed'[m] = [kind |-> "payment", of |-> held'[feed'[n].of].id]
    <3>1. n \in DOMAIN feed /\ feed'[n] = feed[n]
      BY <1>6, <2>2
    <3>2. held[feed[n].of] # Nothing
      BY <2>2, <3>1 DEF AuditInv, FeedIsAudit
    <3>3. PICK m \in 1..(n-1) : feed[m] = [kind |-> "payment", of |-> held[feed[n].of].id]
      BY <2>2, <3>1 DEF AuditInv, FeedIsAudit
    <3>4. m \in DOMAIN feed
      BY <1>3, <3>1
    <3> QED BY <1>1, <1>3, <3>1, <3>2, <3>3, <3>4
  <2>3. ASSUME NEW m \in DOMAIN feed', NEW n \in DOMAIN feed', m # n,
               feed'[m].kind = "credential", feed'[n].kind = "credential"
        PROVE  held'[feed'[m].of] # held'[feed'[n].of]
    BY <1>1, <1>6, <2>3 DEF AuditInv, FeedIsAudit
  <2> QED BY <2>1, <2>2, <2>3 DEF FeedIsAudit
<1> QED BY <1>7, <1>8, <1>9, <1>10, <1>11 DEF AuditInv

\* A restart empties the feed and the treasury together.
LEMMA RestartServerPreserves ==
  ASSUME AuditInv, RestartServer
  PROVE  AuditInv'
<1>1. /\ feed' = <<>> /\ treasury' = {} /\ answer' = answer
      /\ \A c \in Calls : pc[c] = "receipted" => pc'[c] = "receipted"
      /\ stage' = [e \in Presentations |->
                     IF stage[e] \in {"idle", "done"} THEN stage[e] ELSE "dropped"]
  BY DEF RestartServer, Restart, InFlight
<1>2. HandoffTypeOK'
  BY <1>1 DEF AuditInv, HandoffTypeOK, Stages
<1>3. PaymentsTold'
  BY <1>1 DEF AuditInv, PaymentsTold
<1>4. GuardedArePaid' /\ CredentialsTold' /\ FeedIsAudit'
  BY <1>1 DEF AuditInv, GuardedArePaid, CredentialsTold, FeedIsAudit
<1> QED BY <1>2, <1>3, <1>4 DEF AuditInv

\* One case per action of the server.
LEMMA AuditNext == GateInv /\ AuditInv /\ [HandoffNext]_handoffVars => AuditInv'
<1> SUFFICES ASSUME GateInv, AuditInv, [HandoffNext]_handoffVars PROVE AuditInv'
  OBVIOUS
<1>1. CASE (SettleStep \/ Facilitator \/ Tick) /\ UNCHANGED serverVars
  BY <1>1, GateStepPreserves
<1>2. CASE \E c \in Calls : AnswerSettled(c) \/ AnswerFailed(c)
  BY <1>2, AnswerPreserves
<1>3. CASE \E i \in Intents : AgentAnnounce(i)
  BY <1>3, NarrationPreserves DEF AgentAnnounce
<1>4. CASE ExecuteStep
  <2>1. PICK e \in Presentations :
          \/ RefuseUnpaid(e)
          \/ \E id \in Calls, i \in Intents : Guard(e, id, i)
          \/ RefusePresented(e)
          \/ RejectBody(e)
          \/ \E body \in Intents : RecheckFails(e, body) \/ Mint(e, body)
          \/ DropExecute(e)
          \/ TellCredential(e)
          \/ TellSettlement(e)
    BY <1>4 DEF ExecuteStep
  <2>2. CASE RefuseUnpaid(e) \/ RefusePresented(e)
    <3>1. /\ Post("restriction", e) /\ UNCHANGED gateVars
          /\ stage[e] \in {"idle", "refusing"} /\ Answer(e, 402) /\ Goto(e, "done")
      BY <2>2 DEF RefuseUnpaid, RefusePresented
    <3> QED BY <3>1, NarrationPreserves
  <2>3. CASE \E id \in Calls, i \in Intents : Guard(e, id, i)
    BY <2>3, GuardPreserves
  <2>4. CASE \/ RejectBody(e) \/ DropExecute(e)
             \/ \E body \in Intents : RecheckFails(e, body) \/ Mint(e, body)
    BY <2>4, BodyPreserves
  <2>5. CASE TellCredential(e)
    BY <2>5, TellCredentialPreserves
  <2>6. CASE TellSettlement(e)
    BY <2>6, TellSettlementPreserves
  <2> QED BY <2>1, <2>2, <2>3, <2>4, <2>5, <2>6
<1>5. CASE RestartServer
  BY <1>5, RestartServerPreserves
<1>6. CASE UNCHANGED handoffVars
  BY <1>6 DEF handoffVars, gateVars, serverVars, AuditInv, HandoffTypeOK, PaymentsTold,
              GuardedArePaid, CredentialsTold, FeedIsAudit, Told
<1> QED BY <1>1, <1>2, <1>3, <1>4, <1>5, <1>6 DEF HandoffNext

\* The invariant holds of every behaviour of the server.
THEOREM AuditInvariant == HandoffSpec => []AuditInv
<1>1. HandoffSpec => []GateInv
  BY ServerRunsTheGate, GateInvariant, PTL
<1> QED BY <1>1, AuditInit, AuditNext, PTL DEF HandoffSpec

\* The handlers' variables keep their types.
THEOREM HandoffTypeCorrect == HandoffSpec => []HandoffTypeOK
<1>1. AuditInv => HandoffTypeOK
  BY DEF AuditInv
<1> QED BY <1>1, AuditInvariant, PTL

\* In the feed of a process every settlement has its credential and every
\* credential the payment of a receipt of its own, in that order, whatever tasks
\* interleave and clients disconnect (server.rs:131-224, x402.rs:215-260).
THEOREM FeedIsAnAudit == HandoffSpec => []FeedIsAudit
<1>1. AuditInv => FeedIsAudit
  BY DEF AuditInv
<1> QED BY <1>1, AuditInvariant, PTL

\* No receipt is presented twice to the server (payment_guard).
THEOREM ServerReceiptsAreSingleUse == HandoffSpec => []SingleUse
  BY ServerRunsTheGate, ReceiptsAreSingleUse, PTL


---------------------------------------------------------------------------
(* The surfaces.                                                         *)

\* A callback that awaits a settlement or an execution awaits a request of the page,
\* for an intent.
PendingArePages == \A k \in pending :
  k.button # "announce" => k.of \in PageRequests /\ page.intent # Nothing

PageInv == SurfaceTypeOK /\ PendingArePages

---------------------------------------------------------------------------
(* Every step of the shell is a step of the server.                        *)

\* A header holds an intent id, whatever becomes of it.
LEMMA HeaderIsIntent == \A i \in Intents : HeaderText(i) \in Intents
  BY SurfaceAssumption DEF HeaderText

\* The commands and the bridge reach /execute by the guard only.
LEMMA ExecutionRequestIsStep ==
  ASSUME NEW e \in Presentations, NEW i \in Intents, NEW r \in Calls \union {Nothing}, NEW b,
         NEW fits, RequestExecution(e, i, r, b, fits)
  PROVE  HandoffNext
<1>1. HeaderText(i) \in Intents
  BY HeaderIsIntent
<1>2. RefuseUnpaid(e) \/ (r \in Calls /\ Guard(e, r, HeaderText(i)))
  BY DEF RequestExecution
<1> QED BY <1>1, <1>2 DEF HandoffNext, ExecuteStep

\* ... and /x402/settle as any client without a payment does.
LEMMA SettlementRequestIsStep ==
  ASSUME NEW c \in Calls, NEW i \in Intents, RequestSettlement(c, i)
  PROVE  HandoffNext
  BY DEF RequestSettlement, HandoffNext, SettleStep

\* The page's callbacks act on the server through those two, or only on the page.
LEMMA PageStepIsServerStep ==
  ASSUME SurfaceTypeOK, PageClicks \/ PageResumes
  PROVE  [HandoffNext]_handoffVars
<1>1. CASE PageResumes
  BY <1>1 DEF PageResumes, AnnounceAnswered, SettleAnswered, ExecuteAnswered, RetryAnswered
<1>2. ASSUME NEW i \in MockIntents, ClickAnnounce(i) PROVE HandoffNext
  BY <1>2, SurfaceAssumption DEF ClickAnnounce, HandoffNext
<1>3. ASSUME page.enabled # {"announce"} PROVE page.intent \in Intents
  BY <1>3 DEF SurfaceTypeOK, Page
<1>4. ASSUME NEW c \in Calls, ClickSettle(c) PROVE HandoffNext
  <2>1. page.intent \in Intents
    BY <1>3, <1>4 DEF ClickSettle
  <2> QED BY <1>4, <2>1, SettlementRequestIsStep DEF ClickSettle
<1>5. ASSUME NEW e \in Presentations, ClickExecute(e) \/ ClickRetry(e) PROVE HandoffNext
  <2>1. page.intent \in Intents
    BY <1>3, <1>5 DEF ClickExecute, ClickRetry
  <2>2. page.receipt \in Calls \union {Nothing}
    BY DEF SurfaceTypeOK, Page
  <2> QED BY <1>5, <2>1, <2>2, ExecutionRequestIsStep DEF ClickExecute, ClickRetry
<1> QED BY <1>1, <1>2, <1>4, <1>5 DEF PageClicks

\* So does the bridge.
LEMMA OkxStepIsServerStep == Okx => HandoffNext
<1> SUFFICES ASSUME Okx PROVE HandoffNext
  OBVIOUS
<1>1. ASSUME NEW i \in Intents, OkxAnnounces(i) PROVE HandoffNext
  BY <1>1 DEF OkxAnnounces, HandoffNext
<1>2. ASSUME NEW i \in MockIntents, OkxAnnouncesMock(i) PROVE HandoffNext
  BY <1>2, SurfaceAssumption DEF OkxAnnouncesMock, HandoffNext
<1>3. ASSUME NEW c \in Calls, NEW i \in Intents, OkxSettles(c, i) PROVE HandoffNext
  BY <1>3, SettlementRequestIsStep DEF OkxSettles
<1>4. ASSUME NEW e \in Presentations, NEW i \in Intents, NEW r \in Calls \union {Nothing},
             NEW b, NEW fits \in BOOLEAN, OkxMints(e, i, r, b, fits)
      PROVE HandoffNext
  BY <1>4, ExecutionRequestIsStep DEF OkxMints
<1> QED BY <1>1, <1>2, <1>3, <1>4 DEF Okx

\* The handlers' own steps.
LEMMA ServeStepIsServerStep ==
  ASSUME \/ \E c \in Calls : ServeSettle(c)
         \/ \E e \in Presentations : ServeExecution(e)
         \/ Elsewhere
  PROVE  HandoffNext
<1>1. ASSUME NEW c \in Calls, ServeSettle(c) PROVE HandoffNext
  BY <1>1 DEF ServeSettle, HandoffNext, SettleStep
<1>2. ASSUME NEW e \in Presentations, ServeExecution(e) PROVE HandoffNext
  BY <1>2 DEF ServeExecution, HandoffNext, ExecuteStep
<1>3. ASSUME Elsewhere PROVE HandoffNext
  BY <1>3 DEF Elsewhere, HandoffNext, SettleStep, ExecuteStep
<1> QED BY <1>1, <1>2, <1>3

\* Every step of the shell, if the page's variables have their types.
LEMMA ShellStepIsServerStep ==
  SurfaceTypeOK /\ [ShellNext]_shellVars => [HandoffNext]_handoffVars
<1> SUFFICES ASSUME SurfaceTypeOK, [ShellNext]_shellVars PROVE [HandoffNext]_handoffVars
  OBVIOUS
<1>1. ASSUME NEW c \in Calls, NEW i \in Intents, NEW p \in Payments \union {Nothing},
             HttpSettles(c, i, p)
      PROVE HandoffNext
  BY <1>1 DEF HttpSettles, HandoffNext, SettleStep
<1>2. ASSUME NEW e \in Presentations, HttpExecutes(e) PROVE HandoffNext
  <2>1. Known \subseteq Intents
    BY SurfaceAssumption DEF SurfaceTypeOK, Known
  <2>2. \A i \in Known : HeaderText(i) \in Intents
    BY <2>1, HeaderIsIntent
  <2>3. RefuseUnpaid(e) \/ \E id \in Calls, i \in Intents : Guard(e, id, i)
    BY <1>2, <2>2 DEF HttpExecutes
  <2> QED BY <2>3 DEF HandoffNext, ExecuteStep
<1>3. CASE UNCHANGED shellVars
  BY <1>3 DEF shellVars
<1> QED BY <1>1, <1>2, <1>3, PageStepIsServerStep, OkxStepIsServerStep, ServeStepIsServerStep
        DEF ShellNext

---------------------------------------------------------------------------
(* The page's variables.                                                   *)

\* An answer is given once: a call that was answered stays answered so.
LEMMA AnswersStay ==
  ASSUME HandoffTypeOK, [HandoffNext]_handoffVars, NEW c \in Calls, answer[c] = 200
  PROVE  answer'[c] = 200
<1>1. CASE \E d \in Calls : AnswerSettled(d) \/ AnswerFailed(d)
  BY <1>1 DEF AnswerSettled, AnswerFailed, Running, Answer, HandoffTypeOK
<1>2. CASE ExecuteStep
  <2>1. PICK e \in Presentations :
          UNCHANGED answer \/ \E status \in {200, 400, 402} : Answer(e, status)
    BY <1>2 DEF ExecuteStep, RefuseUnpaid, Guard, RefusePresented, RejectBody, RecheckFails,
                Mint, DropExecute, TellCredential, TellSettlement
  <2>2. e # c
    BY ServerAssumption
  <2> QED BY <2>1, <2>2 DEF Answer, HandoffTypeOK
<1>3. CASE UNCHANGED answer
  BY <1>3
<1> QED BY <1>1, <1>2, <1>3
        DEF HandoffNext, serverVars, handoffVars, AgentAnnounce, RestartServer

\* The invariant of the page at the start.
LEMMA PageInit == SurfaceInit => PageInv
  BY SurfaceAssumption DEF SurfaceInit, PageInv, PendingArePages, SurfaceTypeOK, Page, Buttons

\* The parts of the invariant that only an answer to the page touches.
LEMMA QuietStep ==
  ASSUME PageInv, HandoffTypeOK, [HandoffNext]_handoffVars,
         page' = page, pending' \subseteq pending,
         minted' \subseteq MockIntents,
         sent' \in [Presentations -> Sent \union {Nothing}]
  PROVE  PageInv'
<1>1. page.receipt \in Calls \union {Nothing}
  BY DEF PageInv, SurfaceTypeOK, Page
<1>2. page'.receipt # Nothing => answer'[page'.receipt] = 200
  BY <1>1, AnswersStay DEF PageInv, SurfaceTypeOK
<1> QED BY <1>2 DEF PageInv, PendingArePages, SurfaceTypeOK

\* A click leaves the page as it is, and awaits a request of the page.
LEMMA ClickPreserves ==
  ASSUME PageInv, HandoffTypeOK, [HandoffNext]_handoffVars,
         page' = page, UNCHANGED minted \/ \E i \in MockIntents : minted' = minted \union {i},
         sent' \in [Presentations -> Sent \union {Nothing}],
         NEW button \in Buttons, NEW x \in Requests \union Intents,
         button # "announce" => x \in PageRequests /\ page.intent # Nothing,
         Await(button, x)
  PROVE  PageInv'
<1>1. page.receipt \in Calls \union {Nothing}
  BY DEF PageInv, SurfaceTypeOK, Page
<1>2. page'.receipt # Nothing => answer'[page'.receipt] = 200
  BY <1>1, AnswersStay DEF PageInv, SurfaceTypeOK
<1>3. [button |-> button, of |-> x] \in Click
  BY DEF Click
<1>4. pending' \subseteq Click /\ PendingArePages'
  BY <1>3 DEF Await, PageInv, PendingArePages, SurfaceTypeOK
<1>5. minted' \subseteq MockIntents
  BY DEF PageInv, SurfaceTypeOK
<1> QED BY <1>2, <1>4, <1>5 DEF PageInv, SurfaceTypeOK

\* What a surface sends to /execute.
LEMMA SentTyped ==
  ASSUME PageInv, NEW e \in Presentations, NEW i \in Intents, NEW r \in Calls \union {Nothing},
         NEW b \in Intents \union {Nothing}, NEW fits \in BOOLEAN,
         RequestExecution(e, i, r, b, fits)
  PROVE  sent' \in [Presentations -> Sent \union {Nothing}]
<1>1. [intent |-> i, receipt |-> r, body |-> b, fits |-> fits] \in Sent
  BY DEF Sent
<1> QED BY <1>1 DEF RequestExecution, PageInv, SurfaceTypeOK

\* Clicks.
LEMMA ClicksPreserve ==
  ASSUME PageInv, HandoffTypeOK, PageClicks, [HandoffNext]_handoffVars PROVE PageInv'
<1>0. /\ sent \in [Presentations -> Sent \union {Nothing}]
      /\ page.receipt \in Calls \union {Nothing}
      /\ page.enabled # {"announce"} => page.intent \in Intents
  BY DEF PageInv, SurfaceTypeOK, Page
<1>1. ASSUME NEW i \in MockIntents, ClickAnnounce(i) PROVE PageInv'
  <2>1. /\ page' = page /\ minted' = minted \union {i}
        /\ sent' \in [Presentations -> Sent \union {Nothing}]
        /\ Await("announce", i)
    BY <1>0, <1>1 DEF ClickAnnounce
  <2>2. "announce" \in Buttons /\ i \in Requests \union Intents
    BY SurfaceAssumption DEF Buttons
  <2> QED BY <2>1, <2>2, ClickPreserves
<1>2. ASSUME NEW c \in Calls, ClickSettle(c) PROVE PageInv'
  <2>1. /\ page' = page /\ minted' = minted
        /\ sent' \in [Presentations -> Sent \union {Nothing}]
        /\ Await("settle", c) /\ c \in PageRequests /\ page.intent # Nothing
    BY <1>0, <1>2, GateAssumption DEF ClickSettle, RequestSettlement
  <2>2. "settle" \in Buttons /\ c \in Requests \union Intents
    BY DEF Buttons, Requests
  <2> QED BY <2>1, <2>2, ClickPreserves
<1>3. ASSUME NEW e \in Presentations, ClickExecute(e) \/ ClickRetry(e) PROVE PageInv'
  <2>1. page.intent \in Intents
    BY <1>0, <1>3 DEF ClickExecute, ClickRetry
  <2>2. sent' \in [Presentations -> Sent \union {Nothing}]
    BY <1>0, <1>3, <2>1, SentTyped DEF ClickExecute, ClickRetry
  <2>3. /\ page' = page /\ minted' = minted /\ e \in PageRequests
        /\ page.intent # Nothing
        /\ Await("execute", e) \/ Await("retry", e)
    BY <1>3, <2>1, GateAssumption DEF ClickExecute, ClickRetry
  <2>4. {"execute", "retry"} \subseteq Buttons /\ e \in Requests \union Intents
    BY DEF Buttons, Requests
  <2> QED BY <2>2, <2>3, <2>4, ClickPreserves
<1> QED BY <1>1, <1>2, <1>3 DEF PageClicks

\* Answers.
LEMMA ResumesPreserve ==
  ASSUME PageInv, HandoffTypeOK, PageResumes, [HandoffNext]_handoffVars PROVE PageInv'
<1>0. page \in Page /\ Page = [intent : Intents \union {Nothing},
                               receipt : Calls \union {Nothing}, enabled : SUBSET Buttons]
  BY DEF PageInv, SurfaceTypeOK, Page
<1>1. ASSUME NEW i \in MockIntents, AnnounceAnswered(i) PROVE PageInv'
  <2>1. page' = [page EXCEPT !.intent = i, !.enabled = page.enabled \union {"execute"}]
    BY <1>1 DEF AnnounceAnswered
  <2>2. i \in Intents /\ i # Nothing /\ "execute" \in Buttons
    BY SurfaceAssumption, GateAssumption DEF Buttons
  <2>3. page' \in Page /\ page'.intent = i /\ page'.receipt = page.receipt
    BY <1>0, <2>1, <2>2
  <2>4. UNCHANGED <<answer, sent, minted>> /\ pending' \subseteq pending
    BY <1>1 DEF AnnounceAnswered, Resume, handoffVars, serverVars
  <2> QED BY <2>2, <2>3, <2>4 DEF PageInv, PendingArePages, SurfaceTypeOK
<1>2. ASSUME NEW c \in Calls, SettleAnswered(c) PROVE PageInv'
  <2>1. page' = [page EXCEPT !.receipt = ReceiptAnswered(c),
                             !.enabled = page.enabled \union {"retry"}]
    BY <1>2 DEF SettleAnswered
  <2>2. c \in PageRequests
    BY <1>2 DEF SettleAnswered, Awaited, PageInv, PendingArePages
  <2>3. ReceiptAnswered(c) = Nothing \/ (ReceiptAnswered(c) = c /\ answer[c] = 200)
    BY DEF ReceiptAnswered
  <2>4. "retry" \in Buttons
    BY DEF Buttons
  <2>5. page' \in Page /\ page'.receipt = ReceiptAnswered(c) /\ page'.intent = page.intent
    <3>1. PICK r \in Calls \union {Nothing} : r = ReceiptAnswered(c)
      BY <2>3
    <3>2. page' = [page EXCEPT !.receipt = r, !.enabled = page.enabled \union {"retry"}]
      BY <2>1, <3>1
    <3>3. page' \in Page /\ page'.receipt = r /\ page'.intent = page.intent
      BY <1>0, <2>4, <3>2
    <3> QED BY <3>1, <3>3
  <2>6. UNCHANGED <<answer, sent, minted>> /\ pending' \subseteq pending
    BY <1>2 DEF SettleAnswered, Resume, handoffVars, serverVars
  <2>7. page.intent # Nothing
    BY <1>2 DEF SettleAnswered, Awaited, PageInv, PendingArePages
  <2> QED BY <2>2, <2>3, <2>5, <2>6, <2>7 DEF PageInv, PendingArePages, SurfaceTypeOK
<1>3. ASSUME NEW e \in Presentations, ExecuteAnswered(e) PROVE PageInv'
  <2>1. page' = [page EXCEPT !.enabled = IF answer[e] = 402 THEN page.enabled \union {"settle"}
                                         ELSE page.enabled]
    BY <1>3 DEF ExecuteAnswered
  <2>2. "settle" \in Buttons
    BY DEF Buttons
  <2>3. page' \in Page /\ page'.receipt = page.receipt /\ page'.intent = page.intent
    BY <1>0, <2>1, <2>2
  <2>4. UNCHANGED <<answer, sent, minted>> /\ pending' \subseteq pending
    BY <1>3 DEF ExecuteAnswered, Resume, handoffVars, serverVars
  <2>5. page.intent # Nothing
    BY <1>3 DEF ExecuteAnswered, Awaited, PageInv, PendingArePages
  <2> QED BY <2>3, <2>4, <2>5 DEF PageInv, PendingArePages, SurfaceTypeOK
<1>4. ASSUME NEW e \in Presentations, RetryAnswered(e) PROVE PageInv'
  <2>1. UNCHANGED <<page, sent, minted>> /\ pending' \subseteq pending
    BY <1>4 DEF RetryAnswered, Resume
  <2> QED BY <2>1, QuietStep DEF PageInv, SurfaceTypeOK
<1> QED BY <1>1, <1>2, <1>3, <1>4 DEF PageResumes

\* The bridge and everybody else.
LEMMA OthersPreserve ==
  ASSUME PageInv, HandoffTypeOK, [HandoffNext]_handoffVars,
         \/ Okx
         \/ \E c \in Calls, i \in Intents, p \in Payments \union {Nothing} : HttpSettles(c, i, p)
         \/ \E e \in Presentations : HttpExecutes(e)
         \/ \E c \in Calls : ServeSettle(c)
         \/ \E e \in Presentations : ServeExecution(e)
         \/ Elsewhere
         \/ UNCHANGED shellVars
  PROVE  PageInv'
<1>1. CASE Okx
  <2>1. sent' \in [Presentations -> Sent \union {Nothing}]
    <3>1. ASSUME NEW e \in Presentations, NEW i \in Intents, NEW r \in Calls \union {Nothing},
                 NEW b \in Intents \union {Nothing}, NEW fits \in BOOLEAN,
                 OkxMints(e, i, r, b, fits)
          PROVE  sent' \in [Presentations -> Sent \union {Nothing}]
      BY <3>1, SentTyped DEF OkxMints
    <3>2. CASE UNCHANGED sent
      BY <3>2 DEF PageInv, SurfaceTypeOK
    <3> QED BY <1>1, <3>1, <3>2
            DEF Okx, OkxAnnounces, OkxAnnouncesMock, OkxSettles, RequestSettlement
  <2>2. UNCHANGED <<page, pending>>
    BY <1>1 DEF Okx, OkxAnnounces, OkxAnnouncesMock, OkxSettles, OkxMints
  <2>3. minted' \subseteq MockIntents
    BY <1>1 DEF Okx, OkxAnnounces, OkxAnnouncesMock, OkxSettles, OkxMints, PageInv, SurfaceTypeOK
  <2> QED BY <2>1, <2>2, <2>3, QuietStep
<1>2. CASE ~Okx
  <2>1. UNCHANGED <<page, pending, sent, minted>>
    BY <1>2 DEF HttpSettles, HttpExecutes, ServeSettle, ServeExecution, Elsewhere,
                surfaceVars, shellVars
  <2> QED BY <2>1, QuietStep DEF PageInv, SurfaceTypeOK
<1> QED BY <1>1, <1>2

\* Every step of the shell.
LEMMA PageNext == PageInv /\ HandoffTypeOK /\ [ShellNext]_shellVars => PageInv'
<1> SUFFICES ASSUME PageInv, HandoffTypeOK, [ShellNext]_shellVars PROVE PageInv'
  OBVIOUS
<1>1. [HandoffNext]_handoffVars
  BY ShellStepIsServerStep DEF PageInv
<1> QED BY <1>1, ClicksPreserve, ResumesPreserve, OthersPreserve DEF ShellNext

---------------------------------------------------------------------------
(* What the surfaces send.                                                 *)

\* A request of a surface: it has no answer before it is sent; its body is an intent
\* with the id its header was made from, or none at all; past the guard it holds a
\* receipt for what its header said; and if it is refused, there is a line.
RequestOK(e) ==
  /\ stage[e] = "idle" => answer[e] = 0
  /\ stage[e] # "idle" => sent[e] \in Sent /\ sent[e].body \in {sent[e].intent, Nothing}
  /\ stage[e] = "guarded" => held[e].intent = HeaderText(sent[e].intent)
  /\ answer[e] = 402 /\ sent[e].intent \notin Garbled => Told("restriction", e)

RefusalInv == \A e \in Presentations \ HttpRequests : RequestOK(e)

LEMMA RefusalInit == SurfaceInit => RefusalInv
  BY DEF SurfaceInit, HandoffInit, RefusalInv, RequestOK

\* A post is in the feed it makes.
LEMMA PostedIsTold ==
  ASSUME HandoffTypeOK, NEW e, Post("restriction", e)
  PROVE  Told("restriction", e)'
<1>1. Len(feed) + 1 \in DOMAIN feed' /\ feed'[Len(feed) + 1] = [kind |-> "restriction", of |-> e]
  BY DEF HandoffTypeOK, Post
<1> QED BY <1>1 DEF Told

\* A step that is not about request e.
Leaves(e) ==
  /\ stage'[e] = stage[e] /\ answer'[e] = answer[e]
  /\ held'[e] = held[e] /\ sent'[e] = sent[e]
  /\ feed' = feed \/ \E l : feed' = Append(feed, l)

\* What was told stays told, so such a step keeps what is known of e.
LEMMA LeavesKeeps ==
  ASSUME HandoffTypeOK, NEW e \in Presentations, RequestOK(e), Leaves(e)
  PROVE  RequestOK(e)'
<1>1. ASSUME Told("restriction", e) PROVE Told("restriction", e)'
  BY <1>1 DEF HandoffTypeOK, Leaves, Told
<1> QED BY <1>1 DEF RequestOK, Leaves, HeaderText

\* Sending it: a refusal is told, and what passes the guard is bound to the header.
LEMMA SendingKeeps ==
  ASSUME GateTypeOK, HandoffTypeOK, SurfaceTypeOK,
         NEW e \in Presentations, RequestOK(e),
         NEW i \in Intents, NEW r \in Calls \union {Nothing}, NEW b \in {i, Nothing},
         NEW fits \in BOOLEAN, RequestExecution(e, i, r, b, fits)
  PROVE  RequestOK(e)'
<1> DEFINE s == [intent |-> i, receipt |-> r, body |-> b, fits |-> fits]
<1>1. sent'[e] = s /\ s \in Sent /\ s.body \in {s.intent, Nothing} /\ s.intent = i
  BY DEF RequestExecution, SurfaceTypeOK, Sent
<1>2. CASE RefuseUnpaid(e)
  <2>1. Told("restriction", e)'
    BY <1>2, PostedIsTold DEF RefuseUnpaid
  <2>2. stage'[e] = "done"
    BY <1>2 DEF RefuseUnpaid, Goto, HandoffTypeOK
  <2> QED BY <1>1, <2>1, <2>2 DEF RequestOK
<1>3. CASE Guard(e, r, HeaderText(i))
  <2>1. /\ stage[e] = "idle" /\ answer' = answer /\ answer[e] = 0
        /\ stage'[e] \in {"guarded", "refusing"}
        /\ stage'[e] = "guarded" => result'[e] = "redeemed"
    BY <1>3 DEF Guard, Goto, HandoffTypeOK, RequestOK
  <2>2. result'[e] = "redeemed" => held'[e].intent = HeaderText(i)
    BY <1>3 DEF Guard, Redeem, RedeemUnknown, RedeemKnown, BoundTo, GateTypeOK
  <2>3. HeaderText(s.intent)' = HeaderText(i)
    BY <1>1 DEF HeaderText
  <2> QED BY <1>1, <2>1, <2>2, <2>3 DEF RequestOK, HeaderText
<1> QED BY <1>2, <1>3 DEF RequestExecution

\* Serving it: the recheck compares the id the header was made from with what the
\* header said, and only a garbled id differs.
LEMMA ServingKeeps ==
  ASSUME GateTypeOK, HandoffTypeOK, NEW e \in Presentations, RequestOK(e), ServeExecution(e)
  PROVE  RequestOK(e)'
<1>1. sent' = sent /\ stage[e] # "idle" /\ sent[e] \in Sent /\ sent[e] # Nothing
  BY SentAssumption DEF ServeExecution, RefusePresented, RejectBody, RecheckFails, Mint,
     TellCredential, TellSettlement, RequestOK, surfaceVars
<1>2. stage'[e] # "idle" /\ stage'[e] # "guarded"
  <2>1. PICK t \in {"done", "minted", "packaged"} : Goto(e, t)
    BY DEF ServeExecution, RefusePresented, RejectBody, RecheckFails, Mint,
       TellCredential, TellSettlement
  <2>2. stage'[e] = t
    BY <2>1 DEF Goto, HandoffTypeOK
  <2> QED BY <2>2
<1>3. CASE RefusePresented(e)
  <2>1. Told("restriction", e)'
    BY <1>3, PostedIsTold DEF RefusePresented
  <2> QED BY <1>1, <1>2, <2>1 DEF RequestOK
<1>4. CASE \E body \in Intents : BodyMayBe(e, body) /\ RecheckFails(e, body)
  <2>1. PICK body \in Intents : BodyMayBe(e, body) /\ RecheckFails(e, body)
    BY <1>4
  <2>2. sent[e].body = body /\ body = sent[e].intent
    BY <1>1, <2>1, GateAssumption DEF BodyMayBe, RequestOK
  <2>3. sent[e].intent \in Garbled
    BY <2>1, <2>2 DEF RecheckFails, RequestOK, HeaderText
  <2> QED BY <1>1, <1>2, <2>3 DEF RequestOK
<1>5. CASE \/ RejectBody(e) \/ TellSettlement(e)
  <2>1. answer'[e] # 402
    BY <1>5 DEF RejectBody, TellSettlement, Answer, HandoffTypeOK
  <2> QED BY <1>1, <1>2, <2>1 DEF RequestOK
<1>6. CASE \/ \E body \in Intents : Mint(e, body)
           \/ TellCredential(e)
  <2>1. answer' = answer /\ (feed' = feed \/ \E l : feed' = Append(feed, l))
    BY <1>6 DEF Mint, TellCredential, Post
  <2>2. ASSUME Told("restriction", e) PROVE Told("restriction", e)'
    BY <2>1, <2>2 DEF HandoffTypeOK, Told
  <2> QED BY <1>1, <1>2, <2>1, <2>2 DEF RequestOK
<1> QED BY <1>3, <1>4, <1>5, <1>6 DEF ServeExecution

\* An execution of f is no business of e's.
LEMMA ExecutionLeaves ==
  ASSUME GateTypeOK, HandoffTypeOK, SurfaceTypeOK,
         NEW e \in Presentations, NEW f \in Presentations \ {e},
         \/ \E i, r, b, fits : RequestExecution(f, i, r, b, fits)
         \/ HttpExecutes(f)
         \/ ServeExecution(f)
         \/ DropExecute(f) /\ sent' = sent
  PROVE  Leaves(e)
<1>1. stage'[e] = stage[e]
  BY DEF RequestExecution, HttpExecutes, ServeExecution, DropExecute, RefuseUnpaid, Guard,
     RefusePresented, RejectBody, RecheckFails, Mint, TellCredential, TellSettlement,
     Goto, HandoffTypeOK
<1>2. answer'[e] = answer[e]
  BY DEF RequestExecution, HttpExecutes, ServeExecution, DropExecute, RefuseUnpaid, Guard,
     RefusePresented, RejectBody, RecheckFails, Mint, TellCredential, TellSettlement,
     Answer, HandoffTypeOK
<1>3. held'[e] = held[e]
  <2>1. CASE held' = held
    BY <2>1
  <2>2. CASE \E r, i : Redeem(f, r, i)
    BY <2>2 DEF Redeem, RedeemUnknown, RedeemKnown, GateTypeOK
  <2> QED BY <2>1, <2>2
          DEF RequestExecution, HttpExecutes, ServeExecution, DropExecute, RefuseUnpaid, Guard,
              RefusePresented, RejectBody, RecheckFails, Mint, TellCredential, TellSettlement,
              gateVars, redeemVars
<1>4. sent'[e] = sent[e]
  BY DEF RequestExecution, HttpExecutes, ServeExecution, surfaceVars, SurfaceTypeOK
<1>5. feed' = feed \/ \E l : feed' = Append(feed, l)
  BY DEF RequestExecution, HttpExecutes, ServeExecution, DropExecute, RefuseUnpaid, Guard,
     RefusePresented, RejectBody, RecheckFails, Mint, TellCredential, TellSettlement, Post
<1> QED BY <1>1, <1>2, <1>3, <1>4, <1>5 DEF Leaves

\* Nor are announcements, settle calls, answers to the page, and the world.
LEMMA ElseLeaves ==
  ASSUME GateTypeOK, HandoffTypeOK, NEW e \in Presentations,
         sent' = sent, stage' = stage, held' = held,
         \/ UNCHANGED <<feed, answer>>
         \/ \E i : AgentAnnounce(i)
         \/ \E c \in Calls : AnswerSettled(c) \/ AnswerFailed(c)
  PROVE  Leaves(e)
<1>1. answer'[e] = answer[e]
  <2>1. ASSUME NEW c \in Calls, NEW status, Answer(c, status) PROVE answer'[e] = answer[e]
    BY <2>1, ServerAssumption DEF Answer, HandoffTypeOK
  <2> QED BY <2>1 DEF AgentAnnounce, AnswerSettled, AnswerFailed
<1>2. feed' = feed \/ \E l : feed' = Append(feed, l)
  BY DEF AgentAnnounce, AnswerSettled, AnswerFailed, Post
<1> QED BY <1>1, <1>2 DEF Leaves

\* Some surface sends execution e; the page, for its intent, which is also the body, with
\* the receipt it has, or none.
Sending(e) == \E i \in Intents, r \in Calls \union {Nothing}, fits \in BOOLEAN :
  \E b \in {i, Nothing} :
  /\ RequestExecution(e, i, r, b, fits)
  /\ e \in PageRequests => r \in {Nothing, page.receipt} /\ i = page.intent /\ b = i

\* What a step of the shell may be to an execution from a surface: one case per action.
LEMMA ExecutionCases ==
  ASSUME GateTypeOK, HandoffTypeOK, SurfaceTypeOK, [ShellNext]_shellVars,
         NEW e \in Presentations \ HttpRequests
  PROVE  Sending(e) \/ ServeExecution(e) \/ Leaves(e)
<1>0. e \in Presentations
  OBVIOUS
<1>1. CASE \/ PageResumes \/ UNCHANGED shellVars
           \/ \E i \in MockIntents : ClickAnnounce(i)
           \/ \E i \in Intents : OkxAnnounces(i)
           \/ \E i \in MockIntents : OkxAnnouncesMock(i)
  <2>1. /\ sent' = sent /\ stage' = stage /\ held' = held
        /\ UNCHANGED <<feed, answer>> \/ \E i : AgentAnnounce(i)
    BY <1>1 DEF PageResumes, AnnounceAnswered, SettleAnswered, ExecuteAnswered, RetryAnswered,
       ClickAnnounce, OkxAnnounces, OkxAnnouncesMock, AgentAnnounce,
       shellVars, surfaceVars, handoffVars, serverVars, gateVars
  <2> QED BY <1>0, <2>1, ElseLeaves
<1>2. CASE \/ \E c \in Calls : ClickSettle(c)
           \/ \E c \in Calls, i \in Intents : OkxSettles(c, i)
           \/ \E c \in Calls, i \in Intents, p \in Payments \union {Nothing} : HttpSettles(c, i, p)
  <2>1. /\ sent' = sent /\ UNCHANGED serverVars /\ UNCHANGED redeemVars
    BY <1>2 DEF ClickSettle, OkxSettles, HttpSettles, RequestSettlement, Settle
  <2> QED BY <1>0, <2>1, ElseLeaves DEF serverVars, redeemVars
<1>3. CASE \E f \in Presentations : ClickExecute(f) \/ ClickRetry(f)
  <2>1. PICK f \in Presentations : ClickExecute(f) \/ ClickRetry(f)
    BY <1>3
  <2>2. page.intent \in Intents /\ page.receipt \in Calls \union {Nothing}
    BY <2>1 DEF ClickExecute, ClickRetry, SurfaceTypeOK, Page
  <2>3. PICK r \in {Nothing, page.receipt} :
          RequestExecution(f, page.intent, r, page.intent, TRUE)
    BY <2>1 DEF ClickExecute, ClickRetry
  <2>4. CASE f = e
    BY <2>2, <2>3, <2>4 DEF Sending
  <2>5. CASE f # e
    BY <2>3, <2>5, <1>0, ExecutionLeaves
  <2> QED BY <2>4, <2>5
<1>4. ASSUME NEW f \in Presentations, NEW i \in Intents, NEW r \in Calls \union {Nothing},
             NEW b, NEW fits \in BOOLEAN, OkxMints(f, i, r, b, fits)
      PROVE  Sending(e) \/ Leaves(e)
  <2>1. RequestExecution(f, i, r, b, fits) /\ b \in {i, Nothing} /\ f \notin PageRequests
    BY <1>4, SenderAssumption DEF OkxMints
  <2>2. CASE f = e
    BY <2>1, <2>2 DEF Sending
  <2>3. CASE f # e
    BY <2>1, <2>3, <1>0, ExecutionLeaves
  <2> QED BY <2>2, <2>3
<1>5. CASE \E f \in Presentations : HttpExecutes(f)
  BY <1>0, <1>5, ExecutionLeaves DEF HttpExecutes
<1>6. CASE \E c \in Calls : ServeSettle(c)
  <2>1. /\ sent' = sent /\ stage' = stage /\ held' = held
        /\ UNCHANGED <<feed, answer>> \/ \E c \in Calls : AnswerSettled(c) \/ AnswerFailed(c)
    BY <1>6 DEF ServeSettle, Record, AnswerSettled, AnswerFailed,
       surfaceVars, serverVars, gateVars, redeemVars
  <2> QED BY <1>0, <2>1, ElseLeaves
<1>7. CASE \E f \in Presentations : ServeExecution(f)
  BY <1>0, <1>7, ExecutionLeaves
<1>8. CASE Elsewhere
  <2>1. CASE \E f \in HttpRequests \intersect Presentations : DropExecute(f)
    <3>1. PICK f \in HttpRequests \intersect Presentations : DropExecute(f)
      BY <2>1
    <3>2. f \in Presentations \ {e} /\ sent' = sent
      BY <1>8, <3>1 DEF Elsewhere, surfaceVars
    <3> QED BY <1>0, <3>1, <3>2, ExecutionLeaves
  <2>2. CASE ~ \E f \in HttpRequests \intersect Presentations : DropExecute(f)
    <3>1. sent' = sent /\ UNCHANGED serverVars /\ UNCHANGED redeemVars
      BY <1>8, <2>2 DEF Elsewhere, surfaceVars, Facilitator, VerifyAccepts, Charge, Decline, Tick,
         SettleConfirmed, SettleFails, DropSettle
    <3> QED BY <1>0, <3>1, ElseLeaves DEF serverVars, redeemVars
  <2> QED BY <2>1, <2>2
<1> QED BY <1>1, <1>2, <1>3, <1>4, <1>5, <1>6, <1>7, <1>8
        DEF ShellNext, PageClicks, Okx

\* Whatever the step is, what is known of the request stays known.
LEMMA RefusalNext ==
  GateTypeOK /\ HandoffTypeOK /\ SurfaceTypeOK /\ RefusalInv /\ [ShellNext]_shellVars
    => RefusalInv'
<1> SUFFICES ASSUME GateTypeOK, HandoffTypeOK, SurfaceTypeOK, RefusalInv, [ShellNext]_shellVars,
                    NEW e \in Presentations \ HttpRequests
             PROVE  RequestOK(e)'
  BY DEF RefusalInv
<1>1. RequestOK(e)
  BY DEF RefusalInv
<1>2. CASE Sending(e)
  BY <1>1, <1>2, SendingKeeps DEF Sending
<1>3. CASE ServeExecution(e)
  BY <1>1, <1>3, ServingKeeps
<1>4. CASE Leaves(e)
  BY <1>1, <1>4, LeavesKeeps
<1> QED BY <1>2, <1>3, <1>4, ExecutionCases

---------------------------------------------------------------------------
(* Ids no header can carry.                                                *)

\* However a request gets to the guard, the id it is compared with was read from a header.
LEMMA RedeemsByHeader ==
  ASSUME [ShellNext]_shellVars
  PROVE  \/ UNCHANGED <<result, held>>
         \/ \E f \in Presentations : \E r, i : Redeem(f, r, HeaderText(i))
<1>1. ASSUME NEW f \in Presentations, NEW r, NEW i, Guard(f, r, HeaderText(i))
      PROVE  \E g \in Presentations : \E s, j : Redeem(g, s, HeaderText(j))
  BY <1>1 DEF Guard
<1>2. ASSUME NEW f \in Presentations, RefuseUnpaid(f)
      PROVE  UNCHANGED <<result, held>>
  BY <1>2 DEF RefuseUnpaid, gateVars, redeemVars
<1>3. ASSUME NEW f \in Presentations, NEW i, NEW r, NEW b, NEW fits,
             RequestExecution(f, i, r, b, fits)
      PROVE  \/ UNCHANGED <<result, held>>
             \/ \E g \in Presentations : \E s, j : Redeem(g, s, HeaderText(j))
  BY <1>1, <1>2, <1>3 DEF RequestExecution
<1>4. CASE PageClicks \/ PageResumes
  <2>1. CASE PageResumes \/ (\E i \in MockIntents : ClickAnnounce(i)) \/ \E c \in Calls : ClickSettle(c)
    BY <2>1 DEF PageResumes, AnnounceAnswered, SettleAnswered, ExecuteAnswered, RetryAnswered,
       ClickAnnounce, AgentAnnounce, ClickSettle, RequestSettlement, Settle,
       handoffVars, gateVars, redeemVars
  <2>2. CASE \E e \in Presentations : ClickExecute(e) \/ ClickRetry(e)
    BY <1>3, <2>2 DEF ClickExecute, ClickRetry
  <2> QED BY <1>4, <2>1, <2>2 DEF PageClicks
<1>5. CASE Okx
  <2>1. CASE \/ \E i \in Intents : OkxAnnounces(i)
             \/ \E i \in MockIntents : OkxAnnouncesMock(i)
             \/ \E c \in Calls, i \in Intents : OkxSettles(c, i)
    BY <2>1 DEF OkxAnnounces, OkxAnnouncesMock, AgentAnnounce, OkxSettles, RequestSettlement,
       Settle, gateVars, redeemVars
  <2>2. CASE \E e \in Presentations, i \in Intents, r \in Calls \union {Nothing},
               b \in Intents \union {Nothing}, fits \in BOOLEAN : OkxMints(e, i, r, b, fits)
    BY <1>3, <2>2 DEF OkxMints
  <2> QED BY <1>5, <2>1, <2>2 DEF Okx
<1>6. CASE \E e \in Presentations : HttpExecutes(e)
  BY <1>1, <1>2, <1>6 DEF HttpExecutes
<1>7. CASE \/ \E c \in Calls, i \in Intents, p \in Payments \union {Nothing} : HttpSettles(c, i, p)
           \/ \E c \in Calls : ServeSettle(c)
           \/ UNCHANGED shellVars
  BY <1>7 DEF HttpSettles, Settle, ServeSettle, Record, AnswerSettled, AnswerFailed,
     shellVars, handoffVars, gateVars, redeemVars
<1>8. CASE \E e \in Presentations : ServeExecution(e)
  BY <1>8 DEF ServeExecution, RefusePresented, RejectBody, RecheckFails, Mint, TellCredential,
     TellSettlement, gateVars, redeemVars
<1>9. CASE Elsewhere
  BY <1>9 DEF Elsewhere, Facilitator, VerifyAccepts, Charge, Decline, Tick, SettleConfirmed,
     SettleFails, DropSettle, DropExecute, gateVars, redeemVars
<1> QED BY <1>4, <1>5, <1>6, <1>7, <1>8, <1>9 DEF ShellNext

\* Such a receipt is bound to an id no header has, so whoever presents it burns it.
LEMMA UnreadableNext ==
  ASSUME GateTypeOK, UnreadableIdsAreNeverServed, [ShellNext]_shellVars
  PROVE  UnreadableIdsAreNeverServed'
<1>1. CASE UNCHANGED <<result, held>>
  BY <1>1 DEF UnreadableIdsAreNeverServed
<1>2. ASSUME NEW f \in Presentations, NEW r, NEW i, Redeem(f, r, HeaderText(i))
      PROVE  UnreadableIdsAreNeverServed'
  <2>1. HeaderText(i) \notin Garbled
    BY SurfaceAssumption DEF HeaderText
  <2>2. ASSUME NEW e \in Presentations, held'[e] # Nothing, held'[e].intent \in Garbled
        PROVE  result'[e] = "mismatch"
    <3>1. CASE e = f
      <4>1. result[f] = "none" /\ held[f] = held[f]
        BY <1>2 DEF Redeem, RedeemUnknown, RedeemKnown
      <4>2. CASE RedeemUnknown(f, r, HeaderText(i))
        BY <2>2, <3>1, <4>1, <4>2 DEF RedeemUnknown, UnreadableIdsAreNeverServed
      <4>3. CASE RedeemKnown(f, r, HeaderText(i))
        BY <2>1, <2>2, <3>1, <4>3 DEF RedeemKnown, BoundTo, GateTypeOK
      <4> QED BY <1>2, <4>2, <4>3 DEF Redeem
    <3>2. CASE e # f
      <4>1. held'[e] = held[e] /\ result'[e] = result[e]
        BY <1>2, <3>2 DEF Redeem, RedeemUnknown, RedeemKnown, GateTypeOK
      <4> QED BY <2>2, <4>1 DEF UnreadableIdsAreNeverServed
    <3> QED BY <3>1, <3>2
  <2> QED BY <2>2 DEF UnreadableIdsAreNeverServed
<1> QED BY <1>1, <1>2, RedeemsByHeader

---------------------------------------------------------------------------
(* The live backend.                                                       *)

\* Without a payment a settle call fails at once, so an execution of the page never
\* has a receipt to present.
LiveInv == backend = "facilitator" =>
  /\ \A c \in Calls \ HttpRequests : pc[c] \in {"idle", "failed"}
  /\ \A e \in Presentations \intersect PageRequests :
       stage[e] \in {"idle", "done"} /\ answer[e] \in {0, 402}

LEMMA LiveInit == SurfaceInit => LiveInv
  BY SenderAssumption DEF SurfaceInit, HandoffInit, GateInit, LiveInv, Requests

\* The page holds no receipt under the live backend.
LEMMA PageHasNoReceipt ==
  ASSUME AuditInv, SurfaceTypeOK, LiveInv, backend = "facilitator"
  PROVE  page.receipt = Nothing
<1> SUFFICES ASSUME page.receipt # Nothing PROVE FALSE
  OBVIOUS
<1>1. /\ page.receipt \in Calls \ HttpRequests
      /\ answer[page.receipt] = 200
  BY SenderAssumption DEF SurfaceTypeOK, Page
<1>2. pc[page.receipt] = "receipted"
  BY <1>1 DEF AuditInv, PaymentsTold
<1> QED BY <1>1, <1>2 DEF LiveInv

\* The backend is armed once.
LEMMA BackendStays == [GateNext]_gateVars => backend' = backend
  BY DEF GateNext, SettleStep, Facilitator, Redeem, RedeemUnknown, RedeemKnown, Tick, Restart,
     Settle, SettleConfirmed, SettleFails, DropSettle, Record, VerifyAccepts, Charge, Decline,
     gateVars

\* A call of a surface does not get past its first step.
LEMMA UnpaidFails ==
  ASSUME GateTypeOK, LiveInv, backend = "facilitator", [ShellNext]_shellVars,
         NEW c \in Calls \ HttpRequests
  PROVE  pc'[c] \in {"idle", "failed"}
<1>1. pc[c] \in {"idle", "failed"} /\ pc \in [Calls -> Pcs]
  BY DEF LiveInv, GateTypeOK
<1>2. ASSUME NEW d \in Calls, NEW i, RequestSettlement(d, i) PROVE pc'[c] \in {"idle", "failed"}
  BY <1>1, <1>2 DEF RequestSettlement, Settle, FirstAwait
<1>3. ASSUME NEW d \in Calls \intersect HttpRequests, NEW i, NEW p, Settle(d, i, p)
      PROVE  pc'[c] \in {"idle", "failed"}
  BY <1>1, <1>3 DEF Settle
<1>4. ASSUME NEW e, NEW i, NEW r, NEW b, NEW fits, RequestExecution(e, i, r, b, fits) PROVE pc' = pc
  BY <1>4 DEF RequestExecution, RefuseUnpaid, Guard, Redeem, RedeemUnknown, RedeemKnown,
     gateVars, callVars
<1>5. CASE PageClicks
  BY <1>1, <1>2, <1>4, <1>5
     DEF PageClicks, ClickAnnounce, ClickSettle, ClickExecute, ClickRetry, AgentAnnounce, gateVars
<1>6. CASE PageResumes
  BY <1>1, <1>6 DEF PageResumes, AnnounceAnswered, SettleAnswered, ExecuteAnswered,
     RetryAnswered, handoffVars, gateVars
<1>7. CASE Okx
  BY <1>1, <1>2, <1>4, <1>7
     DEF Okx, OkxAnnounces, OkxAnnouncesMock, OkxSettles, OkxMints, AgentAnnounce, gateVars
<1>8. CASE \E d \in Calls, i \in Intents, p \in Payments \union {Nothing} : HttpSettles(d, i, p)
  BY <1>3, <1>8 DEF HttpSettles
<1>9. CASE \/ \E e \in Presentations : HttpExecutes(e)
           \/ \E e \in Presentations : ServeExecution(e)
  BY <1>1, <1>9 DEF HttpExecutes, ServeExecution, RefuseUnpaid, Guard, Redeem, RedeemUnknown,
     RedeemKnown, RefusePresented, RejectBody, RecheckFails, Mint, TellCredential,
     TellSettlement, gateVars, callVars
<1>10. CASE \E d \in Calls : ServeSettle(d)
  BY <1>1, <1>10 DEF ServeSettle, Record, AnswerSettled, AnswerFailed, gateVars
<1>11. CASE Elsewhere
  BY <1>1, <1>11 DEF Elsewhere, Facilitator, VerifyAccepts, Charge, Decline, Tick,
     SettleConfirmed, SettleFails, DropSettle, DropExecute, gateVars, callVars
<1>12. CASE UNCHANGED shellVars
  BY <1>1, <1>12 DEF shellVars, handoffVars, gateVars
<1> QED BY <1>5, <1>6, <1>7, <1>8, <1>9, <1>10, <1>11, <1>12 DEF ShellNext

\* An execution of the page is refused at the door, for want of a receipt.
LEMMA PageIsRefused ==
  ASSUME GateTypeOK, AuditInv, SurfaceTypeOK, LiveInv, backend = "facilitator",
         [ShellNext]_shellVars, NEW e \in Presentations \intersect PageRequests
  PROVE  stage'[e] \in {"idle", "done"} /\ answer'[e] \in {0, 402}
<1>1. e \in Presentations \ HttpRequests /\ HandoffTypeOK
      /\ stage[e] \in {"idle", "done"} /\ answer[e] \in {0, 402}
  BY SenderAssumption DEF LiveInv, AuditInv
<1>2. CASE Sending(e)
  <2>1. RefuseUnpaid(e)
    BY <1>2, PageHasNoReceipt DEF Sending, RequestExecution
  <2> QED BY <1>1, <2>1 DEF RefuseUnpaid, Answer, Goto, HandoffTypeOK
<1>3. CASE ServeExecution(e)
  BY <1>1, <1>3 DEF ServeExecution, RefusePresented, RejectBody, RecheckFails, Mint,
     TellCredential, TellSettlement
<1>4. CASE Leaves(e)
  BY <1>1, <1>4 DEF Leaves
<1> QED BY <1>1, <1>2, <1>3, <1>4, ExecutionCases

LEMMA LiveNext ==
  GateTypeOK /\ AuditInv /\ SurfaceTypeOK /\ LiveInv /\ [ShellNext]_shellVars => LiveInv'
<1> SUFFICES ASSUME GateTypeOK, AuditInv, SurfaceTypeOK, LiveInv, [ShellNext]_shellVars,
                    backend' = "facilitator"
             PROVE  LiveInv'
  BY DEF LiveInv
<1>1. backend = "facilitator"
  BY ShellStepIsServerStep, ServerStepIsGateStep, BackendStays
<1> QED BY <1>1, UnpaidFails, PageIsRefused DEF LiveInv

---------------------------------------------------------------------------
(* The theorems.                                                           *)

\* None of the parts is inductive by itself: the page's type needs the answers of the
\* server, the server's invariants need the page's type, and what the live backend
\* refuses needs both.
ShellInv == GateInv /\ AuditInv /\ PageInv /\ RefusalInv /\ LiveInv

\* The invariant holds of every behaviour of the shell.
THEOREM ShellInvariant == ShellSpec => []ShellInv
<1>1. SurfaceInit => ShellInv
  BY PageInit, RefusalInit, LiveInit, AuditInit, InitEstablishes
     DEF ShellInv, SurfaceInit, HandoffInit
<1>2. ShellInv /\ [ShellNext]_shellVars => ShellInv'
  <2> SUFFICES ASSUME ShellInv, [ShellNext]_shellVars PROVE ShellInv'
    OBVIOUS
  <2>1. GateInv /\ AuditInv /\ PageInv /\ RefusalInv /\ LiveInv
        /\ GateTypeOK /\ HandoffTypeOK /\ SurfaceTypeOK
    BY DEF ShellInv, GateInv, AuditInv, PageInv
  <2>2. [HandoffNext]_handoffVars /\ [GateNext]_gateVars
    BY <2>1, ShellStepIsServerStep, ServerStepIsGateStep
  <2>3. GateInv' /\ AuditInv'
    BY <2>1, <2>2, NextPreserves, AuditNext
  <2>4. PageInv' /\ RefusalInv' /\ LiveInv'
    BY <2>1, PageNext, RefusalNext, LiveNext
  <2> QED BY <2>3, <2>4 DEF ShellInv
<1> QED BY <1>1, <1>2, PTL DEF ShellSpec

\* "The UI cannot reach the vault except through the payment guard, because there is no
\* second code path" (commands.rs:3-7), and neither can the marketplace
\* (okx_bridge.rs:4-7): the shell does nothing a client of the server could not do.
THEOREM NoSecondPath == ShellSpec => HandoffSpec
<1>1. SurfaceInit => HandoffInit
  BY DEF SurfaceInit
<1>2. ShellInv /\ [ShellNext]_shellVars => [HandoffNext]_handoffVars
  BY ShellStepIsServerStep DEF ShellInv, PageInv
<1> QED BY <1>1, <1>2, ShellInvariant, PTL DEF ShellSpec, HandoffSpec

\* So the page and the bridge can neither replay a receipt (X402Gate::redeem), nor
\* execute without a payment, nor leave a settlement unaccounted for in the feed.
THEOREM ShellIsGuarded == ShellSpec => [](SingleUse /\ RedemptionIsPaid /\ FeedIsAudit)
  BY NoSecondPath, ServerRunsTheGate, ReceiptsAreSingleUse, RedemptionsArePaid, FeedIsAnAudit, PTL

\* The page's variables keep their types, and its receipt is one it was answered.
THEOREM SurfaceTypeCorrect == ShellSpec => []SurfaceTypeOK
<1>1. ShellInv => SurfaceTypeOK
  BY DEF ShellInv, PageInv
<1> QED BY <1>1, ShellInvariant, PTL

\* A surface's refusal is in the feed: header and body name one intent, so the silent
\* recheck of execute (server.rs:173-184) never fires for it.
THEOREM SurfaceRefusalsTold == ShellSpec => []SurfaceRefusalsAreTold
<1>1. ShellInv => SurfaceRefusalsAreTold
  BY DEF ShellInv, RefusalInv, RequestOK, SurfaceRefusalsAreTold
<1> QED BY <1>1, ShellInvariant, PTL

\* A receipt for an id no header can carry is never redeemed, by anybody (payment_guard).
THEOREM UnreadableIdsServeNobody == ShellSpec => []UnreadableIdsAreNeverServed
<1>1. SurfaceInit => UnreadableIdsAreNeverServed
  BY DEF SurfaceInit, HandoffInit, GateInit, UnreadableIdsAreNeverServed
<1>2. ShellInv /\ UnreadableIdsAreNeverServed /\ [ShellNext]_shellVars
        => UnreadableIdsAreNeverServed'
  BY UnreadableNext DEF ShellInv, GateInv
<1> QED BY <1>1, <1>2, ShellInvariant, PTL DEF ShellSpec

\* Under the live backend no surface takes a receipt, as none passes a payment on.
THEOREM SurfacesCannotPay == ShellSpec => []LiveSurfacesCannotPay
<1>1. ShellInv => LiveSurfacesCannotPay
  <2> SUFFICES ASSUME ShellInv, backend = "facilitator"
               PROVE  /\ page.receipt = Nothing
                      /\ \A e \in Presentations \intersect PageRequests : answer[e] \in {0, 402}
                      /\ \A e \in Presentations \ HttpRequests :
                           held[e] # Nothing => held[e].id \in HttpRequests
    BY DEF LiveSurfacesCannotPay
  <2>1. page.receipt = Nothing
    BY PageHasNoReceipt DEF ShellInv, PageInv
  <2>2. \A e \in Presentations \intersect PageRequests : answer[e] \in {0, 402}
    BY DEF ShellInv, LiveInv
  <2>3. ASSUME NEW e \in Presentations, held[e] # Nothing PROVE held[e].id \in HttpRequests
    <3>1. held[e].id \in Calls /\ pc[held[e].id] = "receipted"
      BY <2>3 DEF ShellInv, GateInv, GateTypeOK, ReceiptsAreRecorded, Recorded, Receipt
    <3> QED BY <3>1 DEF ShellInv, LiveInv
  <2> QED BY <2>1, <2>2, <2>3
<1> QED BY <1>1, ShellInvariant, PTL

---------------------------------------------------------------------------
(* Why a retry of the page may be refused: for any number of clicks,       *)
(* settle calls and presentations, and whatever the others do meanwhile.   *)

\* What may have become of the receipt that request e presents.
HasCause(e) ==
  LET id == sent[e].receipt
  IN  \/ id = Nothing
      \/ frame[id].intent # sent[e].intent
      \/ \E f \in Presentations \ {e} : held[f] # Nothing /\ held[f].id = id
      \/ clock - frame[id].now >= StaleAfter

\* A request of the page: what it says in its header is what it says in its body, and
\* can be read; its receipt is one that was recorded; and if the gate refused it, or the
\* handler did, there was a cause, and there still is.
RetryOK(e) ==
  /\ stage[e] = "idle" => answer[e] = 0
  /\ stage[e] # "idle" =>
       /\ sent[e].body = sent[e].intent /\ sent[e].intent \in MockIntents
       /\ sent[e].receipt # Nothing => sent[e].receipt \in Calls /\ Recorded(sent[e].receipt)
  /\ stage[e] = "guarded" => held[e].intent = sent[e].intent
  /\ stage[e] = "refusing" \/ answer[e] \notin {0, 200} => HasCause(e)

\* The page only has intents the server made for it, and the process is in its first life.
RetryInv ==
  /\ boot = 0
  /\ page.intent \in MockIntents \union {Nothing}
  /\ \A e \in Presentations \intersect PageRequests : RetryOK(e)

LEMMA RetryInit == SurfaceInit => RetryInv
  BY DEF SurfaceInit, HandoffInit, GateInit, RetryInv, RetryOK

---------------------------------------------------------------------------
(* What stays as it is.                                                    *)

\* The shell does not restart: that would be the end of the page.
LEMMA BootStays == [ShellNext]_shellVars => boot' = boot
<1> SUFFICES ASSUME [ShellNext]_shellVars PROVE boot' = boot
  OBVIOUS
<1>1. ASSUME NEW e, NEW i, NEW r, NEW b, NEW fits, RequestExecution(e, i, r, b, fits) PROVE boot' = boot
  BY <1>1 DEF RequestExecution, RefuseUnpaid, Guard, Redeem, RedeemUnknown, RedeemKnown, gateVars
<1>2. CASE PageClicks
  BY <1>1, <1>2 DEF PageClicks, ClickAnnounce, ClickSettle, ClickExecute, ClickRetry,
     RequestSettlement, Settle, AgentAnnounce, gateVars
<1>3. CASE PageResumes
  BY <1>3 DEF PageResumes, AnnounceAnswered, SettleAnswered, ExecuteAnswered, RetryAnswered,
     handoffVars, gateVars
<1>4. CASE Okx
  BY <1>1, <1>4 DEF Okx, OkxAnnounces, OkxAnnouncesMock, OkxSettles, OkxMints,
     RequestSettlement, Settle, AgentAnnounce, gateVars
<1>5. CASE \/ \E c \in Calls, i \in Intents, p \in Payments \union {Nothing} : HttpSettles(c, i, p)
           \/ \E e \in Presentations : HttpExecutes(e)
  BY <1>5 DEF HttpSettles, Settle, HttpExecutes, RefuseUnpaid, Guard, Redeem, RedeemUnknown,
     RedeemKnown, gateVars
<1>6. CASE \/ \E c \in Calls : ServeSettle(c)
           \/ \E e \in Presentations : ServeExecution(e)
  BY <1>6 DEF ServeSettle, Record, AnswerSettled, AnswerFailed, ServeExecution, RefusePresented,
     RejectBody, RecheckFails, Mint, TellCredential, TellSettlement, gateVars
<1>7. CASE Elsewhere
  BY <1>7 DEF Elsewhere, Facilitator, VerifyAccepts, Charge, Decline, Tick, SettleConfirmed,
     SettleFails, DropSettle, DropExecute, gateVars
<1>8. CASE UNCHANGED shellVars
  BY <1>8 DEF shellVars, handoffVars, gateVars
<1> QED BY <1>2, <1>3, <1>4, <1>5, <1>6, <1>7, <1>8 DEF ShellNext

\* What a recorded call captured, who holds what, and the time that has passed.
LEMMA PastStays ==
  ASSUME GateInv, [GateNext]_gateVars
  PROVE  /\ clock \in Int /\ clock' \in Int /\ clock <= clock'
         /\ \A c \in Calls : Recorded(c) => Recorded(c)' /\ frame'[c] = frame[c]
         /\ \A f \in Presentations : held[f] # Nothing => held'[f] = held[f]
<1>1. GateInv'
  BY NextPreserves
<1>2. clock \in Int /\ clock' \in Int /\ clock <= clock'
  <2>1. clock \in Int /\ clock' \in Int
    BY <1>1, GateAssumption DEF GateInv, GateTypeOK
  <2>2. clock' = clock \/ clock' = clock + 1
    BY DEF GateNext, SettleStep, Facilitator, Redeem, RedeemUnknown, RedeemKnown, Tick, Restart,
       Settle, SettleConfirmed, SettleFails, DropSettle, Record, VerifyAccepts, Charge, Decline,
       gateVars
  <2> QED BY <2>1, <2>2
<1>3. ASSUME NEW c \in Calls, Recorded(c) PROVE Recorded(c)' /\ frame'[c] = frame[c]
  BY <1>3 DEF GateInv, GateTypeOK, Recorded, InFlight,
     GateNext, SettleStep, Facilitator, Redeem, RedeemUnknown, RedeemKnown, Tick, Restart,
     Settle, SettleConfirmed, SettleFails, DropSettle, Record, VerifyAccepts, Charge, Decline,
     gateVars, callVars
<1>4. ASSUME NEW f \in Presentations, held[f] # Nothing PROVE held'[f] = held[f]
  <2>1. result[f] # "none"
    BY <1>4 DEF GateInv, AnswersAgree
  <2>2. CASE \E p \in Presentations, id \in Calls, i \in Intents : Redeem(p, id, i)
    BY <2>1, <2>2 DEF Redeem, RedeemUnknown, RedeemKnown, GateInv, GateTypeOK
  <2>3. CASE held' = held
    BY <2>3
  <2> QED BY <2>2, <2>3
          DEF GateNext, SettleStep, Facilitator, Tick, Restart, Settle, SettleConfirmed,
              SettleFails, DropSettle, Record, VerifyAccepts, Charge, Decline, gateVars, redeemVars
<1> QED BY <1>2, <1>3, <1>4

\* So a cause, once there is one, does not go away.
LEMMA CauseStays ==
  ASSUME GateInv, [GateNext]_gateVars, NEW e \in Presentations, sent'[e] = sent[e],
         sent[e].receipt # Nothing => sent[e].receipt \in Calls /\ Recorded(sent[e].receipt),
         HasCause(e)
  PROVE  HasCause(e)'
<1> DEFINE id == sent[e].receipt
<1>1. CASE id = Nothing
  BY <1>1 DEF HasCause
<1>2. CASE id # Nothing
  <2>1. id \in Calls /\ frame'[id] = frame[id] /\ frame[id].now \in Int
    BY <1>2, PastStays DEF GateInv, GateTypeOK, Recorded, Frame
  <2>2. clock \in Int /\ clock' \in Int /\ clock <= clock' /\ StaleAfter \in Int
    BY PastStays, GateAssumption
  <2>3. \A f \in Presentations : held[f] # Nothing => held'[f] = held[f]
    BY PastStays
  <2>4. CASE clock - frame[id].now >= StaleAfter
    BY <2>1, <2>2, <2>4 DEF HasCause
  <2>5. CASE frame[id].intent # sent[e].intent
    BY <2>1, <2>5 DEF HasCause
  <2>6. CASE \E f \in Presentations \ {e} : held[f] # Nothing /\ held[f].id = id
    BY <2>3, <2>6 DEF HasCause
  <2> QED BY <1>2, <2>4, <2>5, <2>6 DEF HasCause
<1> QED BY <1>1, <1>2

---------------------------------------------------------------------------
(* The steps of a request.                                                 *)

\* Steps that are not about e.
LEMMA LeavesKeepsRetry ==
  ASSUME GateInv, [GateNext]_gateVars, NEW e \in Presentations, RetryOK(e), Leaves(e)
  PROVE  RetryOK(e)'
<1>1. /\ stage'[e] = stage[e] /\ answer'[e] = answer[e]
      /\ held'[e] = held[e] /\ sent'[e] = sent[e]
  BY DEF Leaves
<1>2. CASE stage[e] = "idle"
  BY <1>1, <1>2 DEF RetryOK
<1>3. CASE stage[e] # "idle"
  <2>1. sent[e].receipt # Nothing => sent[e].receipt \in Calls /\ Recorded(sent[e].receipt)
    BY <1>3 DEF RetryOK
  <2>2. (sent[e].receipt # Nothing => sent[e].receipt \in Calls /\ Recorded(sent[e].receipt))'
    BY <1>1, <2>1, PastStays DEF Recorded
  <2>3. HasCause(e) => HasCause(e)'
    BY <1>1, <2>1, CauseStays
  <2> QED BY <1>1, <1>3, <2>2, <2>3 DEF RetryOK
<1> QED BY <1>2, <1>3

\* The guard turns a request of the page away only for a cause: the sweep has kept every
\* fresh receipt that nobody presented.
LEMMA GuardHasCause ==
  ASSUME GateInv, boot = 0, NEW e \in Presentations, NEW c \in Calls, NEW i \in Intents,
         Recorded(c), Redeem(e, c, i),
         sent'[e].receipt = c, sent'[e].intent = i
  PROVE  /\ result'[e] = "redeemed" => held'[e].intent = i
         /\ result'[e] # "redeemed" => HasCause(e)'
<1>1. frame[c] \in Frame /\ frame' = frame /\ clock' = clock /\ held[e] = Nothing
  BY DEF GateInv, GateTypeOK, Recorded, AnswersAgree, Redeem, RedeemUnknown, RedeemKnown, callVars
<1>2. CASE RedeemUnknown(e, c, i)
  <2>1. result'[e] = "unknown" /\ held' = held
    BY <1>2 DEF RedeemUnknown, GateInv, GateTypeOK
  <2>2. NewReceipt(c) \notin treasury
    BY <1>2 DEF RedeemUnknown, NewReceipt
  <2>3. frame[c].boot = boot
    BY <1>1, GateAssumption DEF GateInv, FramesInPast, Recorded, Frame
  <2>4. Burned(c) \/ ~(clock - frame[c].now < StaleAfter)
    BY <2>2, <2>3 DEF GateInv, FreshReceiptRedeemable, Recorded
  <2>5. CASE Burned(c)
    <3>1. PICK f \in Presentations : held[f] # Nothing /\ held[f].id = c
      BY <2>5 DEF Burned
    <3>2. f # e
      BY <1>1, <3>1
    <3> QED BY <2>1, <3>1, <3>2 DEF HasCause
  <2>6. CASE ~(clock - frame[c].now < StaleAfter)
    <3>1. clock \in Int /\ frame[c].now \in Int /\ StaleAfter \in Int
      BY <1>1, GateAssumption DEF GateInv, GateTypeOK, Frame
    <3>2. clock - frame[c].now >= StaleAfter
      BY <2>6, <3>1
    <3> QED BY <1>1, <2>1, <3>2 DEF HasCause
  <2> QED BY <2>1, <2>4, <2>5, <2>6
<1>3. CASE RedeemKnown(e, c, i)
  <2>1. PICK r \in treasury : /\ r.id = c /\ held' = [held EXCEPT ![e] = r]
                              /\ result' = [result EXCEPT ![e] =
                                              IF BoundTo(r, i) THEN "redeemed" ELSE "mismatch"]
    BY <1>3 DEF RedeemKnown
  <2>2. held'[e] = r /\ (result'[e] = "redeemed" <=> BoundTo(r, i))
    BY <2>1 DEF GateInv, GateTypeOK
  <2>3. r.intent = frame[c].intent
    BY <2>1 DEF GateInv, ReceiptsAreRecorded, NewReceipt
  <2>4. CASE r.intent = i
    BY <2>2, <2>4 DEF BoundTo
  <2>5. CASE r.intent # i
    BY <1>1, <2>2, <2>3, <2>5 DEF BoundTo, HasCause
  <2> QED BY <2>4, <2>5
<1> QED BY <1>2, <1>3 DEF Redeem

\* Sending it.
LEMMA SendingKeepsRetry ==
  ASSUME GateInv, AuditInv, SurfaceTypeOK, RetryInv, NEW e \in Presentations \intersect PageRequests,
         Sending(e)
  PROVE  RetryOK(e)'
<1>1. PICK i \in Intents, r \in Calls \union {Nothing}, fits \in BOOLEAN :
        /\ RequestExecution(e, i, r, i, fits)
        /\ r \in {Nothing, page.receipt} /\ i = page.intent
  BY DEF Sending
<1>2. i \in MockIntents /\ HeaderText(i) = i
  BY <1>1, GateAssumption, SurfaceAssumption DEF RetryInv, HeaderText
<1>3. /\ sent'[e] = [intent |-> i, receipt |-> r, body |-> i, fits |-> fits]
      /\ sent'[e].intent = i /\ sent'[e].body = i /\ sent'[e].receipt = r
  BY <1>1 DEF RequestExecution, SurfaceTypeOK
<1>4. r # Nothing => r \in Calls /\ Recorded(r)
  BY <1>1 DEF SurfaceTypeOK, AuditInv, PaymentsTold, Recorded
<1>5. CASE RefuseUnpaid(e)
  <2>1. r = Nothing
    BY <1>1, <1>5 DEF RequestExecution, Guard, RefuseUnpaid, Goto, AuditInv, HandoffTypeOK
  <2>2. stage'[e] = "done" /\ HasCause(e)'
    BY <1>3, <1>5, <2>1 DEF RefuseUnpaid, Goto, AuditInv, HandoffTypeOK, HasCause
  <2> QED BY <1>2, <1>3, <2>1, <2>2 DEF RetryOK
<1>6. CASE r # Nothing /\ Guard(e, r, i)
  <2>1. /\ stage[e] = "idle" /\ answer'[e] = 0
        /\ stage'[e] = IF result'[e] = "redeemed" THEN "guarded" ELSE "refusing"
    BY <1>6 DEF Guard, Goto, AuditInv, HandoffTypeOK, RetryInv, RetryOK
  <2>2. /\ result'[e] = "redeemed" => held'[e].intent = i
        /\ result'[e] # "redeemed" => HasCause(e)'
    BY <1>3, <1>4, <1>6, GuardHasCause DEF Guard, RetryInv
  <2>3. Recorded(r)'
    BY <1>4, <1>6 DEF Guard, Redeem, RedeemUnknown, RedeemKnown, callVars, Recorded
  <2>4. (sent[e].receipt # Nothing => sent[e].receipt \in Calls /\ Recorded(sent[e].receipt))'
    BY <1>3, <1>4, <2>3 DEF Recorded
  <2> QED BY <1>2, <1>3, <2>1, <2>2, <2>4 DEF RetryOK
<1> QED BY <1>1, <1>2, <1>5, <1>6 DEF RequestExecution

\* Serving it: past the guard it gets its envelope, as its body is the intent the
\* receipt was redeemed for.
LEMMA ServingKeepsRetry ==
  ASSUME GateInv, AuditInv, [GateNext]_gateVars, NEW e \in Presentations, RetryOK(e),
         sent[e] # Nothing \/ stage[e] = "idle",
         ServeExecution(e)
  PROVE  RetryOK(e)'
<1>1. /\ stage[e] # "idle" /\ sent' = sent /\ sent[e] # Nothing
      /\ UNCHANGED gateVars
  BY DEF ServeExecution, RefusePresented, RejectBody, RecheckFails, Mint, TellCredential,
     TellSettlement, surfaceVars
<1>2. /\ sent[e].body = sent[e].intent /\ sent[e].intent \in MockIntents
      /\ sent[e].receipt # Nothing => sent[e].receipt \in Calls /\ Recorded(sent[e].receipt)
  BY <1>1 DEF RetryOK
<1>3. HasCause(e) => HasCause(e)'
  BY <1>1, <1>2, CauseStays
<1>4. (/\ sent[e].body = sent[e].intent /\ sent[e].intent \in MockIntents
       /\ sent[e].receipt # Nothing => sent[e].receipt \in Calls /\ Recorded(sent[e].receipt))'
  BY <1>1, <1>2 DEF gateVars, Recorded
<1>5. stage'[e] \in {"done", "minted", "packaged"}
  BY DEF ServeExecution, RefusePresented, RejectBody, RecheckFails, Mint, TellCredential,
     TellSettlement, Goto, AuditInv, HandoffTypeOK
<1>6. CASE RefusePresented(e)
  <2>1. HasCause(e)
    BY <1>6 DEF RefusePresented, RetryOK
  <2> QED BY <1>3, <1>4, <1>5, <2>1 DEF RetryOK
<1>7. CASE BodyMayBe(e, Nothing) /\ RejectBody(e)
  <2>1. sent[e].body = Nothing
    BY <1>1, <1>7 DEF BodyMayBe
  <2> QED BY <1>2, <2>1, SurfaceAssumption, GateAssumption
<1>8. CASE \E body \in Intents : BodyMayBe(e, body) /\ RecheckFails(e, body)
  <2>1. PICK body \in Intents : BodyMayBe(e, body) /\ RecheckFails(e, body)
    BY <1>8
  <2>2. sent[e].body = body
    BY <1>1, <2>1 DEF BodyMayBe
  <2> QED BY <1>2, <2>1, <2>2 DEF RecheckFails, RetryOK
<1>9. CASE (\E body \in Intents : Mint(e, body)) \/ TellCredential(e) \/ TellSettlement(e)
  <2>1. answer'[e] \in {answer[e], 200}
    BY <1>9 DEF Mint, TellCredential, TellSettlement, Answer, AuditInv, HandoffTypeOK
  <2> QED BY <1>3, <1>4, <1>5, <2>1 DEF RetryOK
<1> QED BY <1>6, <1>7, <1>8, <1>9 DEF ServeExecution

---------------------------------------------------------------------------
(* The page, and the theorem.                                              *)

\* The page takes an intent from the answer to its announcement, and nowhere else.
LEMMA PageIntentNext ==
  ASSUME SurfaceTypeOK, page.intent \in MockIntents \union {Nothing}, [ShellNext]_shellVars
  PROVE  page'.intent \in MockIntents \union {Nothing}
<1>0. page = [intent |-> page.intent, receipt |-> page.receipt, enabled |-> page.enabled]
  BY DEF SurfaceTypeOK, Page
<1>1. ASSUME NEW i \in MockIntents, AnnounceAnswered(i) PROVE page'.intent = i
  BY <1>0, <1>1 DEF AnnounceAnswered
<1>2. ASSUME NEW c \in Calls, SettleAnswered(c) PROVE page'.intent = page.intent
  BY <1>0, <1>2 DEF SettleAnswered
<1>3. ASSUME NEW e \in Presentations, ExecuteAnswered(e) \/ RetryAnswered(e)
      PROVE  page'.intent = page.intent
  BY <1>0, <1>3 DEF ExecuteAnswered, RetryAnswered
<1>4. CASE ~PageResumes
  <2>1. page' = page
    BY <1>4 DEF ShellNext, PageClicks, ClickAnnounce, ClickSettle, ClickExecute, ClickRetry,
       Okx, OkxAnnounces, OkxAnnouncesMock, OkxSettles, OkxMints, HttpSettles, HttpExecutes,
       ServeSettle, ServeExecution, Elsewhere, surfaceVars, shellVars
  <2> QED BY <2>1
<1> QED BY <1>1, <1>2, <1>3, <1>4 DEF PageResumes

LEMMA RetryNext == ShellInv /\ RetryInv /\ [ShellNext]_shellVars => RetryInv'
<1> SUFFICES ASSUME ShellInv, RetryInv, [ShellNext]_shellVars PROVE RetryInv'
  OBVIOUS
<1>1. GateInv /\ AuditInv /\ SurfaceTypeOK /\ GateTypeOK /\ HandoffTypeOK
  BY DEF ShellInv, GateInv, AuditInv, PageInv
<1>2. [GateNext]_gateVars
  BY <1>1, ShellStepIsServerStep, ServerStepIsGateStep
<1>3. boot' = 0 /\ page'.intent \in MockIntents \union {Nothing}
  BY <1>1, BootStays, PageIntentNext DEF RetryInv
<1>4. ASSUME NEW e \in Presentations \intersect PageRequests PROVE RetryOK(e)'
  <2>1. e \in Presentations \ HttpRequests /\ RetryOK(e)
    BY SenderAssumption DEF RetryInv
  <2>2. CASE Sending(e)
    BY <1>1, <2>2, SendingKeepsRetry
  <2>3. CASE ServeExecution(e)
    <3>1. sent[e] # Nothing \/ stage[e] = "idle"
      BY <2>1, SentAssumption DEF ShellInv, RefusalInv, RequestOK
    <3> QED BY <1>1, <1>2, <2>1, <2>3, <3>1, ServingKeepsRetry
  <2>4. CASE Leaves(e)
    BY <1>1, <1>2, <2>1, <2>4, LeavesKeepsRetry
  <2> QED BY <1>1, <2>1, <2>2, <2>3, <2>4, ExecutionCases
<1> QED BY <1>3, <1>4 DEF RetryInv

\* A retry of the page is refused only for a cause the page could name: its settlement had
\* failed, it was for an intent announced since, somebody had presented its receipt, or it
\* had gone stale (index.html:140-157).  What it rests on is that no sweep takes a fresh
\* receipt (FreshReceiptRedeemable), and that the page says one thing in header and body.
THEOREM RetriesRefusedForCause == ShellSpec => []RetryRefusedForCause
<1>1. SurfaceInit => RetryInv
  BY RetryInit
<1>2. ShellInv /\ RetryInv /\ [ShellNext]_shellVars => RetryInv'
  BY RetryNext
<1>3. RetryInv => RetryRefusedForCause
  BY DEF RetryInv, RetryOK, HasCause, RetryRefusedForCause
<1> QED BY <1>1, <1>2, <1>3, ShellInvariant, PTL DEF ShellSpec
=============================================================================
