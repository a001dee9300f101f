----------------------------- MODULE X402Gate -----------------------------
(***************************************************************************)
(* The x402 payment gate and its settlement backend                        *)
(* (src/desktop/hammurabi-handoff/src/{x402,settlement_backend}.rs, and    *)
(* the part of server.rs that calls them).                                 *)
(*                                                                         *)
(* POST /x402/settle runs as one task per call.  It reads the clock, THEN  *)
(* awaits the backend (nothing for the mock, two HTTP round trips for a    *)
(* live facilitator), THEN takes the write lock of the treasury, sweeps    *)
(* stale receipts by the clock it read at the start, and inserts.  Other   *)
(* tasks run at every one of these points, and a client that disconnects   *)
(* drops the task at an await.  Redemption is one step under the lock.     *)
(*                                                                         *)
(* A receipt's id is a fresh ULID: the model names it by the call that     *)
(* made it.  The fee is a constant and is left out of the receipt.         *)
(***************************************************************************)
EXTENDS Integers, FiniteSets

CONSTANTS
  Calls,          \* calls of POST /x402/settle; also the ids of the receipts they make
  Presentations,  \* requests that present a receipt to the guard of /execute
  Intents,        \* intent ids ("" is one: a missing x-intent-id header reads as it)
  Payments,       \* signed x402 payment payloads the clients hold
  Nothing,        \* Option::None: no payment, no receipt, no call...
  Backends,       \* the backends the composition root may arm
  StaleAfter,     \* RECEIPT_STALE_AFTER_SECS
  MaxTime,        \* bound: the clock stops here
  MaxBoots        \* bound: how many times the process is restarted

ASSUME GateAssumption ==
  /\ StaleAfter \in Nat \ {0}
  /\ MaxTime \in Nat
  /\ MaxBoots \in Nat
  /\ Backends \subseteq {"mock", "facilitator"}
  /\ Nothing \notin Calls \union Payments \union Intents

VARIABLES
  clock,      \* Utc::now().timestamp(), never stepped back
  boot,       \* how many times the process was restarted
  backend,    \* the SettlementBackend armed at startup
  pc,         \* where each settle call is
  frame,      \* what each settle call captured: intent, payment, now (and the boot)
  posted,     \* calls whose POST /settle the facilitator has yet to act on
  chargedBy,  \* for each payment, the call whose /settle moved its money
  treasury,   \* X402Gate.receipts: settled, unredeemed receipts
  result,     \* what redeem answered to each presentation
  asked,      \* the intent id each presentation claimed
  held        \* the receipt each presentation removed from the treasury

gateVars == <<clock, boot, backend, pc, frame, posted, chargedBy, treasury,
              result, asked, held>>
callVars == <<pc, frame>>
facilitatorVars == <<posted, chargedBy>>
redeemVars == <<result, asked, held>>

Receipt == [id : Calls, intent : Intents, cleared_at : 0..MaxTime]
Frame == [intent : Intents, payment : Payments \union {Nothing},
          now : 0..MaxTime, boot : 0..MaxBoots]
Pcs == {"idle", "verifying", "settling", "cleared", "receipted", "failed", "dropped"}
Results == {"none", "redeemed", "unknown", "mismatch"}

\* Option<PaymentReceipt>: None is no receipt.
ASSUME ReceiptAssumption == Nothing \notin Receipt

\* Type invariant; a HashMap holds one receipt per id.
GateTypeOK ==
  /\ clock \in 0..MaxTime /\ boot \in 0..MaxBoots /\ backend \in Backends
  /\ pc \in [Calls -> Pcs]
  /\ frame \in [Calls -> Frame \union {Nothing}]
  /\ \A c \in Calls : pc[c] # "idle" => frame[c] \in Frame
  /\ posted \subseteq Calls
  /\ chargedBy \in [Payments -> Calls \union {Nothing}]
  /\ treasury \subseteq Receipt
  /\ \A r, s \in treasury : r.id = s.id => r = s
  /\ result \in [Presentations -> Results]
  /\ asked \in [Presentations -> Intents \union {Nothing}]
  /\ held \in [Presentations -> Receipt \union {Nothing}]

GateInit ==
  /\ clock = 0 /\ boot = 0 /\ backend \in Backends
  /\ pc = [c \in Calls |-> "idle"]
  /\ frame = [c \in Calls |-> Nothing]
  /\ posted = {}
  /\ chargedBy = [p \in Payments |-> Nothing]
  /\ treasury = {}
  /\ result = [p \in Presentations |-> "none"]
  /\ asked = [p \in Presentations |-> Nothing]
  /\ held = [p \in Presentations |-> Nothing]

---------------------------------------------------------------------------
(* POST /x402/settle, up to the recorded receipt or the error.             *)

FirstAwaitUnpaid(p) == IF backend = "mock" \/ p = Nothing THEN "cleared" ELSE "verifying"
\* The mock has its receipt at once; the live backend insists on a payment.
FirstAwait(p) == IF backend = "mock" THEN "cleared"
                 ELSE IF p = Nothing THEN "failed" ELSE "verifying"

\* x402_settle reads the clock and enters the backend.  The mock drops the payment.
Settle(c, i, p) ==
  /\ pc[c] = "idle"
  /\ backend = "mock" => p = Nothing
  /\ frame' = [frame EXCEPT ![c] = [intent |-> i, payment |-> p,
                                    now |-> clock, boot |-> boot]]
  /\ pc' = [pc EXCEPT ![c] = FirstAwait(p)]
  /\ UNCHANGED <<clock, boot, backend, facilitatorVars, treasury, redeemVars>>

\* /verify answers isValid: true; settle_intent posts /settle.
VerifyAccepts(c) ==
  /\ pc[c] = "verifying"
  /\ chargedBy[frame[c].payment] = Nothing
  /\ pc' = [pc EXCEPT ![c] = "settling"]
  /\ posted' = posted \union {c}
  /\ UNCHANGED <<clock, boot, backend, frame, chargedBy, treasury, redeemVars>>

\* The facilitator takes the money.  A payment is a single-use authorisation.
Charge(c) ==
  /\ c \in posted
  /\ chargedBy[frame[c].payment] = Nothing
  /\ chargedBy' = [chargedBy EXCEPT ![frame[c].payment] = c]
  /\ posted' = posted \ {c}
  /\ UNCHANGED <<clock, boot, backend, callVars, treasury, redeemVars>>

\* The facilitator declines: the payment was used, expired, underfunded...
Decline(c) ==
  /\ c \in posted
  /\ posted' = posted \ {c}
  /\ UNCHANGED <<clock, boot, backend, callVars, chargedBy, treasury, redeemVars>>

ConfirmedUnchecked(c) == c \notin posted

\* The facilitator's answer to /settle says success.
Confirmed(c) == c \notin posted /\ chargedBy[frame[c].payment] = c

\* /settle answers success: true; the receipt exists, stamped with the old clock.
SettleConfirmed(c) ==
  /\ pc[c] = "settling"
  /\ Confirmed(c)
  /\ pc' = [pc EXCEPT ![c] = "cleared"]
  /\ UNCHANGED <<clock, boot, backend, frame, facilitatorVars, treasury, redeemVars>>

\* Any round trip may end in a rejection or a transport error; the latter
\* does not mean that the money did not move, or will not.
SettleFails(c) ==
  /\ pc[c] \in {"verifying", "settling"}
  /\ pc' = [pc EXCEPT ![c] = "failed"]
  /\ UNCHANGED <<clock, boot, backend, frame, facilitatorVars, treasury, redeemVars>>

\* The client disconnects: the server drops the task at its await.
DropSettle(c) ==
  /\ pc[c] \in {"verifying", "settling"}
  /\ pc' = [pc EXCEPT ![c] = "dropped"]
  /\ UNCHANGED <<clock, boot, backend, frame, facilitatorVars, treasury, redeemVars>>

StampDeadline(c) == [id |-> c, intent |-> frame[c].intent,
                     cleared_at |-> frame[c].now + StaleAfter]
NewReceipt(c) == [id |-> c, intent |-> frame[c].intent, cleared_at |-> frame[c].now]

EvictEarly(T, now) == {r \in T : now - r.cleared_at < StaleAfter - 1}
EvictStale(T, now) == {r \in T : now - r.cleared_at < StaleAfter}

\* Under the write lock: sweep by the clock the call captured, then insert.
Record(c) ==
  /\ pc[c] = "cleared"
  /\ treasury' = EvictStale(treasury, frame[c].now) \union {NewReceipt(c)}
  /\ pc' = [pc EXCEPT ![c] = "receipted"]
  /\ UNCHANGED <<clock, boot, backend, frame, facilitatorVars, redeemVars>>

---------------------------------------------------------------------------
(* Redemption, one step under the write lock.                              *)

PeekAt(T, r) == T
Without(T, r) == T \ {r}

AnyIntent(r, i) == TRUE
BoundTo(r, i) == r.intent = i

\* The id is not in the treasury: never issued, already presented, swept, or lost.
RedeemUnknown(p, id, i) ==
  /\ result[p] = "none"
  /\ \A r \in treasury : r.id # id
  /\ result' = [result EXCEPT ![p] = "unknown"]
  /\ asked' = [asked EXCEPT ![p] = i]
  /\ UNCHANGED <<clock, boot, backend, callVars, facilitatorVars, treasury, held>>

\* The receipt is removed first and compared second: a mismatch burns it.
RedeemKnown(p, id, i) ==
  /\ result[p] = "none"
  /\ \E r \in treasury :
       /\ r.id = id
       /\ treasury' = Without(treasury, r)
       /\ held' = [held EXCEPT ![p] = r]
       /\ result' = [result EXCEPT ![p] = IF BoundTo(r, i) THEN "redeemed" ELSE "mismatch"]
       /\ asked' = [asked EXCEPT ![p] = i]
  /\ UNCHANGED <<clock, boot, backend, callVars, facilitatorVars>>

Redeem(p, id, i) == RedeemUnknown(p, id, i) \/ RedeemKnown(p, id, i)

---------------------------------------------------------------------------
(* The environment of the gate.                                            *)

Tick ==
  /\ clock < MaxTime
  /\ clock' = clock + 1
  /\ UNCHANGED <<boot, backend, callVars, facilitatorVars, treasury, redeemVars>>

InFlight == {"verifying", "settling", "cleared"}

\* The process dies and starts again.  The treasury is memory: it is gone, and so
\* are the tasks.  What the facilitator was asked to do, it may still do.
Restart ==
  /\ boot < MaxBoots
  /\ boot' = boot + 1
  /\ pc' = [c \in Calls |-> IF pc[c] \in InFlight THEN "dropped" ELSE pc[c]]
  /\ treasury' = {}
  /\ UNCHANGED <<clock, backend, frame, facilitatorVars, redeemVars>>

Facilitator == \E c \in Calls : VerifyAccepts(c) \/ Charge(c) \/ Decline(c)

SettleStep ==
  \/ \E c \in Calls, i \in Intents, p \in Payments \union {Nothing} : Settle(c, i, p)
  \/ \E c \in Calls : SettleConfirmed(c) \/ SettleFails(c) \/ DropSettle(c) \/ Record(c)

GateNext ==
  \/ SettleStep
  \/ Facilitator
  \/ \E p \in Presentations, id \in Calls, i \in Intents : Redeem(p, id, i)
  \/ Tick
  \/ Restart

GateSpec == GateInit /\ [][GateNext]_gateVars

---------------------------------------------------------------------------
(* Safety.                                                                 *)

Burned(c) == \E p \in Presentations : held[p] # Nothing /\ held[p].id = c

\* "A receipt can never be replayed" (x402.rs:10-12, redeem): no two
\* presentations ever get hold of one receipt, and a receipt in somebody's hands
\* is no longer in the treasury, whatever settles, sweeps and restarts happen.
SingleUse ==
  /\ \A p, q \in Presentations :
       p # q /\ held[p] # Nothing /\ held[q] # Nothing => held[p].id # held[q].id
  /\ \A r \in treasury : ~Burned(r.id)

\* "Nor spent on a different intent", nor without money: a presentation that
\* passes the guard holds a receipt a settle call recorded for the intent it asked
\* for, and under the live backend it was that very call whose /settle moved the
\* money of its payment (so no two receipts come from one payment).
RedemptionIsPaid == \A p \in Presentations : result[p] = "redeemed" =>
  LET c == held[p].id
  IN  /\ pc[c] = "receipted"
      /\ frame[c].intent = asked[p]
      /\ backend = "facilitator" => chargedBy[frame[c].payment] = c

\* What evict_stale must not do (x402.rs:108-115): a receipt that this process
\* recorded, that nobody has presented and that is younger than StaleAfter by
\* the real clock is still there to redeem, although every sweep goes by a clock
\* its caller read before it awaited the backend and the lock.
FreshReceiptRedeemable == \A c \in Calls :
  /\ pc[c] = "receipted" /\ frame[c].boot = boot
  /\ ~Burned(c)
  /\ clock - frame[c].now < StaleAfter
  => NewReceipt(c) \in treasury

\* Where an answer of the facilitator is lost (settlement_backend.rs:280: the transport
\* fails, the client or the process goes) after the money moved, the charge buys no
\* receipt, and a retry with the same payment, even one that was past /verify by then,
\* does not redeem it: none of the calls over that payment ever has a receipt.
LostChargeBuysNothing == backend = "facilitator" => \A p \in Payments :
  /\ chargedBy[p] # Nothing
  /\ pc[chargedBy[p]] \in {"failed", "dropped"}
  => \A c \in Calls : frame[c] # Nothing /\ frame[c].payment = p =>
       /\ pc[c] \notin {"cleared", "receipted"}
       /\ \A r \in treasury : r.id # c

---------------------------------------------------------------------------
(* The gate implements the ledger.                                         *)

Account(c) == IF \E r \in treasury : r.id = c THEN "open"
              ELSE IF \E p \in Presentations : result[p] = "redeemed" /\ held[p].id = c
                   THEN "spent"
              ELSE IF pc[c] = "receipted" THEN "void"
              ELSE "unissued"

Ledger == INSTANCE ReceiptLedger WITH
  Receipts <- Calls, Uses <- Presentations, Nothing <- Nothing,
  account <- [c \in Calls |-> Account(c)],
  boughtFor <- [c \in Calls |-> IF pc[c] = "receipted" THEN frame[c].intent ELSE Nothing],
  spend <- [p \in Presentations |->
              IF result[p] = "redeemed"
              THEN [receipt |-> held[p].id, intent |-> asked[p]] ELSE Nothing]

\* The gate with its two backends, sweeps, crashes and lost calls is a ledger in
\* which a receipt goes from unissued to open, and from open to spent, once.
ImplementsLedger == Ledger!LedgerSpec

\* x402.rs:93-97 documents cleared_at as the second "at which the (mock) payment
\* cleared", and x402.rs:108-115 grants a receipt ten minutes from it: so a
\* receipt is not already stale when it is recorded.
NotBornStale == [][\A r \in treasury' \ treasury : clock - r.cleared_at < StaleAfter]_gateVars
===========================================================================
