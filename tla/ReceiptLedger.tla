-------------------------- MODULE ReceiptLedger --------------------------
(***************************************************************************)
(* What the x402 gate promises, without saying how: a receipt is bought    *)
(* for one intent, and it pays for at most one execution, of that intent.  *)
(* A receipt nobody spends may be voided at any moment (swept, burned by a *)
(* presentation for the wrong intent, lost in a crash), never un-voided.   *)
(* src/desktop/hammurabi-handoff/src/x402.rs:10-12 states this in prose.   *)
(***************************************************************************)
CONSTANTS Receipts, Uses, Intents, Nothing

VARIABLES account,    \* the life of each receipt
          boughtFor,  \* the intent each receipt was bought for
          spend       \* the receipt and the intent each use was granted

ledgerVars == <<account, boughtFor, spend>>

LedgerInit == /\ account = [r \in Receipts |-> "unissued"]
              /\ boughtFor = [r \in Receipts |-> Nothing]
              /\ spend = [u \in Uses |-> Nothing]

\* Any number of open receipts may be voided together.
Void(acc, V) == [r \in Receipts |-> IF r \in V THEN "void" ELSE acc[r]]

Open == {r \in Receipts : account[r] = "open"}

\* A receipt is sold; old open receipts may be swept at the same moment.
Issue == \E r \in Receipts, i \in Intents, V \in SUBSET Open :
  /\ account[r] = "unissued"
  /\ account' = [Void(account, V) EXCEPT ![r] = "open"]
  /\ boughtFor' = [boughtFor EXCEPT ![r] = i]
  /\ UNCHANGED spend

\* An open receipt is spent, by one use and for the intent it was bought for.
Spend == \E u \in Uses, r \in Open :
  /\ spend[u] = Nothing
  /\ account' = [account EXCEPT ![r] = "spent"]
  /\ spend' = [spend EXCEPT ![u] = [receipt |-> r, intent |-> boughtFor[r]]]
  /\ UNCHANGED boughtFor

Lose == \E V \in SUBSET Open : /\ account' = Void(account, V)
                               /\ UNCHANGED <<boughtFor, spend>>

LedgerNext == Issue \/ Spend \/ Lose

LedgerSpec == LedgerInit /\ [][LedgerNext]_ledgerVars
==========================================================================
