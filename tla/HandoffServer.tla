--------------------------- MODULE HandoffServer ---------------------------
(***************************************************************************)
(* The router of the Handoff (src/desktop/hammurabi-handoff/src/server.rs  *)
(* and payment_guard of x402.rs): the handlers that drive the gate, mint,  *)
(* and narrate what they do in the RAMesh feed.                            *)
(*                                                                         *)
(* A handler is a task: it may be preempted between any two of its steps,  *)
(* and dropped at an await.  Posting a line is one step here; MeshBus      *)
(* opens it up.  The feed is the lines of this process, in log order.      *)
(***************************************************************************)
EXTENDS X402Gate, Sequences

CONSTANT MaxAnnounced    \* bound: how many intents are announced in one process

ASSUME ServerAssumption == /\ MaxAnnounced \in Nat
                           /\ Calls \intersect Presentations = {}

VARIABLES
  feed,    \* the RAMesh log: who is told what
  stage,   \* where each POST /execute is
  answer   \* the status each settle call and each execution answered

serverVars == <<feed, stage, answer>>
handoffVars == <<gateVars, serverVars>>

Kinds == {"intent", "restriction", "payment", "credential", "settlement"}
Line == [kind : Kinds, of : Calls \union Presentations \union Intents]
Stages == {"idle", "refusing", "guarded", "minted", "packaged", "done", "dropped"}
Statuses == {0, 200, 400, 402, 502}      \* 0: no answer yet

\* Type invariant of the handlers.
HandoffTypeOK ==
  /\ feed \in Seq(Line)
  /\ stage \in [Presentations -> Stages]
  /\ answer \in [Calls \union Presentations -> Statuses]

HandoffInit ==
  /\ GateInit
  /\ feed = <<>>
  /\ stage = [e \in Presentations |-> "idle"]
  /\ answer = [x \in Calls \union Presentations |-> 0]

PostUnattributed(k, x) == feed' = Append(feed, [kind |-> k, of |-> Nothing])
Post(k, x) == feed' = Append(feed, [kind |-> k, of |-> x])
Answer(x, status) == answer' = [answer EXCEPT ![x] = status]
Goto(e, s) == stage' = [stage EXCEPT ![e] = s]
Told(k, x) == \E n \in DOMAIN feed : feed[n] = [kind |-> k, of |-> x]

---------------------------------------------------------------------------
(* POST /agent/announce and POST /x402/settle.                             *)

\* Any agent may announce any intent, at no charge.
AgentAnnounce(i) ==
  /\ Cardinality({n \in DOMAIN feed : feed[n].kind = "intent"}) < MaxAnnounced
  /\ Post("intent", i)
  /\ UNCHANGED <<gateVars, stage, answer>>

\* The task of call c is still running in this process.
Running(c) == frame[c].boot = boot /\ answer[c] = 0

\* The receipt is in the treasury; the handler tells the feed, then the client.
AnswerSettled(c) ==
  /\ pc[c] = "receipted" /\ Running(c)
  /\ Post("payment", c)
  /\ Answer(c, 200)
  /\ UNCHANGED <<gateVars, stage>>

\* Any SettlementError becomes a restriction line and a 502.
AnswerFailed(c) ==
  /\ pc[c] = "failed" /\ Running(c)
  /\ Post("restriction", c)
  /\ Answer(c, 502)
  /\ UNCHANGED <<gateVars, stage>>

---------------------------------------------------------------------------
(* POST /execute: payment_guard, then the execute handler.                 *)

\* No x-402-receipt header (or an unreadable one).
RefuseUnpaid(e) ==
  /\ stage[e] = "idle"
  /\ Post("restriction", e)
  /\ Answer(e, 402)
  /\ Goto(e, "done")
  /\ UNCHANGED gateVars

\* A client knows the id of a receipt from the answer that carried it, or from the
\* feed.  Any other id it presents is one the gate has not made.
Presentable(id) == answer[id] = 200 \/ pc[id] # "receipted"

Guard(e, id, i) ==
  /\ stage[e] = "idle"
  /\ Presentable(id)
  /\ Redeem(e, id, i)
  /\ Goto(e, IF result'[e] = "redeemed" THEN "guarded" ELSE "refusing")
  /\ UNCHANGED <<feed, answer>>

\* An unknown, replayed or mismatched receipt: a restriction line and a 402.
RefusePresented(e) ==
  /\ stage[e] = "refusing"
  /\ Post("restriction", e)
  /\ Answer(e, 402)
  /\ Goto(e, "done")
  /\ UNCHANGED gateVars

\* The body is awaited after the receipt was burned.  It may turn out unreadable
\* (no JSON, too large, not an intent): axum rejects it before the handler runs.
RejectBody(e) ==
  /\ stage[e] = "guarded"
  /\ Answer(e, 400)
  /\ Goto(e, "done")
  /\ UNCHANGED <<gateVars, feed>>

\* Or it names another intent than the receipt: a 402 that no line tells of.
RecheckFails(e, body) ==
  /\ stage[e] = "guarded"
  /\ body # held[e].intent
  /\ Answer(e, 402)
  /\ Goto(e, "done")
  /\ UNCHANGED <<gateVars, feed>>

\* Or the client goes away while the body is awaited.
DropExecute(e) ==
  /\ stage[e] = "guarded"
  /\ Goto(e, "dropped")
  /\ UNCHANGED <<gateVars, feed, answer>>

\* vault::mint.  The payload is an AgentIntent serialized again: it has no float
\* and no stray field, so the mint never refuses it (see Vault).
Mint(e, body) ==
  /\ stage[e] = "guarded"
  /\ body = held[e].intent
  /\ Goto(e, "minted")
  /\ UNCHANGED <<gateVars, feed, answer>>

TellCredential(e) ==
  /\ stage[e] = "minted"
  /\ Post("credential", e)
  /\ Goto(e, "packaged")
  /\ UNCHANGED <<gateVars, answer>>

\* The envelope is staged and answered.
TellSettlement(e) ==
  /\ stage[e] = "packaged"
  /\ Post("settlement", e)
  /\ Answer(e, 200)
  /\ Goto(e, "done")
  /\ UNCHANGED gateVars

---------------------------------------------------------------------------

\* The feed is memory too: it starts over, and every task is gone.
RestartServer ==
  /\ Restart
  /\ feed' = <<>>
  /\ stage' = [e \in Presentations |->
                 IF stage[e] \in {"idle", "done"} THEN stage[e] ELSE "dropped"]
  /\ UNCHANGED answer

ExecuteStep == \E e \in Presentations :
  \/ RefuseUnpaid(e)
  \/ \E id \in Calls, i \in Intents : Guard(e, id, i)
  \/ RefusePresented(e)
  \/ RejectBody(e)
  \/ \E body \in Intents : RecheckFails(e, body) \/ Mint(e, body)
  \/ DropExecute(e)
  \/ TellCredential(e)
  \/ TellSettlement(e)

HandoffNext ==
  \/ (SettleStep \/ Facilitator \/ Tick) /\ UNCHANGED serverVars
  \/ \E c \in Calls : AnswerSettled(c) \/ AnswerFailed(c)
  \/ \E i \in Intents : AgentAnnounce(i)
  \/ ExecuteStep
  \/ RestartServer

HandoffSpec == HandoffInit /\ [][HandoffNext]_handoffVars

---------------------------------------------------------------------------
(* "Legible Autonomy": the feed accounts for what the Handoff did.         *)

\* Reading the feed of this process alone, an operator can match every settlement
\* with an earlier credential line, and every credential with the earlier payment
\* line of a receipt of its own, although the receipt is in the treasury before
\* its payment line is posted (server.rs:135-149, 206-221).
FeedIsAudit ==
  /\ \A n \in DOMAIN feed : feed[n].kind = "settlement" =>
       \E m \in 1..(n-1) : feed[m] = [kind |-> "credential", of |-> feed[n].of]
  /\ \A n \in DOMAIN feed : feed[n].kind = "credential" =>
       /\ held[feed[n].of] # Nothing
       /\ \E m \in 1..(n-1) : feed[m] = [kind |-> "payment", of |-> held[feed[n].of].id]
  /\ \A m, n \in DOMAIN feed :
       /\ m # n
       /\ feed[m].kind = "credential" /\ feed[n].kind = "credential"
       => held[feed[m].of] # held[feed[n].of]

\* lib.rs:6-8 calls the mesh a substrate "where every agent intent, gate decision,
\* and vault action is a human-readable chat line": so no request is answered
\* 402 without a line of its own.
EveryRefusalIsNarrated == \A e \in Presentations :
  boot = 0 /\ answer[e] = 402 => Told("restriction", e)
============================================================================
