-------------------------- MODULE HandoffSurfaces --------------------------
(***************************************************************************)
(* Who calls the router of the Handoff: the page of the desktop shell,     *)
(* through the Tauri commands (ui/dist/index.html:121-157, commands.rs),   *)
(* the OKX marketplace, through its bridge (okx_bridge.rs), and everybody  *)
(* else, over loopback HTTP (HandoffServer as it is).                      *)
(*                                                                         *)
(* The commands and the bridge send their requests through the router in   *)
(* process: the intent header is taken from the body, no payment is        *)
(* passed on, and nobody disconnects.  The page's buttons are independent  *)
(* callbacks: each reads the page's variables when it is clicked, awaits,  *)
(* and writes them when the answer is there, whatever the others did.      *)
(*                                                                         *)
(* A click and the request's first step at the server are one step: the    *)
(* page decides nothing in between, and what it sends is fixed.  This is   *)
(* one life of the process; the page and the receipts end with it.         *)
(***************************************************************************)
EXTENDS HandoffServer

CONSTANTS
  MockIntents,    \* the ids the server makes up for mock intents (fresh ULIDs)
  NoId,           \* the id "", that of an intent without one
  Garbled,        \* ids that are sent in a header but cannot be read from it: not ASCII
  PageRequests,   \* the settle calls and executions the page makes,
  OkxRequests,    \* those of the OKX bridge,
  HttpRequests    \* and those of everybody else

ASSUME SurfaceAssumption ==
  /\ MockIntents \subseteq Intents /\ NoId \in Intents
  /\ Garbled \subseteq Intents
  /\ MockIntents \intersect (Garbled \union {NoId}) = {} /\ NoId \notin Garbled

Requests == Calls \union Presentations

ASSUME SenderAssumption ==
  /\ PageRequests \union OkxRequests \union HttpRequests = Requests
  /\ PageRequests \intersect OkxRequests = {}
  /\ (PageRequests \union OkxRequests) \intersect HttpRequests = {}

Buttons == {"announce", "execute", "settle", "retry"}

VARIABLES
  page,       \* intent, receiptId (Nothing: null or undefined), the enabled buttons
  pending,    \* the page's callbacks that await an answer
  sent,       \* what a surface sent to /execute, and whether the envelope for it fits
  minted      \* the mock intents made so far

surfaceVars == <<page, pending, sent, minted>>
shellVars == <<handoffVars, surfaceVars>>

Sent == [intent : Intents, receipt : Calls \union {Nothing}, body : Intents \union {Nothing},
         fits : BOOLEAN]
Click == [button : Buttons, of : Requests \union Intents]

\* Option::None is no request.
ASSUME SentAssumption == Nothing \notin Sent

Page == [intent : Intents \union {Nothing}, receipt : Calls \union {Nothing},
         enabled : SUBSET Buttons]

\* Type invariant; the page holds no receipt but one it was answered.
SurfaceTypeOK ==
  /\ page \in Page
  /\ page.receipt # Nothing => page.receipt \in PageRequests /\ answer[page.receipt] = 200
  /\ page.enabled # {"announce"} => page.intent # Nothing
  /\ pending \subseteq Click
  /\ sent \in [Presentations -> Sent \union {Nothing}]
  /\ minted \subseteq MockIntents

SurfaceInit ==
  /\ HandoffInit
  /\ page = [intent |-> Nothing, receipt |-> Nothing, enabled |-> {"announce"}]
  /\ pending = {}
  /\ sent = [e \in Presentations |-> Nothing]
  /\ minted = {}

\* The ids somebody can name: those made so far, and ids of one's own.
Known == minted \union (Intents \ MockIntents)
FreshIntent(i) == i \in MockIntents \ minted

Await(button, x) == pending' = pending \union {[button |-> button, of |-> x]}
Awaited(button, x) == [button |-> button, of |-> x] \in pending
Resume(button, x) == pending' = pending \ {[button |-> button, of |-> x]}

---------------------------------------------------------------------------
(* What both surfaces send.                                                *)

\* payment_guard reads an id it cannot decode as a missing one.
HeaderVerbatim(i) == i
HeaderLost(i) == NoId
HeaderText(i) == IF i \in Garbled THEN NoId ELSE i

\* POST /execute: the header is the body's intent_id; the receipt header is there if
\* there is a receipt.  `body` is Nothing if the JSON is no AgentIntent or is over the
\* router's limit of 1 MiB: the extractor rejects either, past the guard.  The envelope
\* holds the intent and more; `fits` says whether it is within 1 MiB too.
RequestExecution(e, intent, receipt, body, fits) ==
  /\ IF receipt = Nothing THEN RefuseUnpaid(e) ELSE Guard(e, receipt, HeaderText(intent))
  /\ sent' = [sent EXCEPT ![e] = [intent |-> intent, receipt |-> receipt, body |-> body,
                                  fits |-> fits]]

\* What dispatch and oneshot_json return for e: the answer, or an error in its place.  A
\* rejection is text and no JSON, and an envelope that does not fit is not read.
AnswerIsLost(e) == answer[e] = 400 \/ (answer[e] = 200 /\ ~sent[e].fits)
HasEnvelope(e) == answer[e] = 200 /\ ~AnswerIsLost(e)

\* POST /x402/settle with an intent_id and nothing else.
RequestSettlement(c, intent) ==
  /\ Settle(c, intent, Nothing)
  /\ UNCHANGED <<serverVars, sent>>

---------------------------------------------------------------------------
(* The page: a click starts a callback, the answer resumes it.  The page   *)
(* executes mock intents only, so its answers are never lost.              *)

ClickAnnounce(i) ==
  /\ FreshIntent(i)
  /\ AgentAnnounce(i)
  /\ minted' = minted \union {i}
  /\ Await("announce", i)
  /\ UNCHANGED <<page, sent>>

AnnounceAnswered(i) ==
  /\ Awaited("announce", i)
  /\ page' = [page EXCEPT !.intent = i, !.enabled = @ \union {"execute"}]
  /\ Resume("announce", i)
  /\ UNCHANGED <<handoffVars, sent, minted>>

ClickExecute(e) ==
  /\ e \in PageRequests
  /\ "execute" \in page.enabled
  /\ RequestExecution(e, page.intent, Nothing, page.intent, TRUE)
  /\ Await("execute", e)
  /\ UNCHANGED <<page, minted>>

ExecuteAnswered(e) ==
  /\ Awaited("execute", e) /\ answer[e] # 0
  /\ page' = [page EXCEPT !.enabled = IF answer[e] = 402 THEN @ \union {"settle"} ELSE @]
  /\ Resume("execute", e)
  /\ UNCHANGED <<handoffVars, sent, minted>>

ClickSettle(c) ==
  /\ c \in PageRequests
  /\ "settle" \in page.enabled
  /\ RequestSettlement(c, page.intent)
  /\ Await("settle", c)
  /\ UNCHANGED <<page, minted>>

\* r.body.receipt_id, undefined unless the answer is a receipt.
ReceiptAnyway(c) == c
ReceiptAnswered(c) == IF answer[c] = 200 THEN c ELSE Nothing

AnsweredWell(x) == answer[x] = 200
HasAnswer(x) == answer[x] # 0

\* The status is not looked at: the button of the retry is enabled all the same.
SettleAnswered(c) ==
  /\ Awaited("settle", c) /\ HasAnswer(c)
  /\ page' = [page EXCEPT !.receipt = ReceiptAnswered(c), !.enabled = @ \union {"retry"}]
  /\ Resume("settle", c)
  /\ UNCHANGED <<handoffVars, sent, minted>>

ClickRetry(e) ==
  /\ e \in PageRequests
  /\ "retry" \in page.enabled
  /\ RequestExecution(e, page.intent, page.receipt, page.intent, TRUE)
  /\ Await("retry", e)
  /\ UNCHANGED <<page, minted>>

\* The status line shows the envelope or the refusal; the page keeps nothing.
RetryAnswered(e) ==
  /\ Awaited("retry", e) /\ HasAnswer(e)
  /\ Resume("retry", e)
  /\ UNCHANGED <<handoffVars, page, sent, minted>>

PageResumes ==
  \/ \E i \in MockIntents : AnnounceAnswered(i)
  \/ \E c \in Calls : SettleAnswered(c)
  \/ \E e \in Presentations : ExecuteAnswered(e) \/ RetryAnswered(e)

PageClicks ==
  \/ \E i \in MockIntents : ClickAnnounce(i)
  \/ \E c \in Calls : ClickSettle(c)
  \/ \E e \in Presentations : ClickExecute(e) \/ ClickRetry(e)

---------------------------------------------------------------------------
(* The OKX bridge.                                                         *)

\* intent_announce with an AgentIntent for params.
OkxAnnounces(i) ==
  /\ i \in Known
  /\ AgentAnnounce(i)
  /\ UNCHANGED <<page, pending, sent, minted>>

\* intent_announce with empty params, or with anything that is no AgentIntent within
\* 1 MiB: the router's Option<Json<AgentIntent>> is None for both, and the mock intent is
\* made (server.rs:107-110).
OkxAnnouncesMock(i) ==
  /\ FreshIntent(i)
  /\ AgentAnnounce(i)
  /\ minted' = minted \union {i}
  /\ UNCHANGED <<page, pending, sent>>

\* payment_settlement; params without an intent_id settle for "".
OkxSettles(c, i) ==
  /\ c \in OkxRequests /\ i \in Known
  /\ RequestSettlement(c, i)
  /\ UNCHANGED <<page, pending, minted>>

\* credential_minting, in either of its shapes; the body may be no AgentIntent, or one
\* that is too long.
OkxMints(e, i, receipt, body, fits) ==
  /\ e \in OkxRequests /\ i \in Known
  /\ body \in {i, Nothing}
  /\ Nothing \in {body, receipt} => fits     \* there is no envelope
  /\ RequestExecution(e, i, receipt, body, fits)
  /\ UNCHANGED <<page, pending, minted>>

Okx ==
  \/ \E i \in Intents : OkxAnnounces(i)
  \/ \E i \in MockIntents : OkxAnnouncesMock(i)
  \/ \E c \in Calls, i \in Intents : OkxSettles(c, i)
  \/ \E e \in Presentations, i \in Intents, receipt \in Calls \union {Nothing},
        body \in Intents \union {Nothing}, fits \in BOOLEAN : OkxMints(e, i, receipt, body, fits)

---------------------------------------------------------------------------
(* Everybody else, over loopback HTTP: payments, any header with any body. *)

HttpSettles(c, i, p) ==
  /\ c \in HttpRequests /\ i \in Known
  /\ Settle(c, i, p)
  /\ UNCHANGED <<serverVars, page, pending, sent, minted>>

HttpExecutes(e) ==
  /\ e \in HttpRequests
  /\ RefuseUnpaid(e) \/ \E id \in Calls, i \in Known : Guard(e, id, HeaderText(i))
  /\ UNCHANGED <<page, pending, sent, minted>>

---------------------------------------------------------------------------
(* The handlers, once a request is in them.                                *)

\* The task of a settle call, as far as it goes by itself.
ServeSettle(c) ==
  /\ \/ Record(c) /\ UNCHANGED serverVars
     \/ AnswerSettled(c)
     \/ AnswerFailed(c)
  /\ UNCHANGED surfaceVars

BodyUnsent(e, body) == TRUE
\* The body of a request from a surface is the one it sent.
BodyMayBe(e, body) ==
  IF sent[e] = Nothing THEN TRUE ELSE sent[e].body = body

\* The task of an execution.
ServeExecution(e) ==
  /\ \/ RefusePresented(e)
     \/ BodyMayBe(e, Nothing) /\ RejectBody(e)
     \/ \E body \in Intents : BodyMayBe(e, body) /\ (RecheckFails(e, body) \/ Mint(e, body))
     \/ TellCredential(e)
     \/ TellSettlement(e)
  /\ UNCHANGED surfaceVars

\* What only a request from elsewhere meets: the facilitator, and its client's going.
Elsewhere ==
  /\ \/ (Facilitator \/ Tick) /\ UNCHANGED serverVars
     \/ \E c \in Calls : /\ SettleConfirmed(c) \/ SettleFails(c) \/ DropSettle(c)
                         /\ UNCHANGED serverVars
     \/ \E e \in HttpRequests \intersect Presentations : DropExecute(e)
  /\ UNCHANGED surfaceVars

ShellNext ==
  \/ PageClicks \/ PageResumes \/ Okx
  \/ \E c \in Calls, i \in Intents, p \in Payments \union {Nothing} : HttpSettles(c, i, p)
  \/ \E e \in Presentations : HttpExecutes(e)
  \/ \E c \in Calls : ServeSettle(c)
  \/ \E e \in Presentations : ServeExecution(e)
  \/ Elsewhere

ShellSpec == SurfaceInit /\ [][ShellNext]_shellVars

\* The runtime polls every task that can go on, and the page every promise that has
\* resolved.  Nobody has to click, and no client or facilitator has to do anything.
Fairness ==
  /\ \A c \in Calls : WF_shellVars(ServeSettle(c))
  /\ \A e \in Presentations : WF_shellVars(ServeExecution(e))
  /\ WF_shellVars(PageResumes)

FairShellSpec == ShellSpec /\ Fairness

---------------------------------------------------------------------------
(* Properties.                                                             *)

\* Whatever the operator clicks in whatever order, and whatever the others do, a retry
\* of the page is refused only for a cause: its settlement had failed, it was for an
\* intent announced since, or somebody had presented the receipt before (the feed shows
\* its id), or it had gone stale (index.html:140-157).
RetryRefusedForCause == \A e \in Presentations \intersect PageRequests :
  LET id == sent[e].receipt
  IN  answer[e] # 0 /\ answer[e] # 200 =>
        \/ id = Nothing
        \/ frame[id].intent # sent[e].intent
        \/ \E f \in Presentations \ {e} : held[f] # Nothing /\ held[f].id = id
        \/ clock - frame[id].now >= StaleAfter

\* A request from a surface names one intent in its header and its body, so it is never
\* refused by the silent recheck of execute: each of its 402s has a line in the feed
\* (commands.rs:3-7, okx_bridge.rs:4-7), if its id can be read from a header at all.
SurfaceRefusalsAreTold == \A e \in Presentations \ HttpRequests :
  answer[e] = 402 /\ sent[e].intent \notin Garbled => Told("restriction", e)

\* Neither surface passes a payment on (commands.rs:89-96, okx_bridge.rs:60-70): under
\* the live backend none of their calls takes a receipt, so the page never settles what
\* it executes, and a marketplace caller only executes with a receipt got elsewhere.
LiveSurfacesCannotPay == backend = "facilitator" =>
  /\ page.receipt = Nothing
  /\ \A e \in Presentations \intersect PageRequests : answer[e] \in {0, 402}
  /\ \A e \in Presentations \ HttpRequests : held[e] # Nothing => held[e].id \in HttpRequests

\* Every click is answered, whichever backend is armed and whatever the others' calls
\* wait for: no callback of the page hangs (index.html:121-157).
EveryClickIsAnswered == \A x \in Requests \union MockIntents :
  (\E b \in Buttons : Awaited(b, x)) ~> (\A b \in Buttons : ~Awaited(b, x))

\* The guard burns the receipt before the body is read and before the answer is measured
\* (x402.rs:247, server.rs:85, commands.rs:64, okx_bridge.rs:144), and nothing gives it
\* back.  Over HTTP anything can lose a payment then.  A request of the page or of the
\* bridge cannot be cut off and says the same in its header and its body: once its
\* receipt is burned it is answered, and has its envelope exactly if what it sent is an
\* intent, with an id a header can carry, and fits with its envelope in 1 MiB.
PaidExecutionsDeliver == \A e \in Presentations \ HttpRequests :
  result[e] = "redeemed" ~>
    /\ answer[e] # 0
    /\ HasEnvelope(e) <=> /\ sent[e].body \notin Garbled \union {Nothing}
                          /\ sent[e].fits

\* A settle call takes any id, and is paid for any; what cannot be read from a header is
\* compared as "" (x402.rs:226-231).  So a receipt for such an id serves nobody: whoever
\* presents it, in whatever order, burns it.
UnreadableIdsAreNeverServed == \A e \in Presentations :
  held[e] # Nothing /\ held[e].intent \in Garbled => result[e] = "mismatch"
============================================================================
