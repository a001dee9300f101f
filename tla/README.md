# Hammurabi Handoff in TLA+

The Handoff is a loopback service that sells an agent one execution of one intent: it takes a
payment (x402), mints a sixty-second credential bound to the intent, packages it for an on-chain
verifier, and tells an operator everything it did in a chat-like feed (RAMesh). These modules
model it, check it with TLC and prove its core with TLAPS.

Paths below are relative to `src/desktop/hammurabi-handoff/src/` unless they say otherwise.

## The system

| Component | State | Operations | Talks to |
|---|---|---|---|
| Payment gate, `x402.rs` | the treasury: receipts settled and not yet redeemed, under an `RwLock` | `settle`, `redeem`, `evict_stale`, the guard of `/execute` | backend, bus |
| Settlement backend, `settlement_backend.rs` | none; the facilitator outside keeps the money | `settle`: at once (mock), or `/verify` then `/settle` over HTTP | facilitator |
| HTTP server, `server.rs` | the shared `HandoffState` | announce, settle, execute, feed; one task per request | gate, vault, bus |
| RAMesh bus, `mesh.rs` | the sequence counter, the bounded log, the broadcast ring | `post`, `feed`, `subscribe` | everybody |
| Forwarder and page, `app.rs`, `../ui/dist/index.html` | a position in the ring; the lines on the page | forward, lag; subscribe, snapshot, render once per number | bus |
| Handshake vault, `vault.rs` | none: the key lives in one stack frame | `mint` with its chaos test, `verify` | JCS, Ed25519 |
| Settlement envelope, `settlement.rs` | none | `package`, `verify_handoff` | vault |
| Page buttons, IPC commands, `../ui/dist/index.html`, `commands.rs` | the announced intent, the receipt id, which buttons are enabled | announce, execute, settle, retry | server, in process |
| OKX bridge, `okx_bridge.rs` | none | three capabilities put on the router, one that reads the feed | server, in process |
| JCS seam, `src/core/iedb-crypto/src/jcs.rs` | none | canonical form, signed message | vault, envelope |
| Token ledger, `src/core/iedb-crypto/src/tokens/mod.rs` | a map from ids to tokens | mint, activate, spend, burn, revoke, ranked listings | nobody here |
| Merkle range, `src/core/iedb-crypto/src/merkle/mod.rs` | leaves, peaks, a count | append, prove, verify, dump and restore | nobody here |
| Key store and boxes, `src/core/iedb-crypto/src/{crypto,aead}.rs` | none | seal and open | nobody here |

What is hard here: a settle call reads the clock and then awaits two HTTP round trips; a client may
disconnect at any await, and hyper then drops the task; all state is in memory and a restart loses
it while the facilitator keeps what it was asked; a receipt is burned before the request's body has
been read; a post to the bus is three steps, of which only one is under the lock; the ring
overwrites lines a slow forwarder has not read; the page joins a snapshot with a live stream; an
expiry is not signed; the page's buttons are independent callbacks over two variables; a body and an
answer have a limit that is looked at after the payment is spent; a verifier trusts the key the
envelope names; ids and proofs are digests of concatenations, and a leaf of a range is hashed like a
node; a payload is parsed and written again between the signer and the verifier; bytes at rest may
be cut anywhere. `PROJECT.json` lists each at its line, with the properties that watch it.

## The modules

| Module | What it is |
|---|---|
| `ReceiptLedger` | the abstract promise of the gate: a receipt goes from unissued to open to spent, once and for its own intent, or is voided |
| `X402Gate` | the gate with both backends, the facilitator, disconnects, clock and restarts; instantiates `ReceiptLedger` |
| `HandoffServer` | the handlers over the gate, extending `X402Gate`: who is told what, in which order |
| `MeshBus` | a post's way from `MeshBus::post` to the operator's page |
| `MeshBusProofs` | posts keep their real-time order, through the trim; the page shows a line once, and a refresh fills its gaps |
| `Vault` | minting, an envelope whose fields are replaced in transit, and the two verifiers |
| `VaultProofs` | what is accepted is accepted in its window, and under a mint's key it is what that mint signed, for every integer width, TTL and set of keys |
| `HandoffSurfaces` | who calls the router: the page, the OKX bridge, other clients; extends `HandoffServer` |
| `HandoffProofs` | the gate's four safety theorems, and that it implements the ledger; the gate inside the server is the gate; the feed is an audit; no surface has a path around the gate; what the surfaces are told and cannot do; a retry of the page is refused only for a cause |
| `Jcs` | the canonical form down to its bytes, and the document's way from signer to verifier |
| `JcsProofs` | for documents of any size: the canonical form is injective, floats and nothing else are refused, members are in order |
| `TokenLife` | the abstract promise of the token ledger: the life cycle of each token |
| `TokenLedger` | the ledger, its five calls and its listings; instantiates `TokenLife` |
| `TokenLedgerProofs` | the ledger implements the life cycle; a token leaves circulation once; a batch keeps its token; the listings miss nobody |
| `MerkleRange` | the range, its proofs in clients' hands, and restored dumps |
| `MerkleProofs` | for ranges of any size: peaks are perfect trees, a root and a number of leaves stand for one list, proofs prove, and live with their mountain |
| `CipherBytes` | what both sealed layouts share: bytes that say where they come from |
| `Keystore` | the encrypted keystore's blob, and what storage does to it |
| `SealedBox` | sealed messages between parties, and what a transport does to them |
| `DataInduction` | induction over the naturals in a form the provers can use, and what the recursive library operators compute |
| `IedbCrypto` | the crate's parts side by side, extending its five modules above; one of them moves in a behaviour |
| `IedbCryptoProofs` | keystore and box open exactly what was sealed, whatever the lengths of their fields; every part runs in the crate as it does alone |
| `MC*` | values and symmetry sets for TLC, with one `.cfg` per run |

### How `X402Gate` corresponds to the code

A call of `POST /x402/settle` is a member of `Calls`, and its `pc` is the await it stands at.
`Settle` reads the clock into `frame` (`server.rs:137`) and enters the backend. Under the mock the
call is `"cleared"` in the same step, because nothing is awaited; under the facilitator it is
`"verifying"`, then `"settling"`. `Charge` and `Decline` are the facilitator's: it acts on a
posted `/settle` whether or not anybody still waits for the answer. `SettleFails` is any rejection
or transport error, `DropSettle` a disconnect. `Record` is the block of `X402Gate::settle` under
the write lock: sweep by the captured clock, then insert. `Redeem` is `X402Gate::redeem`: remove
first, compare the intent second. `Restart` empties the treasury and kills the tasks.

A receipt's ULID is fresh, so the model names the receipt by the call that made it. The fee is a
constant and is left out.

`HandoffServer` adds the guard, the body and the handlers' lines. Between any two of its steps other
tasks run. A client knows a receipt's id from the answer or the feed line that carries it; any
other id is one the gate has not made (`Presentable`). `execute` awaits only while its body is
read, so `DropExecute` exists only there. The arm of `execute` for a refused mint (HTTP 422) has no
action: the payload is a serialized `AgentIntent`, and `Vault`'s `PaidIntentMints` shows that the
vault never refuses one.

`MeshBus` opens up a post: `Number` (`fetch_add`, no lock), `Log` (push and trim under the lock),
`Send` (broadcast, after the lock). The forwarder's `Lag` is tokio's `RecvError::Lagged`: it moves
to the oldest line still in the ring. The page listens, then asks for the feed; the read of the
log and the rendering of the answer are separate steps, so live events fall between them.

In `Vault` a signature is the pair of its key and its message, and a digest is what it digests. The
envelope's fields are replaced one at a time by anything that needs no key, by another mint's
signature, by one that a stranger makes with a key pair of its own (`Strangers`, `Forged`), or by
hex that does not decode; sequences of replacements reach every combination. The verifiers take the
public key from the envelope and compare it with nothing (`settlement.rs:193-209`), so a stranger's
envelope, signed afresh, is accepted in the model as in the code: acceptance says that the holder of
the named key signed this payload at `issued_at`, less than TTL ago, and it says that the vault did
only to somebody who knows the mint's key from elsewhere. `AcceptedIsAuthentic` states that and no
more. A timestamp is a two's-complement integer up to `MaxInt`, as `i64` is in a release build,
where `+` wraps (a debug build panics instead). Bit flips and the wrong key always fail, so these
two probes of the chaos test are constants; the others depend on the payload. Payloads that are not
objects are not distinguished: the chaos test wraps them, which never leaves them as they were.

### How the other modules correspond to the code

`HandoffSurfaces`. A command or a capability drives the same router in process, so its request is a
`Settle`, `RefuseUnpaid` or `Guard` of `HandoffServer`, with the header taken from the body's
`intent_id` (`RequestExecution`) and without a payment (`RequestSettlement`). A button of the page
is two actions: the click reads the page's variables and sends, the answer resumes the callback and
writes them; any number of callbacks may be pending. `settle.onclick` does not look at the status,
so `SettleAnswered` enables the retry even with an undefined receipt. `HeaderText` is what
`payment_guard` reads back from a header: an id that is no visible ASCII becomes `""` (`NoId`,
`Garbled`). A request that cannot even be built, an id with a control character in it, has no effect
and is left out; so is a settlement whose body is over the limit. An `intent_announce` whose
parameters are empty and one whose parameters are no `AgentIntent`, or over the limit, are one
action, `OkxAnnouncesMock`, because the router treats them alike. Two limits of 1 MiB lie behind the
burning of a receipt. A body over the router's is rejected where it is read, past the guard, like
one that is no `AgentIntent` (`body` is `Nothing`, `RejectBody`); an envelope over the one of
`dispatch` and `oneshot_json` is made and told in the feed, but the caller gets an error in its
place (`fits`, `AnswerIsLost`). Sizes are not counted: which bodies and envelopes are too long is
the caller's choice. There is no restart: the page and the receipts end with the process.

`Jcs` keeps everything: strings are sequences of code points, output is bytes. `Parse` is what
`serde_json` does (duplicate keys, numbers that become floats); the escapes, UTF-8, the UTF-16 order
of keys, decimal integers and the little-endian timestamp follow the code. Integers are 8 bits wide
in the run and the timestamp 16. `Err`, a byte that is none, stands for the error a `?` carries out.
The recursion of `write_value` is a function of the depth (`Writer` writes one level, `Written[d]`
the values up to depth d), and so are `Parse` and `Parts`: `MaxDepth` bounds how deep a document is
nested.

`TokenLedger`: one action per call; a call that is an error leaves the ledger alone. An id is the
pair of the batch and the bytes that are hashed, so two batches with the same bytes would share it.
A CID holds no line break (`CidAssumption`): the callers pass hex digests, the function does not
check. `MeritScore` is an integer that grows with the number of events, as the real score does.

`MerkleRange`: indices from 0 and the loops of the code as recursive functions of the round;
`Perfect`, `Bits` and `MountainOf` are the reference it is compared with. A digest is what it
digests, so there are no collisions, but nothing keeps a leaf from being a node: `append` takes any
word and `append_data` of two leaves' bytes appends their `hash_pair`. The run has such a word
(`MCWords`), and the properties say what holds all the same: they compare roots of equally many
leaves and proofs with mountains of their height. `Load` takes the peaks of the dump as they are.

`CipherBytes`, `Keystore` and `SealedBox`: a byte is the triple of its field, its seal and its
place; lengths are parameters. `Write`, `Truncate`, `Flip`, `Deliver` are the environment's: the
repository only makes and reads the bytes. A box opens at either end, for the party that sealed it
too, since both agree on one secret; `OpensForItsPair` says exactly that.

## The runs

| Run | Bounds | What it shows |
|---|---|---|
| `gate` | 2 calls, 2 presentations, 2 intents, 2 payments, `StaleAfter` 2, clock to 3, 1 restart, both backends | `SingleUse`, `RedemptionIsPaid`, `LostChargeBuysNothing`, `FreshReceiptRedeemable`; `ImplementsLedger` as a refinement |
| `server` | 2 calls, 2 requests, 2 intents, 1 payment, clock to 1, 1 restart, 1 announcement, both backends | `FeedIsAudit`: every settlement line after its credential, every credential after the payment of a receipt of its own |
| `mesh` | 3 posts, a log of 2, a ring of 1, the boot refresh and one click | `RealTimeOrder`, `NoLineTwice`, `RefreshResyncs` |
| `mesh_live` | 2 posts, a log of 2, a ring of 1, one click, fairness | `LinesReachTheOperator` |
| `vault` | 1 mint, 1 stranger's key, 2 bodies, a clock of 6 values that wraps around, TTL 2 | `AcceptedIsAuthentic`, `VerifiersAgree`, `PaidIntentMints`, `HonestEnvelopeAccepted` |
| `page` | the page's 1 settle call and 3 executions, a settle call of the bridge, an execution of another client; 2 mock intents, 2 announcements, 1 payment, `StaleAfter` 1, clock to 1, both backends | `RetryRefusedForCause`: whatever is clicked in whatever order, a refused retry has a cause the page could name |
| `clicks` | the page's 1 settle call and 2 executions, an execution of the bridge, another client's settle call; an id that cannot be read from a header; bodies and envelopes that are too long; both backends; fairness | `SurfaceRefusalsAreTold`, `LiveSurfacesCannotPay`, `UnreadableIdsAreNeverServed`, `EveryClickIsAnswered`, `PaidExecutionsDeliver` |
| `crypto` | ledger: 2 batches, event lists `aa` and `a, a` | `EveryBatchHasItsToken`, `LeavesOnce`, `ListingsAgree`; `ImplementsLife` as a refinement |
| | range: up to 8 leaves over 2 words, one of them the node over the other twice; 1 dump kept, 1 proof handed out of a range of up to 3 leaves | `PeaksArePerfect`, `ProofsProve`, `ProofLivesWithItsMountain`, `RootCommits` |
| | signing seam: 81 documents, 3 timestamps | `AcceptedIffSame`, `FloatsAreRefused`, `NulSeparates`, `MembersInUtf16Order` |
| | 2 seals, 3 seeds, 2 passphrases; 2 boxes, 3 parties, 2 texts; fields of 2 bytes | `OpensIffIntact`; `OpensForItsPair` |
| `gate_not_born_stale` | 1 call, facilitator | a finding, below |
| `server_refusal_without_line` | 1 call, 1 request, 2 intents | a finding, below |
| `mesh_gap` | 3 posts, a log of 2 | a finding, below |
| `merkle_inclusion` | up to 3 leaves over the same 2 words | a finding, below |

Why the bounds suffice. Two calls and two presentations make every pair race: two redemptions of one
receipt, two settles of one payment, a sweep of one call's receipt by the other. With `StaleAfter` 2
and a clock of 3 a receipt can be fresh, on the edge, and stale, and a call can hold an old clock.
One restart separates a process from the one before it. Three posts overflow a log of two and a ring
of one. Six timestamps with a TTL of 2 contain the wrap-around and a window with an inside; one mint
is enough, because whatever another could sign, the stranger can; the proofs lift the gate, the
audit, the order of the bus and the vault to all sizes. Deadlock checking is off where clients
simply stop making requests (`Calls`, `Presentations`, `Posts` and `Mints` are finite). The gate
runs use symmetry on model values only; `mesh_live` and `clicks` use none, because they check
liveness. `page` and `clicks` have a view without the order of the feed: no action and no property
of theirs reads it, and every step changes what the view keeps, so no step looks like a stutter.

In `page` its four requests let it announce again, settle and retry twice over, while the other
client presents the page's receipt between two clicks; longer sessions repeat these. In `crypto` one
part of the crate moves and the others stay as they began: they share no state, so their product has
nothing more to show. Up to eight leaves is every shape of a range with up to three mountains, and
one with a single mountain of each size to eight; a proof from up to three leaves sees its mountain
merge at the next power of two, whichever digit of the count it was made at. `ProofsProve` reads
neither dumps nor issued proofs, so it looks at every range once, when its dump is its own and no
proof is out. Fields of two bytes have a first and a last one, so every offset of a layout has both
neighbours. The documents of `jcs` are chosen in pairs that a careless encoding would merge: a
quote, comma, quote against two empty strings, a control character against its own escape, key
orders on both sides of the surrogates, numbers on both sides of both widths, a float that a
duplicate key hides.

Fairness (`MeshBus`, `Fairness`). A post that took its number finishes: the locks guard a push or
a clone, never an await. The forwarder is a task the runtime polls when a line is there. The page's event
loop runs, and `boot` follows its own awaits. Nobody has to post or click, and `listen` may fail.
In `HandoffSurfaces` the runtime polls every task that can go on and the page resumes every promise
that has resolved; no client and no facilitator has to do anything, and another client's settle call
may hang for ever.

### What disagrees with the documentation

* **A receipt may be born stale** (`NotBornStale`). `cleared_at` is documented as the second the
  payment cleared; it is the second the call arrived, and the HTTP client has no timeout. After a
  slow facilitator the receipt is already past the ten minutes when it is recorded, and the next
  settle sweeps it.
* **A 402 without a line** (`EveryRefusalIsNarrated`). The recheck of the body in `execute` answers
  402 and posts nothing, while `lib.rs` promises a line for every gate decision.
* **An invisible gap** (`GapIsVisible`). Numbers are taken outside the log's lock, so the log may
  drop line 1 and keep line 0; the lowest number of the feed is then zero although lines are
  missing.
* **A proof of what is not there** (`AcceptedLeafIsThere`). The range promises "tamper-evident O(log
  n) inclusion proofs". Leaves and nodes are hashed alike and `verify` does not look at the length
  of a proof, so the proof of `l` made in a range `[l, l]` is accepted at the same index of a range
  whose one leaf is the node over them. The root alone does not tell the two ranges apart either; a
  root with a number of leaves does (`RootCommits`).

By design, and worth knowing: a receipt is burned before the body is read, so a disconnect, an
unreadable body or a mismatch costs the fee; and a lost answer to the facilitator's `/settle` means
that money moved and the client was told 502. The code promises nothing in these cases, and the
model has all of them. The lost answer is one a retry cannot mend: no call over a payment that was
charged and not answered ever has a receipt (`LostChargeBuysNothing`). The surfaces of the shell cannot
be cut off and send no body that differs from its header, but a caller of the bridge pays for nothing if what
it sends is no intent, has an unreadable id, or exceeds one of the two limits of 1 MiB
(`PaidExecutionsDeliver`); `server.rs:65-70` calls the limit "generous headroom". With a live
facilitator neither the page nor the bridge can settle at all (`LiveSurfacesCannotPay`), and an
intent whose id is no visible ASCII can be paid for but not executed
(`UnreadableIdsAreNeverServed`). An envelope proves what the holder of the key in it signed, whoever
that is: whether the key is one of the vault's is for its reader to know. JSON that is no
`AgentIntent` announces the mock intent and is answered 200, as the code's own test comment says
(`server.rs:397-406`). A Merkle proof stops verifying when its mountain merges, even if the caller
still holds the root it came with: `verify_compact` compares with the root of now
(`ProofLivesWithItsMountain`).

## The proofs

`HandoffProofs` starts with the gate. It proves, for any sets of calls, presentations, intents and
payments, any `StaleAfter`, any clock bound and any number of restarts:

* `GateTypeCorrect`, `ReceiptsAreSingleUse`, `RedemptionsArePaid`, `LostChargesBuyNothing`,
  `FreshReceiptsAreKept`.

None of these is inductive alone. The invariant `GateInv` adds: a call's captured clock is never
ahead of the wall clock (`FramesInPast`), or else a sweep could go by a clock of the future; every
receipt in the treasury or in a request's hands is the one its call recorded
(`ReceiptsAreRecorded`); what redeem answered agrees with what it removed (`AnswersAgree`); and a
call past `/settle` moved the money of its payment (`MoneyMoved`). There is one lemma per action.

It also proves `GateImplementsLedger`: `Record` is `Issue` with the swept receipts
voided at the same moment, a matching `Redeem` is `Spend`, a mismatch and `Restart` are `Lose`, and
the rest stutters.

Over the gate it first proves `ServerRunsTheGate`: a server step is a gate step or leaves the
gate alone, so every theorem above holds inside the server (`ServerReceiptsAreSingleUse` is one). Then
`HandoffTypeCorrect` and `FeedIsAnAudit`. `FeedIsAudit` only speaks of lines that are in the feed, so it
says nothing of a request that is about to add one; `AuditInv` follows the evidence along the way. A
call answered 200 has its payment line and so does its receipt in the treasury (`PaymentsTold`); what
the guard let through holds such a receipt (`GuardedArePaid`), which is where the gate's `GateInv` is
needed; a request that packages has posted its credential line, and only such requests have one
(`CredentialsTold`). `PostTells` says once what appending a line does to all of this.

`MeshBusProofs` proves `PostsKeepRealTimeOrder`. `BusInv` adds to `RealTimeOrder` that the counter is
above every number taken, that what a post calls earlier had returned, and that the log and the stream
hold a line at most once. The hard case is the trim: `TrimDropsOldest` makes the log a suffix, so a
later line that falls out was behind an earlier one only if that one is gone too.

`MeshTypeCorrect`, `PageShowsOnce` and `RefreshFillsTheGap` take the page in. `MeshInv` adds that no two
posts have one number (`DifferInNumber`), without which the dedupe would hide a line, and that a snapshot
that was read and not yet rendered has what had returned when it was asked for, or the log had dropped it
(`SnapsHoldKnown`); a dropped line stays dropped (`PostsGoOn`). The page renders a snapshot by a fold:
`RenderOneByOne` unfolds it into the pages between, for a snapshot of any length, and `RenderAllKeeps`
goes along them.

`VaultProofs` proves `VaultTypeCorrect`, `OnlyAuthenticIsAccepted`, `TheVerifiersAgree`,
`PaidIntentsMint` and `HonestEnvelopesAreAccepted`, for every `MaxInt`, `TTL` and sets of mints and
strangers. The invariant is that the signature an envelope carries was made by a mint, or by a
stranger under its own key, or does not verify (`SignatureWasMade`): an envelope that is refused now
may be accepted after the next replacement. `WindowIsExact` settles the wrap-around: a window that
holds a moment not before its start has not wrapped. `IntentsAreReleasable` is why the chaos test
never refuses a paid intent.

Of the surfaces it first proves `NoSecondPath`: every step of the shell is a step of the server, so
`ShellIsGuarded` follows from the theorems above. Three more invariants are carried along, each from
its own strengthening: the page holds only a receipt it was answered (`PageInv`), a refused request
of a surface has its line, because header and body of what it sent agree (`RefusalInv`), and under a
live backend none of its settle calls gets past the first check (`LiveInv`).
`UnreadableIdsServeNobody` is about the guard: the intent it compares with is a `HeaderText`, and no
unreadable id is one.

It ends with `RetriesRefusedForCause`, where the page meets the sweep of the gate. The page's
receipt is one it was answered, so it was recorded in this process; if the gate does not have it,
`FreshReceiptRedeemable` says that it is stale or was presented by another request. Past the guard
nothing refuses the request any more, because its body is the intent the receipt was redeemed for.
`RetryInv` says so of each request of the page, with what the page only has from the server: an
intent whose id a header can carry. A cause does not go away (`CauseStays`), since nothing changes
what a recorded call captured, nobody gives a receipt back, and the clock does not step back.

`TokenLedgerProofs` proves `LedgerTypeCorrect`, `TokensLeaveOnce` and `LedgerImplementsLife` for any
batches and event lists. `LedgerInv` adds that a token that was spent or burned is in a state from
which only a revocation goes on (`GoneForGood`); one lemma says what `transition` changes, and
each call is one move of the life cycle (`TransitionIsAMove`, `MintIsAMove`).

`BatchesKeepTheirTokens` rests on `RootIsInjective`: two lists of CIDs, of any length, chain to the
same bytes only if they are equal, because the first line break ends the first CID
(`FlattenOneByOne` unfolds the concatenation, and an induction peels one CID after the other).
`ListingsMissNobody` defines a listing by places: `PlacesCount` says that in a finite strict order
the number of elements up to each one counts them from 1, so the listing of the map shows each token
once (`InKeyOrderShowsAll`), ranking only moves tokens (`RankMovesOnly`), and ranking a ranked list
again moves none (`RankedStays`), which is why the two listings agree at every cap.

`IedbCryptoProofs` proves, for fields of any length above zero, any number of seals or boxes and any
party, `KeystoreOpensIffIntact`, `BoxOpensForItsPair` and the two type invariants. The state of the
storage or the transport is any bytes made from those of the seals by cutting, flipping and joining;
the invariants only say that a whole blob's bytes are where the layout puts them. What opens has the
fields the layout slices, and since a byte says whose and which it is, all of them are of one seal.
It ends with `CrateRunsItsParts`: in `IedbCrypto`, which the run checks, each part behaves as in its
own specification, so every theorem about a part is one about the crate (`CrateTypeCorrect`).

`JcsProofs` proves `JcsTyped`, `AcceptedValueIsTheSigned`, `OnlyFloatsAreRefused`, `NulEndsTheValue`
and `MembersAreOrdered`, for documents of any size, any `MaxDepth`, any code points and any
integers. The state needs little (`JcsInv`: what was signed is the message of what was sent, the
verdict is that of what arrived); the work is that the canonical form tells the value. Injectivity
of the whole form is not inductive, because a value stands in the middle of others, so the induction
over the depth carries a stronger claim (`WrittenTells`): two values that can be read at one place
of one text, both with no digit behind them, are the same. Nothing marks the end of a number but
what follows it, which is why the claim speaks of the next byte. Under it:

* `EscapeDecodes`: a decoder that looks at the first bytes gives back the code point, whichever of
  the five escapes, `\u00xx` or lengths of UTF-8 it was written with; so a string tells its text
  (`StringRead`).
* `DecimalRead`: digits tell a number, by induction over `n \div 10`, and a minus sign is no digit.
* `SideBySide`: two rows of words that share a place and an end have the same words, one by one. It
  serves the characters of a string, the items of an array and the members of an object.
* `WriterWord`: the first byte tells the kind of a value.
* `KeysList` and `UnitsFollowRanks`: the keys are listed in a strict total order, and the order of
  UTF-16 units is the order of ranks, where a code point outside the basic plane comes before U+E000
  although its number is higher; so the members are where RFC 8785 wants them, and the listing of a
  map tells the map.
* `WriterFloats`: the error is in the output exactly if a part of the value is a float, at each
  depth.
* `MessagesTell`: the byte 0, which is in no canonical form, ends the value, and the two bytes
  behind it tell the timestamp.

`MerkleProofs` proves `MerkleTypeCorrect`, `PeaksArePerfectTrees`, `RootsCommit`,
`EveryLeafIsProved` and `ProofsLiveWithTheirMountain`, for any words and any number of leaves. The
state needs little: `RangeInv` says that the peaks of the range, of the dump and of every proof were
computed from the leaves they stand with, which is why a restore that computes nothing is right. The
rest is about what the loops compute:

* `WalkIsDigits`: the mountains get lower, each starts at a multiple of twice its size, so their heights
  are the binary digits of the leaf count; `LeafIsInOneMountain` is the search for a leaf's peak.
* `LevelsArePerfect`: the pairing loop over a power of two of leaves never has an odd one out, and its
  levels are those of the perfect tree (`BuildsPerfect`).
* `TreeCommits`: two equal trees of the same height have the same leaves. Ranges of equally many leaves have
  mountains of the same heights, so equal peaks have equal leaves (`PeaksCommit`), and so have equal roots.
  Without the number of leaves this is false, because a leaf may be a node.
* `ClimbReaches`: a climb that ends at a tree of the range and is as long as the tree is high went over the
  nodes of that tree, from the leaf at the place that is asked about. Nothing is assumed of that leaf or of
  that place; only the length of the proof is, which the verifier does not look at.

Assumptions: the constants' (`GateAssumption`, `ReceiptAssumption`, `ServerAssumption`,
`MeshAssumption`, `VaultAssumption`, `StrangersAssumption`, `SurfaceAssumption`, `SenderAssumption`,
`CidAssumption`, `BoundsAssumption`, `KeyOrderAssumption`, which says that the ids of tokens are
strictly and totally ordered; `WidthAssumption`, `StampAssumption` and `DocumentsAssumption`, which
say that the widths enclose 0, a timestamp has two bytes, and a document is JSON no deeper than
`MaxDepth`; `NothingAssumption`, `CredentialAssumption` and `SentAssumption` say that the marker for
"no value" is none); the wall clock does not step back (`Tick`); ULIDs are unique; the facilitator
charges one payment at most once (`Charge`), which is what an x402 authorisation is; Ed25519 and
BLAKE3 are perfect.

Induction. The library's induction theorems take an operator, which the provers here cannot
instantiate; `NatSetInduction` of `DataInduction` states induction for a set of naturals instead,
and each proof names the set of the lengths its claim holds for. What `FlattenSeq` and `FoldLeft`
compute is proved that way. So are the recursive functions of `MerkleRange` and `Jcs`: that a
function with such equations exists is itself a claim about all lengths, proved once for each
(`Pow2Unfolds`, `OffsetsUnfold`, `LevelsUnfold`, `WrittenUnfold` and so on), after which its
equations can be used.

Only model-checked: `LinesReachTheOperator`, `EveryClickIsAnswered` and `PaidExecutionsDeliver`, which
are liveness. Every invariant a passing run checks, and every refinement, is a theorem.

## Not modelled, and the plan

Next: the steps the liveness properties rest on, as theorems about what an enabled step leads to; and the
composition of `Vault` with `Jcs`, so that the vault's signature is the seam's and not a symbol.

Left out for good:

* the marketplace client and manifest (`src/tooling/iedb-oka`): records, a validator of three
  independent fields and a thin HTTP client, with no state;
* reading the environment (`from_env_or_default`): which backend is armed is the choice of `Backends`
  at start, and nothing changes it later;
* module declarations, the window, the single-instance plugin and the page's looks;
* a wall clock that steps back: the sweeps only keep more, and a mint may read any time in `Vault`;
* the arithmetic of Ed25519, X25519, BLAKE3, Argon2 and ChaCha20-Poly1305, which is symbolic.
