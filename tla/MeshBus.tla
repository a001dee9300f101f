------------------------------ MODULE MeshBus ------------------------------
(***************************************************************************)
(* RAMesh, from a post to the operator's screen:                           *)
(* src/desktop/hammurabi-handoff/src/mesh.rs (the bus), app.rs:37-59 (the  *)
(* task that forwards live lines to the webview) and ui/dist/index.html    *)
(* (the page, which subscribes, then fetches the feed, and renders).       *)
(*                                                                         *)
(* post() takes its sequence number, pushes its line under the log's lock  *)
(* and sends it to the live subscribers in three separate steps, so posts  *)
(* interleave.  A line is named by the post that makes it.                 *)
(***************************************************************************)
EXTENDS Integers, Sequences, SequencesExt

CONSTANTS
  Posts,         \* calls of MeshBus::post
  Boot, Clicks,  \* calls of refreshFeed: the one of boot(), those of the buttons
  MaxLogLen,     \* MAX_LOG_LEN
  LiveCapacity   \* LIVE_CAPACITY

ASSUME MeshAssumption == /\ MaxLogLen \in Nat \ {0}
                         /\ LiveCapacity \in Nat \ {0}
                         /\ Boot \notin Clicks

Refreshes == Clicks \union {Boot}

VARIABLES
  seq,        \* the next sequence number (AtomicU64)
  pc,         \* where each post is
  num,        \* the sequence number each post took
  log,        \* the retained log
  sent,       \* every line sent to the broadcast channel, oldest first
  next,       \* the forwarder's position in it
  listening,  \* the page's subscription to "ramesh/message": no, yes or failed
  inbox,      \* events emitted to the page and not handled yet
  rpc,        \* where each refreshFeed is
  snap,       \* the feed each refreshFeed read
  shown,      \* the lines on the page, top to bottom
  \* History, for the properties:
  before,     \* the posts that had returned when each post began
  skipped,    \* the lines the forwarder lagged over
  known       \* the posts that had returned when each refreshFeed began

busVars == <<seq, pc, num, log, sent, before>>
pageVars == <<listening, inbox, rpc, snap, shown, known>>
liveVars == <<next, skipped>>
meshVars == <<busVars, liveVars, pageVars>>

Returned == {m \in Posts : pc[m] = "sent"}
Pushed == {m \in Posts : pc[m] \in {"logged", "sent"}}
Trimmed == Pushed \ ToSet(log)
Shown == ToSet(shown)

\* Type invariant; the log and the page never hold a post that was not pushed.
MeshTypeOK ==
  /\ seq \in Nat /\ num \in [Posts -> Nat]
  /\ pc \in [Posts -> {"idle", "numbered", "logged", "sent"}]
  /\ log \in Seq(Pushed) /\ Len(log) <= MaxLogLen
  /\ sent \in Seq(Returned)
  /\ next \in 1..(Len(sent) + 1)
  /\ listening \in {"no", "yes", "failed"}
  /\ inbox \in Seq(Returned)
  /\ rpc \in [Refreshes -> {"idle", "asked", "read", "done"}]
  /\ snap \in [Refreshes -> Seq(Pushed)]
  /\ shown \in Seq(Pushed)
  /\ before \in [Posts -> SUBSET Returned]
  /\ skipped \subseteq Returned
  /\ known \in [Refreshes -> SUBSET Returned]

MeshInit ==
  /\ seq = 0 /\ num = [m \in Posts |-> 0]
  /\ pc = [m \in Posts |-> "idle"]
  /\ log = <<>> /\ sent = <<>>
  /\ next = 1
  /\ listening = "no" /\ inbox = <<>>
  /\ rpc = [r \in Refreshes |-> "idle"]
  /\ snap = [r \in Refreshes |-> <<>>]
  /\ shown = <<>>
  /\ before = [m \in Posts |-> {}]
  /\ skipped = {}
  /\ known = [r \in Refreshes |-> {}]

---------------------------------------------------------------------------
(* MeshBus::post                                                           *)

SharedNumber(s) == s
NextNumber(s) == s + 1

\* seq.fetch_add(1), outside the lock.
Number(m) ==
  /\ pc[m] = "idle"
  /\ num' = [num EXCEPT ![m] = seq]
  /\ seq' = NextNumber(seq)
  /\ before' = [before EXCEPT ![m] = Returned]
  /\ pc' = [pc EXCEPT ![m] = "numbered"]
  /\ UNCHANGED <<log, sent, liveVars, pageVars>>

\* drain(0..excess): only the newest MaxLogLen lines stay.
TrimLate(s) == IF Len(s) > MaxLogLen + 1 THEN SubSeq(s, 2, Len(s)) ELSE s
Trim(s) == IF Len(s) > MaxLogLen THEN SubSeq(s, Len(s) - MaxLogLen + 1, Len(s)) ELSE s

\* Push and trim, under the write lock.
Log(m) ==
  /\ pc[m] = "numbered"
  /\ log' = Trim(Append(log, m))
  /\ pc' = [pc EXCEPT ![m] = "logged"]
  /\ UNCHANGED <<seq, num, sent, before, liveVars, pageVars>>

\* live.send, after the lock is released; post returns.
Send(m) ==
  /\ pc[m] = "logged"
  /\ sent' = Append(sent, m)
  /\ pc' = [pc EXCEPT ![m] = "sent"]
  /\ UNCHANGED <<seq, num, log, before, liveVars, pageVars>>

---------------------------------------------------------------------------
(* The forwarder of app.rs, subscribed before anything is posted.  The     *)
(* channel keeps the last LiveCapacity lines.                              *)

Oldest == Len(sent) - LiveCapacity + 1

\* recv() returns a line; emit reaches the page if it listens.
Forward ==
  /\ next <= Len(sent) /\ next >= Oldest
  /\ inbox' = IF listening = "yes" THEN Append(inbox, sent[next]) ELSE inbox
  /\ next' = next + 1
  /\ UNCHANGED <<busVars, skipped, listening, rpc, snap, shown, known>>

\* recv() returns Lagged: the receiver now stands at the oldest line kept.
Lag ==
  /\ next < Oldest
  /\ skipped' = skipped \union {sent[k] : k \in next..(Oldest - 1)}
  /\ next' = Oldest
  /\ UNCHANGED <<busVars, pageVars>>

---------------------------------------------------------------------------
(* The page.                                                               *)

\* boot() awaits listen(), which may fail; the snapshot comes after either way.
Listen(outcome) ==
  /\ listening = "no"
  /\ listening' = outcome
  /\ UNCHANGED <<busVars, liveVars, inbox, rpc, snap, shown, known>>

\* renderLine drops a line whose seq it has seen, and appends any other.
RenderNewer(lines, m) ==
  IF \E l \in ToSet(lines) : num[l] >= num[m] THEN lines ELSE Append(lines, m)
RenderAlways(lines, m) == Append(lines, m)
RenderLine(lines, m) ==
  IF \E l \in ToSet(lines) : num[l] = num[m] THEN lines ELSE Append(lines, m)

\* A live event.
HandleEvent ==
  /\ inbox # <<>>
  /\ shown' = RenderLine(shown, Head(inbox))
  /\ inbox' = Tail(inbox)
  /\ UNCHANGED <<busVars, liveVars, listening, rpc, snap, known>>

BootAnyTime == TRUE
BootInOrder == listening # "no"

\* refreshFeed invokes mesh_feed: boot()'s after listen(), a button's at any time.
AskFeed(r) ==
  /\ rpc[r] = "idle"
  /\ r = Boot => BootInOrder
  /\ rpc' = [rpc EXCEPT ![r] = "asked"]
  /\ known' = [known EXCEPT ![r] = Returned]
  /\ UNCHANGED <<busVars, liveVars, listening, inbox, snap, shown>>

\* MeshBus::feed clones the log under the read lock.
ReadFeed(r) ==
  /\ rpc[r] = "asked"
  /\ snap' = [snap EXCEPT ![r] = log]
  /\ rpc' = [rpc EXCEPT ![r] = "read"]
  /\ UNCHANGED <<busVars, liveVars, listening, inbox, shown, known>>

\* forEach(renderLine) runs to its end once the answer arrives.
RenderFeed(r) ==
  /\ rpc[r] = "read"
  /\ shown' = FoldLeft(RenderLine, shown, snap[r])
  /\ rpc' = [rpc EXCEPT ![r] = "done"]
  /\ UNCHANGED <<busVars, liveVars, listening, inbox, snap, known>>

---------------------------------------------------------------------------

PostStep == \E m \in Posts : Number(m) \/ Log(m) \/ Send(m)
ForwarderStep == Forward \/ Lag
RefreshStep(r) == AskFeed(r) \/ ReadFeed(r) \/ RenderFeed(r)

MeshNext ==
  \/ PostStep
  \/ ForwarderStep
  \/ \E outcome \in {"yes", "failed"} : Listen(outcome)
  \/ HandleEvent
  \/ \E r \in Refreshes : RefreshStep(r)

MeshSpec == MeshInit /\ [][MeshNext]_meshVars

\* A post that began ends (it never blocks for long: the locks guard a clone or a
\* push); the forwarder is a task the runtime polls whenever a line is there; the
\* page's event loop runs, and boot() follows its own calls.  Nobody has to post
\* or to click.
Fairness ==
  /\ \A m \in Posts : WF_meshVars(Log(m) \/ Send(m))
  /\ WF_meshVars(ForwarderStep)
  /\ WF_meshVars(HandleEvent)
  /\ WF_meshVars(\E outcome \in {"yes", "failed"} : Listen(outcome))
  /\ WF_meshVars(RefreshStep(Boot))

FairMeshSpec == MeshSpec /\ Fairness

---------------------------------------------------------------------------
(* Properties.                                                             *)

Precedes(s, a, b) == \A j, k \in DOMAIN s : s[j] = a /\ s[k] = b => j < k

\* What survives of "total order of the feed" (mesh.rs:59): a post that returned
\* before another began has the smaller number, the earlier place in the log and
\* in the live stream, and leaves the log no later.
RealTimeOrder == \A m \in Posts : \A a \in before[m] :
  /\ num[a] < num[m]
  /\ Precedes(log, a, m) /\ Precedes(sent, a, m)
  /\ m \in Trimmed => a \in Trimmed

\* The page shows a line at most once, although the snapshots and the live stream
\* overlap ("the seq dedupe absorbs the overlap", index.html:111-112).
NoLineTwice == IsInjective(shown)

\* "The frontend can always re-sync the gap via mesh_feed" (app.rs:40): once a
\* refresh is rendered, every post that had returned when it was asked for is on
\* the page, lagged over or not, unless the log itself has dropped the line.
RefreshResyncs == \A r \in Refreshes :
  rpc[r] = "done" => known[r] \subseteq Shown \union Trimmed

\* "Subscribe BEFORE snapshotting so nothing posted in between is lost"
\* (index.html:111): a line that was posted is sooner or later on the screen of a
\* page that listens, whatever it missed while starting, unless the forwarder
\* lagged over it or the log dropped it.
LinesReachTheOperator == \A m \in Posts :
  pc[m] = "sent" ~> \/ m \in Shown
                    \/ m \in skipped \union Trimmed
                    \/ listening = "failed"

\* mesh.rs:31-34: seq "stays monotonic and gap-aware", so that a client of a feed
\* that lost lines "can tell it has a gap (its lowest seq is nonzero)".
GapIsVisible == Trimmed # {} => \A k \in DOMAIN log : num[log[k]] # 0
============================================================================
