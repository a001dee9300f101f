--------------------------- MODULE MeshBusProofs ---------------------------
(***************************************************************************)
(* The order the bus keeps between posts, and what the page shows of them, *)
(* for any number of posts and refreshes, any retention and any ring:      *)
(* whatever the posters, the forwarder and the page interleave.            *)
(***************************************************************************)
EXTENDS MeshBus, DataInduction, TLAPS

\* The log and the live stream hold lines of posts that got so far, once each.
Holds(s, P) == /\ s \in Seq(P)
               /\ \A j, k \in DOMAIN s : s[j] = s[k] => j = k

\* What the order rests on: a number is taken from a counter above all those taken;
\* what a post calls before has returned; and places are taken once.
BusInv ==
  /\ seq \in Nat /\ num \in [Posts -> Nat]
  /\ pc \in [Posts -> {"idle", "numbered", "logged", "sent"}]
  /\ before \in [Posts -> SUBSET Returned]
  /\ \A m \in Posts : IF pc[m] = "idle" THEN before[m] = {} ELSE num[m] < seq
  /\ Holds(log, Pushed)
  /\ Holds(sent, Returned)
  /\ RealTimeOrder

---------------------------------------------------------------------------

\* Trim drops from the front, and never the line just pushed.
LEMMA TrimDropsOldest ==
  ASSUME NEW S, NEW s \in Seq(S), Len(s) > 0
  PROVE  \E d \in Nat : /\ d < Len(s)
                        /\ Trim(s) \in Seq(S)
                        /\ Len(Trim(s)) = Len(s) - d
                        /\ \A i \in 1..(Len(s) - d) : Trim(s)[i] = s[d + i]
<1>1. CASE Len(s) > MaxLogLen
  <2>1. /\ Trim(s) = SubSeq(s, Len(s) - MaxLogLen + 1, Len(s))
        /\ Len(s) - MaxLogLen \in Nat /\ Len(s) - MaxLogLen < Len(s)
    BY <1>1, MeshAssumption DEF Trim
  <2>2. /\ Trim(s) \in Seq(S)
        /\ Len(Trim(s)) = Len(s) - (Len(s) - MaxLogLen)
        /\ \A i \in 1..MaxLogLen : Trim(s)[i] = s[Len(s) - MaxLogLen + i]
    BY <1>1, <2>1, MeshAssumption
  <2> QED BY <2>1, <2>2, MeshAssumption
<1>2. CASE Len(s) <= MaxLogLen
  BY <1>2, MeshAssumption DEF Trim
<1> QED BY <1>1, <1>2, MeshAssumption

\* The bus starts in the invariant.
LEMMA BusInit == MeshInit => BusInv
  BY DEF MeshInit, BusInv, Holds, RealTimeOrder, Precedes, Returned, Pushed, Trimmed

\* Taking a number: everything that has returned has a smaller one, and the post
\* itself is nowhere yet.
LEMMA NumberPreserves ==
  ASSUME BusInv, NEW m \in Posts, Number(m)
  PROVE  BusInv'
<1> USE DEF BusInv, Number, NextNumber
<1>1. Returned' = Returned /\ Pushed' = Pushed /\ Trimmed' = Trimmed
  BY DEF Returned, Pushed, Trimmed
<1>2. m \notin Pushed /\ m \notin Returned
  BY DEF Returned, Pushed
<1>3. Holds(log, Pushed)' /\ Holds(sent, Returned)'
  BY <1>1 DEF Holds
<1>4. before' \in [Posts -> SUBSET Returned']
  BY <1>1 DEF Returned
<1>5. \A n \in Posts : IF pc'[n] = "idle" THEN before'[n] = {} ELSE num'[n] < seq'
  OBVIOUS
<1>6. ASSUME NEW n \in Posts, NEW a \in before'[n]
      PROVE  /\ num'[a] < num'[n]
             /\ Precedes(log, a, n)' /\ Precedes(sent, a, n)'
             /\ n \in Trimmed' => a \in Trimmed'
  <2>1. a \in Returned /\ a # m
    BY <1>2, <1>6 DEF Returned
  <2>2. CASE n = m
    <3>1. num'[a] < num'[n]
      BY <2>1, <2>2 DEF Returned
    <3>2. /\ \A k \in DOMAIN log : log[k] # m
          /\ \A k \in DOMAIN sent : sent[k] # m
          /\ m \notin Trimmed
      BY <1>2 DEF Holds, Trimmed
    <3> QED BY <1>1, <2>2, <3>1, <3>2 DEF Precedes
  <2>3. CASE n # m
    BY <1>1, <2>1, <2>3 DEF RealTimeOrder, Precedes, Returned
  <2> QED BY <2>2, <2>3
<1>7. RealTimeOrder'
  BY <1>6 DEF RealTimeOrder
<1> QED BY <1>3, <1>4, <1>5, <1>7

\* Push and trim: the line goes behind those of all earlier posts, and what is
\* dropped is in front of what stays.
LEMMA LogPreserves ==
  ASSUME BusInv, NEW m \in Posts, Log(m)
  PROVE  BusInv'
<1> DEFINE s == Append(log, m)
<1>1. /\ Returned' = Returned /\ Pushed' = Pushed \union {m}
      /\ m \notin Pushed /\ Returned \subseteq Pushed
  BY DEF BusInv, Log, Returned, Pushed
<1>2. /\ log \in Seq(Pushed) /\ s \in Seq(Pushed')
      /\ Len(s) = Len(log) + 1 /\ Len(log) \in Nat
      /\ DOMAIN log = 1..Len(log) /\ DOMAIN s = 1..Len(s)
      /\ s[Len(s)] = m
      /\ \A i \in 1..Len(log) : s[i] = log[i] /\ s[i] # m
  BY <1>1 DEF BusInv, Holds
<1>3. PICK d \in Nat : /\ d < Len(s)
                       /\ log' \in Seq(Pushed')
                       /\ Len(log') = Len(s) - d
                       /\ \A i \in 1..(Len(s) - d) : log'[i] = s[d + i]
  <2>1. log' = Trim(s)
    BY DEF Log
  <2>2. s \in Seq(Pushed') /\ Len(s) > 0
    BY <1>2
  <2> HIDE DEF s
  <2>3. \E d \in Nat : /\ d < Len(s)
                       /\ Trim(s) \in Seq(Pushed')
                       /\ Len(Trim(s)) = Len(s) - d
                       /\ \A i \in 1..(Len(s) - d) : Trim(s)[i] = s[d + i]
    BY <2>2, TrimDropsOldest
  <2> QED BY <2>1, <2>3
<1> HIDE DEF s
<1>4. /\ DOMAIN log' = 1..(Len(log) + 1 - d)
      /\ log'[Len(log) + 1 - d] = m
      /\ \A i \in 1..(Len(log) - d) : log'[i] = log[d + i] /\ log'[i] # m
  BY <1>2, <1>3
<1>5. Holds(log, Pushed)'
  <2> SUFFICES ASSUME NEW j \in DOMAIN log', NEW k \in DOMAIN log', log'[j] = log'[k]
               PROVE  j = k
    BY <1>3 DEF Holds
  <2>1. CASE log'[j] = m
    <3>1. j \notin 1..(Len(log) - d) /\ k \notin 1..(Len(log) - d)
      BY <1>4, <2>1
    <3> QED BY <1>2, <1>4, <3>1
  <2>2. CASE log'[j] # m
    <3>1. j \in 1..(Len(log) - d) /\ k \in 1..(Len(log) - d)
      BY <1>2, <1>3, <1>4, <2>2
    <3>2. d + j \in DOMAIN log /\ d + k \in DOMAIN log
      BY <1>2, <3>1
    <3>3. log'[j] = log[d + j] /\ log'[k] = log[d + k]
      BY <1>4, <3>1
    <3>4. d + j = d + k
      BY <3>2, <3>3 DEF BusInv, Holds
    <3> QED BY <3>1, <3>4
  <2> QED BY <2>1, <2>2
<1>6. Holds(sent, Returned)'
  BY <1>1 DEF BusInv, Log, Holds
<1>7. ASSUME NEW n \in Posts, NEW a \in before[n]
      PROVE  /\ num[a] < num[n]
             /\ Precedes(log', a, n) /\ Precedes(sent, a, n)
             /\ n \in Trimmed' => a \in Trimmed'
  <2>1. a \in Returned /\ a # m /\ a \in Pushed
    BY <1>1 DEF BusInv
  <2>2. num[a] < num[n] /\ Precedes(log, a, n) /\ Precedes(sent, a, n)
        /\ (n \in Trimmed => a \in Trimmed)
    BY DEF BusInv, RealTimeOrder
  <2>3. \A j \in DOMAIN log' : log'[j] = a => j \in 1..(Len(log) - d) /\ log[d + j] = a
    BY <1>2, <1>3, <1>4, <2>1
  <2>4. Precedes(log', a, n)
    <3> SUFFICES ASSUME NEW j \in DOMAIN log', NEW k \in DOMAIN log',
                        log'[j] = a, log'[k] = n
                 PROVE  j < k
      BY DEF Precedes
    <3>1. j \in 1..(Len(log) - d) /\ log[d + j] = a
      BY <2>3
    <3>2. CASE k = Len(log) + 1 - d
      BY <1>2, <1>3, <3>1, <3>2
    <3>3. CASE k # Len(log) + 1 - d
      <4>1. k \in 1..(Len(log) - d) /\ log[d + k] = n
        BY <1>2, <1>3, <1>4, <3>3
      <4>2. d + j \in DOMAIN log /\ d + k \in DOMAIN log
        BY <1>2, <3>1, <4>1
      <4>3. d + j < d + k
        BY <2>2, <3>1, <4>1, <4>2 DEF Precedes
      <4> QED BY <3>1, <4>1, <4>3
    <3> QED BY <3>2, <3>3
  <2>5. ASSUME n \in Trimmed' PROVE a \in Trimmed'
    <3>1. n \in Pushed' /\ \A i \in DOMAIN log' : log'[i] # n
      BY <2>5 DEF Trimmed, ToSet
    <3>2. n # m /\ n \in Pushed
      BY <1>1, <1>2, <1>3, <1>4, <3>1
    <3>3. ASSUME NEW j \in DOMAIN log', log'[j] = a PROVE FALSE
      <4>1. j \in 1..(Len(log) - d) /\ log[d + j] = a /\ d + j \in DOMAIN log
        BY <1>2, <2>3, <3>3
      <4>2. a \notin Trimmed
        BY <4>1 DEF Trimmed, ToSet
      <4>3. PICK i \in DOMAIN log : log[i] = n
        BY <2>2, <3>2, <4>2 DEF Trimmed, ToSet
      <4>4. d + j < i
        BY <2>2, <4>1, <4>3 DEF Precedes
      <4>5. i - d \in 1..(Len(log) - d) /\ d + (i - d) = i
        BY <1>2, <4>1, <4>3, <4>4
      <4>6. log'[i - d] = n /\ i - d \in DOMAIN log'
        BY <1>2, <1>4, <4>3, <4>5
      <4> QED BY <3>1, <4>6
    <3> QED BY <1>1, <2>1, <3>3 DEF Trimmed, ToSet
  <2> QED BY <2>2, <2>4, <2>5
<1>8. RealTimeOrder'
  BY <1>7 DEF RealTimeOrder, Log, Precedes
<1>9. /\ seq' \in Nat /\ num' \in [Posts -> Nat]
      /\ pc' \in [Posts -> {"idle", "numbered", "logged", "sent"}]
      /\ before' \in [Posts -> SUBSET Returned']
      /\ \A n \in Posts : IF pc'[n] = "idle" THEN before'[n] = {} ELSE num'[n] < seq'
  BY <1>1 DEF BusInv, Log
<1> QED BY <1>5, <1>6, <1>8, <1>9 DEF BusInv

\* Sending: the line goes behind those of all posts that returned before.
LEMMA SendPreserves ==
  ASSUME BusInv, NEW m \in Posts, Send(m)
  PROVE  BusInv'
<1>1. /\ Returned' = Returned \union {m} /\ m \notin Returned
      /\ Pushed' = Pushed /\ Trimmed' = Trimmed
  BY DEF BusInv, Send, Returned, Pushed, Trimmed
<1>2. /\ sent \in Seq(Returned) /\ sent' \in Seq(Returned')
      /\ Len(sent) \in Nat /\ Len(sent') = Len(sent) + 1
      /\ DOMAIN sent = 1..Len(sent) /\ DOMAIN sent' = 1..(Len(sent) + 1)
      /\ sent'[Len(sent) + 1] = m
      /\ \A i \in 1..Len(sent) : sent'[i] = sent[i] /\ sent'[i] # m
  BY <1>1 DEF BusInv, Holds, Send
<1>3. Holds(sent, Returned)'
  <2> SUFFICES ASSUME NEW j \in DOMAIN sent', NEW k \in DOMAIN sent', sent'[j] = sent'[k]
               PROVE  j = k
    BY <1>2 DEF Holds
  <2>1. CASE sent'[j] = m
    <3>1. j \notin 1..Len(sent) /\ k \notin 1..Len(sent)
      BY <1>2, <2>1
    <3> QED BY <1>2, <3>1
  <2>2. CASE sent'[j] # m
    BY <1>2, <2>2 DEF BusInv, Holds
  <2> QED BY <2>1, <2>2
<1>4. Holds(log, Pushed)'
  BY <1>1 DEF BusInv, Send, Holds
<1>5. ASSUME NEW n \in Posts, NEW a \in before[n]
      PROVE  /\ num[a] < num[n]
             /\ Precedes(log, a, n) /\ Precedes(sent', a, n)
             /\ n \in Trimmed => a \in Trimmed
  <2>1. a \in Returned /\ a # m
    BY <1>1 DEF BusInv
  <2>2. num[a] < num[n] /\ Precedes(log, a, n) /\ Precedes(sent, a, n)
        /\ (n \in Trimmed => a \in Trimmed)
    BY DEF BusInv, RealTimeOrder
  <2>3. ASSUME NEW j \in DOMAIN sent', NEW k \in DOMAIN sent', sent'[j] = a, sent'[k] = n
        PROVE  j < k
    <3>1. j \in 1..Len(sent) /\ sent[j] = a
      BY <1>2, <2>1, <2>3
    <3>2. CASE k = Len(sent) + 1
      BY <1>2, <3>1, <3>2
    <3>3. CASE k # Len(sent) + 1
      BY <1>2, <2>2, <2>3, <3>1, <3>3 DEF Precedes
    <3> QED BY <3>2, <3>3
  <2> QED BY <2>2, <2>3 DEF Precedes
<1>6. RealTimeOrder'
  BY <1>1, <1>5 DEF RealTimeOrder, Send, Precedes
<1>7. /\ seq' \in Nat /\ num' \in [Posts -> Nat]
      /\ pc' \in [Posts -> {"idle", "numbered", "logged", "sent"}]
      /\ before' \in [Posts -> SUBSET Returned']
      /\ \A n \in Posts : IF pc'[n] = "idle" THEN before'[n] = {} ELSE num'[n] < seq'
  BY <1>1 DEF BusInv, Send
<1> QED BY <1>3, <1>4, <1>6, <1>7 DEF BusInv

\* Nothing else touches the bus: neither the forwarder nor the page.
LEMMA BusNext == BusInv /\ [MeshNext]_meshVars => BusInv'
<1> SUFFICES ASSUME BusInv, [MeshNext]_meshVars PROVE BusInv'
  OBVIOUS
<1>1. ASSUME UNCHANGED busVars PROVE BusInv'
  BY <1>1 DEF busVars, BusInv, Holds, RealTimeOrder, Precedes, Returned, Pushed, Trimmed
<1>2. CASE PostStep
  BY <1>2, NumberPreserves, LogPreserves, SendPreserves DEF PostStep
<1>3. CASE ForwarderStep
  BY <1>1, <1>3 DEF ForwarderStep, Forward, Lag
<1>4. CASE \E outcome \in {"yes", "failed"} : Listen(outcome)
  BY <1>1, <1>4 DEF Listen
<1>5. CASE HandleEvent
  BY <1>1, <1>5 DEF HandleEvent
<1>6. CASE \E r \in Refreshes : RefreshStep(r)
  BY <1>1, <1>6 DEF RefreshStep, AskFeed, ReadFeed, RenderFeed
<1>7. CASE UNCHANGED meshVars
  BY <1>1, <1>7 DEF meshVars
<1> QED BY <1>2, <1>3, <1>4, <1>5, <1>6, <1>7 DEF MeshNext

\* A post that returned before another began (MeshBus::post) has the smaller number
\* and the earlier place in the log and in the live stream, and the log never drops
\* the later line while it keeps the earlier one.
THEOREM PostsKeepRealTimeOrder == MeshSpec => []RealTimeOrder
<1>1. BusInv => RealTimeOrder
  BY DEF BusInv
<1> QED BY <1>1, BusInit, BusNext, PTL DEF MeshSpec

---------------------------------------------------------------------------
(* Rendering.                                                              *)

DifferInNumber(P) == \A a, b \in P : num[a] = num[b] => a = b

\* A page after lines of s: those it had, those of s, each once.
Rendered(page, lines, s, n, P) ==
  /\ page \in Seq(P) /\ IsInjective(page)
  /\ ToSet(lines) \subseteq ToSet(page)
  /\ \A i \in 1..n : s[i] \in ToSet(page)

\* renderLine leaves the lines it finds, and shows its own, whose number only its own
\* post can have taken.
LEMMA RenderLineKeeps ==
  ASSUME NEW P, DifferInNumber(P), NEW lines \in Seq(P), IsInjective(lines), NEW m \in P
  PROVE  /\ RenderLine(lines, m) \in Seq(P) /\ IsInjective(RenderLine(lines, m))
         /\ ToSet(lines) \subseteq ToSet(RenderLine(lines, m))
         /\ m \in ToSet(RenderLine(lines, m))
<1>1. ToSet(lines) \subseteq P /\ DOMAIN lines = 1..Len(lines) /\ Len(lines) \in Nat
  BY DEF ToSet
<1>2. CASE \E l \in ToSet(lines) : num[l] = num[m]
  <2>1. RenderLine(lines, m) = lines
    BY <1>2 DEF RenderLine
  <2>2. m \in ToSet(lines)
    BY <1>1, <1>2 DEF DifferInNumber
  <2> QED BY <2>1, <2>2
<1>3. CASE ~ \E l \in ToSet(lines) : num[l] = num[m]
  <2>1. PICK longer : longer = Append(lines, m)
    OBVIOUS
  <2>2. /\ longer \in Seq(P) /\ DOMAIN longer = 1..(Len(lines) + 1)
        /\ \A i \in 1..Len(lines) : longer[i] = lines[i]
        /\ longer[Len(lines) + 1] = m
    BY <2>1
  <2>3. RenderLine(lines, m) = longer
    BY <1>3, <2>1 DEF RenderLine
  <2>4. \A i \in 1..Len(lines) : lines[i] # m
    BY <1>1, <1>3 DEF ToSet
  <2>5. IsInjective(longer)
    <3> SUFFICES ASSUME NEW i \in DOMAIN longer, NEW j \in DOMAIN longer, longer[i] = longer[j]
                 PROVE  i = j
      BY DEF IsInjective
    <3>1. CASE longer[i] = m
      <4>1. i \notin 1..Len(lines) /\ j \notin 1..Len(lines)
        BY <2>2, <2>4, <3>1
      <4> QED BY <1>1, <2>2, <4>1
    <3>2. CASE longer[i] # m
      <4>1. i \in 1..Len(lines) /\ j \in 1..Len(lines)
        BY <1>1, <2>2, <3>2
      <4> QED BY <1>1, <2>2, <4>1 DEF IsInjective
    <3> QED BY <3>1, <3>2
  <2>6. ToSet(lines) \subseteq ToSet(longer) /\ m \in ToSet(longer)
    BY <1>1, <2>2 DEF ToSet
  <2> QED BY <2>2, <2>3, <2>5, <2>6
<1> QED BY <1>2, <1>3

\* refreshFeed renders a snapshot line by line.
LEMMA RenderOneByOne ==
  ASSUME NEW lines \in Seq(Posts), NEW s \in Seq(Posts)
  PROVE  \E page \in [0..Len(s) -> Seq(Posts)] :
           /\ page[0] = lines
           /\ \A i \in 1..Len(s) : page[i] = RenderLine(page[i - 1], s[i])
           /\ FoldLeft(RenderLine, lines, s) = page[Len(s)]
<1> DEFINE N == Len(s)
           Next(f, T) == IF T = {} THEN lines ELSE RenderLine(f[T \ {Max(T)}], s[Max(T)])
           Folded(f, n) == f = [T \in SUBSET (1..n) |-> Next(f, T)]
           Some == {n \in Nat : \E f : Folded(f, n)}
<1>0. N \in Nat /\ DOMAIN s = 1..N /\ \A i \in 1..N : s[i] \in Posts
  OBVIOUS
<1>1. 0 \in Some
  <2> DEFINE f == [T \in SUBSET (1..0) |-> lines]
  <2>1. \A T \in SUBSET (1..0) : Next(f, T) = lines
    OBVIOUS
  <2>2. Folded(f, 0)
    <3> HIDE DEF Next
    <3> QED BY <2>1
  <2> HIDE DEF Folded, f
  <2> QED BY <2>2
<1>2. ASSUME NEW n \in Nat, n \in Some  PROVE n + 1 \in Some
  <2>1. PICK f : Folded(f, n)
    BY <1>2
  <2> DEFINE g == [T \in SUBSET (1..(n + 1)) |->
                     IF n + 1 \in T THEN RenderLine(f[T \ {n + 1}], s[n + 1]) ELSE f[T]]
  <2>2. \A T \in SUBSET (1..n) : g[T] = f[T] /\ f[T] = Next(f, T)
    <3>1. \A T \in SUBSET (1..n) : n + 1 \notin T /\ T \in SUBSET (1..(n + 1))
      OBVIOUS
    <3> HIDE DEF Next
    <3>2. \A T \in SUBSET (1..n) : f[T] = Next(f, T)
      BY <2>1
    <3> QED BY <3>1, <3>2
  <2>3. ASSUME NEW T \in SUBSET (1..(n + 1))  PROVE g[T] = Next(g, T)
    <3>1. CASE n + 1 \in T
      <4>1. Max(T) = n + 1 /\ T # {}
        BY <3>1, MaxOfInterval
      <4>2. T \ {n + 1} \in SUBSET (1..n)
        OBVIOUS
      <4>3. g[T] = RenderLine(f[T \ {n + 1}], s[n + 1])
        BY <3>1
      <4> HIDE DEF g
      <4> QED BY <2>2, <4>1, <4>2, <4>3
    <3>2. CASE n + 1 \notin T
      <4>1. T \in SUBSET (1..n) /\ T \ {Max(T)} \in SUBSET (1..n)
        <5>1. T \in SUBSET (1..n)
          BY <3>2
        <5>2. \A x : T \ {x} \in SUBSET (1..n)
          BY <5>1
        <5> QED BY <5>1, <5>2
      <4> HIDE DEF g
      <4> QED BY <2>2, <4>1
    <3> QED BY <3>1, <3>2
  <2>4. Folded(g, n + 1)
    <3>1. g = [T \in SUBSET (1..(n + 1)) |-> g[T]]
      OBVIOUS
    <3> HIDE DEF g, Next
    <3> QED BY <2>3, <3>1
  <2> HIDE DEF g, Folded
  <2> QED BY <2>4
<1>3. N \in Some
  <2> HIDE DEF Some
  <2> QED BY <1>0, <1>1, <1>2, NatSetInduction
<1>4. PICK f : Folded(f, N) /\ FoldLeft(RenderLine, lines, s) = f[1..N]
  <2> DEFINE Whole(it) == it = [T \in SUBSET DOMAIN s |-> Next(it, T)]
             h == CHOOSE it : Whole(it)
  <2>1. FoldLeft(RenderLine, lines, s) = h[DOMAIN s]
    BY Zenon DEF FoldLeft, MapThenFoldSet
  <2>2. \E it : Whole(it)
    <3> HIDE DEF Next
    <3> QED BY <1>0, <1>3
  <2>3. Whole(h)
    <3> HIDE DEF Whole
    <3> QED BY <2>2
  <2> HIDE DEF h, Next
  <2> QED BY <1>0, <2>1, <2>3
<1> DEFINE page == [i \in 0..N |-> f[1..i]]
<1>5. page[0] = lines
  <2>1. f[1..0] = Next(f, 1..0) /\ 1..0 = {}
    <3> HIDE DEF Next
    <3> QED BY <1>0, <1>4
  <2> QED BY <1>0, <2>1
<1>6. ASSUME NEW i \in 1..N  PROVE page[i] = RenderLine(page[i - 1], s[i])
  <2>1. f[1..i] = Next(f, 1..i)
    <3>1. 1..i \in SUBSET (1..N)
      BY <1>0
    <3> HIDE DEF Next
    <3> QED BY <1>4, <3>1
  <2>2. 1..i # {} /\ Max(1..i) = i /\ (1..i) \ {i} = 1..(i - 1)
    <3>1. i - 1 \in Nat /\ (i - 1) + 1 = i
      BY <1>0
    <3>2. i \in 1..i
      BY <1>0
    <3>3. Max(1..i) = i
      BY <3>1, <3>2, MaxOfInterval
    <3>4. (1..i) \ {i} = 1..(i - 1)
      BY <3>1
    <3> QED BY <3>2, <3>3, <3>4
  <2>3. page[i] = f[1..i] /\ page[i - 1] = f[1..(i - 1)]
    BY <1>0
  <2> HIDE DEF page
  <2> QED BY <2>1, <2>2, <2>3
<1> HIDE DEF page
<1>7. \A l \in Seq(Posts), m \in Posts : RenderLine(l, m) \in Seq(Posts)
  BY DEF RenderLine
<1> DEFINE Typed == {n \in Nat : n \in 0..N => page[n] \in Seq(Posts)}
<1>8. Nat \subseteq Typed
  <2>1. 0 \in Typed
    BY <1>5
  <2>2. ASSUME NEW n \in Nat, n \in Typed  PROVE n + 1 \in Typed
    <3> SUFFICES ASSUME n + 1 \in 0..N  PROVE page[n + 1] \in Seq(Posts)
      OBVIOUS
    <3>1. n + 1 \in 1..N /\ (n + 1) - 1 = n /\ page[n] \in Seq(Posts)
      BY <1>0, <2>2
    <3>2. page[n + 1] = RenderLine(page[n], s[n + 1]) /\ s[n + 1] \in Posts
      BY <1>0, <1>6, <3>1
    <3> QED BY <1>7, <3>1, <3>2
  <2> HIDE DEF Typed
  <2> QED BY <2>1, <2>2, NatSetInduction
<1>9. page \in [0..N -> Seq(Posts)]
  <2>1. \A i \in 0..N : page[i] \in Seq(Posts)
    BY <1>0, <1>8
  <2> QED BY <2>1 DEF page
<1>10. FoldLeft(RenderLine, lines, s) = page[N]
  BY <1>0, <1>4 DEF page
<1> QED BY <1>5, <1>6, <1>9, <1>10

\* forEach(renderLine): all of the snapshot is on the page, and nothing left it.
LEMMA RenderAllKeeps ==
  ASSUME NEW P \in SUBSET Posts, DifferInNumber(P),
         NEW lines \in Seq(P), IsInjective(lines), NEW s \in Seq(P)
  PROVE  Rendered(FoldLeft(RenderLine, lines, s), lines, s, Len(s), P)
<1>1. /\ lines \in Seq(Posts) /\ s \in Seq(Posts)
      /\ Len(s) \in Nat /\ \A i \in 1..Len(s) : s[i] \in P
  OBVIOUS
<1>2. PICK page \in [0..Len(s) -> Seq(Posts)] :
        /\ page[0] = lines
        /\ \A i \in 1..Len(s) : page[i] = RenderLine(page[i - 1], s[i])
        /\ FoldLeft(RenderLine, lines, s) = page[Len(s)]
  BY <1>1, RenderOneByOne
<1> DEFINE Good == {n \in Nat : n <= Len(s) => Rendered(page[n], lines, s, n, P)}
<1>3. 0 \in Good
  BY <1>2 DEF Rendered
<1>4. ASSUME NEW n \in Nat, n \in Good  PROVE n + 1 \in Good
  <2> SUFFICES ASSUME n + 1 <= Len(s)
               PROVE  Rendered(page[n + 1], lines, s, n + 1, P)
    OBVIOUS
  <2>1. n + 1 \in 1..Len(s) /\ (n + 1) - 1 = n /\ n <= Len(s)
    BY <1>1
  <2>2. PICK old, new, m : old = page[n] /\ new = page[n + 1] /\ m = s[n + 1]
    OBVIOUS
  <2>3. new = RenderLine(old, m) /\ m \in P
    BY <1>1, <1>2, <2>1, <2>2
  <2>4. Rendered(old, lines, s, n, P)
    BY <1>4, <2>1, <2>2
  <2>5. /\ new \in Seq(P) /\ IsInjective(new)
        /\ ToSet(old) \subseteq ToSet(new) /\ m \in ToSet(new)
    BY <2>3, <2>4, RenderLineKeeps DEF Rendered
  <2>6. \A i \in 1..(n + 1) : s[i] \in ToSet(new)
    BY <2>2, <2>4, <2>5 DEF Rendered
  <2> QED BY <2>2, <2>4, <2>5, <2>6 DEF Rendered
<1>5. Len(s) \in Good
  <2> HIDE DEF Good
  <2> QED BY <1>1, <1>3, <1>4, NatSetInduction
<1> QED BY <1>1, <1>2, <1>5

---------------------------------------------------------------------------
(* The forwarder and the page.                                             *)

\* A snapshot was cloned after its refresh began: what had returned by then is in it,
\* or had left the log.
SnapsHoldKnown == \A r \in Refreshes :
  rpc[r] = "read" => known[r] \subseteq ToSet(snap[r]) \union Trimmed

LiveTyped ==
  /\ next \in 1..(Len(sent) + 1)
  /\ skipped \subseteq Returned

PageTyped ==
  /\ listening \in {"no", "yes", "failed"}
  /\ inbox \in Seq(Returned)
  /\ rpc \in [Refreshes -> {"idle", "asked", "read", "done"}]
  /\ snap \in [Refreshes -> Seq(Pushed)]
  /\ shown \in Seq(Pushed)
  /\ known \in [Refreshes -> SUBSET Returned]

\* The invariant of the whole: a number belongs to one post, and the counter is above.
MeshInv ==
  /\ BusInv
  /\ DifferInNumber({m \in Posts : pc[m] # "idle"})
  /\ Len(log) <= MaxLogLen
  /\ LiveTyped /\ PageTyped
  /\ NoLineTwice
  /\ SnapsHoldKnown /\ RefreshResyncs

LEMMA SeqsWiden == ASSUME NEW S, NEW T, S \subseteq T  PROVE Seq(S) \subseteq Seq(T)
  OBVIOUS

LEMMA MeshStarts == MeshInit => MeshInv
<1> SUFFICES ASSUME MeshInit PROVE MeshInv
  OBVIOUS
<1>1. BusInv
  BY BusInit
<1>2. DifferInNumber({m \in Posts : pc[m] # "idle"})
  BY DEF MeshInit, DifferInNumber
<1>3. Len(log) <= MaxLogLen
  BY MeshAssumption DEF MeshInit
<1>4. LiveTyped /\ PageTyped
  BY DEF MeshInit, LiveTyped, PageTyped
<1>5. NoLineTwice /\ SnapsHoldKnown /\ RefreshResyncs
  BY DEF MeshInit, NoLineTwice, IsInjective, SnapsHoldKnown, RefreshResyncs
<1> QED BY <1>1, <1>2, <1>3, <1>4, <1>5 DEF MeshInv

LEMMA MeshTyped == MeshInv => MeshTypeOK
  BY DEF MeshInv, BusInv, Holds, LiveTyped, PageTyped, MeshTypeOK

\* What a post did stays done: it returned, its line was pushed, or was dropped.
LEMMA PostsGoOn ==
  ASSUME BusInv, [MeshNext]_meshVars
  PROVE  /\ Returned \subseteq Returned' /\ Pushed \subseteq Pushed' /\ Trimmed \subseteq Trimmed'
         /\ Returned' \subseteq Pushed'
<1>0. Returned' \subseteq Pushed'
  BY DEF Returned, Pushed
<1>1. ASSUME UNCHANGED busVars
      PROVE  Returned' = Returned /\ Pushed' = Pushed /\ Trimmed' = Trimmed
  BY <1>1 DEF busVars, Returned, Pushed, Trimmed
<1>2. ASSUME NEW m \in Posts, Number(m) \/ Send(m)
      PROVE  Returned \subseteq Returned' /\ Pushed' = Pushed /\ Trimmed' = Trimmed
  BY <1>2 DEF BusInv, Number, Send, Returned, Pushed, Trimmed
<1>3. ASSUME NEW m \in Posts, Log(m)
      PROVE  Returned \subseteq Returned' /\ Pushed \subseteq Pushed' /\ Trimmed \subseteq Trimmed'
  <2>1. /\ Returned' = Returned /\ Pushed' = Pushed \union {m} /\ m \notin Pushed
    BY <1>3 DEF BusInv, Log, Returned, Pushed
  <2>2. PICK longer : longer = Append(log, m)
    OBVIOUS
  <2>3. /\ longer \in Seq(Pushed') /\ Len(longer) = Len(log) + 1 /\ Len(log) \in Nat
        /\ \A i \in DOMAIN longer : longer[i] = m \/ longer[i] \in ToSet(log)
    BY <2>1, <2>2 DEF BusInv, Holds, ToSet
  <2>4. PICK d \in Nat : /\ d < Len(longer)
                         /\ Trim(longer) \in Seq(Pushed')
                         /\ Len(Trim(longer)) = Len(longer) - d
                         /\ \A i \in 1..(Len(longer) - d) : Trim(longer)[i] = longer[d + i]
    BY <2>3, TrimDropsOldest
  <2>5. log' = Trim(longer)
    BY <1>3, <2>2 DEF Log
  <2>6. ASSUME NEW i \in DOMAIN log'  PROVE log'[i] = m \/ log'[i] \in ToSet(log)
    <3>1. log' \in Seq(Pushed') /\ Len(log') = Len(longer) - d
      BY <2>4, <2>5
    <3>2. i \in 1..(Len(longer) - d) /\ d + i \in DOMAIN longer
      BY <2>3, <2>4, <3>1
    <3>3. log'[i] = longer[d + i]
      BY <2>4, <2>5, <3>2
    <3> QED BY <2>3, <3>2, <3>3
  <2>7. ToSet(log') \subseteq ToSet(log) \union {m}
    BY <2>6 DEF ToSet
  <2> QED BY <2>1, <2>7 DEF Trimmed
<1> QED
  BY <1>0, <1>1, <1>2, <1>3
  DEF MeshNext, PostStep, ForwarderStep, Forward, Lag, Listen, HandleEvent, RefreshStep,
      AskFeed, ReadFeed, RenderFeed, meshVars

\* A number is taken once.
LEMMA NumbersStayApart ==
  ASSUME BusInv, DifferInNumber({m \in Posts : pc[m] # "idle"}), [MeshNext]_meshVars
  PROVE  DifferInNumber({m \in Posts : pc[m] # "idle"})'
<1>1. ASSUME UNCHANGED <<num, pc>>
      PROVE  DifferInNumber({m \in Posts : pc[m] # "idle"})'
  BY <1>1 DEF DifferInNumber
<1>2. ASSUME NEW m \in Posts, Number(m)
      PROVE  DifferInNumber({n \in Posts : pc[n] # "idle"})'
  BY <1>2 DEF BusInv, Number, DifferInNumber
<1>3. ASSUME NEW m \in Posts, Log(m) \/ Send(m)
      PROVE  DifferInNumber({n \in Posts : pc[n] # "idle"})'
  BY <1>3 DEF BusInv, Log, Send, DifferInNumber
<1> QED
  BY <1>1, <1>2, <1>3
  DEF MeshNext, PostStep, ForwarderStep, Forward, Lag, Listen, HandleEvent, RefreshStep,
      AskFeed, ReadFeed, RenderFeed, meshVars, busVars

LEMMA LogStaysShort ==
  ASSUME BusInv, Len(log) <= MaxLogLen, [MeshNext]_meshVars
  PROVE  Len(log') <= MaxLogLen
<1>1. ASSUME NEW m \in Posts, Log(m)  PROVE Len(log') <= MaxLogLen
  <2>1. PICK longer : longer = Append(log, m)
    OBVIOUS
  <2>2. longer \in Seq(Posts)
    BY <2>1 DEF BusInv, Holds, Pushed
  <2>3. Len(Trim(longer)) <= MaxLogLen
    BY <2>2, MeshAssumption DEF Trim
  <2> QED BY <1>1, <2>1, <2>3 DEF Log
<1>2. ASSUME log' = log  PROVE Len(log') <= MaxLogLen
  BY <1>2
<1> QED
  BY <1>1, <1>2
  DEF MeshNext, PostStep, Number, Send, ForwarderStep, Forward, Lag, Listen, HandleEvent,
      RefreshStep, AskFeed, ReadFeed, RenderFeed, meshVars, busVars

\* What the page holds stays good while the bus goes on.
LEMMA PageKept ==
  ASSUME MeshInv, UNCHANGED pageVars,
         Returned \subseteq Returned', Pushed \subseteq Pushed', Trimmed \subseteq Trimmed'
  PROVE  (PageTyped /\ NoLineTwice /\ SnapsHoldKnown /\ RefreshResyncs)'
<1>1. PageTyped'
  <2>1. Seq(Returned) \subseteq Seq(Returned') /\ Seq(Pushed) \subseteq Seq(Pushed')
    BY SeqsWiden
  <2>2. inbox' \in Seq(Returned') /\ shown' \in Seq(Pushed')
    BY <2>1 DEF MeshInv, PageTyped, pageVars
  <2>3. snap' \in [Refreshes -> Seq(Pushed')] /\ known' \in [Refreshes -> SUBSET Returned']
    BY <2>1 DEF MeshInv, PageTyped, pageVars
  <2> QED BY <2>2, <2>3 DEF MeshInv, PageTyped, pageVars
<1>2. NoLineTwice'
  BY DEF MeshInv, NoLineTwice, IsInjective, pageVars
<1>3. SnapsHoldKnown' /\ RefreshResyncs'
  BY DEF MeshInv, SnapsHoldKnown, RefreshResyncs, Shown, pageVars
<1> QED BY <1>1, <1>2, <1>3

\* A post that sends makes the live stream longer; nothing else of a post reaches the
\* forwarder.
LEMMA LiveKept ==
  ASSUME MeshInv, UNCHANGED liveVars, Returned \subseteq Returned',
         sent' = sent \/ \E m \in Posts : sent' = Append(sent, m)
  PROVE  LiveTyped'
<1>1. sent \in Seq(Posts)
  BY DEF MeshInv, BusInv, Holds, Returned
<1>2. Len(sent) \in Nat /\ Len(sent') \in Nat /\ Len(sent) <= Len(sent')
  BY <1>1
<1> QED BY <1>2 DEF MeshInv, LiveTyped, liveVars

\* The forwarder moves on, and what it emits or lags over has been sent.
LEMMA ForwarderKeeps ==
  ASSUME MeshInv, ForwarderStep, Returned' = Returned, Pushed' = Pushed, Trimmed' = Trimmed
  PROVE  (LiveTyped /\ PageTyped /\ NoLineTwice /\ SnapsHoldKnown /\ RefreshResyncs)'
<1>1. /\ Len(sent) \in Nat /\ DOMAIN sent = 1..Len(sent)
      /\ \A k \in 1..Len(sent) : sent[k] \in Returned
      /\ next \in 1..(Len(sent) + 1) /\ skipped \subseteq Returned /\ inbox \in Seq(Returned)
  BY DEF MeshInv, BusInv, Holds, LiveTyped, PageTyped
<1>2. sent' = sent /\ UNCHANGED <<listening, rpc, snap, shown, known>>
  BY DEF ForwarderStep, Forward, Lag, busVars, pageVars
<1>3. LiveTyped' /\ inbox' \in Seq(Returned)
  <2>1. CASE Forward
    <3>1. next' = next + 1 /\ next \in 1..Len(sent) /\ skipped' = skipped
      BY <1>1, <2>1 DEF Forward
    <3>2. inbox' = inbox \/ inbox' = Append(inbox, sent[next])
      BY <2>1 DEF Forward
    <3>3. inbox' \in Seq(Returned)
      BY <1>1, <3>1, <3>2
    <3>4. next' \in 1..(Len(sent) + 1)
      BY <1>1, <3>1
    <3> QED BY <1>1, <1>2, <3>1, <3>3, <3>4 DEF LiveTyped
  <2>2. CASE Lag
    <3>1. /\ next' = Oldest /\ next < Oldest /\ inbox' = inbox
          /\ skipped' = skipped \union {sent[k] : k \in next..(Oldest - 1)}
      BY <2>2 DEF Lag, pageVars
    <3>2. Oldest \in 1..Len(sent)
      BY <1>1, <3>1, MeshAssumption DEF Oldest
    <3>3. \A k \in next..(Oldest - 1) : k \in 1..Len(sent)
      BY <1>1, <3>2
    <3>4. skipped' \subseteq Returned
      BY <1>1, <3>1, <3>3
    <3> QED BY <1>1, <1>2, <3>1, <3>2, <3>4 DEF LiveTyped
  <2> QED BY <2>1, <2>2 DEF ForwarderStep
<1>4. PageTyped'
  BY <1>2, <1>3 DEF MeshInv, PageTyped
<1>5. (NoLineTwice /\ SnapsHoldKnown /\ RefreshResyncs)'
  BY <1>2 DEF MeshInv, NoLineTwice, IsInjective, SnapsHoldKnown, RefreshResyncs, Shown
<1> QED BY <1>3, <1>4, <1>5

\* A live event shows its line unless the page has it.
LEMMA EventKeeps ==
  ASSUME MeshInv, HandleEvent, Returned' = Returned, Pushed' = Pushed, Trimmed' = Trimmed
  PROVE  (LiveTyped /\ PageTyped /\ NoLineTwice /\ SnapsHoldKnown /\ RefreshResyncs)'
<1>1. UNCHANGED <<sent, next, skipped, listening, rpc, snap, known>>
  BY DEF HandleEvent, busVars, liveVars
<1>2. PICK m : m = Head(inbox) /\ shown' = RenderLine(shown, m)
  BY DEF HandleEvent
<1>3. inbox' \in Seq(Returned) /\ m \in Returned
  BY <1>2 DEF MeshInv, PageTyped, HandleEvent
<1>4. DifferInNumber(Pushed) /\ Returned \subseteq Pushed
  BY DEF MeshInv, DifferInNumber, Returned, Pushed
<1>5. /\ shown' \in Seq(Pushed) /\ IsInjective(shown')
      /\ ToSet(shown) \subseteq ToSet(shown')
  BY <1>2, <1>3, <1>4, RenderLineKeeps DEF MeshInv, PageTyped, NoLineTwice
<1>6. LiveTyped' /\ PageTyped'
  BY <1>1, <1>3, <1>5 DEF MeshInv, LiveTyped, PageTyped
<1>7. SnapsHoldKnown' /\ RefreshResyncs'
  BY <1>1, <1>5 DEF MeshInv, SnapsHoldKnown, RefreshResyncs, Shown
<1> QED BY <1>5, <1>6, <1>7 DEF NoLineTwice

\* A refresh notes what has returned, clones a log that has not dropped more of it than
\* it has dropped by then, and renders all of the clone.
LEMMA RefreshKeeps ==
  ASSUME MeshInv, NEW r \in Refreshes, RefreshStep(r),
         Returned' = Returned, Pushed' = Pushed, Trimmed' = Trimmed
  PROVE  (LiveTyped /\ PageTyped /\ NoLineTwice /\ SnapsHoldKnown /\ RefreshResyncs)'
<1>1. UNCHANGED <<log, sent, next, skipped, listening, inbox>>
  BY DEF RefreshStep, AskFeed, ReadFeed, RenderFeed, busVars, liveVars
<1>2. LiveTyped'
  BY <1>1 DEF MeshInv, LiveTyped
<1>3. CASE AskFeed(r)
  <2>1. PageTyped'
    BY <1>1, <1>3 DEF MeshInv, PageTyped, AskFeed
  <2>2. NoLineTwice'
    BY <1>3 DEF MeshInv, NoLineTwice, IsInjective, AskFeed
  <2>3. SnapsHoldKnown' /\ RefreshResyncs'
    BY <1>3 DEF MeshInv, PageTyped, SnapsHoldKnown, RefreshResyncs, Shown, AskFeed
  <2> QED BY <1>2, <2>1, <2>2, <2>3
<1>4. CASE ReadFeed(r)
  <2>1. log \in Seq(Pushed)
    BY DEF MeshInv, BusInv, Holds
  <2>2. PageTyped'
    BY <1>1, <1>4, <2>1 DEF MeshInv, PageTyped, ReadFeed
  <2>3. NoLineTwice'
    BY <1>4 DEF MeshInv, NoLineTwice, IsInjective, ReadFeed
  <2>4. known[r] \subseteq ToSet(log) \union Trimmed
    BY DEF MeshInv, PageTyped, Trimmed, Returned, Pushed
  <2>5. SnapsHoldKnown' /\ RefreshResyncs'
    BY <1>4, <2>4 DEF MeshInv, PageTyped, SnapsHoldKnown, RefreshResyncs, Shown, ReadFeed
  <2> QED BY <1>2, <2>2, <2>3, <2>5
<1>5. CASE RenderFeed(r)
  <2>1. PICK s \in Seq(Pushed) : s = snap[r]
    BY DEF MeshInv, PageTyped
  <2>2. PICK page : page = FoldLeft(RenderLine, shown, s)
    OBVIOUS
  <2>3. shown' = page
    BY <1>5, <2>1, <2>2 DEF RenderFeed
  <2>4. DifferInNumber(Pushed) /\ Pushed \in SUBSET Posts
    BY DEF MeshInv, DifferInNumber, Pushed
  <2>5. Rendered(page, shown, s, Len(s), Pushed)
    BY <2>1, <2>2, <2>4, RenderAllKeeps DEF MeshInv, PageTyped, NoLineTwice
  <2>6. ToSet(shown) \subseteq ToSet(shown') /\ ToSet(s) \subseteq ToSet(shown')
    <3>1. DOMAIN s = 1..Len(s)
      OBVIOUS
    <3>2. \A i \in DOMAIN s : s[i] \in ToSet(page)
      BY <2>5, <3>1 DEF Rendered
    <3>3. ToSet(s) \subseteq ToSet(page)
      BY <3>2 DEF ToSet
    <3> QED BY <2>3, <2>5, <3>3 DEF Rendered
  <2>7. UNCHANGED <<snap, known>> /\ rpc[r] = "read" /\ rpc' = [rpc EXCEPT ![r] = "done"]
    BY <1>5 DEF RenderFeed
  <2>8. PageTyped' /\ NoLineTwice'
    BY <1>1, <2>3, <2>5, <2>7 DEF MeshInv, PageTyped, Rendered, NoLineTwice
  <2>9. SnapsHoldKnown' /\ RefreshResyncs'
    BY <2>1, <2>6, <2>7 DEF MeshInv, PageTyped, SnapsHoldKnown, RefreshResyncs, Shown
  <2> QED BY <1>2, <2>8, <2>9
<1> QED BY <1>3, <1>4, <1>5 DEF RefreshStep

LEMMA MeshKeepsInv == MeshInv /\ [MeshNext]_meshVars => MeshInv'
<1> SUFFICES ASSUME MeshInv, [MeshNext]_meshVars PROVE MeshInv'
  OBVIOUS
<1> DEFINE Page == LiveTyped /\ PageTyped /\ NoLineTwice /\ SnapsHoldKnown /\ RefreshResyncs
<1>1. /\ BusInv' /\ DifferInNumber({m \in Posts : pc[m] # "idle"})' /\ Len(log') <= MaxLogLen
      /\ Returned \subseteq Returned' /\ Pushed \subseteq Pushed' /\ Trimmed \subseteq Trimmed'
  BY BusNext, NumbersStayApart, LogStaysShort, PostsGoOn DEF MeshInv
<1>2. ASSUME UNCHANGED busVars
      PROVE  Returned' = Returned /\ Pushed' = Pushed /\ Trimmed' = Trimmed
  BY <1>2 DEF busVars, Returned, Pushed, Trimmed
<1>3. CASE PostStep \/ UNCHANGED meshVars
  <2>1. UNCHANGED <<pageVars, liveVars>>
        /\ (sent' = sent \/ \E m \in Posts : sent' = Append(sent, m))
    BY <1>3 DEF PostStep, Number, Log, Send, meshVars, busVars
  <2>2. LiveTyped' /\ (PageTyped /\ NoLineTwice /\ SnapsHoldKnown /\ RefreshResyncs)'
    BY <1>1, <2>1, LiveKept, PageKept
  <2> QED BY <1>1, <2>2 DEF MeshInv
<1>4. CASE ForwarderStep
  <2>1. UNCHANGED busVars
    BY <1>4 DEF ForwarderStep, Forward, Lag
  <2> QED BY <1>1, <1>2, <1>4, <2>1, ForwarderKeeps DEF MeshInv
<1>5. CASE \E outcome \in {"yes", "failed"} : Listen(outcome)
  <2>1. UNCHANGED <<busVars, liveVars, inbox, rpc, snap, shown, known>>
        /\ listening' \in {"yes", "failed"}
    BY <1>5 DEF Listen
  <2>2. LiveTyped' /\ PageTyped'
    BY <1>2, <2>1 DEF MeshInv, LiveTyped, PageTyped, liveVars, busVars
  <2>3. NoLineTwice' /\ SnapsHoldKnown' /\ RefreshResyncs'
    BY <1>2, <2>1
    DEF MeshInv, NoLineTwice, IsInjective, SnapsHoldKnown, RefreshResyncs, Shown
  <2> QED BY <1>1, <2>2, <2>3 DEF MeshInv
<1>6. CASE HandleEvent
  <2>1. UNCHANGED busVars
    BY <1>6 DEF HandleEvent
  <2> QED BY <1>1, <1>2, <1>6, <2>1, EventKeeps DEF MeshInv
<1>7. CASE \E r \in Refreshes : RefreshStep(r)
  <2>1. UNCHANGED busVars
    BY <1>7 DEF RefreshStep, AskFeed, ReadFeed, RenderFeed
  <2> QED BY <1>1, <1>2, <1>7, <2>1, RefreshKeeps DEF MeshInv
<1> QED BY <1>3, <1>4, <1>5, <1>6, <1>7 DEF MeshNext

LEMMA MeshInvariant == MeshSpec => []MeshInv
<1> QED BY MeshStarts, MeshKeepsInv, PTL DEF MeshSpec

\* Type correctness; the log keeps at most MAX_LOG_LEN lines, and neither it nor the
\* page ever holds a line that no post pushed.
THEOREM MeshTypeCorrect == MeshSpec => []MeshTypeOK
<1> QED BY MeshInvariant, MeshTyped, PTL

\* "The seq dedupe absorbs the overlap" (index.html:111-112): however the snapshots of
\* any number of refreshes and the live stream overlap, the page shows a line once.
THEOREM PageShowsOnce == MeshSpec => []NoLineTwice
<1>1. MeshInv => NoLineTwice
  BY DEF MeshInv
<1> QED BY <1>1, MeshInvariant, PTL

\* "The frontend can always re-sync the gap via mesh_feed" (app.rs:40): a rendered
\* refresh shows all that had returned when it was asked for, but what the log dropped.
THEOREM RefreshFillsTheGap == MeshSpec => []RefreshResyncs
<1>1. MeshInv => RefreshResyncs
  BY DEF MeshInv
<1> QED BY <1>1, MeshInvariant, PTL
=============================================================================
