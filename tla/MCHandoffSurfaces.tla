------------------------- MODULE MCHandoffSurfaces -------------------------
(* HandoffSurfaces for TLC.  No action and no invariant here reads the      *)
(* order of the feed, so the view keeps the lines and how many intents      *)
(* there are.                                                               *)
EXTENDS HandoffSurfaces, TLC

\* What one client makes is interchangeable, and so are the intents made up.
Symmetry == Permutations(Calls \intersect PageRequests)
            \union Permutations(Presentations \intersect PageRequests)
            \union Permutations(Presentations \intersect OkxRequests)
            \union Permutations(MockIntents)

View == <<gateVars, stage, answer, page, pending, sent, minted,
          {feed[n] : n \in {n \in DOMAIN feed : feed[n].kind # "intent"}},
          Cardinality({n \in DOMAIN feed : feed[n].kind = "intent"})>>
============================================================================
