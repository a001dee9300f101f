-------------------------- MODULE MCHandoffServer --------------------------
(* HandoffServer for TLC.  The clients, payments and intents are            *)
(* interchangeable.                                                         *)
EXTENDS HandoffServer, TLC

Symmetry == Permutations(Calls) \union Permutations(Presentations)
            \union Permutations(Payments) \union Permutations(Intents)
============================================================================
