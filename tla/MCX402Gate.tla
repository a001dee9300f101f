---------------------------- MODULE MCX402Gate ----------------------------
(* X402Gate for TLC: a few calls, presentations and payments, which are     *)
(* interchangeable, and a short clock.                                      *)
EXTENDS X402Gate, TLC

Symmetry == Permutations(Calls) \union Permutations(Presentations)
            \union Permutations(Payments) \union Permutations(Intents)
===========================================================================
