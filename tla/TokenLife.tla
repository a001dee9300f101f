----------------------------- MODULE TokenLife -----------------------------
(***************************************************************************)
(* What a ledger of Good Tokens promises of each token: the life cycle of  *)
(* src/core/iedb-crypto/src/tokens/mod.rs:20-23.  A token is minted once   *)
(* and is spent or burned at most once; a revoked token is revoked for     *)
(* good.                                                                   *)
(***************************************************************************)
CONSTANT Tokens

VARIABLE life

Lives == {"unminted", "minted", "active", "spent", "burned", "revoked"}

Moves == {<<"unminted", "minted">>, <<"minted", "active">>, <<"active", "spent">>,
          <<"minted", "burned">>, <<"active", "burned">>}
         \union ({"minted", "active", "spent", "burned"} \X {"revoked"})

LifeInit == life = [t \in Tokens |-> "unminted"]

Live(t) == \E to \in Lives : /\ <<life[t], to>> \in Moves
                             /\ life' = [life EXCEPT ![t] = to]

LifeSpec == LifeInit /\ [][\E t \in Tokens : Live(t)]_life
============================================================================
