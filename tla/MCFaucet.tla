------------------------------- MODULE MCFaucet -------------------------------
(* Small instances of Faucet for TLC. *)
EXTENDS Faucet, TLC

CONSTANTS r1, r2, r3, e1, e2, k1, o1, o2

OneRequest == r1 :> e1

\* Two payees.
TwoEntitlements == r1 :> e1 @@ r2 :> e2
\* A payee asking twice, the second time without its key, and another payee
\* with the same key.
Mixed == r1 :> e1 @@ r2 :> e1 @@ r3 :> e2

NoKeys == [r \in Claims |-> None]
OneKey == [r \in Claims |-> IF r \in {r1, r3} THEN k1 ELSE None]
===============================================================================
