------------------------------ MODULE MCUtxoScan ------------------------------
(***************************************************************************)
(* A small node: two branches over the genesis block, and coins of two     *)
(* scripts.  Branch a turns c1 into c2; branch b adds c3 and spends c1.    *)
(***************************************************************************)
EXTENDS UtxoScan

CONSTANTS g, a1, a2, b1, b2, b3, c1, c2, c3, s1, s2, s3, w1, w2, j1, j2, j3, p1, x1

Chain == [b \in Blocks |-> CASE b = a2 -> a1 [] b = b2 -> b1 [] b = b3 -> b2 [] OTHER -> g]
Depths ==
  [b \in Blocks |-> CASE b = g -> 0 [] b \in {a1, b1} -> 1 [] b \in {a2, b2} -> 2 [] b = b3 -> 3]
Consumed == [b \in Blocks |-> IF b \in {a1, b2} THEN {c1} ELSE {}]
Added == [b \in Blocks |-> IF b = a1 THEN {c2} ELSE IF b = b1 THEN {c3} ELSE {}]
Utxos ==
  [b \in Blocks |-> CASE b = g -> {c1} [] b \in {a1, a2} -> {c2}
                      [] b = b1 -> {c1, c3} [] b \in {b2, b3} -> {c3}]
Owned == [w \in Wallets |-> IF w = w1 THEN {s1} ELSE {s1, s2, s3}]
Locked == [c \in Coins |-> IF c = c3 THEN s2 ELSE s1]
Wanted == [j \in Jobs |-> IF j = j2 THEN w2 ELSE w1]
Sends == [x \in Senders |-> c1]

\* Two jobs of one wallet with a client that polls them and one that spends
\* the wallet's coin; three jobs of two wallets.
Small == {{j1, j3, p1, x1}, {j1, j2, j3}}
===============================================================================
