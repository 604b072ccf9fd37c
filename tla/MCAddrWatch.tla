------------------------------ MODULE MCAddrWatch -----------------------------
(***************************************************************************)
(* A chain a that carries the watched transaction t in a1, and branches    *)
(* that may replace it: b, which carries t later, and c, which never does. *)
(***************************************************************************)
EXTENDS AddrWatch

CONSTANTS g, a1, a2, b1, b2, b3, b4, c1, c2, c3, t, n, p1, p2

Branches ==
  [b \in Blocks |->
     CASE b = a2 -> a1 [] b = b2 -> b1 [] b = b3 -> b2 [] b = b4 -> b3
       [] b = c2 -> c1 [] b = c3 -> c2 [] OTHER -> g]
Depths ==
  [b \in Blocks |->
     CASE b = g -> 0 [] b \in {a1, b1, c1} -> 1 [] b \in {a2, b2, c2} -> 2
       [] b \in {b3, c3} -> 3 [] b = b4 -> 4]

Carried == [b \in Blocks |-> IF b \in {a1, b3} THEN {t} ELSE {}]
About == [a \in Alerts |-> t]
===============================================================================
