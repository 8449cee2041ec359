------------------------------ MODULE MCOrders ------------------------------
(* Instance of Orders for TLC: one order, three requests, two Scouts, and   *)
(* rules that give something, nothing and too much for a cart of one item.  *)
EXTENDS Orders

CONSTANTS r1, r2, r3, o1, s1, s2

MCRequests == {r1, r2, r3}
MCOrders == {o1}
MCScouts == {s1, s2}
MCCarts == {[total |-> 3, quantity |-> 1]}
MCRules == {[mode |-> "percentage", value |-> 50],
            [mode |-> "percentage", value |-> 10],
            [mode |-> "fixed_per_item", value |-> 4]}
=============================================================================
