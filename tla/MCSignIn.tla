------------------------------ MODULE MCSignIn ------------------------------
(* One login and two requests at a time: everything that interleaves in     *)
(* SignIn is about one login, but for the keys that others have registered. *)
EXTENDS SignIn, TLC

CONSTANTS r1, r2, l1, p1, p2, t1, k1, k2, c1

Symmetry == Permutations(Requests) \cup Permutations(Keys)
=============================================================================
