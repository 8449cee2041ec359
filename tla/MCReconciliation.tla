-------------------------- MODULE MCReconciliation --------------------------
(* Instance of Reconciliation for TLC: two rows, a deposit and a cheque on  *)
(* one account and a deposit on another, and two statements.                *)
EXTENDS Reconciliation, TLC

CONSTANTS h1, h2, r1, r2, p1, p2, q, general, fund

MCHandlers == {h1, h2}
MCRecs == {r1, r2}
MCAccounts == {general, fund}
MCPostings == {p1, p2, q}
MCAccountOf == p1 :> general @@ p2 :> general @@ q :> fund
MCAmount == p1 :> 2 @@ p2 :> -1 @@ q :> 2
MCStatements == {[date |-> 1, closing |-> 2], [date |-> 2, closing |-> 1]}
HandlerSymmetry == Permutations({h1, h2})
=============================================================================
