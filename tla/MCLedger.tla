------------------------------ MODULE MCLedger ------------------------------
(* Instance of Ledger for TLC: one Scout, one trip fund, two handlers.     *)
EXTENDS Ledger, TLC

CONSTANTS h1, h2, treasurer, leader, family, general, external, scout, fund

MCHandlers == {h1, h2}
MCOneHandler == {h1}   \* no concurrency at all
MCMembers == {treasurer, leader, family}
MCTreasurers == {treasurer}
MCExpenseApprovers == {leader}
MCSubmissionApprovers == {leader}
MCScoutAccounts == {scout}
MCTripFunds == {fund}
MCOwners == [s \in {scout} |-> {family}]
MCAmounts == {2}
\* Money reaches the Scout and the fund and leaves both; with Threshold = 1 the
\* Scout's expense of 2 competes, pending, with push transfers of the same 2.
MCForms ==
    {[kind |-> "deposit", from |-> external, to |-> scout, amount |-> 2],
     [kind |-> "expense", from |-> scout, to |-> external, amount |-> 2],
     [kind |-> "manual_adjustment", from |-> fund, to |-> general, amount |-> 2]}
HandlerSymmetry == Permutations({h1, h2})
=============================================================================
