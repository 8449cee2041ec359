--------------------------- MODULE Reconciliation ---------------------------
(***************************************************************************)
(* Bank reconciliation (internal/ledger/reconciliation.go) behind the      *)
(* Treasury's worksheet handlers: the postings of an account are ticked    *)
(* off against a bank statement, and the reconciliation is signed off when *)
(* what was ticked explains the statement to the cent.                     *)
(*                                                                         *)
(* Every operation reads the reconciliation with one statement and writes  *)
(* with another, without a transaction: job[h] is what a handler has read. *)
(* Which postings are posted is the ledger's business (module Ledger); a   *)
(* posted one stays posted.                                                *)
(***************************************************************************)
EXTENDS Integers, Sequences, FiniteSetsExt

CONSTANTS
    Handlers,       \* Treasurers' requests in flight
    Recs,           \* rows of bank_reconciliations (bound: each id is used once)
    Accounts,
    Postings,       \* rows of ledger_postings
    AccountOf,      \* [Postings -> Accounts]
    Amount,         \* [Postings -> Int], in cents
    Statements,     \* bank statements: [date, closing], both integers
    NoRec           \* reconciliation_id IS NULL

ASSUME NoRecAssumption == NoRec \notin Recs

ASSUME PostingsAssumption ==
    /\ AccountOf \in [Postings -> Accounts]
    /\ Amount \in [Postings -> Int]
    /\ Statements \subseteq [date : Int, closing : Int]

VARIABLES
    rec,        \* bank_reconciliations
    signed,     \* completed reconciliations by completed_at
    posted,     \* postings whose transaction is posted
    clearedIn,  \* ledger_postings.reconciliation_id
    job,        \* what each handler has read and is about to write
    overtaken   \* history: reconciliations a tick reached at or after sign-off

vars == <<rec, signed, posted, clearedIn, job, overtaken>>

Row(status, account, date, closing, opening) ==
    [status |-> status, account |-> account, date |-> date,
     closing |-> closing, opening |-> opening]

\* An UPDATE of the status alone.
WithStatus(x, status) == Row(status, x.account, x.date, x.closing, x.opening)

Absent == [status |-> "absent"]

Rec == [status : {"open", "completed", "deleted"}, account : Accounts,
        date : Int, closing : Int, opening : Int]

\* A handler about to insert a row, to tick or untick a posting on one, or to
\* sign one off.
Idle == [pc |-> "idle"]
Starting(row) == [pc |-> "start", row |-> row]
Ticking(r, p, to) == [pc |-> "tick", rec |-> r, posting |-> p, to |-> to]
Completing(r) == [pc |-> "complete", rec |-> r]

Job == {Idle} \cup [pc : {"start"}, row : {x \in Rec : x.status = "open"}]
       \cup {j \in [pc : {"tick"}, rec : Recs, posting : Postings,
                    to : Recs \cup {NoRec}] : j.to \in {j.rec, NoRec}}
       \cup [pc : {"complete"}, rec : Recs]

TypeOK ==
    /\ rec \in [Recs -> Rec \cup {Absent}]
    /\ signed \in Seq(Recs)
    /\ posted \subseteq Postings
    /\ clearedIn \in [Postings -> Recs \cup {NoRec}]
    /\ job \in [Handlers -> Job]
    /\ overtaken \subseteq Recs

SetJob(h, j) == job' = [job EXCEPT ![h] = j]

-----------------------------------------------------------------------------
(* The arithmetic: SummarizeReconciliation.                                *)

\* The postings SUM(...) FILTER (WHERE reconciliation_id = r) ranges over.
Cleared(r) == {p \in posted : clearedIn[p] = r /\ AccountOf[p] = rec[r].account}

Total(ps) == MapThenSumSet(LAMBDA p : Amount[p], ps)

ClearedBalanceCents(r) == rec[r].opening + Total(Cleared(r))

Balanced(r) == rec[r].closing - ClearedBalanceCents(r) = 0

-----------------------------------------------------------------------------
(* Starting: StartReconciliation.                                          *)

SignedAfter(q, r) ==
    \E i, k \in DOMAIN signed : i < k /\ signed[i] = r /\ signed[k] = q

CompletedOf(a) == {r \in Recs : rec[r].status = "completed" /\ rec[r].account = a}

\* ORDER BY statement_date DESC, completed_at DESC LIMIT 1
LastCompleted(a) ==
    {r \in CompletedOf(a) : ~ \E q \in CompletedOf(a) :
        \/ rec[q].date > rec[r].date
        \/ rec[q].date = rec[r].date /\ SignedAfter(q, r)}

NullOpening(a) ==  \* mutant: no row is not zero
    IF CompletedOf(a) = {} THEN {NoRec} ELSE {rec[r].closing : r \in LastCompleted(a)}

\* The one closing balance the query returns, zero when there is no row.
OpeningBalance(a) ==
    IF CompletedOf(a) = {} THEN {0} ELSE {rec[r].closing : r \in LastCompleted(a)}

\* The opening balance is read ...
StartReconciliation(h, a, stmt) ==
    /\ job[h] = Idle
    /\ \E opening \in OpeningBalance(a) :
         SetJob(h, Starting(Row("open", a, stmt.date, stmt.closing, opening)))
    /\ UNCHANGED <<rec, signed, posted, clearedIn, overtaken>>

\* bank_reconciliations_one_open_per_account
OneOpenIndex(a) == \A r \in Recs : rec[r].status = "open" => rec[r].account # a

\* ... and the row inserted later; the partial unique index may refuse it.
InsertReconciliation(h) ==
    /\ job[h].pc = "start"
    /\ IF OneOpenIndex(job[h].row.account)
       THEN \E r \in Recs : /\ rec[r] = Absent
                            /\ rec' = [rec EXCEPT ![r] = job[h].row]
       ELSE UNCHANGED rec
    /\ SetJob(h, Idle)
    /\ UNCHANGED <<signed, posted, clearedIn, overtaken>>

-----------------------------------------------------------------------------
(* Ticking: SetPostingCleared.                                             *)

\* The reconciliation is read and is not completed.
SetPostingCleared(h, r, p, cleared) ==
    /\ job[h] = Idle
    /\ rec[r].status = "open"
    /\ SetJob(h, Ticking(r, p, IF cleared THEN r ELSE NoRec))
    /\ UNCHANGED <<rec, signed, posted, clearedIn, overtaken>>

\* Mutant: forgets who else may have cleared the posting.
ReconcilableByAll(r, p) == p \in posted /\ AccountOf[p] = rec[r].account

\* The UPDATE's WHERE clause: it looks at the posting, never again at the
\* reconciliation's status.
Reconcilable(r, p) ==
    /\ p \in posted
    /\ AccountOf[p] = rec[r].account
    /\ clearedIn[p] \in {r, NoRec}

\* The foreign key refuses a reconciliation deleted since it was read.
TickPosting(h) ==
    LET r == job[h].rec
        p == job[h].posting
        writes == /\ Reconcilable(r, p)
                  /\ job[h].to = r => rec[r].status # "deleted"
    IN
    /\ job[h].pc = "tick"
    /\ clearedIn' = IF writes THEN [clearedIn EXCEPT ![p] = job[h].to] ELSE clearedIn
    /\ overtaken' = IF /\ writes
                       /\ \/ rec[r].status = "completed"
                          \/ \E g \in Handlers : job[g] = Completing(r)
                    THEN overtaken \cup {r} ELSE overtaken
    /\ SetJob(h, Idle)
    /\ UNCHANGED <<rec, signed, posted>>

-----------------------------------------------------------------------------
(* Signing off and abandoning.                                             *)

\* Mutant: a difference is not refused.
CompleteUnbalanced(h, r) ==
    /\ job[h] = Idle
    /\ rec[r].status = "open"
    /\ SetJob(h, Completing(r))
    /\ UNCHANGED <<rec, signed, posted, clearedIn, overtaken>>

\* The summary: open, and the difference is zero.
CompleteReconciliation(h, r) ==
    /\ job[h] = Idle
    /\ rec[r].status = "open"
    /\ Balanced(r)
    /\ SetJob(h, Completing(r))
    /\ UNCHANGED <<rec, signed, posted, clearedIn, overtaken>>

\* UPDATE ... WHERE status = 'open': the difference is not computed again.
SignOff(h) ==
    LET r == job[h].rec IN
    /\ job[h].pc = "complete"
    /\ IF rec[r].status = "open"
       THEN /\ rec' = [rec EXCEPT ![r] = WithStatus(@, "completed")]
            /\ signed' = Append(signed, r)
       ELSE UNCHANGED <<rec, signed>>
    /\ SetJob(h, Idle)
    /\ UNCHANGED <<posted, clearedIn, overtaken>>

\* Mutants: one deletes signed-off work, one leaves its ticks behind.
DeleteAnyReconciliation(r) ==
    /\ rec[r].status \in {"open", "completed"}
    /\ rec' = [rec EXCEPT ![r] = WithStatus(@, "deleted")]
    /\ clearedIn' = [p \in Postings |-> IF clearedIn[p] = r THEN NoRec ELSE clearedIn[p]]
    /\ UNCHANGED <<signed, posted, job, overtaken>>

DeleteKeepsTicks(r) ==
    /\ rec[r].status = "open"
    /\ rec' = [rec EXCEPT ![r] = WithStatus(@, "deleted")]
    /\ UNCHANGED <<signed, posted, clearedIn, job, overtaken>>

\* The DELETE repeats the status check of the read before it, which therefore
\* needs no step of its own; ON DELETE SET NULL releases the ticked postings.
DeleteReconciliation(r) ==
    /\ rec[r].status = "open"
    /\ rec' = [rec EXCEPT ![r] = WithStatus(@, "deleted")]
    /\ clearedIn' = [p \in Postings |-> IF clearedIn[p] = r THEN NoRec ELSE clearedIn[p]]
    /\ UNCHANGED <<signed, posted, job, overtaken>>

\* The ledger posts a transaction (an entry, or the approval of a pending one).
PostingPosted(p) ==
    /\ posted' = posted \cup {p}
    /\ UNCHANGED <<rec, signed, clearedIn, job, overtaken>>

\* The process dies or the statement fails between the read and the write.
Abandon(h) ==
    /\ job[h] # Idle
    /\ SetJob(h, Idle)
    /\ UNCHANGED <<rec, signed, posted, clearedIn, overtaken>>

-----------------------------------------------------------------------------
Init ==
    /\ rec = [r \in Recs |-> Absent]
    /\ signed = <<>>
    /\ posted = {}
    /\ clearedIn = [p \in Postings |-> NoRec]
    /\ job = [h \in Handlers |-> Idle]
    /\ overtaken = {}

HandlerStep(h) ==
    \/ \E a \in Accounts, stmt \in Statements : StartReconciliation(h, a, stmt)
    \/ InsertReconciliation(h)
    \/ \E r \in Recs, p \in Postings, cleared \in BOOLEAN :
         SetPostingCleared(h, r, p, cleared)
    \/ TickPosting(h)
    \/ \E r \in Recs : CompleteReconciliation(h, r)
    \/ SignOff(h)
    \/ Abandon(h)

Next ==
    \/ \E h \in Handlers : HandlerStep(h)
    \/ \E r \in Recs : DeleteReconciliation(r)
    \/ \E p \in Postings : PostingPosted(p)

Spec == Init /\ [][Next]_vars

-----------------------------------------------------------------------------
(* Properties.                                                             *)

\* Ticks, deletions and sign-offs in any order leave every cleared posting with
\* a reconciliation that exists, of its own account, and posted.
ClearedWhereItBelongs ==
    \A p \in Postings : clearedIn[p] # NoRec =>
        /\ rec[clearedIn[p]].status \in {"open", "completed"}
        /\ rec[clearedIn[p]].account = AccountOf[p]
        /\ p \in posted

\* However many Treasurers start at once, an account has one reconciliation in
\* progress.
OneOpenPerAccount ==
    \A r, q \in Recs :
        rec[r].status = "open" /\ rec[q].status = "open" /\ rec[r].account = rec[q].account
            => r = q

\* A signed-off reconciliation is never deleted, reopened or edited, whoever
\* completes and deletes at the same moment, and is signed off once.
SignedOffIsFinal ==
    [][\A r \in Recs : rec[r].status = "completed" => rec'[r] = rec[r]]_vars

\* A posting cleared in a signed-off reconciliation is never taken over by
\* another one; it can only be released, by a tick that overtook the sign-off.
NeverStolen ==
    [][\A p \in Postings, r \in Recs :
        clearedIn[p] = r /\ rec[r].status = "completed" =>
            clearedIn'[p] = r \/ (clearedIn'[p] = NoRec /\ r \in overtaken')]_vars

\* A signed-off reconciliation explains its statement to the cent, unless a
\* tick read it open and wrote after its difference had been computed.
BalancedUnlessOvertaken ==
    \A r \in Recs : rec[r].status = "completed" => Balanced(r) \/ r \in overtaken

\* What it rests on: a handler about to sign off saw a zero difference.
CompletersSawZero ==
    \A h \in Handlers : job[h].pc = "complete" /\ rec[job[h].rec].status = "open" =>
        Balanced(job[h].rec) \/ job[h].rec \in overtaken

\* And no handler ticks on or signs off a reconciliation that never was.
HandlersHaveRows ==
    \A h \in Handlers : job[h].pc \in {"tick", "complete"} => rec[job[h].rec] # Absent

\* "The reconciliation cannot be marked complete until that difference is
\* exactly zero", and "once complete, its cleared postings stay stamped with it".
SignedOffIsBalanced == \A r \in Recs : rec[r].status = "completed" => Balanced(r)
=============================================================================
