------------------------------- MODULE Ledger -------------------------------
(***************************************************************************)
(* A unit's double-entry books (internal/ledger) together with the         *)
(* approval workflow that decides pending entries (internal/approval) and  *)
(* the Treasury, expense-approval and calendar-approval handlers that      *)
(* drive them (internal/web).                                              *)
(*                                                                         *)
(* Postgres runs every statement at READ COMMITTED and the code opens an   *)
(* explicit transaction only around an insert and around a decision, so a  *)
(* handler is a process that reads, then writes, with other handlers in    *)
(* between.  job[h] is what handler h has read and not yet acted on.       *)
(*                                                                         *)
(* A decision is one step: approval.Decide locks the debited accounts with *)
(* FOR UPDATE, and a concurrent posting or close of such an account waits  *)
(* for that lock, so nothing that matters to the check interleaves.        *)
(*                                                                         *)
(* Every handler writes exactly two postings, so a transaction is an entry *)
(* that takes amount from one account and gives it to another: the sum of  *)
(* its postings is zero by shape, as insertTransaction and the deferred    *)
(* trigger of migration 0006 require.                                      *)
(***************************************************************************)
EXTENDS Integers, FiniteSets, FiniteSetsExt

CONSTANTS
    Handlers,           \* HTTP requests that may be in flight at once
    Members,            \* people who act in the unit
    Treasurers,         \* hold units.CapManageLedger
    ExpenseApprovers,   \* hold units.CapApproveExpenses
    SubmissionApprovers,\* hold units.CapApproveSubmissions
    General, External,  \* the unit's general fund and its contra-account
    ScoutAccounts,      \* one individual account per Scout
    Owners,             \* [ScoutAccounts -> SUBSET Members]: self-service families
    TripFunds,
    Amounts,            \* cents a form may carry (parseDollarsToCents > 0)
    Forms,              \* the entries a Treasurer may type in, a set of Form
    Threshold,          \* settings.ExpenseApprovalThresholdCents
    MaxTx,              \* bound on rows of ledger_transactions
    NoEntry             \* contents of a row not inserted yet

Account == {General, External} \cup ScoutAccounts \cup TripFunds
TxId == 1..MaxTx
NoTx == 0

ASSUME MembersAssumption ==
    /\ Treasurers \subseteq Members
    /\ ExpenseApprovers \subseteq Members
    /\ SubmissionApprovers \subseteq Members
    /\ Owners \in [ScoutAccounts -> SUBSET Members]

ASSUME AccountsAssumption ==
    /\ General # External
    /\ {General, External} \cap (ScoutAccounts \cup TripFunds) = {}
    /\ ScoutAccounts \cap TripFunds = {}

\* What a Treasurer types in: deposits and expenses name one account, the other
\* side being the external account, and a transfer names two different ones.
Form ==
    [kind : {"deposit"}, from : {External}, to : Account, amount : Amounts]
    \cup [kind : {"expense"}, from : Account, to : {External}, amount : Amounts]
    \cup {f \in [kind : {"manual_adjustment"}, from : Account, to : Account,
                 amount : Amounts] : f.from # f.to}

ASSUME FormsAssumption == Forms \subseteq Form

ASSUME NumbersAssumption ==
    /\ Amounts \subseteq Nat \ {0}
    /\ Threshold \in Nat
    /\ MaxTx \in Nat

\* The columns of ledger_transactions and ledger_postings that are written
\* once, by the INSERT; mode is the status insertTransaction is called with.
Entry == [kind : {"deposit", "expense", "manual_adjustment",
                  "trip_fund_transfer", "reversal"},
          from : Account, to : Account, amount : Amounts, by : Members,
          mode : {"posted", "pending_approval"}, reverses : TxId \cup {NoTx}]

ASSUME NoEntryAssumption == NoEntry \notin Entry

VARIABLES
    account,    \* ledger_accounts.status, "absent" before the row exists
    entry,      \* the immutable columns of transaction t, NoEntry before
    status,     \* ledger_transactions.status, "absent" before the row exists
    request,    \* approval_requests.status of the request about t, or "none"
    decidedBy,  \* how t's request was decided: the handler and the member
    linked,     \* transactions whose approval_request_id is set
    job         \* what each in-flight handler has read, and where it stands

vars == <<account, entry, status, request, decidedBy, linked, job>>
books == <<account, entry, status, request, decidedBy, linked>>

Routes == {"approvals", "treasury", "expense_approvals"}
Undecided == [route |-> "none", member |-> "none"]

\* A handler's step, the entry it is writing, that entry's row once inserted,
\* and the account it is closing (External when it closes none).  A handler that
\* has inserted holds the row's id until it has linked its request.
JobAt(pc, e, t, f) == [pc |-> pc, entry |-> e, tx |-> t, fund |-> f]
Idle == JobAt("idle", NoEntry, NoTx, External)

Job == {j \in [pc : {"idle", "funded", "validated", "inserted", "submitted", "closing"},
               entry : Entry \cup {NoEntry}, tx : TxId \cup {NoTx}, fund : Account] :
            j.pc \in {"inserted", "submitted"} => j.tx \in TxId}

TypeOK ==
    /\ account \in [Account -> {"absent", "open", "closed"}]
    /\ entry \in [TxId -> Entry \cup {NoEntry}]
    /\ status \in [TxId -> {"absent", "pending_approval", "posted", "rejected"}]
    /\ request \in [TxId -> {"none", "pending", "approved", "rejected"}]
    /\ decidedBy \in [TxId -> [route : Routes, member : Members] \cup {Undecided}]
    /\ linked \subseteq TxId
    /\ job \in [Handlers -> Job]

-----------------------------------------------------------------------------
(* Balances.                                                               *)

Posted == {t \in TxId : status[t] = "posted"}

\* What entry e adds to account a.
Effect(e, a) == (IF e.to = a THEN e.amount ELSE 0)
              - (IF e.from = a THEN e.amount ELSE 0)

\* BalanceForAccount: every posting on the account of a posted transaction.
BalanceForAccount(a) == MapThenSumSet(LAMBDA t : Effect(entry[t], a), Posted)

-----------------------------------------------------------------------------
(* Writing an entry: insertTransaction.                                    *)

IsOpen(a) == account[a] = "open"

\* The status check made before the database transaction is opened.
Validates(e) == IsOpen(e.from) /\ IsOpen(e.to)

\* idx_ledger_transactions_one_reversal_per_transaction
ReversalExists(t) == \E u \in TxId : entry[u] # NoEntry /\ entry[u].reverses = t
UniqueReversalWithoutIndex(e) == TRUE  \* mutant: migration 0038 has no unique index
UniqueReversal(e) == e.reverses = NoTx \/ ~ReversalExists(e.reverses)

\* Rows are numbered in the order they are inserted.
Fresh(t) == status[t] = "absent" /\ \A u \in 1..(t - 1) : status[u] # "absent"

SetJob(h, j) == job' = [job EXCEPT ![h] = j]

\* The INSERTs and their commit.  A posted entry is the handler's last step;
\* a pending one still needs its approval request.
Insert(h) ==
    LET e == job[h].entry IN
    /\ job[h].pc = "validated"
    /\ UniqueReversal(e)
    /\ \E t \in TxId :
         /\ Fresh(t)
         /\ entry' = [entry EXCEPT ![t] = e]
         /\ status' = [status EXCEPT ![t] = e.mode]
         /\ SetJob(h, IF e.mode = "posted" THEN Idle
                      ELSE JobAt("inserted", e, t, External))
    /\ UNCHANGED <<account, request, decidedBy, linked>>

\* The unique index turns a second reversal away; nothing is written.
InsertRefused(h) ==
    /\ job[h].pc = "validated"
    /\ ~UniqueReversal(job[h].entry)
    /\ SetJob(h, Idle)
    /\ UNCHANGED books

\* approval.Submit, a commit of its own.
Submit(h) ==
    /\ job[h].pc = "inserted"
    /\ request' = [request EXCEPT ![job[h].tx] = "pending"]
    /\ SetJob(h, JobAt("submitted", job[h].entry, job[h].tx, External))
    /\ UNCHANGED <<account, entry, status, decidedBy, linked>>

\* UPDATE ledger_transactions SET approval_request_id, a third commit.
Link(h) ==
    /\ job[h].pc = "submitted"
    /\ linked' = linked \cup {job[h].tx}
    /\ SetJob(h, Idle)
    /\ UNCHANGED <<account, entry, status, request, decidedBy>>

\* The process dies, the client goes away or a statement fails: what the
\* handler has committed stays, the rest never happens.
Abandon(h) ==
    /\ job[h].pc # "idle"
    /\ SetJob(h, Idle)
    /\ UNCHANGED books

-----------------------------------------------------------------------------
(* Manual entries: TreasuryPostTransaction.                                *)

OverThreshold(e) == e.kind = "expense" /\ e.amount > Threshold

\* Someone other than the Treasurer can decide the expense.
HasEligibleApprover(m) == ExpenseApprovers \ {m} # {}

\* Mutant: the status literal is not one of ledger_transaction_status.
FiledAsPending(f, m) ==
    [kind |-> f.kind, from |-> f.from, to |-> f.to, amount |-> f.amount, by |-> m,
     mode |-> IF OverThreshold(f) THEN "pending" ELSE "posted", reverses |-> NoTx]

\* The entry a form becomes: an expense over the threshold waits for approval.
Filed(f, m) ==
    [kind |-> f.kind, from |-> f.from, to |-> f.to, amount |-> f.amount, by |-> m,
     mode |-> IF OverThreshold(f) THEN "pending_approval" ELSE "posted",
     reverses |-> NoTx]

\* EnsureExternalAccount comes first and creates the external account on its
\* first use, even for an entry that is then refused.
TreasuryPostTransaction(h, m) ==
    /\ job[h].pc = "idle"
    /\ m \in Treasurers
    /\ \E f \in Forms :
         /\ account' = IF f.kind = "manual_adjustment" THEN account
                       ELSE [account EXCEPT ![External] = "open"]
         /\ SetJob(h, IF /\ OverThreshold(f) => HasEligibleApprover(m)
                         /\ Validates(f)'
                      THEN JobAt("validated", Filed(f, m), NoTx, External)
                      ELSE Idle)
    /\ UNCHANGED <<entry, status, request, decidedBy, linked>>

\* The entry that undoes t, linked to it.
Opposite(t, m) ==
    [kind |-> "reversal", from |-> entry[t].to, to |-> entry[t].from,
     amount |-> entry[t].amount, by |-> m, mode |-> "posted", reverses |-> t]

\* ReverseTransaction up to insertTransaction's status check: the original is
\* posted, is no reversal, has none yet, and its accounts are open.
TreasuryReverseTransaction(h, m) ==
    /\ job[h].pc = "idle"
    /\ m \in Treasurers
    /\ \E t \in TxId :
         /\ status[t] = "posted"
         /\ entry[t].reverses = NoTx
         /\ ~ReversalExists(t)
         /\ Validates(Opposite(t, m))
         /\ SetJob(h, JobAt("validated", Opposite(t, m), NoTx, External))
    /\ UNCHANGED books

-----------------------------------------------------------------------------
(* Push transfers: TreasuryRequestTransfer and RequestTripFundTransfer.    *)

PushTransfer(m, s, f, amt) ==
    [kind |-> "trip_fund_transfer", from |-> s, to |-> f, amount |-> amt, by |-> m,
     mode |-> "pending_approval", reverses |-> NoTx]

CanMoveMoney(m, s) == m \in Owners[s] \cup Treasurers

\* The trip fund is open and the Scout's balance covers the amount, now.
TreasuryRequestTransfer(h, m) ==
    /\ job[h].pc = "idle"
    /\ \E s \in ScoutAccounts, f \in TripFunds, amt \in Amounts :
         /\ CanMoveMoney(m, s)
         /\ IsOpen(f)
         /\ IsOpen(s)
         /\ BalanceForAccount(s) >= amt
         /\ SetJob(h, JobAt("funded", PushTransfer(m, s, f, amt), NoTx, External))
    /\ UNCHANGED books

\* insertTransaction's own status check, a later statement.
ValidateTransfer(h) ==
    /\ job[h].pc = "funded"
    /\ SetJob(h, IF Validates(job[h].entry)
                 THEN JobAt("validated", job[h].entry, NoTx, External) ELSE Idle)
    /\ UNCHANGED books

-----------------------------------------------------------------------------
(* Decisions: approval.Decide behind its three handlers.                   *)

AffordableAtRequestTime(e) == IsOpen(e.from)  \* mutant: no re-check of the balance

\* Every account the entry debits is open and can afford it; a transfer of an
\* account to itself debits it all the same.
Affordable(e) ==
    /\ IsOpen(e.from)
    /\ BalanceForAccount(e.from) - e.amount >= 0

\* Mutant: the UPDATE has no AND status = 'pending'.
DecideAnyRequest(t, m, route, approve) ==
    /\ request[t] # "none"
    /\ approve => Affordable(entry[t])
    /\ request' = [request EXCEPT ![t] = IF approve THEN "approved" ELSE "rejected"]
    /\ status' = [status EXCEPT ![t] = IF approve THEN "posted" ELSE "rejected"]
    /\ decidedBy' = [decidedBy EXCEPT ![t] = [route |-> route, member |-> m]]
    /\ UNCHANGED <<account, entry, linked, job>>

\* Mutant: rejecting updates the request and forgets the transaction.
DecideKeepsRejected(t, m, route, approve) ==
    /\ request[t] = "pending"
    /\ approve => Affordable(entry[t])
    /\ request' = [request EXCEPT ![t] = IF approve THEN "approved" ELSE "rejected"]
    /\ status' = [status EXCEPT ![t] = IF approve THEN "posted" ELSE @]
    /\ decidedBy' = [decidedBy EXCEPT ![t] = [route |-> route, member |-> m]]
    /\ UNCHANGED <<account, entry, linked, job>>

Decide(t, m, route, approve) ==
    /\ request[t] = "pending"
    /\ approve => Affordable(entry[t])
    /\ request' = [request EXCEPT ![t] = IF approve THEN "approved" ELSE "rejected"]
    /\ status' = [status EXCEPT ![t] = IF approve THEN "posted" ELSE "rejected"]
    /\ decidedBy' = [decidedBy EXCEPT ![t] = [route |-> route, member |-> m]]
    /\ UNCHANGED <<account, entry, linked, job>>

\* The calendar's approval list: every pending request of the unit.
ApprovalDecide(m, t, approve) ==
    /\ m \in SubmissionApprovers
    /\ Decide(t, m, "approvals", approve)

TreasuryDecideTransfer(m, t, approve) ==
    /\ m \in Treasurers
    /\ Decide(t, m, "treasury", approve)

\* The pending request's submitter is read first, and never changes: reading it
\* together with Decide's own check of the pending status is the same.
ExpenseApprovalDecide(m, t, approve) ==
    /\ m \in ExpenseApprovers
    /\ request[t] = "pending"
    /\ entry[t].by # m
    /\ Decide(t, m, "expense_approvals", approve)

-----------------------------------------------------------------------------
(* Trip funds.                                                             *)

TreasuryCreateTripFund(f) ==
    /\ account[f] = "absent"
    /\ account' = [account EXCEPT ![f] = "open"]
    /\ UNCHANGED <<entry, status, request, decidedBy, linked, job>>

\* CloseTripFund reads the account and then its balance ...
TreasuryCloseTripFund(h, f) ==
    /\ job[h].pc = "idle"
    /\ IsOpen(f)
    /\ BalanceForAccount(f) = 0
    /\ SetJob(h, JobAt("closing", NoEntry, NoTx, f))
    /\ UNCHANGED books

\* ... and closes it in a later, unconditional UPDATE.
CloseAccount(h) ==
    /\ job[h].pc = "closing"
    /\ account' = [account EXCEPT ![job[h].fund] = "closed"]
    /\ SetJob(h, Idle)
    /\ UNCHANGED <<entry, status, request, decidedBy, linked>>

-----------------------------------------------------------------------------
\* The unit's general fund and the Scouts' accounts exist and are empty.
Init ==
    /\ account = [a \in Account |->
                    IF a \in {General} \cup ScoutAccounts THEN "open" ELSE "absent"]
    /\ entry = [t \in TxId |-> NoEntry]
    /\ status = [t \in TxId |-> "absent"]
    /\ request = [t \in TxId |-> "none"]
    /\ decidedBy = [t \in TxId |-> Undecided]
    /\ linked = {}
    /\ job = [h \in Handlers |-> Idle]

HandlerStep(h) ==
    \/ Insert(h) \/ InsertRefused(h) \/ Submit(h) \/ Link(h) \/ Abandon(h)
    \/ ValidateTransfer(h) \/ CloseAccount(h)
    \/ \E m \in Members : \/ TreasuryPostTransaction(h, m)
                          \/ TreasuryReverseTransaction(h, m)
                          \/ TreasuryRequestTransfer(h, m)
    \/ \E f \in TripFunds : TreasuryCloseTripFund(h, f)

Decision(t) ==
    \E m \in Members, approve \in BOOLEAN :
        \/ ApprovalDecide(m, t, approve)
        \/ TreasuryDecideTransfer(m, t, approve)
        \/ ExpenseApprovalDecide(m, t, approve)

Next ==
    \/ \E h \in Handlers : HandlerStep(h)
    \/ \E t \in TxId : Decision(t)
    \/ \E f \in TripFunds : TreasuryCreateTripFund(f)

Spec == Init /\ [][Next]_vars

-----------------------------------------------------------------------------
(* Properties.                                                             *)

\* An approval request and the transaction it is about never tell different
\* stories: approved means posted, rejected means rejected, and an entry that
\* needed approval is posted only through one.  approval.Decide keeps the two
\* rows in one database transaction for this.
RequestsAgreeWithBooks ==
    \A t \in TxId :
        /\ request[t] = "pending" => status[t] = "pending_approval"
        /\ request[t] = "rejected" <=> status[t] = "rejected"
        /\ request[t] = "approved" <=>
              status[t] = "posted" /\ entry[t].mode = "pending_approval"

\* However many Treasurers press Reverse at once, an entry is undone at most
\* once, by its exact opposite, and a reversal itself is never undone.
ReversedAtMostOnce ==
    \A u \in TxId : entry[u] # NoEntry /\ entry[u].reverses # NoTx =>
        LET t == entry[u].reverses IN
        /\ status[t] = "posted"
        /\ entry[t].reverses = NoTx
        /\ entry[t].from = entry[u].to
        /\ entry[t].to = entry[u].from
        /\ entry[t].amount = entry[u].amount
        /\ \A v \in TxId : entry[v] # NoEntry /\ entry[v].reverses = t => v = u

\* A posted or rejected entry stays what it is for ever, its postings are
\* never edited, and a decision is taken once, by one person.
HistoryIsImmutable ==
    [][\A t \in TxId :
        /\ entry[t] # NoEntry => entry'[t] = entry[t]
        /\ status[t] \in {"posted", "rejected"} => status'[t] = status[t]
        /\ request[t] \in {"approved", "rejected"} =>
              request'[t] = request[t] /\ decidedBy'[t] = decidedBy[t]]_vars

\* What the two properties above rest on.  A row's status and its request move
\* together ...
RowsAgree ==
    \A t \in TxId :
        /\ status[t] = "absent" <=> entry[t] = NoEntry
        /\ status[t] = "absent" => request[t] = "none"
        /\ status[t] = "pending_approval" =>
              request[t] \in {"none", "pending"} /\ entry[t].mode = "pending_approval"
        /\ status[t] = "rejected" =>
              request[t] = "rejected" /\ entry[t].mode = "pending_approval"
        /\ status[t] = "posted" =>
              request[t] = IF entry[t].mode = "posted" THEN "none" ELSE "approved"

\* ... because the handler that inserted a pending row is the only one that will
\* ever submit it ...
SubmitterIsAlone ==
    \A h \in Handlers : job[h].pc = "inserted" =>
        /\ job[h].tx \in TxId
        /\ status[job[h].tx] = "pending_approval"
        /\ request[job[h].tx] = "none"
        /\ \A g \in Handlers : job[g].pc = "inserted" /\ job[g].tx = job[h].tx => g = h

\* ... and a reversal, from the moment it is prepared, mirrors a posted entry
\* that is not itself a reversal.
Mirrors(e) ==
    e.reverses # NoTx =>
        LET t == e.reverses IN
        /\ status[t] = "posted"
        /\ entry[t].reverses = NoTx
        /\ entry[t].from = e.to
        /\ entry[t].to = e.from
        /\ entry[t].amount = e.amount
        /\ e.mode = "posted"

PreparedEntriesMirror ==
    \A h \in Handlers : job[h].pc \in {"funded", "validated"} =>
        job[h].entry # NoEntry /\ Mirrors(job[h].entry)

IInv == RowsAgree /\ SubmitterIsAlone /\ PreparedEntriesMirror /\ ReversedAtMostOnce

\* Approving a pending entry never debits a closed account and never leaves the
\* account it debits below zero, whatever was posted or closed between the
\* request and the decision.
ApprovalNeverOverdraws ==
    [][\A t \in TxId : request[t] = "pending" /\ request'[t] = "approved" =>
          /\ IsOpen(entry[t].from)
          /\ BalanceForAccount(entry[t].from)' >= 0]_vars

\* "Once closed, insertTransaction's status check rejects any further posting
\* to the account": no entry takes effect on an account that is not open.
ClosedAccountsTakeNoPostings ==
    [][\A t \in TxId : status[t] # "posted" /\ status'[t] = "posted" =>
          IsOpen(entry'[t].from) /\ IsOpen(entry'[t].to)]_vars

\* "Nothing moves until someone with units.CapApproveExpenses decides it", and
\* not the person who entered it: a posted expense over the threshold was
\* decided by such a second person.
LargeExpenseHasSecondPerson ==
    \A t \in TxId : status[t] = "posted" /\ OverThreshold(entry[t]) =>
        decidedBy[t].member \in ExpenseApprovers \ {entry[t].by}
=============================================================================
