SPECIFICATION Spec
CONSTANTS
    h1 = h1
    h2 = h2
    treasurer = treasurer
    leader = leader
    family = family
    general = general
    external = external
    scout = scout
    fund = fund
    NoEntry = NoEntry
    Handlers <- MCOneHandler
    Members <- MCMembers
    Treasurers <- MCTreasurers
    ExpenseApprovers <- MCExpenseApprovers
    SubmissionApprovers <- MCSubmissionApprovers
    General = general
    External = external
    ScoutAccounts <- MCScoutAccounts
    Owners <- MCOwners
    TripFunds <- MCTripFunds
    Amounts <- MCAmounts
    Forms <- MCForms
    Threshold = 1
    MaxTx = 3
PROPERTY ClosedAccountsTakeNoPostings
CHECK_DEADLOCK FALSE
