SPECIFICATION Spec
CONSTANTS
    h1 = h1
    h2 = h2
    r1 = r1
    r2 = r2
    p1 = p1
    p2 = p2
    q = q
    general = general
    fund = fund
    NoRec = NoRec
    Handlers <- MCHandlers
    Recs <- MCRecs
    Accounts <- MCAccounts
    Postings <- MCPostings
    AccountOf <- MCAccountOf
    Amount <- MCAmount
    Statements <- MCStatements
SYMMETRY HandlerSymmetry
INVARIANT SignedOffIsBalanced
CHECK_DEADLOCK FALSE
