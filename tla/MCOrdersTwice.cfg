SPECIFICATION Spec
CONSTANTS
    r1 = r1
    r2 = r2
    r3 = r3
    o1 = o1
    s1 = s1
    s2 = s2
    NoScout = NoScout
    NoOrder = NoOrder
    NoCredit = NoCredit
    NoAllocation = NoAllocation
    Requests <- MCRequests
    Orders <- MCOrders
    Scouts <- MCScouts
    Carts <- MCCarts
    Rules <- MCRules
INVARIANT CreditedAtMostOnce
CHECK_DEADLOCK FALSE
