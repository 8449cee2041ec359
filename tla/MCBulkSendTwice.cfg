SPECIFICATION Spec
CONSTANTS
    m1 = m1
    c1 = c1
    c2 = c2
    a1 = a1
    a2 = a2
    new = new
    q1 = q1
    q2 = q2
    Blank = 1
    NoEnquiry = NoEnquiry
    NoAddress = NoAddress
    NoMailing = NoMailing
    Mailings <- MCMailings
    Kinds <- MCKinds
    Letters <- MCLetters
    Clicks <- MCClicks
    Addresses <- MCAddresses
    Public <- MCPublic
    Families <- MCFamilies
    Statuses <- MCStatuses
    Enquiries <- MCEnquiries
INVARIANT TwoClicksOneSend
CHECK_DEADLOCK FALSE
