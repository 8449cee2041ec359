CONSTANTS
    Units = {pack, troop}
    Packs = {pack}
    Families = {f1, f2, f3}
    Members = {lead, cub, adm, new}
    SubGroups = {d1, d2}
    CustomSlugs <- MCCustomSlugs
    Requests = {r1, r2}
    pack = pack
    troop = troop
    f1 = f1
    f2 = f2
    f3 = f3
    lead = lead
    cub = cub
    adm = adm
    new = new
    d1 = d1
    d2 = d2
    r1 = r1
    r2 = r2
    NoUnit = NoUnit
    NoFamily = NoFamily
    NoMember = NoMember
    NoGroup = NoGroup
    NoRole = NoRole
    NoLogin = NoLogin
    ContactKinds = {"email"}
    Asked = {"approve_expenses", "email_group"}
    Start <- MCStart
    Offered <- MCOffered
    Ticked <- MCTicked
    MaxRequests = 2
SPECIFICATION Spec
SYMMETRY Symmetry
CHECK_DEADLOCK FALSE
INVARIANTS
    TypeOK
    NoEscalation
    AdminsSecure
    StaysInTheDen
    ListsAgree
