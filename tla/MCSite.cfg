CONSTANTS
    Logins = {ed, sub, par, out}
    NoLogin = NoLogin
    Editors = {ed}
    Submitters = {ed, sub}
    Approvers = {ed}
    Admins = {ed}
    Groups = {d1, d2}
    NoGroup = NoGroup
    GroupsOf <- MCGroupsOf
    Household <- MCHousehold
    Managers <- MCManagers
    Feeds = {f1, f2}
    Uids = {u1, u2}
    NoFeed = NoFeed
    NoUid = NoUid
    Scenes <- MCScenes
    Images = {1}
    Uploads <- MCUploads
    MaxEvents = 4
    MaxRepeats = 2
    Horizon = 2
    MaxFiles = 3
    MaxResources = 1
    MaxPosts = 3
    ed = ed
    sub = sub
    par = par
    out = out
    d1 = d1
    d2 = d2
    f1 = f1
    f2 = f2
    u1 = u1
    u2 = u2
    Addresses = {a1}
    Children = {c1, c2}
    Texts = {new, contacted, visited}
    NewText = new
    ContactedText = contacted
    NoText = NoText
    Pastes <- MCPastes
    JoinLimit = 2
    MaxLabels = 3
    MaxEnquiries = 3
    a1 = a1
    c1 = c1
    c2 = c2
    new = new
    contacted = contacted
    visited = visited
SPECIFICATION Spec
CHECK_DEADLOCK FALSE
INVARIANTS
    TypeOK
    OnlyVettedShown
    Mirror
    RulingsHold
    RemindedOnce
    ObjectKept
    EnquiriesSound
