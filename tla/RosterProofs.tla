---------------------------- MODULE RosterProofs ----------------------------
(***************************************************************************)
(* What holds of families, members, roles and capabilities for every set   *)
(* of units, members and roles, every roster to begin with, and any number *)
(* of requests at once.                                                    *)
(***************************************************************************)
EXTENDS Roster, TLAPS

\* The Admins of the beginning, their households, and the members whom a leader of a
\* den may reach: those of it, those an import named, and those who were not there.
AdminRows == {a \in start.rows : IsSuperAdmin(GrantedAtStart(a.unit, a.role))}
Admins == {a.member : a \in AdminRows}
AdminHomes == {start.member[m].family : m \in Admins}
Near(m) == InLedDen(m) \/ m \in imported \/ start.member[m].family = NoFamily

\* What anybody short of an Admin had in the beginning, and what that lets them do.
Modest(u, caps) == ~IsSuperAdmin(caps) /\ Covers(BelowAdmin(u), caps)

CustomIn(defined, u) == {c \in defined : c.unit = u}
\* Only an Admin changes what roles grant.
Frozen ==
    \A u \in Units \ ruled : /\ overrides[u] = start.overrides[u]
                             /\ CustomIn(custom, u) = CustomIn(start.custom, u)

\* A row's identifier tells it, and its sub-group is of its unit.
RowsKeyed ==
    /\ \A a, b \in rows : a.id = b.id => a = b
    /\ \A a \in rows : a.id <= serial /\ (a.group # NoGroup => subgroup[a.group] = a.unit)

\* Those out of a den leader's reach are as they were, and have no role in a led den.
FarKept ==
    led = {} => \A m \in Members : ~Near(m) =>
        /\ member[m].family = start.member[m].family
        /\ member[m].type = start.member[m].type
        /\ member[m].active = start.member[m].active
        /\ login[m] = start.login[m]
RowsNear == led = {} => \A a \in rows : a.group \in LedDens(a.unit) => Near(a.member)
DenRows ==
    \A u \in Units \ led : \A a \in rows :
        a.unit = u /\ a.group \notin LedDens(u) => a \in start.rows

\* What each request has made sure of, by the stage it has come to.
AboutSomebody == {"deleting", "managing", "cleared", "household_cleared", "closing",
                  "contacting", "addressing", "holding", "measuring", "removing",
                  "assigning", "logging_in"}
Choosing == {"founding", "placing", "assigning"}
Formed(q) ==
    /\ q.at # "idle" => q.as.unit \in Units /\ q.as.who \in Logins
    /\ q.at \notin {"idle", "scoping"} => q.as.actor \in Members
    /\ q.at \in AboutSomebody => q.on.member \in Members
    /\ q.at \in Choosing =>
         /\ q.on.role \in Slugs /\ q.on.then \in {"idle", "logging_in", "importing"}
         /\ q.on.group # NoGroup => subgroup[q.on.group] = q.as.unit
    /\ q.at \in {"deleting", "ruling"} => q.as.unit \in ruled
Held(q) ==
    q.at \in {"holding", "measuring", "removing"} =>
        /\ q.on.row <= serial
        /\ \A a \in rows : a.id = q.on.row => a.unit = q.as.unit /\ a.role = q.on.role
\* As long as no Admin has acted in the unit.
Within(q) ==
    q.at # "idle" /\ q.as.unit \notin ruled =>
        /\ Modest(q.as.unit, q.as.caps)
        /\ q.at \in Choosing => Modest(q.as.unit, GrantedAtStart(q.as.unit, q.on.role))
\* As long as no Admin has acted at all.
ForNoAdmin(q) ==
    ruled = {} =>
        /\ q.at \in {"cleared", "closing", "logging_in"} => q.on.member \notin Admins
        /\ q.at = "assigning" /\ q.on.then = "logging_in" => q.on.member \notin Admins
        /\ q.at = "household_cleared" =>
             Exists(q.on.member) /\ member[q.on.member].family \notin AdminHomes
        /\ q.at = "removing" => ~IsSuperAdmin(GrantedAtStart(q.as.unit, q.on.role))
\* As long as no unit-wide leader has acted.
InDens(q) ==
    /\ q.at # "idle" /\ q.as.unit \notin led =>
         /\ ~q.as.wide /\ q.as.dens \subseteq LedDens(q.as.unit)
         /\ q.at \in Choosing => q.on.group \in LedDens(q.as.unit)
    /\ led = {} /\ q.at \in {"deleting", "managing", "cleared", "household_cleared", "closing",
                             "assigning", "logging_in"} => Near(q.on.member)
Sound(q) == Formed(q) /\ Held(q) /\ Within(q) /\ ForNoAdmin(q) /\ InDens(q)

IInv ==
    /\ TypeOK /\ RowsKeyed /\ Frozen /\ NoEscalation /\ AdminsSecure
    /\ FarKept /\ RowsNear /\ DenRows
    /\ \A r \in Requests : Sound(request[r])

\* The types of all but the requests.
RestOK ==
    /\ start \in Start
    /\ member \in [Members -> Member]
    /\ rows \subseteq Assignment /\ \A a \in rows : Exists(a.member)
    /\ custom \subseteq CustomRole
    /\ \A c, d \in custom : c.unit = d.unit /\ c.slug = d.slug => c = d
    /\ overrides \in Overrides
    /\ subgroup \in [SubGroups -> Units \cup {NoUnit}] /\ folded \subseteq SubGroups
    /\ address \in [Families -> {"none", "kept", "released"}]
    /\ \A m \in Members : Exists(m) => address[member[m].family] # "none"
    /\ login \in [Logins -> {"none", "own", "handed"}]
    /\ \A m \in Members : login[m] # "none" => Exists(m)
    /\ money \subseteq Members /\ history \subseteq Members
    /\ ruled \subseteq Units /\ led \subseteq Units /\ imported \subseteq Members
    /\ serial \in Nat /\ made \in 0..MaxRequests

-----------------------------------------------------------------------------
(* Capabilities.                                                           *)

LEMMA BelowAdminModest ==
    ASSUME NEW u
    PROVE  ~IsSuperAdmin(BelowAdmin(u))
BY DEF BelowAdmin, IsSuperAdmin

\* Who may hand out what they have may hand out what it may.
LEMMA CoversThrough ==
    ASSUME NEW B, NEW X, NEW Y, ~IsSuperAdmin(B), Covers(B, X), ~IsSuperAdmin(X), Covers(X, Y)
    PROVE  Covers(B, Y) /\ ~IsSuperAdmin(Y)
BY DEF Covers, IsSuperAdmin, CanEditUnitContent

\* And what they may hand out one at a time, they may hand out together.
LEMMA CoversAll ==
    ASSUME NEW B, NEW S, \A X \in S : Covers(B, X)
    PROVE  Covers(B, UNION S)
BY DEF Covers

LEMMA ModestThrough ==
    ASSUME NEW u, NEW X, NEW Y, Modest(u, X), Covers(X, Y)
    PROVE  Modest(u, Y)
BY BelowAdminModest, CoversThrough DEF Modest

\* Where no Admin has acted, a role grants what it granted.
LEMMA StartGrants ==
    ASSUME Frozen, NEW u \in Units \ ruled, NEW s
    PROVE  RoleCapabilities(u, s) = GrantedAtStart(u, s)
<1>1. {d \in custom : d.unit = u /\ d.slug = s} = {d \in start.custom : d.unit = u /\ d.slug = s}
  BY DEF Frozen, CustomIn
<1>. QED
  BY <1>1 DEF Frozen, RoleCapabilities, GrantedAtStart, GrantedBy

LEMMA SystemRolesGrant ==
    ASSUME NEW s \in SystemRoles
    PROVE  systemRoleCapabilities(s) \subseteq AllCapabilities
BY DEF SystemRoles, systemRoleCapabilities, AllCapabilities

LEMMA RolesGrant ==
    ASSUME RestOK, NEW u \in Units, NEW s
    PROVE  RoleCapabilities(u, s) \subseteq AllCapabilities
<1>1. CASE s \in SystemRoles
  BY <1>1, SystemRolesGrant DEF RestOK, Overrides, RoleCapabilities, GrantedBy
<1>2. CASE s \notin SystemRoles
  BY <1>2 DEF RestOK, CustomRole, RoleCapabilities, GrantedBy
<1>. QED
  BY <1>1, <1>2

LEMMA CapabilitiesTyped ==
    ASSUME RestOK, NEW u \in Units, NEW x
    PROVE  capabilitiesFor(x, u) \subseteq AllCapabilities
BY RolesGrant DEF capabilitiesFor, CapabilitiesForRoles

\* What a login may do where no Admin has acted, an Admin's own login excepted.
LEMMA CapabilitiesModest ==
    ASSUME Frozen, NoEscalation, NEW u \in Units \ ruled, NEW x,
           ~IsSuperAdmin(capabilitiesFor(x, u))
    PROVE  Modest(u, capabilitiesFor(x, u))
<1>. DEFINE granted == {RoleCapabilities(u, s) : s \in rolesFor(x, u)}
<1>1. ASSUME NEW s \in rolesFor(x, u)
      PROVE  Covers(BelowAdmin(u), RoleCapabilities(u, s))
  <2>1. PICK a \in rows : a.unit = u /\ a.role = s
    BY <1>1 DEF rolesFor, RowsIn
  <2>2. ~IsSuperAdmin(RoleCapabilities(u, s))
    BY <1>1 DEF IsSuperAdmin, capabilitiesFor, CapabilitiesForRoles
  <2>. QED
    BY <2>1, <2>2 DEF NoEscalation
<1>2. Covers(BelowAdmin(u), UNION granted)
  BY <1>1, CoversAll
<1>. QED
  BY <1>2 DEF Modest, capabilitiesFor, CapabilitiesForRoles

-----------------------------------------------------------------------------
(* What a step may do to what requests have made sure of.                  *)

GhostsGrow ==
    start' = start /\ ruled \subseteq ruled' /\ led \subseteq led' /\ imported \subseteq imported'
RowsGrow == serial' \in Nat /\ serial <= serial' /\ \A a \in rows' : a \in rows \/ a.id > serial
GroupsStay == \A g \in SubGroups : subgroup[g] # NoUnit => subgroup'[g] = subgroup[g]
HomesStay == ruled' = {} => \A m \in Members : Exists(m) => member'[m].family = member[m].family
Grows == GhostsGrow /\ RowsGrow /\ GroupsStay /\ HomesStay

\* What was so in the beginning remains what was so in the beginning.
LEMMA OfStart ==
    ASSUME start' = start
    PROVE  /\ AdminRows' = AdminRows /\ Admins' = Admins /\ AdminHomes' = AdminHomes
           /\ \A u, s : GrantedAtStart(u, s)' = GrantedAtStart(u, s)
           /\ \A u : BelowAdmin(u)' = BelowAdmin(u) /\ LedDens(u)' = LedDens(u)
           /\ \A u, c : Modest(u, c)' <=> Modest(u, c)
           /\ \A m : InLedDen(m)' <=> InLedDen(m)
<1>1. \A u, s : GrantedAtStart(u, s)' = GrantedAtStart(u, s)
  BY DEF GrantedAtStart, GrantedBy
<1>2. \A u : BelowAdmin(u)' = BelowAdmin(u)
  BY <1>1 DEF BelowAdmin
<1>3. \A u, c : Modest(u, c)' <=> Modest(u, c)
  BY <1>2 DEF Modest
<1>4. \A u : LedDens(u)' = LedDens(u)
  BY DEF LedDens
<1>5. \A m : InLedDen(m)' <=> InLedDen(m)
  BY <1>4 DEF InLedDen
<1>6. AdminRows' = AdminRows
  BY <1>1 DEF AdminRows
<1>7. Admins' = Admins
  BY <1>6 DEF Admins
<1>8. AdminHomes' = AdminHomes
  BY <1>7 DEF AdminHomes
<1>. QED
  BY <1>1, <1>2, <1>3, <1>4, <1>5, <1>6, <1>7, <1>8

LEMMA NearGrows ==
    ASSUME GhostsGrow, NEW m, Near(m)
    PROVE  Near(m)'
BY OfStart DEF GhostsGrow, Near

LEMMA RequestFields ==
    ASSUME NEW q \in Request
    PROVE  /\ q.at \in Stages /\ q.as \in Editor /\ q.on \in Target
           /\ q.as.who \in Logins \cup {NoLogin} /\ q.as.unit \in Units \cup {NoUnit}
           /\ q.as.caps \subseteq AllCapabilities /\ q.as.wide \in BOOLEAN
           /\ q.as.dens \subseteq SubGroups /\ q.as.actor \in Members \cup {NoMember}
           /\ q.on.member \in Members \cup {NoMember} /\ q.on.role \in Slugs \cup {NoRole}
           /\ q.on.group \in SubGroups \cup {NoGroup} /\ q.on.row \in Nat
           /\ q.on.then \in Stages
BY DEF Request, Editor, Target

\* What one request has made sure of, a step of another leaves so.
LEMMA SoundKept ==
    ASSUME RestOK, Grows, NEW q \in Request, Sound(q)
    PROVE  Sound(q)'
<1>. USE DEF Sound
<1>1. Formed(q)'
  <2>1. q.at \in Choosing /\ q.on.group # NoGroup => subgroup'[q.on.group] = q.as.unit
    <3>1. SUFFICES ASSUME q.at \in Choosing, q.on.group # NoGroup
                   PROVE  subgroup'[q.on.group] = q.as.unit
      OBVIOUS
    <3>2. q.at # "idle" /\ subgroup[q.on.group] = q.as.unit /\ q.as.unit \in Units
      BY <3>1 DEF Formed, Choosing
    <3>3. q.on.group \in SubGroups
      BY <3>1, RequestFields
    <3>. QED
      BY <3>2, <3>3, RosterAssumption DEF Grows, GroupsStay
  <2>. QED
    BY <2>1 DEF Formed, Grows, GhostsGrow
<1>2. Held(q)'
  <2>1. CASE q.at \notin {"holding", "measuring", "removing"}
    BY <2>1 DEF Held
  <2>2. CASE q.at \in {"holding", "measuring", "removing"}
    <3>1. q.on.row \in Nat /\ serial \in Nat /\ serial' \in Nat /\ serial <= serial'
          /\ q.on.row <= serial
      BY <2>2, RequestFields DEF Held, Grows, RowsGrow, RestOK
    <3>2. ASSUME NEW a \in rows', a.id = q.on.row
          PROVE  a.unit = q.as.unit /\ a.role = q.on.role
      BY <2>2, <3>1, <3>2 DEF Held, Grows, RowsGrow
    <3>. QED
      BY <3>1, <3>2 DEF Held
  <2>. QED
    BY <2>1, <2>2
<1>3. Within(q)'
  BY OfStart DEF Within, Grows, GhostsGrow
<1>4. ForNoAdmin(q)'
  <2>1. SUFFICES ASSUME ruled' = {}
                 PROVE  ForNoAdmin(q)'
    BY DEF ForNoAdmin
  <2>2. ruled = {} /\ start' = start
    BY <2>1 DEF Grows, GhostsGrow
  <2>3. q.at = "household_cleared" =>
            /\ q.on.member \in Members
            /\ Exists(q.on.member)' /\ member'[q.on.member].family \notin AdminHomes
    BY <2>1, <2>2 DEF Formed, AboutSomebody, ForNoAdmin, Exists, Grows, HomesStay
  <2>. QED
    BY <2>2, <2>3, OfStart DEF ForNoAdmin
<1>5. InDens(q)'
  <2>1. start' = start /\ GhostsGrow
    BY DEF Grows, GhostsGrow
  <2>2. /\ led' = {} => led = {}
        /\ q.as.unit \notin led' => q.as.unit \notin led
    BY <2>1 DEF GhostsGrow
  <2>3. Near(q.on.member) => Near(q.on.member)'
    BY <2>1, NearGrows
  <2>. QED
    BY <2>1, <2>2, <2>3, OfStart DEF InDens
<1>. QED
  BY <1>1, <1>2, <1>3, <1>4, <1>5

\* Request r becomes q; the others stay what they are.
LEMMA RequestsKept ==
    ASSUME IInv, Grows, NEW r \in Requests, NEW q \in Request,
           request' = [request EXCEPT ![r] = q], Sound(q)'
    PROVE  request' \in [Requests -> Request] /\ \A s \in Requests : Sound(request[s])'
<1>1. request \in [Requests -> Request] /\ RestOK
  BY DEF IInv, TypeOK, RestOK
<1>2. ASSUME NEW s \in Requests
      PROVE  Sound(request[s])'
  <2>1. CASE s = r
    <3>1. request'[s] = q
      BY <1>1, <2>1
    <3>. QED
      BY <3>1
  <2>2. CASE s # r
    <3>1. PICK p \in Request : p = request[s]
      BY <1>1
    <3>2. request'[s] = p
      BY <1>1, <2>2, <3>1
    <3>3. Sound(p)
      BY <3>1 DEF IInv
    <3>4. Sound(p)'
      BY <1>1, <3>3, SoundKept
    <3>. QED
      BY <3>2, <3>4
  <2>. QED
    BY <2>1, <2>2
<1>. QED
  BY <1>1, <1>2

LEMMA IdleSound ==
    Idle \in Request /\ Sound(Idle) /\ Sound(Idle)'
<1>1. /\ Idle.at = "idle" /\ Idle.on.then = "idle" /\ Idle \in Request
  BY DEF Idle, MkRequest, Nobody, Nothing, MkEditor, MkTarget, Request, Editor, Target, Stages
<1>. QED
  BY <1>1 DEF Sound, Formed, Held, Within, ForNoAdmin, InDens, AboutSomebody, Choosing

-----------------------------------------------------------------------------
(* What a step may do to the roster.                                       *)

\* A role that is given is nothing above the giver, nor out of the giver's dens.
NewRowsFit ==
    \A a \in rows' : a \in rows \/
        /\ a.unit \notin ruled' => Modest(a.unit, GrantedAtStart(a.unit, a.role))
        /\ a.unit \notin led' => a.group \in LedDens(a.unit)
        /\ led' = {} => Near(a.member)
AdminsStay ==
    ruled' = {} =>
        /\ \A a \in AdminRows : a \in rows => a \in rows'
        /\ \A m \in Admins : Exists(m) =>
             /\ member[m].active => member'[m].active
             /\ login'[m] = login[m] /\ login'[member[m].family] = login[member[m].family]
FarStay ==
    led' = {} => \A m \in Members : ~Near(m) =>
        /\ member'[m].family = member[m].family /\ member'[m].type = member[m].type
        /\ member'[m].active = member[m].active /\ login'[m] = login[m]
Careful == Grows /\ NewRowsFit /\ AdminsStay /\ FarStay

LEMMA StartKept ==
    ASSUME RestOK
    PROVE  start \in Roster /\ Kept(start)
BY RosterAssumption DEF RestOK

LEMMA StartRows ==
    ASSUME RestOK, NEW a \in start.rows
    PROVE  /\ a \in Assignment /\ a.member \in Members /\ a.unit \in Units
           /\ start.member[a.member].family \in Families
<1>1. a \in Assignment
  BY StartKept DEF Roster
<1>2. start.member[a.member].family # NoFamily /\ start.member \in [Members -> Member]
  BY StartKept DEF Kept, Roster
<1>. QED
  BY <1>1, <1>2 DEF Assignment, Member

\* As long as no Admin has acted, an Admin is there, in the household they were in.
LEMMA AdminsThere ==
    ASSUME RestOK, AdminsSecure, ruled = {}, NEW m \in Admins
    PROVE  /\ m \in Members /\ Exists(m) /\ member[m].family = start.member[m].family
           /\ member[m].family \in AdminHomes /\ member[m].family \in Families
<1>1. PICK a \in start.rows : a \in AdminRows /\ a.member = m
  BY DEF Admins, AdminRows
<1>2. m \in Members /\ start.member[m].family \in Families
  BY <1>1, StartRows
<1>3. member[m].family = start.member[m].family
  BY <1>1 DEF AdminsSecure, AdminRows
<1>. QED
  BY <1>2, <1>3, RosterAssumption DEF Exists, AdminHomes

LEMMA NoEscalationKept ==
    ASSUME IInv, Careful, RestOK', Frozen'
    PROVE  NoEscalation'
<1>. SUFFICES ASSUME NEW u \in Units \ ruled', NEW a \in rows', a.unit = u
              PROVE  IF IsSuperAdmin(RoleCapabilities(u, a.role)') THEN a \in start'.rows
                     ELSE Covers(BelowAdmin(u)', RoleCapabilities(u, a.role)')
  BY DEF NoEscalation, Covers, IsSuperAdmin, CanEditUnitContent
<1>1. u \in Units \ ruled /\ start' = start
  BY DEF Careful, Grows, GhostsGrow
<1>2. RoleCapabilities(u, a.role)' = GrantedAtStart(u, a.role)'
  <2>1. {d \in custom' : d.unit = u /\ d.slug = a.role} =
        {d \in start'.custom : d.unit = u /\ d.slug = a.role}
    BY DEF Frozen, CustomIn
  <2>. QED
    BY <2>1 DEF Frozen, RoleCapabilities, GrantedAtStart, GrantedBy
<1>3. RoleCapabilities(u, a.role)' = RoleCapabilities(u, a.role)
  BY <1>1, <1>2, StartGrants, OfStart DEF IInv
<1>4. CASE a \in rows
  BY <1>1, <1>3, <1>4, OfStart DEF IInv, NoEscalation
<1>5. CASE a \notin rows
  <2>1. Modest(u, GrantedAtStart(u, a.role))
    BY <1>5 DEF Careful, NewRowsFit
  <2>. QED
    BY <1>1, <1>2, <2>1, OfStart DEF Modest
<1>. QED
  BY <1>4, <1>5

LEMMA AdminsSecureKept ==
    ASSUME IInv, Careful
    PROVE  AdminsSecure'
<1>. SUFFICES ASSUME ruled' = {}, NEW a \in AdminRows
              PROVE  LET m == a.member  f == start.member[m].family IN
                     /\ a \in rows'
                     /\ start.member[m].active => member'[m].active
                     /\ member'[m].family = f
                     /\ login'[m] = start.login[m] /\ login'[f] = start.login[f]
  BY OfStart DEF AdminsSecure, AdminRows, Careful, Grows, GhostsGrow
<1>1. ruled = {} /\ RestOK /\ a.member \in Admins /\ a \in start.rows
  BY DEF Careful, Grows, GhostsGrow, IInv, TypeOK, RestOK, Admins, AdminRows
<1>2. /\ a.member \in Members /\ Exists(a.member)
      /\ member[a.member].family = start.member[a.member].family
  BY <1>1, AdminsThere DEF IInv
<1>3. LET m == a.member  f == start.member[m].family IN
      /\ a \in rows
      /\ start.member[m].active => member[m].active
      /\ login[m] = start.login[m] /\ login[f] = start.login[f]
  BY <1>1 DEF IInv, AdminsSecure, AdminRows
<1>4. member'[a.member].family = member[a.member].family
  BY <1>2 DEF Careful, Grows, HomesStay
<1>. QED
  BY <1>1, <1>2, <1>3, <1>4 DEF Careful, AdminsStay

LEMMA DensKept ==
    ASSUME IInv, Careful
    PROVE  FarKept' /\ RowsNear' /\ DenRows'
<1>1. GhostsGrow /\ start' = start /\ led \subseteq led'
  BY DEF Careful, Grows, GhostsGrow
<1>2. FarKept'
  <2>1. SUFFICES ASSUME led' = {}, NEW m \in Members, ~Near(m)'
                 PROVE  /\ member'[m].family = start.member[m].family
                        /\ member'[m].type = start.member[m].type
                        /\ member'[m].active = start.member[m].active
                        /\ login'[m] = start.login[m]
    BY <1>1 DEF FarKept
  <2>2. led = {} /\ ~Near(m)
    BY <1>1, <2>1, NearGrows
  <2>. QED
    BY <2>1, <2>2 DEF IInv, FarKept, Careful, FarStay
<1>3. RowsNear'
  <2>1. SUFFICES ASSUME led' = {}, NEW a \in rows', a.group \in LedDens(a.unit)
                 PROVE  Near(a.member)'
    BY <1>1, OfStart DEF RowsNear
  <2>2. Near(a.member)
    BY <1>1, <2>1 DEF IInv, RowsNear, Careful, NewRowsFit
  <2>. QED
    BY <1>1, <2>2, NearGrows
<1>4. DenRows'
  <2>1. SUFFICES ASSUME NEW u \in Units \ led', NEW a \in rows', a.unit = u,
                        a.group \notin LedDens(u)
                 PROVE  a \in start.rows
    BY <1>1, OfStart DEF DenRows
  <2>. QED
    BY <1>1, <2>1 DEF IInv, DenRows, Careful, NewRowsFit
<1>. QED
  BY <1>2, <1>3, <1>4

\* A step of request r that does no more than that keeps the invariant.
LEMMA CarefulStep ==
    ASSUME IInv, Careful, RestOK', RowsKeyed', Frozen', NEW r \in Requests, NEW q \in Request,
           request' = [request EXCEPT ![r] = q], Sound(q)'
    PROVE  IInv'
<1>1. request' \in [Requests -> Request] /\ \A s \in Requests : Sound(request[s])'
  BY RequestsKept DEF Careful
<1>2. TypeOK'
  BY <1>1 DEF RestOK, TypeOK
<1>. QED
  BY <1>1, <1>2, NoEscalationKept, AdminsSecureKept, DensKept DEF IInv

-----------------------------------------------------------------------------
(* The requests that a step makes.                                         *)

LEMMA MadeFields ==
    ASSUME NEW stage \in Stages, NEW e \in Editor, NEW t \in Target
    PROVE  LET q == MkRequest(stage, e, t) IN
           q \in Request /\ q.at = stage /\ q.as = e /\ q.on = t
BY DEF MkRequest, Request

LEMMA EditorFields ==
    ASSUME NEW x \in Logins \cup {NoLogin}, NEW u \in Units \cup {NoUnit},
           NEW caps \in SUBSET AllCapabilities, NEW wide \in BOOLEAN,
           NEW dens \in SUBSET SubGroups, NEW m \in Members \cup {NoMember}
    PROVE  LET e == MkEditor(x, u, caps, wide, dens, m) IN
           /\ e \in Editor /\ e.who = x /\ e.unit = u /\ e.caps = caps /\ e.wide = wide
           /\ e.dens = dens /\ e.actor = m
BY DEF MkEditor, Editor

LEMMA AboutFields ==
    ASSUME NEW m \in Members
    PROVE  About(m) \in Target /\ About(m).member = m
BY DEF About, MkTarget, Target, Stages

LEMMA NothingTyped == Nothing \in Target
BY DEF Nothing, MkTarget, Target, Stages

\* What r becomes, as a request of its own.
LEMMA BecomesEffect ==
    ASSUME NEW r, NEW stage \in Stages \ {"idle"}, NEW e \in Editor, NEW t \in Target,
           Becomes(r, stage, e, t)
    PROVE  \E q \in Request :
              request' = [request EXCEPT ![r] = q] /\ q.at = stage /\ q.as = e /\ q.on = t
<1>1. PICK q \in Request : q = MkRequest(stage, e, t) /\ q.at = stage /\ q.as = e /\ q.on = t
  BY MadeFields
<1>2. request' = [request EXCEPT ![r] = q]
  BY <1>1 DEF Becomes
<1>. QED
  BY <1>1, <1>2

LEMMA DoneEffect ==
    ASSUME NEW r, Done(r)
    PROVE  \E q \in Request : q = Idle /\ request' = [request EXCEPT ![r] = q]
BY IdleSound DEF Done

\* What r is, and has made sure of.
LEMMA Current ==
    ASSUME IInv, NEW r \in Requests
    PROVE  \E p \in Request :
              p = request[r] /\ Sound(p) /\ p.as \in Editor /\ p.on \in Target
BY RequestFields DEF IInv, TypeOK

LEMMA GoesOn ==
    ASSUME IInv, NEW r \in Requests, NEW stage \in Stages \ {"idle"}, NEW t \in Target,
           GoOn(r, stage, t)
    PROVE  \E p, q \in Request :
              /\ p = request[r] /\ Sound(p)
              /\ request' = [request EXCEPT ![r] = q]
              /\ q.at = stage /\ q.as = p.as /\ q.on = t
<1>1. PICK p \in Request : p = request[r] /\ Sound(p) /\ p.as \in Editor
  BY Current
<1>2. Becomes(r, stage, p.as, t)
  BY <1>1 DEF GoOn
<1>3. PICK q \in Request :
          request' = [request EXCEPT ![r] = q] /\ q.at = stage /\ q.as = p.as /\ q.on = t
  BY <1>1, <1>2, BecomesEffect
<1>. QED
  BY <1>1, <1>3

LEMMA GoesOnWithIt ==
    ASSUME IInv, NEW r \in Requests, NEW stage \in Stages \ {"idle"},
           GoOn(r, stage, request[r].on)
    PROVE  \E p, q \in Request :
              /\ p = request[r] /\ Sound(p) /\ request' = [request EXCEPT ![r] = q]
              /\ q.at = stage /\ q.as = p.as /\ q.on = p.on
<1>1. PICK t \in Target : t = request[r].on
  BY Current
<1>2. PICK p, q \in Request :
          /\ p = request[r] /\ Sound(p)
          /\ request' = [request EXCEPT ![r] = q]
          /\ q.at = stage /\ q.as = p.as /\ q.on = t
  BY <1>1, GoesOn
<1>. QED
  BY <1>1, <1>2

-----------------------------------------------------------------------------
(* Steps that leave the roster as it is.                                   *)

LEMMA RestGiven == ASSUME IInv PROVE RestOK
BY DEF IInv, TypeOK, RestOK

\* Only what Admins, leaders and imports have done is told of it.
LEMMA ReadsCareful ==
    ASSUME IInv, Reads, GhostsGrow, ruled' \subseteq Units, led' \subseteq Units,
           imported' \subseteq Members, made' \in 0..MaxRequests
    PROVE  Careful /\ RestOK' /\ RowsKeyed' /\ Frozen'
<1>. USE RestGiven DEF Reads, accessVars, peopleVars, placeVars
<1>1. RestOK'
  BY DEF RestOK, Exists
<1>2. RowsKeyed'
  BY DEF IInv, RowsKeyed
<1>3. Frozen'
  BY DEF IInv, Frozen, GhostsGrow, CustomIn
<1>4. Grows
  BY DEF Grows, RowsGrow, GroupsStay, HomesStay, RestOK
<1>. QED
  BY <1>1, <1>2, <1>3, <1>4 DEF Careful, NewRowsFit, AdminsStay, FarStay

LEMMA ReadStep ==
    ASSUME IInv, Reads, GhostsGrow, ruled' \subseteq Units, led' \subseteq Units,
           imported' \subseteq Members, made' \in 0..MaxRequests,
           NEW r \in Requests, NEW q \in Request,
           request' = [request EXCEPT ![r] = q], Careful => Sound(q)'
    PROVE  IInv'
BY ReadsCareful, CarefulStep

LEMMA SoundRead ==
    ASSUME IInv, Reads, UNCHANGED <<ruled, led, imported>>, made' \in 0..MaxRequests,
           NEW r \in Requests, NEW q \in Request,
           request' = [request EXCEPT ![r] = q], Sound(q)
    PROVE  IInv'
<1>1. GhostsGrow /\ ruled' \subseteq Units /\ led' \subseteq Units /\ imported' \subseteq Members
  BY RestGiven DEF Reads, GhostsGrow, RestOK
<1>2. Careful => Sound(q)'
  BY RestGiven, SoundKept DEF Careful
<1>. QED
  BY <1>1, <1>2, ReadStep

LEMMA MadeStands == ASSUME IInv, UNCHANGED made PROVE made' \in 0..MaxRequests
BY DEF IInv, TypeOK

LEMMA OneMore ==
    ASSUME IInv, made < MaxRequests, made' = made + 1
    PROVE  made' \in 0..MaxRequests
BY RosterAssumption DEF IInv, TypeOK

\* A leader's dens are led dens, where no unit-wide leader has acted.
LEMMA ScopeInDens ==
    ASSUME IInv, NEW u \in Units \ led, NEW x
    PROVE  ScopeSubGroups(x, u) \subseteq LedDens(u)
BY DEF IInv, DenRows, ScopeSubGroups, ScopeRows, RowsIn, LedDens

LEMMA ScopeTyped ==
    ASSUME RestOK, NEW u, NEW x
    PROVE  ScopeSubGroups(x, u) \subseteq SubGroups /\ UnitWide(x, u) \in BOOLEAN
BY DEF RestOK, Assignment, ScopeSubGroups, ScopeRows, RowsIn, UnitWide

LEMMA requireRosterEditorStep ==
    ASSUME IInv, NEW r \in Requests, NEW x \in Logins, NEW u \in Units,
           requireRosterEditor(r, x, u)
    PROVE  IInv'
<1>1. PICK caps \in SUBSET AllCapabilities : caps = capabilitiesFor(x, u)
  BY RestGiven, CapabilitiesTyped
<1>2. PICK e \in Editor :
          /\ e = MkEditor(x, u, caps, FALSE, {}, NoMember)
          /\ e.who = x /\ e.unit = u /\ e.caps = caps /\ ~e.wide /\ e.dens = {}
  <2>1. PICK e : e = MkEditor(x, u, caps, FALSE, {}, NoMember)
    OBVIOUS
  <2>2. /\ e \in Editor /\ e.who = x /\ e.unit = u /\ e.caps = caps /\ ~e.wide /\ e.dens = {}
    BY <2>1 DEF MkEditor, Editor
  <2>. QED
    BY <2>1, <2>2
<1>3. Becomes(r, "scoping", e, Nothing)
  BY <1>1, <1>2 DEF requireRosterEditor
<1>4. PICK q \in Request : request' = [request EXCEPT ![r] = q] /\ q.at = "scoping" /\ q.as = e
  <2>1. "scoping" \in Stages \ {"idle"}
    BY DEF Stages
  <2>. QED
    BY <2>1, <1>3, NothingTyped, BecomesEffect
<1>5. /\ ruled' = IF IsSuperAdmin(caps) THEN ruled \cup {u} ELSE ruled
      /\ Reads /\ UNCHANGED <<led, imported>> /\ made < MaxRequests /\ made' = made + 1
  BY <1>1 DEF requireRosterEditor, Arrives
<1>6. GhostsGrow /\ ruled' \subseteq Units /\ led' \subseteq Units /\ imported' \subseteq Members
  BY <1>5, RestGiven DEF GhostsGrow, Reads, RestOK
<1>7. u \notin ruled' => Modest(u, caps)
  BY <1>1, <1>5, CapabilitiesModest DEF IInv
<1>8. Sound(q)'
  BY <1>2, <1>4, <1>6, <1>7, OfStart
  DEF Sound, Formed, Held, Within, ForNoAdmin, InDens, AboutSomebody, Choosing, GhostsGrow
<1>. QED
  BY <1>4, <1>5, <1>6, <1>8, OneMore, ReadStep

LEMMA rosterScopeStep ==
    ASSUME IInv, NEW r \in Requests, rosterScope(r)
    PROVE  IInv'
<1>1. PICK p \in Request : p = request[r] /\ Sound(p) /\ p.at = "scoping"
  BY Current DEF rosterScope, At
<1>2. p.as.unit \in Units /\ p.as.who \in Logins /\ p.as.caps \in SUBSET AllCapabilities
  BY <1>1, RequestFields DEF Sound, Formed
<1>3. PICK wide \in BOOLEAN, dens \in SUBSET SubGroups :
          wide = UnitWide(p.as.who, p.as.unit) /\ dens = ScopeSubGroups(p.as.who, p.as.unit)
  BY RestGiven, ScopeTyped
<1>4. /\ led' = IF wide THEN led \cup {p.as.unit} ELSE led
      /\ Reads /\ UNCHANGED <<ruled, imported, made>>
  BY <1>1, <1>3 DEF rosterScope
<1>5. PICK m \in Members :
          Becomes(r, "entitled",
                  MkEditor(p.as.who, p.as.unit, p.as.caps, wide, dens, m), Nothing)
  BY <1>1, <1>3 DEF rosterScope
<1>6. PICK e \in Editor :
          /\ e = MkEditor(p.as.who, p.as.unit, p.as.caps, wide, dens, m)
          /\ e.who = p.as.who /\ e.unit = p.as.unit /\ e.caps = p.as.caps /\ e.wide = wide
          /\ e.dens = dens /\ e.actor = m
  BY <1>2, EditorFields
<1>7. PICK q \in Request : request' = [request EXCEPT ![r] = q] /\ q.at = "entitled" /\ q.as = e
  <2>1. "entitled" \in Stages \ {"idle"}
    BY DEF Stages
  <2>2. Becomes(r, "entitled", e, Nothing)
    BY <1>5, <1>6, Zenon
  <2>. QED
    BY <2>1, <2>2, NothingTyped, BecomesEffect
<1>8. GhostsGrow /\ ruled' \subseteq Units /\ led' \subseteq Units /\ imported' \subseteq Members
  BY <1>2, <1>4, RestGiven DEF GhostsGrow, Reads, RestOK
<1>9. e.unit \notin led' => ~e.wide /\ e.dens \subseteq LedDens(e.unit)
  BY <1>2, <1>3, <1>4, <1>6, ScopeInDens
<1>10. e.unit \notin ruled' => Modest(e.unit, e.caps)
  BY <1>1, <1>4, <1>6 DEF Sound, Within
<1>11. Sound(q)'
  BY <1>2, <1>6, <1>7, <1>8, <1>9, <1>10, OfStart
  DEF Sound, Formed, Held, Within, ForNoAdmin, InDens, AboutSomebody, Choosing, GhostsGrow
<1>. QED
  BY <1>4, <1>7, <1>8, <1>11, MadeStands, ReadStep

\* A member whom a leader of a den may manage is near, where no unit-wide leader acts.
LEMMA ManagedNear ==
    ASSUME IInv, led = {}, NEW p \in Request, Sound(p), p.at # "idle", NEW m \in Members,
           CanManageMember(p.as.wide, p.as.dens, m, p.as.unit)
    PROVE  Near(m)
<1>1. ~p.as.wide /\ p.as.dens \subseteq LedDens(p.as.unit)
  BY DEF Sound, Formed, InDens
<1>2. PICK a \in rows : a.member = m /\ a.unit = p.as.unit /\ a.group \in p.as.dens
  BY <1>1 DEF CanManageMember, CanManageSubGroup, RowsOf
<1>. QED
  BY <1>1, <1>2 DEF IInv, RowsNear

LEMMA ManageMemberStep ==
    ASSUME IInv, NEW r \in Requests, NEW m \in Members, ManageMember(r, m)
    PROVE  IInv'
<1>1. "managing" \in Stages \ {"idle"}
  BY DEF Stages
<1>2. PICK p, q \in Request :
          /\ p = request[r] /\ Sound(p) /\ request' = [request EXCEPT ![r] = q]
          /\ q.at = "managing" /\ q.as = p.as /\ q.on = About(m)
  BY <1>1, AboutFields, GoesOn DEF ManageMember
<1>3. p.at = "entitled" /\ CanManageMember(p.as.wide, p.as.dens, m, p.as.unit)
  BY <1>2 DEF ManageMember, At
<1>4. led = {} => Near(m)
  BY <1>2, <1>3, ManagedNear
<1>5. Sound(q)
  BY <1>2, <1>3, <1>4, AboutFields
  DEF Sound, Formed, Held, Within, ForNoAdmin, InDens, AboutSomebody, Choosing
<1>6. Reads /\ UNCHANGED <<ruled, led, imported>> /\ UNCHANGED made
  BY DEF ManageMember
<1>. QED
  BY <1>2, <1>5, <1>6, MadeStands, SoundRead

\* Short of an Admin's capabilities, no ceiling covers an Admin.
LEMMA CeilingStops ==
    ASSUME NEW caps, NEW needed, ~IsSuperAdmin(caps), Covers(caps, needed)
    PROVE  "super_admin" \notin needed
BY DEF Covers, IsSuperAdmin, CanEditUnitContent

\* As long as no Admin has acted, an Admin's role is there, and grants what it did.
LEMMA AdminHolds ==
    ASSUME IInv, ruled = {}, NEW m \in Admins
    PROVE  \E a \in rows : a.member = m /\ "super_admin" \in RoleCapabilities(a.unit, a.role)
<1>1. PICK a \in start.rows : a \in AdminRows /\ a.member = m
  BY DEF Admins, AdminRows
<1>2. a \in rows /\ a.unit \in Units /\ IsSuperAdmin(GrantedAtStart(a.unit, a.role))
  BY <1>1, RestGiven, StartRows DEF IInv, AdminsSecure, AdminRows
<1>. QED
  BY <1>1, <1>2, StartGrants DEF IInv, IsSuperAdmin

LEMMA requireMemberCeilingStep ==
    ASSUME IInv, NEW r \in Requests, requireMemberCeiling(r)
    PROVE  IInv'
<1>1. "cleared" \in Stages \ {"idle"}
  BY DEF Stages
<1>2. PICK p, q \in Request :
          /\ p = request[r] /\ Sound(p) /\ request' = [request EXCEPT ![r] = q]
          /\ q.at = "cleared" /\ q.as = p.as /\ q.on = p.on
  BY <1>1, GoesOnWithIt DEF requireMemberCeiling
<1>3. p.at = "managing" /\ Covers(p.as.caps, MemberCapabilitiesAcrossUnits(p.on.member))
  BY <1>2 DEF requireMemberCeiling, At
<1>4. ruled = {} => p.on.member \notin Admins
  <2>1. SUFFICES ASSUME ruled = {}, p.on.member \in Admins
                 PROVE  FALSE
    OBVIOUS
  <2>2. "super_admin" \in MemberCapabilitiesAcrossUnits(p.on.member)
    BY <2>1, AdminHolds DEF MemberCapabilitiesAcrossUnits, capabilitiesAcrossUnits, RowsOf
  <2>3. ~IsSuperAdmin(p.as.caps)
    BY <1>2, <1>3, <2>1 DEF Sound, Formed, Within, Modest
  <2>. QED
    BY <1>3, <2>2, <2>3, CeilingStops
<1>5. Sound(q)
  BY <1>2, <1>3, <1>4
  DEF Sound, Formed, Held, Within, ForNoAdmin, InDens, AboutSomebody, Choosing
<1>6. Reads /\ UNCHANGED <<ruled, led, imported>> /\ UNCHANGED made
  BY DEF requireMemberCeiling
<1>. QED
  BY <1>2, <1>5, <1>6, MadeStands, SoundRead

LEMMA requireFamilyCeilingStep ==
    ASSUME IInv, NEW r \in Requests, requireFamilyCeiling(r)
    PROVE  IInv'
<1>1. "household_cleared" \in Stages \ {"idle"}
  BY DEF Stages
<1>2. PICK p, q \in Request :
          /\ p = request[r] /\ Sound(p) /\ request' = [request EXCEPT ![r] = q]
          /\ q.at = "household_cleared" /\ q.as = p.as /\ q.on = p.on
  BY <1>1, GoesOnWithIt DEF requireFamilyCeiling
<1>3. /\ p.at = "managing" /\ Exists(p.on.member)
      /\ Covers(p.as.caps, FamilyCapabilitiesAcrossUnits(member[p.on.member].family))
  BY <1>2 DEF requireFamilyCeiling, At
<1>4. ruled = {} => member[p.on.member].family \notin AdminHomes
  <2>1. SUFFICES ASSUME ruled = {}, member[p.on.member].family \in AdminHomes
                 PROVE  FALSE
    OBVIOUS
  <2>2. PICK n \in Admins : start.member[n].family = member[p.on.member].family
    BY <2>1 DEF AdminHomes
  <2>3. member[n].family = member[p.on.member].family
    BY <2>1, <2>2, RestGiven, AdminsThere DEF IInv
  <2>4. "super_admin" \in FamilyCapabilitiesAcrossUnits(member[p.on.member].family)
    BY <2>1, <2>3, AdminHolds DEF FamilyCapabilitiesAcrossUnits, capabilitiesAcrossUnits
  <2>5. ~IsSuperAdmin(p.as.caps)
    BY <1>2, <1>3, <2>1 DEF Sound, Formed, Within, Modest
  <2>. QED
    BY <1>3, <2>4, <2>5, CeilingStops
<1>5. Sound(q)
  BY <1>2, <1>3, <1>4
  DEF Sound, Formed, Held, Within, ForNoAdmin, InDens, AboutSomebody, Choosing
<1>6. Reads /\ UNCHANGED <<ruled, led, imported>> /\ UNCHANGED made
  BY DEF requireFamilyCeiling
<1>. QED
  BY <1>2, <1>5, <1>6, MadeStands, SoundRead

LEMMA EndsStep ==
    ASSUME IInv, NEW r \in Requests, Ends(r)
    PROVE  IInv'
<1>1. PICK q \in Request : q = Idle /\ request' = [request EXCEPT ![r] = q]
  BY DoneEffect DEF Ends
<1>2. Reads /\ UNCHANGED <<ruled, led, imported>> /\ UNCHANGED made
  BY DEF Ends
<1>. QED
  BY <1>1, <1>2, IdleSound, MadeStands, SoundRead

LEMMA ScoutAccountBalancesForMemberStep ==
    ASSUME IInv, NEW r \in Requests, ScoutAccountBalancesForMember(r)
    PROVE  IInv'
<1>1. "closing" \in Stages \ {"idle"}
  BY DEF Stages
<1>2. PICK p, q \in Request :
          /\ p = request[r] /\ Sound(p) /\ request' = [request EXCEPT ![r] = q]
          /\ q.at = "closing" /\ q.as = p.as /\ q.on = p.on
  BY <1>1, GoesOnWithIt DEF ScoutAccountBalancesForMember
<1>3. Sound(q)
  BY <1>2 DEF ScoutAccountBalancesForMember, At,
              Sound, Formed, Held, Within, ForNoAdmin, InDens, AboutSomebody, Choosing
<1>4. Reads /\ UNCHANGED <<ruled, led, imported>> /\ UNCHANGED made
  BY DEF ScoutAccountBalancesForMember
<1>. QED
  BY <1>2, <1>3, <1>4, MadeStands, SoundRead

LEMMA requireSuperAdminToDeleteStep ==
    ASSUME IInv, NEW r \in Requests, NEW m \in Members, requireSuperAdminToDelete(r, m)
    PROVE  IInv'
<1>1. "deleting" \in Stages \ {"idle"}
  BY DEF Stages
<1>2. PICK p, q \in Request :
          /\ p = request[r] /\ Sound(p) /\ request' = [request EXCEPT ![r] = q]
          /\ q.at = "deleting" /\ q.as = p.as /\ q.on = About(m)
  BY <1>1, AboutFields, GoesOn DEF requireSuperAdminToDelete
<1>3. /\ p.at = "entitled" /\ CanManageMember(p.as.wide, p.as.dens, m, p.as.unit)
      /\ Reads /\ UNCHANGED <<led, imported, made>> /\ ruled' = ruled \cup {p.as.unit}
  BY <1>2 DEF requireSuperAdminToDelete, At
<1>4. p.as.unit \in Units
  BY <1>2, <1>3 DEF Sound, Formed
<1>5. GhostsGrow /\ ruled' \subseteq Units /\ led' \subseteq Units /\ imported' \subseteq Members
  BY <1>3, <1>4, RestGiven DEF GhostsGrow, Reads, RestOK
<1>6. led' = {} => Near(m)'
  BY <1>2, <1>3, <1>5, ManagedNear, NearGrows
<1>7. q.as.unit \notin led' => ~q.as.wide /\ q.as.dens \subseteq LedDens(q.as.unit)'
  BY <1>2, <1>3, <1>5, OfStart DEF Sound, InDens, GhostsGrow
<1>8. q.as.unit \in ruled' /\ ruled' # {} /\ q.on.member = m
  BY <1>2, <1>3, AboutFields
<1>9. Sound(q)'
  BY <1>2, <1>3, <1>6, <1>7, <1>8
  DEF Sound, Formed, Held, Within, ForNoAdmin, InDens, AboutSomebody, Choosing
<1>. QED
  BY <1>2, <1>3, <1>5, <1>9, MadeStands, ReadStep

LEMMA requireFamilyAdultStep ==
    ASSUME IInv, NEW r \in Requests, NEW x \in Logins, NEW u \in Units,
           requireFamilyAdult(r, x, u)
    PROVE  IInv'
<1>1. PICK m \in Members : Becomes(r, "parenting", MkEditor(x, u, {}, FALSE, {}, m), Nothing)
  BY DEF requireFamilyAdult
<1>2. PICK e \in Editor :
          /\ e = MkEditor(x, u, {}, FALSE, {}, m)
          /\ e.who = x /\ e.unit = u /\ e.caps = {} /\ ~e.wide /\ e.dens = {} /\ e.actor = m
  <2>1. PICK e : e = MkEditor(x, u, {}, FALSE, {}, m)
    OBVIOUS
  <2>2. /\ e \in Editor /\ e.who = x /\ e.unit = u /\ e.caps = {} /\ ~e.wide /\ e.dens = {}
        /\ e.actor = m
    BY <2>1 DEF MkEditor, Editor
  <2>. QED
    BY <2>1, <2>2
<1>3. PICK q \in Request : request' = [request EXCEPT ![r] = q] /\ q.at = "parenting" /\ q.as = e
  <2>1. "parenting" \in Stages \ {"idle"}
    BY DEF Stages
  <2>2. Becomes(r, "parenting", e, Nothing)
    BY <1>1, <1>2
  <2>. QED
    BY <2>1, <2>2, NothingTyped, BecomesEffect
<1>4. Modest(u, {})
  BY DEF Modest, IsSuperAdmin, Covers
<1>5. Sound(q)
  BY <1>2, <1>3, <1>4
  DEF Sound, Formed, Held, Within, ForNoAdmin, InDens, AboutSomebody, Choosing
<1>6. Reads /\ UNCHANGED <<ruled, led, imported>> /\ made < MaxRequests /\ made' = made + 1
  BY DEF requireFamilyAdult, Arrives
<1>. QED
  BY <1>3, <1>5, <1>6, OneMore, SoundRead

LEMMA requireSuperAdminForRolesStep ==
    ASSUME IInv, NEW r \in Requests, NEW x \in Logins, NEW u \in Units,
           requireSuperAdminForRoles(r, x, u)
    PROVE  IInv'
<1>1. PICK caps \in SUBSET AllCapabilities : caps = capabilitiesFor(x, u)
  BY RestGiven, CapabilitiesTyped
<1>2. PICK m \in Members : Becomes(r, "ruling", MkEditor(x, u, caps, FALSE, {}, m), Nothing)
  BY <1>1 DEF requireSuperAdminForRoles
<1>3. PICK e \in Editor :
          /\ e = MkEditor(x, u, caps, FALSE, {}, m)
          /\ e.who = x /\ e.unit = u /\ e.caps = caps /\ ~e.wide /\ e.dens = {} /\ e.actor = m
  <2>1. PICK e : e = MkEditor(x, u, caps, FALSE, {}, m)
    OBVIOUS
  <2>2. /\ e \in Editor /\ e.who = x /\ e.unit = u /\ e.caps = caps /\ ~e.wide /\ e.dens = {}
        /\ e.actor = m
    BY <2>1 DEF MkEditor, Editor
  <2>. QED
    BY <2>1, <2>2
<1>4. PICK q \in Request : request' = [request EXCEPT ![r] = q] /\ q.at = "ruling" /\ q.as = e
  <2>1. "ruling" \in Stages \ {"idle"}
    BY DEF Stages
  <2>2. Becomes(r, "ruling", e, Nothing)
    BY <1>2, <1>3
  <2>. QED
    BY <2>1, <2>2, NothingTyped, BecomesEffect
<1>5. /\ ruled' = ruled \cup {u} /\ Reads /\ UNCHANGED <<led, imported>>
      /\ made < MaxRequests /\ made' = made + 1
  BY DEF requireSuperAdminForRoles, Arrives
<1>6. GhostsGrow /\ ruled' \subseteq Units /\ led' \subseteq Units /\ imported' \subseteq Members
  BY <1>5, RestGiven DEF GhostsGrow, Reads, RestOK
<1>7. Sound(q)'
  BY <1>3, <1>4, <1>5
  DEF Sound, Formed, Held, Within, ForNoAdmin, InDens, AboutSomebody, Choosing
<1>. QED
  BY <1>4, <1>5, <1>6, <1>7, OneMore, ReadStep

LEMMA MyFamilyUpdateMemberStep ==
    ASSUME IInv, NEW r \in Requests, NEW m \in Members, MyFamilyUpdateMember(r, m)
    PROVE  IInv'
<1>1. "contacting" \in Stages \ {"idle"}
  BY DEF Stages
<1>2. PICK p, q \in Request :
          /\ p = request[r] /\ Sound(p) /\ request' = [request EXCEPT ![r] = q]
          /\ q.at = "contacting" /\ q.as = p.as /\ q.on = About(m)
  BY <1>1, AboutFields, GoesOn DEF MyFamilyUpdateMember
<1>3. Sound(q)
  BY <1>2, AboutFields
  DEF MyFamilyUpdateMember, At,
      Sound, Formed, Held, Within, ForNoAdmin, InDens, AboutSomebody, Choosing
<1>4. Reads /\ UNCHANGED <<ruled, led, imported>> /\ UNCHANGED made
  BY DEF MyFamilyUpdateMember
<1>. QED
  BY <1>2, <1>3, <1>4, MadeStands, SoundRead

\* The choice of a role and of where.
Chosen(p, q, stage, m, next) ==
    /\ q.at = stage /\ q.as = p.as /\ q.on.member = m /\ q.on.role \in Slugs /\ q.on.then = next
    /\ q.on.group # NoGroup => subgroup[q.on.group] = p.as.unit
    /\ p.as.unit \notin ruled => Modest(p.as.unit, GrantedAtStart(p.as.unit, q.on.role))
    /\ p.as.unit \notin led => q.on.group \in LedDens(p.as.unit)

LEMMA ChooseEffect ==
    ASSUME IInv, NEW r \in Requests, request[r].at \notin {"idle", "scoping"},
           NEW m \in Members \cup {NoMember}, NEW stage \in Choosing,
           NEW next \in {"idle", "logging_in", "importing"}, Choose(r, m, stage, next)
    PROVE  /\ \E p, q \in Request :
                /\ p = request[r] /\ Sound(p) /\ request' = [request EXCEPT ![r] = q]
                /\ Chosen(p, q, stage, m, next)
           /\ Reads /\ UNCHANGED <<ruled, led>>
<1>1. PICK p \in Request : p = request[r] /\ Sound(p) /\ p.as \in Editor
  BY Current
<1>2. PICK s \in AllowedRoles(p.as.unit, p.as.wide, p.as.caps),
           g \in resolveSubGroup(p.as.unit, p.as.wide, p.as.dens) :
         /\ s \in Offered /\ GoOn(r, stage, MkTarget(m, s, g, 0, next))
         /\ Reads /\ UNCHANGED <<ruled, led>>
  BY <1>1 DEF Choose
<1>3. s \in Slugs /\ g \in SubGroups \cup {NoGroup} /\ next \in Stages
      /\ stage \in Stages \ {"idle"} /\ 0 \in Nat
  BY <1>2, RosterAssumption DEF resolveSubGroup, Choosing, Stages
<1>4. PICK t \in Target :
          /\ t = MkTarget(m, s, g, 0, next)
          /\ t.member = m /\ t.role = s /\ t.group = g /\ t.then = next
  <2>1. PICK t : t = MkTarget(m, s, g, 0, next)
    OBVIOUS
  <2>2. t \in Target /\ t.member = m /\ t.role = s /\ t.group = g /\ t.then = next
    BY <1>3, <2>1 DEF MkTarget, Target
  <2>. QED
    BY <2>1, <2>2
<1>5. PICK q \in Request :
          request' = [request EXCEPT ![r] = q] /\ q.at = stage /\ q.as = p.as /\ q.on = t
  BY <1>1, <1>2, <1>3, <1>4, GoesOn
<1>6. g # NoGroup => subgroup[g] = p.as.unit
  BY <1>2 DEF resolveSubGroup
<1>7. p.as.unit \in Units
  BY <1>1 DEF Sound, Formed
<1>8. p.as.unit \notin ruled => Modest(p.as.unit, GrantedAtStart(p.as.unit, s))
  <2>1. SUFFICES ASSUME p.as.unit \notin ruled
                 PROVE  Modest(p.as.unit, GrantedAtStart(p.as.unit, s))
    OBVIOUS
  <2>2. Modest(p.as.unit, p.as.caps)
    BY <1>1, <2>1 DEF Sound, Within
  <2>3. Covers(p.as.caps, RoleCapabilities(p.as.unit, s))
    BY <1>2 DEF AllowedRoles
  <2>4. RoleCapabilities(p.as.unit, s) = GrantedAtStart(p.as.unit, s)
    BY <1>7, <2>1, StartGrants DEF IInv
  <2>. QED
    BY <2>2, <2>3, <2>4, ModestThrough
<1>9. p.as.unit \notin led => g \in LedDens(p.as.unit)
  BY <1>1, <1>2 DEF Sound, InDens, resolveSubGroup, CanManageSubGroup
<1>. QED
  BY <1>1, <1>2, <1>3, <1>4, <1>5, <1>6, <1>8, <1>9 DEF Chosen

\* For a member to be added.
LEMMA ChosenToAdd ==
    ASSUME NEW p \in Request, Sound(p), p.at \notin {"idle", "scoping"}, NEW q \in Request,
           NEW stage \in {"founding", "placing"},
           NEW next \in {"idle", "logging_in", "importing"}, Chosen(p, q, stage, NoMember, next)
    PROVE  Sound(q)
BY DEF Chosen, Sound, Formed, Held, Within, ForNoAdmin, InDens, AboutSomebody, Choosing

\* For a member there is.
LEMMA ChosenForMember ==
    ASSUME NEW p \in Request, Sound(p), p.at \notin {"idle", "scoping"}, NEW q \in Request,
           NEW m \in Members, NEW next \in {"idle", "importing"},
           Chosen(p, q, "assigning", m, next), led = {} => Near(m)
    PROVE  Sound(q)
BY DEF Chosen, Sound, Formed, Held, Within, ForNoAdmin, InDens, AboutSomebody, Choosing

LEMMA AdminRosterAssignRoleStep ==
    ASSUME IInv, NEW r \in Requests, AdminRosterAssignRole(r)
    PROVE  IInv'
<1>1. "assigning" \in Choosing /\ request[r].at = "managing"
  BY DEF Choosing, AdminRosterAssignRole, At
<1>2. PICK m \in Members : m = request[r].on.member
  BY <1>1 DEF IInv, Sound, Formed, AboutSomebody
<1>3. Choose(r, m, "assigning", "idle") /\ UNCHANGED <<imported, made>>
  BY <1>2 DEF AdminRosterAssignRole
<1>4. PICK p, q \in Request :
          /\ p = request[r] /\ Sound(p) /\ request' = [request EXCEPT ![r] = q]
          /\ Chosen(p, q, "assigning", m, "idle")
  BY <1>1, <1>3, ChooseEffect
<1>5. Reads /\ UNCHANGED <<ruled, led, imported>> /\ UNCHANGED made
  BY <1>1, <1>3, ChooseEffect
<1>6. led = {} => Near(m)
  BY <1>1, <1>2, <1>4 DEF Sound, InDens
<1>7. Sound(q)
  BY <1>1, <1>4, <1>6, ChosenForMember
<1>. QED
  BY <1>4, <1>5, <1>7, MadeStands, SoundRead

LEMMA AdminRosterAssignExistingMemberStep ==
    ASSUME IInv, NEW r \in Requests, NEW m \in Members, AdminRosterAssignExistingMember(r, m)
    PROVE  IInv'
<1>1. "assigning" \in Choosing /\ request[r].at = "entitled" /\ request[r].as.wide
  BY DEF Choosing, AdminRosterAssignExistingMember, At
<1>2. Choose(r, m, "assigning", "idle") /\ UNCHANGED <<imported, made>>
  BY DEF AdminRosterAssignExistingMember
<1>3. PICK p, q \in Request :
          /\ p = request[r] /\ Sound(p) /\ request' = [request EXCEPT ![r] = q]
          /\ Chosen(p, q, "assigning", m, "idle")
  BY <1>1, <1>2, ChooseEffect
<1>4. Reads /\ UNCHANGED <<ruled, led, imported>> /\ UNCHANGED made
  BY <1>1, <1>2, ChooseEffect
<1>5. led # {}
  BY <1>1, <1>3 DEF Sound, InDens
<1>6. Sound(q)
  BY <1>1, <1>3, <1>5, ChosenForMember
<1>. QED
  BY <1>3, <1>4, <1>6, MadeStands, SoundRead

LEMMA AdminRosterCreateFamilyStep ==
    ASSUME IInv, NEW r \in Requests, AdminRosterCreateFamily(r)
    PROVE  IInv'
<1>1. "founding" \in Choosing /\ request[r].at = "entitled"
  BY DEF Choosing, AdminRosterCreateFamily, At
<1>2. Choose(r, NoMember, "founding", "idle") /\ UNCHANGED <<imported, made>>
  BY DEF AdminRosterCreateFamily
<1>3. PICK p, q \in Request :
          /\ p = request[r] /\ Sound(p) /\ request' = [request EXCEPT ![r] = q]
          /\ Chosen(p, q, "founding", NoMember, "idle")
  BY <1>1, <1>2, ChooseEffect
<1>4. Reads /\ UNCHANGED <<ruled, led, imported>> /\ UNCHANGED made
  BY <1>1, <1>2, ChooseEffect
<1>5. Sound(q)
  BY <1>1, <1>3, ChosenToAdd
<1>. QED
  BY <1>3, <1>4, <1>5, MadeStands, SoundRead

LEMMA AdminRosterAddMemberStep ==
    ASSUME IInv, NEW r \in Requests, AdminRosterAddMember(r)
    PROVE  IInv'
<1>1. "placing" \in Choosing /\ request[r].at = "entitled"
  BY DEF Choosing, AdminRosterAddMember, At
<1>2. PICK next \in {"idle", "logging_in"} : Choose(r, NoMember, "placing", next)
  BY DEF AdminRosterAddMember
<1>3. PICK p, q \in Request :
          /\ p = request[r] /\ Sound(p) /\ request' = [request EXCEPT ![r] = q]
          /\ Chosen(p, q, "placing", NoMember, next)
  BY <1>1, <1>2, ChooseEffect
<1>4. Reads /\ UNCHANGED <<ruled, led, imported>> /\ UNCHANGED made
  BY <1>1, <1>2, ChooseEffect DEF AdminRosterAddMember
<1>5. Sound(q)
  BY <1>1, <1>3, ChosenToAdd
<1>. QED
  BY <1>3, <1>4, <1>5, MadeStands, SoundRead

LEMMA BeginImportStep ==
    ASSUME IInv, NEW r \in Requests, BeginImport(r)
    PROVE  IInv'
<1>1. PICK p \in Request : p = request[r] /\ Sound(p) /\ p.at = "entitled"
  BY Current DEF BeginImport, At
<1>2. PICK dens \in SUBSET SubGroups :
          dens = {g \in SubGroups : /\ subgroup[g] = p.as.unit /\ g \notin folded
                                    /\ CanManageSubGroup(p.as.wide, p.as.dens, g)}
  OBVIOUS
<1>3. Becomes(r, "importing",
              MkEditor(p.as.who, p.as.unit, p.as.caps, p.as.wide, dens, p.as.actor), Nothing)
  BY <1>1, <1>2 DEF BeginImport
<1>4. PICK e \in Editor :
          /\ e = MkEditor(p.as.who, p.as.unit, p.as.caps, p.as.wide, dens, p.as.actor)
          /\ e.who = p.as.who /\ e.unit = p.as.unit /\ e.caps = p.as.caps
          /\ e.wide = p.as.wide /\ e.dens = dens /\ e.actor = p.as.actor
  <2>1. PICK e : e = MkEditor(p.as.who, p.as.unit, p.as.caps, p.as.wide, dens, p.as.actor)
    OBVIOUS
  <2>2. /\ e \in Editor /\ e.who = p.as.who /\ e.unit = p.as.unit /\ e.caps = p.as.caps
        /\ e.wide = p.as.wide /\ e.dens = dens /\ e.actor = p.as.actor
    BY <2>1, RequestFields DEF MkEditor, Editor
  <2>. QED
    BY <2>1, <2>2
<1>5. PICK q \in Request : request' = [request EXCEPT ![r] = q] /\ q.at = "importing" /\ q.as = e
  <2>1. PICK stage \in Stages \ {"idle"}, t \in Target : stage = "importing" /\ t = Nothing
    BY NothingTyped DEF Stages
  <2>2. Becomes(r, stage, e, t)
    BY <1>3, <1>4, <2>1, Zenon
  <2>. QED
    BY <2>1, <2>2, BecomesEffect
<1>6. ~p.as.wide => dens \subseteq p.as.dens
  BY <1>2 DEF CanManageSubGroup
<1>7. Sound(q)
  BY <1>1, <1>4, <1>5, <1>6
  DEF Sound, Formed, Held, Within, ForNoAdmin, InDens, AboutSomebody, Choosing
<1>8. Reads /\ UNCHANGED <<ruled, led, imported>> /\ UNCHANGED made
  BY DEF BeginImport
<1>. QED
  BY <1>5, <1>7, <1>8, MadeStands, SoundRead

LEMMA ImportRowStep ==
    ASSUME IInv, NEW r \in Requests, NEW m \in Members \cup {NoMember}, ImportRow(r, m)
    PROVE  IInv'
<1>1. /\ request[r].at = "importing" /\ made < MaxRequests /\ made' = made + 1
      /\ imported' = imported \cup ({m} \ {NoMember})
      /\ Choose(r, m, IF m = NoMember THEN "placing" ELSE "assigning", "importing")
  BY DEF ImportRow, At
<1>2. PICK stage \in Choosing : stage = IF m = NoMember THEN "placing" ELSE "assigning"
  BY DEF Choosing
<1>3. PICK p, q \in Request :
          /\ p = request[r] /\ Sound(p) /\ request' = [request EXCEPT ![r] = q]
          /\ Chosen(p, q, stage, m, "importing")
  BY <1>1, <1>2, ChooseEffect
<1>4. Reads /\ UNCHANGED <<ruled, led>>
  BY <1>1, <1>2, ChooseEffect
<1>5. GhostsGrow /\ ruled' \subseteq Units /\ led' \subseteq Units /\ imported' \subseteq Members
  BY <1>1, <1>4, RestGiven DEF GhostsGrow, Reads, RestOK
<1>6. ASSUME Careful
      PROVE  Sound(q)'
  <2>1. CASE m = NoMember
    <3>1. Sound(q)
      BY <1>1, <1>2, <1>3, <2>1, ChosenToAdd
    <3>. QED
      BY <1>6, <3>1, RestGiven, SoundKept DEF Careful
  <2>2. CASE m # NoMember
    <3>1. m \in Members /\ stage = "assigning" /\ Near(m)'
      BY <1>1, <1>2, <2>2 DEF Near
    <3>2. /\ q.at = "assigning" /\ q.as = p.as /\ q.on.member = m /\ q.on.then = "importing"
          /\ q.on.role \in Slugs
          /\ q.on.group # NoGroup => subgroup'[q.on.group] = p.as.unit
      BY <1>3, <1>4, <3>1 DEF Chosen, Reads, placeVars
    <3>3. /\ p.as.unit \in Units /\ p.as.who \in Logins /\ p.as.actor \in Members
      BY <1>1, <1>3 DEF Sound, Formed
    <3>4. Formed(q)' /\ Held(q)' /\ ForNoAdmin(q)'
      BY <3>1, <3>2, <3>3 DEF Formed, Held, ForNoAdmin, AboutSomebody, Choosing
    <3>5. Within(q)'
      BY <1>1, <1>3, <1>4, <1>5, <3>2, OfStart DEF Sound, Within, Chosen, GhostsGrow
    <3>6. InDens(q)'
      BY <1>1, <1>3, <1>4, <1>5, <3>1, <3>2, OfStart DEF Sound, InDens, Chosen, GhostsGrow
    <3>. QED
      BY <3>4, <3>5, <3>6 DEF Sound
  <2>. QED
    BY <2>1, <2>2
<1>. QED
  BY <1>1, <1>3, <1>4, <1>5, <1>6, OneMore, ReadStep

\* Whom a role has been given to, or not, the request goes on with.
LEMMA AfterAssigning ==
    ASSUME NEW p \in Request, Sound(p), p.at = "assigning", NEW q \in Request,
           q.at = p.on.then, q.as = p.as, q.on = About(p.on.member)
    PROVE  Sound(q)
<1>1. p.on.member \in Members
  BY DEF Sound, Formed, AboutSomebody
<1>2. q.on.member = p.on.member
  BY <1>1, AboutFields
<1>. QED
  BY <1>1, <1>2 DEF Sound, Formed, Held, Within, ForNoAdmin, InDens, AboutSomebody, Choosing

LEMMA RoleNotAssignedStep ==
    ASSUME IInv, NEW r \in Requests, RoleNotAssigned(r)
    PROVE  IInv'
<1>1. PICK p \in Request : p = request[r] /\ Sound(p) /\ p.at = "assigning" /\ p.on.then # "idle"
  BY Current DEF RoleNotAssigned, At
<1>2. PICK stage \in Stages \ {"idle"}, t \in Target : stage = p.on.then /\ t = About(p.on.member)
  BY <1>1, RequestFields, AboutFields DEF Sound, Formed, AboutSomebody
<1>3. PICK q \in Request :
          request' = [request EXCEPT ![r] = q] /\ q.at = stage /\ q.as = p.as /\ q.on = t
  BY <1>1, <1>2, GoesOn DEF RoleNotAssigned
<1>4. Sound(q)
  BY <1>1, <1>2, <1>3, AfterAssigning
<1>5. Reads /\ UNCHANGED <<ruled, led, imported>> /\ UNCHANGED made
  BY DEF RoleNotAssigned
<1>. QED
  BY <1>3, <1>4, <1>5, MadeStands, SoundRead

LEMMA GetRoleAssignmentStep ==
    ASSUME IInv, NEW r \in Requests, NEW a \in rows, GetRoleAssignment(r, a)
    PROVE  IInv'
<1>1. "holding" \in Stages \ {"idle"} /\ "idle" \in Stages
  BY DEF Stages
<1>2. /\ a.id \in Nat /\ a.member \in Members /\ a.role \in Slugs
      /\ a.group \in SubGroups \cup {NoGroup} /\ a.id <= serial
  BY RestGiven DEF RestOK, Assignment, IInv, RowsKeyed
<1>3. PICK t \in Target : /\ t = MkTarget(a.member, a.role, a.group, a.id, "idle")
                          /\ t.member = a.member /\ t.role = a.role /\ t.row = a.id
  <2>1. PICK t : t = MkTarget(a.member, a.role, a.group, a.id, "idle")
    OBVIOUS
  <2>2. t \in Target /\ t.member = a.member /\ t.role = a.role /\ t.row = a.id
    BY <1>1, <1>2, <2>1 DEF MkTarget, Target
  <2>. QED
    BY <2>1, <2>2
<1>4. PICK p, q \in Request :
          /\ p = request[r] /\ Sound(p) /\ request' = [request EXCEPT ![r] = q]
          /\ q.at = "holding" /\ q.as = p.as /\ q.on = t
  BY <1>1, <1>3, GoesOn DEF GetRoleAssignment
<1>5. p.at = "entitled" /\ a.unit = p.as.unit
  BY <1>4 DEF GetRoleAssignment, At
<1>6. \A b \in rows : b.id = a.id => b.unit = q.as.unit /\ b.role = q.on.role
  BY <1>3, <1>4, <1>5 DEF IInv, RowsKeyed
<1>7. Sound(q)
  BY <1>2, <1>3, <1>4, <1>5, <1>6
  DEF Sound, Formed, Held, Within, ForNoAdmin, InDens, AboutSomebody, Choosing
<1>8. Reads /\ UNCHANGED <<ruled, led, imported>> /\ UNCHANGED made
  BY DEF GetRoleAssignment
<1>. QED
  BY <1>4, <1>7, <1>8, MadeStands, SoundRead

LEMMA ManageHolderStep ==
    ASSUME IInv, NEW r \in Requests, ManageHolder(r)
    PROVE  IInv'
<1>1. "measuring" \in Stages \ {"idle"}
  BY DEF Stages
<1>2. PICK p, q \in Request :
          /\ p = request[r] /\ Sound(p) /\ request' = [request EXCEPT ![r] = q]
          /\ q.at = "measuring" /\ q.as = p.as /\ q.on = p.on
  BY <1>1, GoesOnWithIt DEF ManageHolder
<1>3. Sound(q)
  BY <1>2 DEF ManageHolder, At,
              Sound, Formed, Held, Within, ForNoAdmin, InDens, AboutSomebody, Choosing
<1>4. Reads /\ UNCHANGED <<ruled, led, imported>> /\ UNCHANGED made
  BY DEF ManageHolder
<1>. QED
  BY <1>2, <1>3, <1>4, MadeStands, SoundRead

LEMMA requireRoleCeilingStep ==
    ASSUME IInv, NEW r \in Requests, requireRoleCeiling(r)
    PROVE  IInv'
<1>1. "removing" \in Stages \ {"idle"}
  BY DEF Stages
<1>2. PICK p, q \in Request :
          /\ p = request[r] /\ Sound(p) /\ request' = [request EXCEPT ![r] = q]
          /\ q.at = "removing" /\ q.as = p.as /\ q.on = p.on
  BY <1>1, GoesOnWithIt DEF requireRoleCeiling
<1>3. p.at = "measuring" /\ Covers(p.as.caps, RoleCapabilities(p.as.unit, p.on.role))
  BY <1>2 DEF requireRoleCeiling, At
<1>4. ruled = {} => ~IsSuperAdmin(GrantedAtStart(p.as.unit, p.on.role))
  <2>1. SUFFICES ASSUME ruled = {}
                 PROVE  ~IsSuperAdmin(GrantedAtStart(p.as.unit, p.on.role))
    OBVIOUS
  <2>2. p.as.unit \in Units /\ ~IsSuperAdmin(p.as.caps)
    BY <1>2, <1>3, <2>1 DEF Sound, Formed, Within, Modest
  <2>3. RoleCapabilities(p.as.unit, p.on.role) = GrantedAtStart(p.as.unit, p.on.role)
    BY <2>1, <2>2, StartGrants DEF IInv
  <2>. QED
    BY <1>3, <2>2, <2>3, CeilingStops DEF IsSuperAdmin
<1>5. Sound(q)
  BY <1>2, <1>3, <1>4
  DEF Sound, Formed, Held, Within, ForNoAdmin, InDens, AboutSomebody, Choosing
<1>6. Reads /\ UNCHANGED <<ruled, led, imported>> /\ UNCHANGED made
  BY DEF requireRoleCeiling
<1>. QED
  BY <1>2, <1>5, <1>6, MadeStands, SoundRead

-----------------------------------------------------------------------------
(* Steps that change accounts, people and households.                      *)

LEMMA AuditTyped ==
    ASSUME IInv, NEW r \in Requests, request[r].at \notin {"idle", "scoping"}, audit(r)
    PROVE  history' \subseteq Members
BY RestGiven DEF audit, IInv, Sound, Formed, RestOK

LEMMA PeopleStep ==
    ASSUME IInv, UNCHANGED <<accessVars, placeVars, ghostVars, money, serial, made>>,
           history' \subseteq Members,
           member' \in [Members -> Member],
           address' \in [Families -> {"none", "kept", "released"}],
           login' \in [Logins -> {"none", "own", "handed"}],
           \A m \in Members : Exists(m) => Exists(m)',
           \A m \in Members : Exists(m)' => address'[member'[m].family] # "none",
           \A m \in Members : login'[m] # "none" => Exists(m)',
           HomesStay, AdminsStay, FarStay,
           NEW r \in Requests, NEW q \in Request,
           request' = [request EXCEPT ![r] = q], Sound(q)
    PROVE  IInv'
<1>1. GhostsGrow /\ start' = start /\ UNCHANGED <<rows, custom, overrides, subgroup, folded>>
      /\ UNCHANGED <<ruled, led, imported, money, serial, made>>
  BY DEF accessVars, placeVars, ghostVars, GhostsGrow
<1>2. RestOK'
  <2>1. \A a \in rows : Exists(a.member)'
    BY RestGiven DEF RestOK, Assignment
  <2>. QED
    BY <1>1, <2>1, RestGiven DEF RestOK, Exists
<1>3. RowsKeyed'
  BY <1>1 DEF IInv, RowsKeyed
<1>4. Frozen'
  BY <1>1 DEF IInv, Frozen, CustomIn
<1>5. Careful
  BY <1>1, RestGiven DEF Careful, Grows, RowsGrow, GroupsStay, NewRowsFit, RestOK
<1>6. Sound(q)'
  BY <1>5, RestGiven, SoundKept DEF Careful
<1>. QED
  BY <1>2, <1>3, <1>4, <1>5, <1>6, CarefulStep

\* A password is handed out: not an Admin's nor their household's, nor a far member's.
LEMMA HandedStep ==
    ASSUME IInv,
           UNCHANGED <<accessVars, placeVars, ghostVars, member, address, money, serial, made>>,
           NEW r \in Requests, request[r].at \notin {"idle", "scoping"}, audit(r), Done(r),
           NEW x \in Logins, login' = [login EXCEPT ![x] = "handed"],
           x \in Members => Exists(x) /\ (led = {} => Near(x)),
           ruled = {} => x \notin Admins \cup AdminHomes
    PROVE  IInv'
<1>1. PICK q \in Request : q = Idle /\ request' = [request EXCEPT ![r] = q]
  BY DoneEffect
<1>2. /\ login' \in [Logins -> {"none", "own", "handed"}] /\ login'[x] = "handed"
      /\ \A y \in Logins \ {x} : login'[y] = login[y]
  BY RestGiven DEF RestOK
<1>3. ruled' = ruled /\ led' = led /\ rows' = rows
  BY DEF ghostVars, accessVars
<1>4. AdminsStay
  <2>1. SUFFICES ASSUME ruled = {}, NEW m \in Admins
                 PROVE  /\ m \in Logins /\ login'[m] = login[m]
                        /\ login'[member[m].family] = login[member[m].family]
    BY <1>3 DEF AdminsStay
  <2>2. m \in Members /\ member[m].family \in AdminHomes /\ member[m].family \in Families
    BY <2>1, AdminsThere, RestGiven DEF IInv
  <2>. QED
    BY <1>2, <2>1, <2>2 DEF Logins
<1>5. FarStay
  BY <1>2, <1>3, RosterAssumption DEF FarStay, Logins
<1>6. /\ \A m \in Members : login'[m] # "none" => Exists(m)'
      /\ \A m \in Members : Exists(m)' => address'[member'[m].family] # "none"
      /\ \A m \in Members : Exists(m) => Exists(m)'
  BY <1>2, RestGiven DEF Exists, RestOK, Logins
<1>7. /\ member' \in [Members -> Member] /\ HomesStay
      /\ address' \in [Families -> {"none", "kept", "released"}]
  BY RestGiven DEF RestOK, HomesStay
<1>8. history' \subseteq Members
  BY AuditTyped
<1>. QED
  BY <1>1, <1>2, <1>4, <1>5, <1>6, <1>7, <1>8, IdleSound, PeopleStep

LEMMA ResetMemberLoginPasswordStep ==
    ASSUME IInv, NEW r \in Requests, ResetMemberLoginPassword(r)
    PROVE  IInv'
<1>1. PICK p \in Request : p = request[r] /\ Sound(p) /\ p.at = "cleared"
  BY Current DEF ResetMemberLoginPassword, At
<1>2. PICK m \in Members : m = p.on.member
  BY <1>1 DEF Sound, Formed, AboutSomebody
<1>3. /\ login[m] # "none" /\ login' = [login EXCEPT ![m] = "handed"]
      /\ Done(r) /\ audit(r)
      /\ UNCHANGED <<accessVars, placeVars, ghostVars, member, address, money, serial, made>>
  BY <1>1, <1>2 DEF ResetMemberLoginPassword
<1>4. m \in Logins /\ Exists(m)
  BY <1>3, RestGiven DEF RestOK, Logins
<1>5. (led = {} => Near(m)) /\ (ruled = {} => m \notin Admins)
  BY <1>1, <1>2 DEF Sound, InDens, ForNoAdmin
<1>6. ruled = {} => m \notin AdminHomes
  BY RestGiven, RosterAssumption, AdminsThere DEF AdminHomes, IInv
<1>. QED
  BY <1>1, <1>3, <1>4, <1>5, <1>6, HandedStep

LEMMA ResetFamilyPasswordStep ==
    ASSUME IInv, NEW r \in Requests, ResetFamilyPassword(r)
    PROVE  IInv'
<1>1. PICK p \in Request : p = request[r] /\ Sound(p) /\ p.at = "household_cleared"
  BY Current DEF ResetFamilyPassword, At
<1>2. PICK m \in Members : m = p.on.member
  BY <1>1 DEF Sound, Formed, AboutSomebody
<1>3. /\ Exists(m) /\ login' = [login EXCEPT ![member[m].family] = "handed"]
      /\ Done(r) /\ audit(r)
      /\ UNCHANGED <<accessVars, placeVars, ghostVars, member, address, money, serial, made>>
  BY <1>1, <1>2 DEF ResetFamilyPassword
<1>4. PICK f \in Families : f = member[m].family
  BY <1>3, RestGiven DEF RestOK, Exists, Member
<1>5. f \in Logins /\ f \notin Members
  BY RosterAssumption DEF Logins
<1>6. ruled = {} => f \notin AdminHomes
  BY <1>1, <1>2, <1>4 DEF Sound, ForNoAdmin
<1>7. ruled = {} => f \notin Admins
  BY <1>5, RestGiven, AdminsThere DEF IInv
<1>. QED
  BY <1>1, <1>3, <1>4, <1>5, <1>6, <1>7, HandedStep

LEMMA CreateMemberLoginStep ==
    ASSUME IInv, NEW r \in Requests, CreateMemberLogin(r)
    PROVE  IInv'
<1>1. PICK p \in Request : p = request[r] /\ Sound(p) /\ p.at \in {"cleared", "logging_in"}
  BY Current DEF CreateMemberLogin, At
<1>2. PICK m \in Members : m = p.on.member
  BY <1>1 DEF Sound, Formed, AboutSomebody
<1>3. /\ Exists(m) /\ login' = [login EXCEPT ![m] = "handed"]
      /\ Done(r) /\ audit(r)
      /\ UNCHANGED <<accessVars, placeVars, ghostVars, member, address, money, serial, made>>
  BY <1>1, <1>2 DEF CreateMemberLogin
<1>4. m \in Logins
  BY DEF Logins
<1>5. (led = {} => Near(m)) /\ (ruled = {} => m \notin Admins)
  BY <1>1, <1>2 DEF Sound, InDens, ForNoAdmin
<1>6. ruled = {} => m \notin AdminHomes
  BY RestGiven, RosterAssumption, AdminsThere DEF AdminHomes, IInv
<1>. QED
  BY <1>1, <1>3, <1>4, <1>5, <1>6, HandedStep

\* A member there is changes: no Admin is switched off, and no far member changes.
LEMMA ChangedStep ==
    ASSUME IInv,
           UNCHANGED <<accessVars, placeVars, ghostVars, address, login, money, serial, made>>,
           history' \subseteq Members, NEW r \in Requests, NEW q \in Request,
           request' = [request EXCEPT ![r] = q], Sound(q),
           NEW m \in Members, Exists(m), NEW type \in {"adult", "youth"},
           NEW shown \in SUBSET ContactKinds, NEW n \in Member,
           n.family = member[m].family, n.type = type, n.shown = shown,
           member' = [member EXCEPT ![m] = n],
           ruled = {} /\ m \in Admins /\ member[m].active => n.active,
           led = {} /\ ~Near(m) => n.type = member[m].type /\ n.active = member[m].active
    PROVE  IInv'
<1>1. /\ member' \in [Members -> Member] /\ member'[m] = n
      /\ \A o \in Members \ {m} : member'[o] = member[o]
      /\ \A o \in Members : member'[o].family = member[o].family
  BY RestGiven DEF RestOK
<1>2. /\ ruled' = ruled /\ led' = led /\ rows' = rows /\ address' = address /\ login' = login
  BY DEF ghostVars, accessVars
<1>3. HomesStay
  BY <1>1 DEF HomesStay
<1>4. AdminsStay
  <2>1. \A o \in Admins : ruled = {} => o \in Members
    BY RestGiven, AdminsThere DEF IInv
  <2>. QED
    BY <1>1, <1>2, <2>1 DEF AdminsStay
<1>5. FarStay
  BY <1>1, <1>2 DEF FarStay
<1>6. /\ \A o \in Members : login'[o] # "none" => Exists(o)'
      /\ \A o \in Members : Exists(o)' => address'[member'[o].family] # "none"
      /\ \A o \in Members : Exists(o) => Exists(o)'
  BY <1>1, <1>2, RestGiven DEF Exists, RestOK
<1>7. /\ login' \in [Logins -> {"none", "own", "handed"}]
      /\ address' \in [Families -> {"none", "kept", "released"}]
  BY <1>2, RestGiven DEF RestOK
<1>. QED
  BY <1>1, <1>3, <1>4, <1>5, <1>6, <1>7, PeopleStep

LEMMA MemberFields ==
    ASSUME NEW n \in Member
    PROVE  /\ n.family \in Families \cup {NoFamily} /\ n.type \in {"adult", "youth"}
           /\ n.active \in BOOLEAN /\ n.shown \in SUBSET ContactKinds
BY DEF Member

LEMMA RewrittenMember ==
    ASSUME RestOK, NEW m \in Members, NEW type \in {"adult", "youth"},
           NEW shown \in SUBSET ContactKinds,
           SetMember(m, member[m].family, type, member[m].active, shown)
    PROVE  \E n \in Member :
              /\ member' = [member EXCEPT ![m] = n]
              /\ n.family = member[m].family /\ n.type = type /\ n.shown = shown
              /\ n.active = member[m].active
<1>1. PICK o \in Member : o = member[m]
  BY DEF RestOK
<1>2. PICK n : n = [family |-> o.family, type |-> type, active |-> o.active, shown |-> shown]
  OBVIOUS
<1>3. n \in Member /\ n.family = o.family /\ n.type = type /\ n.shown = shown /\ n.active = o.active
  BY <1>2 DEF Member
<1>4. member' = [member EXCEPT ![m] = n]
  BY <1>1, <1>2 DEF SetMember
<1>. QED
  BY <1>1, <1>3, <1>4

LEMMA SetMemberActiveStep ==
    ASSUME IInv, NEW r \in Requests, SetMemberActive(r, TRUE) \/ SetMemberActive(r, FALSE)
    PROVE  IInv'
<1>1. PICK p \in Request : p = request[r] /\ Sound(p) /\ p.at \in {"managing", "closing"}
  BY Current DEF SetMemberActive, At
<1>2. PICK m \in Members : m = p.on.member
  BY <1>1 DEF Sound, Formed, AboutSomebody
<1>3. PICK q \in Request : q = Idle /\ request' = [request EXCEPT ![r] = q]
  BY DoneEffect DEF SetMemberActive
<1>4. /\ Exists(m) /\ audit(r)
      /\ UNCHANGED <<accessVars, placeVars, ghostVars, address, login, money, serial, made>>
      /\ \/ SetMember(m, member[m].family, member[m].type, TRUE, member[m].shown)
         \/ /\ SetMember(m, member[m].family, member[m].type, FALSE, member[m].shown)
            /\ p.at = "closing"
  BY <1>1, <1>2 DEF SetMemberActive, At
<1>5. member[m] \in Member
  BY RestGiven DEF RestOK
<1>6. PICK n \in Member :
          /\ member' = [member EXCEPT ![m] = n]
          /\ n.family = member[m].family /\ n.type = member[m].type
          /\ n.shown = member[m].shown
          /\ p.at # "closing" => n.active
  <2>1. PICK o \in Member : o = member[m]
    BY <1>5
  <2>2. CASE SetMember(m, member[m].family, member[m].type, TRUE, member[m].shown)
    <3>1. PICK n : n = [family |-> o.family, type |-> o.type, active |-> TRUE, shown |-> o.shown]
      OBVIOUS
    <3>2. n \in Member /\ n.family = o.family /\ n.type = o.type /\ n.shown = o.shown /\ n.active
      BY <3>1 DEF Member
    <3>3. member' = [member EXCEPT ![m] = n]
      BY <2>1, <2>2, <3>1 DEF SetMember
    <3>. QED
      BY <2>1, <3>2, <3>3
  <2>3. CASE /\ SetMember(m, member[m].family, member[m].type, FALSE, member[m].shown)
             /\ p.at = "closing"
    <3>1. PICK n : n = [family |-> o.family, type |-> o.type, active |-> FALSE, shown |-> o.shown]
      OBVIOUS
    <3>2. n \in Member /\ n.family = o.family /\ n.type = o.type /\ n.shown = o.shown
      BY <3>1 DEF Member
    <3>3. member' = [member EXCEPT ![m] = n]
      BY <2>1, <2>3, <3>1 DEF SetMember
    <3>. QED
      BY <2>1, <2>3, <3>2, <3>3
  <2>. QED
    BY <1>4, <2>2, <2>3
<1>7. /\ ruled = {} /\ m \in Admins => p.at # "closing"
      /\ led = {} => Near(m)
  BY <1>1, <1>2 DEF Sound, ForNoAdmin, InDens
<1>8. history' \subseteq Members
  BY <1>1, <1>4, AuditTyped
<1>9. /\ member[m].type \in {"adult", "youth"} /\ member[m].shown \in SUBSET ContactKinds
  BY <1>5, MemberFields
<1>. QED
  BY <1>3, <1>4, <1>6, <1>7, <1>8, <1>9, IdleSound, ChangedStep

LEMMA UpdateMemberStep ==
    ASSUME IInv, NEW r \in Requests, NEW type \in {"adult", "youth"}, UpdateMember(r, type)
    PROVE  IInv'
<1>1. PICK m \in Members : m = request[r].on.member
  BY DEF UpdateMember, At, IInv, Sound, Formed, AboutSomebody
<1>2. PICK t \in Target :
          t = MkTarget(m, NoRole, NoGroup, 0, "addressing") /\ t.member = m
  <2>1. PICK t : t = MkTarget(m, NoRole, NoGroup, 0, "addressing")
    OBVIOUS
  <2>2. t \in Target /\ t.member = m
    BY <2>1 DEF MkTarget, Target, Stages
  <2>. QED
    BY <2>1, <2>2
<1>3. /\ request[r].at = "managing" /\ Exists(m) /\ GoOn(r, "contacting", t) /\ audit(r)
      /\ UNCHANGED <<accessVars, placeVars, ghostVars, address, login, money, serial, made>>
      /\ SetMember(m, member[m].family, type, member[m].active, member[m].shown)
  BY <1>1, <1>2 DEF UpdateMember, Writes, At
<1>4. PICK p, q \in Request :
          /\ p = request[r] /\ Sound(p) /\ request' = [request EXCEPT ![r] = q]
          /\ q.at = "contacting" /\ q.as = p.as /\ q.on = t
  <2>1. "contacting" \in Stages \ {"idle"}
    BY DEF Stages
  <2>. QED
    BY <1>3, <2>1, GoesOn
<1>5. Sound(q)
  BY <1>2, <1>3, <1>4
  DEF Sound, Formed, Held, Within, ForNoAdmin, InDens, AboutSomebody, Choosing
<1>6. member[m] \in Member
  BY RestGiven DEF RestOK
<1>7. PICK n \in Member :
          /\ member' = [member EXCEPT ![m] = n]
          /\ n.family = member[m].family /\ n.type = type
          /\ n.shown = member[m].shown /\ n.active = member[m].active
  <2>1. PICK shown \in SUBSET ContactKinds : shown = member[m].shown
    BY <1>6, MemberFields
  <2>2. SetMember(m, member[m].family, type, member[m].active, shown)
    BY <1>3, <2>1, Zenon
  <2>3. PICK n \in Member :
            /\ member' = [member EXCEPT ![m] = n]
            /\ n.family = member[m].family /\ n.type = type /\ n.shown = shown
            /\ n.active = member[m].active
    BY <2>2, RestGiven, RewrittenMember
  <2>. QED
    BY <2>1, <2>3
<1>8. led = {} => Near(m)
  BY <1>1, <1>3, <1>4 DEF Sound, InDens
<1>9. history' \subseteq Members
  BY <1>3, AuditTyped
<1>10. member[m].shown \in SUBSET ContactKinds
  BY <1>6, MemberFields
<1>. QED
  BY <1>3, <1>4, <1>5, <1>7, <1>8, <1>9, <1>10, ChangedStep

LEMMA SetContactInfoStep ==
    ASSUME IInv, NEW r \in Requests, NEW shown \in SUBSET ContactKinds, SetContactInfo(r, shown)
    PROVE  IInv'
<1>1. PICK m \in Members : m = request[r].on.member
  BY DEF SetContactInfo, At, IInv, Sound, Formed, AboutSomebody
<1>2. /\ request[r].at = "contacting" /\ Exists(m) /\ audit(r)
      /\ GoOn(r, "addressing", About(m)) \/ Done(r)
      /\ UNCHANGED <<accessVars, placeVars, ghostVars, address, login, money, serial, made>>
      /\ SetMember(m, member[m].family, member[m].type, member[m].active, shown)
  BY <1>1 DEF SetContactInfo, Writes, At
<1>3. PICK q \in Request : request' = [request EXCEPT ![r] = q] /\ Sound(q)
  <2>1. CASE Done(r)
    BY <2>1, DoneEffect, IdleSound
  <2>2. CASE GoOn(r, "addressing", About(m))
    <3>1. "addressing" \in Stages \ {"idle"}
      BY DEF Stages
    <3>2. PICK p, q \in Request :
              /\ p = request[r] /\ Sound(p) /\ request' = [request EXCEPT ![r] = q]
              /\ q.at = "addressing" /\ q.as = p.as /\ q.on = About(m)
      BY <2>2, <3>1, AboutFields, GoesOn
    <3>3. Sound(q)
      BY <1>2, <3>2, AboutFields
      DEF Sound, Formed, Held, Within, ForNoAdmin, InDens, AboutSomebody, Choosing
    <3>. QED
      BY <3>2, <3>3
  <2>. QED
    BY <1>2, <2>1, <2>2
<1>4. member[m] \in Member
  BY RestGiven DEF RestOK
<1>5. PICK n \in Member :
          /\ member' = [member EXCEPT ![m] = n]
          /\ n.family = member[m].family /\ n.type = member[m].type
          /\ n.shown = shown /\ n.active = member[m].active
  <2>1. PICK type \in {"adult", "youth"} : type = member[m].type
    BY <1>4, MemberFields
  <2>. QED
    BY <1>2, <2>1, RestGiven, RewrittenMember
<1>7. history' \subseteq Members
  BY <1>2, AuditTyped
<1>8. member[m].type \in {"adult", "youth"}
  BY <1>4, MemberFields
<1>. QED
  BY <1>2, <1>3, <1>5, <1>7, <1>8, ChangedStep

\* Somebody who was not there is near, and no Admin.
LEMMA NewcomerNear ==
    ASSUME IInv, NEW m \in Members, ~Exists(m)
    PROVE  (led = {} => Near(m)) /\ (ruled = {} => m \notin Admins)
<1>1. led = {} => Near(m)
  BY DEF IInv, FarKept, Exists, Near
<1>. QED
  BY <1>1, RestGiven, AdminsThere DEF IInv

LEMMA NewMember ==
    ASSUME NEW m \in Members, NEW f \in Families, NEW type \in {"adult", "youth"},
           SetMember(m, f, type, TRUE, {})
    PROVE  \E n \in Member : n.family = f /\ member' = [member EXCEPT ![m] = n]
<1>1. PICK n : n = [family |-> f, type |-> type, active |-> TRUE, shown |-> {}]
  OBVIOUS
<1>2. n \in Member /\ n.family = f
  BY <1>1 DEF Member
<1>. QED
  BY <1>1, <1>2 DEF SetMember

\* A member joins a household: the request goes on to the role.
LEMMA JoinsStep ==
    ASSUME IInv, UNCHANGED <<accessVars, placeVars, ghostVars, money, serial, made>>,
           history' \subseteq Members, NEW r \in Requests,
           request[r].at \in {"founding", "placing"},
           NEW f \in Families, NEW m \in Members, ~Exists(m),
           NEW n \in Member, n.family = f, member' = [member EXCEPT ![m] = n],
           GoOn(r, "assigning", MkTarget(m, request[r].on.role, request[r].on.group, 0,
                                         request[r].on.then)),
           address' \in [Families -> {"none", "kept", "released"}], address'[f] # "none",
           \A h \in Families : address[h] # "none" => address'[h] # "none",
           login' \in [Logins -> {"none", "own", "handed"}],
           \A o \in Members : login'[o] = login[o],
           \A h \in Families : address[h] # "none" => login'[h] = login[h]
    PROVE  IInv'
<1>1. PICK p \in Request : p = request[r] /\ Sound(p) /\ p.at \in {"founding", "placing"}
  BY Current
<1>3. n.family # NoFamily
  BY RosterAssumption
<1>4. /\ member' \in [Members -> Member] /\ member'[m] = n
      /\ \A o \in Members \ {m} : member'[o] = member[o]
  BY RestGiven DEF RestOK
<1>5. (led = {} => Near(m)) /\ (ruled = {} => m \notin Admins)
  BY NewcomerNear
<1>6. /\ p.on.role \in Slugs /\ p.on.then \in {"idle", "logging_in", "importing"}
      /\ p.on.group \in SubGroups \cup {NoGroup}
  BY <1>1, RequestFields DEF Sound, Formed, Choosing
<1>7. PICK t \in Target :
          /\ t = MkTarget(m, p.on.role, p.on.group, 0, p.on.then)
          /\ t.member = m /\ t.role = p.on.role /\ t.group = p.on.group /\ t.then = p.on.then
  <2>1. PICK t : t = MkTarget(m, p.on.role, p.on.group, 0, p.on.then)
    OBVIOUS
  <2>2. t \in Target /\ t.member = m /\ t.role = p.on.role /\ t.group = p.on.group
        /\ t.then = p.on.then
    BY <1>6, <2>1 DEF MkTarget, Target, Stages
  <2>. QED
    BY <2>1, <2>2
<1>8. PICK q \in Request :
          request' = [request EXCEPT ![r] = q] /\ q.at = "assigning" /\ q.as = p.as /\ q.on = t
  <2>1. PICK stage \in Stages \ {"idle"} : stage = "assigning"
    BY DEF Stages
  <2>2. GoOn(r, stage, t)
    BY <1>1, <1>7, <2>1
  <2>. QED
    BY <1>1, <2>1, <2>2, GoesOn
<1>9. Sound(q)
  BY <1>1, <1>5, <1>6, <1>7, <1>8
  DEF Sound, Formed, Held, Within, ForNoAdmin, InDens, AboutSomebody, Choosing
<1>10. UNCHANGED <<ruled, led, rows>>
  BY DEF ghostVars, accessVars
<1>11. HomesStay
  BY <1>4 DEF HomesStay, Exists
<1>12. AdminsStay
  <2>1. SUFFICES ASSUME ruled = {}, NEW o \in Admins
                 PROVE  /\ member[o].active => member'[o].active
                        /\ login'[o] = login[o]
                        /\ login'[member[o].family] = login[member[o].family]
    BY <1>10 DEF AdminsStay
  <2>2. o \in Members /\ Exists(o) /\ o # m /\ member[o].family \in Families
    BY <2>1, RestGiven, AdminsThere DEF IInv
  <2>3. address[member[o].family] # "none"
    BY <2>2, RestGiven DEF RestOK
  <2>. QED
    BY <1>4, <2>2, <2>3
<1>13. FarStay
  BY <1>4, <1>5, <1>10 DEF FarStay
<1>14. /\ \A o \in Members : login'[o] # "none" => Exists(o)'
       /\ \A o \in Members : Exists(o) => Exists(o)'
  BY <1>3, <1>4, RestGiven DEF Exists, RestOK
<1>15. \A o \in Members : Exists(o)' => address'[member'[o].family] # "none"
  <2>1. ASSUME NEW o \in Members, Exists(o)'
        PROVE  address'[member'[o].family] # "none"
    <3>1. CASE o = m
      BY <1>3, <1>4, <3>1
    <3>2. CASE o # m
      <4>1. Exists(o) /\ member[o].family \in Families /\ member'[o] = member[o]
        BY <1>4, <2>1, <3>2, RestGiven DEF Exists, RestOK, Member
      <4>. QED
        BY <4>1, RestGiven DEF RestOK
    <3>. QED
      BY <3>1, <3>2
  <2>. QED
    BY <2>1
<1>. QED
  BY <1>4, <1>8, <1>9, <1>11, <1>12, <1>13, <1>14, <1>15, PeopleStep

LEMMA AddMemberStep ==
    ASSUME IInv, NEW r \in Requests, NEW f \in Families, NEW m \in Members,
           NEW type \in {"adult", "youth"}, AddMember(r, f, m, type)
    PROVE  IInv'
<1>1. /\ request[r].at = "placing" /\ address[f] # "none" /\ ~Exists(m) /\ audit(r)
      /\ GoOn(r, "assigning", MkTarget(m, request[r].on.role, request[r].on.group, 0,
                                       request[r].on.then))
      /\ UNCHANGED <<accessVars, placeVars, ghostVars, money, serial, made>>
      /\ address' = address /\ login' = login
  BY DEF AddMember, Writes, At
<1>2. history' \subseteq Members
  BY <1>1, AuditTyped
<1>3. /\ address' \in [Families -> {"none", "kept", "released"}]
      /\ login' \in [Logins -> {"none", "own", "handed"}]
  BY <1>1, RestGiven DEF RestOK
<1>4. PICK n \in Member : n.family = f /\ member' = [member EXCEPT ![m] = n]
  BY NewMember DEF AddMember
<1>. QED
  BY <1>1, <1>2, <1>3, <1>4, JoinsStep

LEMMA CreateFamilyWithMemberStep ==
    ASSUME IInv, NEW r \in Requests, NEW f \in Families, NEW m \in Members,
           CreateFamilyWithMember(r, f, m)
    PROVE  IInv'
<1>1. /\ request[r].at \in {"founding", "placing"} /\ address[f] = "none" /\ ~Exists(m)
      /\ audit(r)
      /\ GoOn(r, "assigning", MkTarget(m, request[r].on.role, request[r].on.group, 0,
                                       request[r].on.then))
      /\ UNCHANGED <<accessVars, placeVars, ghostVars, money, serial, made>>
      /\ address' = [address EXCEPT ![f] = "kept"] /\ login' = [login EXCEPT ![f] = "handed"]
  BY DEF CreateFamilyWithMember, Writes, At
<1>2. history' \subseteq Members
  BY <1>1, AuditTyped
<1>3. /\ address' \in [Families -> {"none", "kept", "released"}] /\ address'[f] # "none"
      /\ \A h \in Families : address[h] # "none" => address'[h] # "none"
  BY <1>1, RestGiven DEF RestOK
<1>4. /\ login' \in [Logins -> {"none", "own", "handed"}]
      /\ \A n \in Members : login'[n] = login[n]
      /\ \A h \in Families : address[h] # "none" => login'[h] = login[h]
  BY <1>1, RestGiven, RosterAssumption DEF RestOK, Logins
<1>5. PICK n \in Member : n.family = f /\ member' = [member EXCEPT ![m] = n]
  BY NewMember DEF CreateFamilyWithMember
<1>. QED
  BY <1>1, <1>2, <1>3, <1>4, <1>5, JoinsStep

LEMMA SetAddressStep ==
    ASSUME IInv, NEW r \in Requests, request[r].at \notin {"idle", "scoping"},
           NEW f \in Families, SetAddress(r, f, TRUE) \/ SetAddress(r, f, FALSE)
    PROVE  IInv'
<1>1. /\ Done(r) /\ audit(r) /\ member' = member /\ login' = login
      /\ UNCHANGED <<accessVars, placeVars, ghostVars, money, serial, made>>
      /\ \E kept \in {"kept", "released"} : address' = [address EXCEPT ![f] = kept]
  BY DEF SetAddress
<1>2. PICK q \in Request : q = Idle /\ request' = [request EXCEPT ![r] = q]
  BY <1>1, DoneEffect
<1>3. history' \subseteq Members
  BY <1>1, AuditTyped
<1>4. /\ address' \in [Families -> {"none", "kept", "released"}]
      /\ \A h \in Families : address[h] # "none" => address'[h] # "none"
  BY <1>1, RestGiven DEF RestOK
<1>5. /\ member' \in [Members -> Member] /\ login' \in [Logins -> {"none", "own", "handed"}]
      /\ \A m \in Members : Exists(m) => Exists(m)'
      /\ \A m \in Members : login'[m] # "none" => Exists(m)'
  BY <1>1, RestGiven DEF RestOK, Exists
<1>6. \A m \in Members : Exists(m)' => address'[member'[m].family] # "none"
  BY <1>1, <1>4, RestGiven DEF RestOK, Exists, Member
<1>7. HomesStay /\ AdminsStay /\ FarStay
  BY <1>1 DEF HomesStay, AdminsStay, FarStay, accessVars
<1>. QED
  BY <1>1, <1>2, <1>3, <1>4, <1>5, <1>6, <1>7, IdleSound, PeopleStep

LEMMA SetFamilyAddressStep ==
    ASSUME IInv, NEW r \in Requests, SetFamilyAddress(r, TRUE) \/ SetFamilyAddress(r, FALSE)
    PROVE  IInv'
<1>1. PICK m \in Members : m = request[r].on.member
  BY DEF SetFamilyAddress, At, IInv, Sound, Formed, AboutSomebody
<1>2. PICK f \in Families : f = member[m].family
  BY <1>1, RestGiven DEF SetFamilyAddress, Exists, RestOK, Member
<1>3. request[r].at = "addressing" /\ (SetAddress(r, f, TRUE) \/ SetAddress(r, f, FALSE))
  BY <1>1, <1>2 DEF SetFamilyAddress, At
<1>. QED
  BY <1>3, SetAddressStep

LEMMA MyFamilyUpdateAddressStep ==
    ASSUME IInv, NEW r \in Requests,
           MyFamilyUpdateAddress(r, TRUE) \/ MyFamilyUpdateAddress(r, FALSE)
    PROVE  IInv'
<1>1. request[r].at = "parenting" /\ request[r].as.who \in Logins
  BY DEF MyFamilyUpdateAddress, At, IInv, Sound, Formed
<1>2. PICK f \in Families : f = HomeOf(request[r].as.who)
  BY <1>1, RestGiven DEF MyFamilyUpdateAddress, HomeOf, Logins, RestOK, Member
<1>3. SetAddress(r, f, TRUE) \/ SetAddress(r, f, FALSE)
  BY <1>2 DEF MyFamilyUpdateAddress
<1>. QED
  BY <1>1, <1>3, SetAddressStep

\* An Admin has acted before anybody is deleted, and their rows go along.
LEMMA DeleteMemberStep ==
    ASSUME IInv, NEW r \in Requests, DeleteMember(r)
    PROVE  IInv'
<1>1. PICK p \in Request : p = request[r] /\ Sound(p) /\ p.at = "deleting"
  BY Current DEF DeleteMember, At
<1>2. PICK m \in Members : m = p.on.member
  BY <1>1 DEF Sound, Formed, AboutSomebody
<1>3. /\ SetMember(m, NoFamily, "adult", FALSE, {}) /\ rows' = rows \ RowsOf(m)
      /\ login' = [login EXCEPT ![m] = "none"] /\ Done(r) /\ audit(r)
      /\ UNCHANGED <<custom, overrides, placeVars, ghostVars, address, money, serial, made>>
  BY <1>1, <1>2 DEF DeleteMember
<1>4. PICK q \in Request : q = Idle /\ request' = [request EXCEPT ![r] = q]
  BY <1>3, DoneEffect
<1>5. PICK n : n = [family |-> NoFamily, type |-> "adult", active |-> FALSE, shown |-> {}]
  OBVIOUS
<1>6. n \in Member /\ n.family = NoFamily
  BY <1>5 DEF Member
<1>7. /\ member' \in [Members -> Member] /\ member'[m] = n
      /\ \A o \in Members \ {m} : member'[o] = member[o]
  BY <1>3, <1>5, <1>6, RestGiven DEF RestOK, SetMember
<1>8. /\ login' \in [Logins -> {"none", "own", "handed"}] /\ login'[m] = "none"
      /\ \A x \in Logins \ {m} : login'[x] = login[x]
  BY <1>3, RestGiven DEF RestOK, Logins
<1>9. history' \subseteq Members
  BY <1>1, <1>3, AuditTyped
<1>10. /\ rows' \subseteq rows /\ \A a \in rows' : a.member # m
       /\ UNCHANGED <<custom, overrides, subgroup, folded, address, money, serial, made>>
       /\ UNCHANGED <<start, ruled, led, imported>>
  BY <1>3 DEF RowsOf, placeVars, ghostVars
<1>11. RestOK'
  <2>1. \A a \in rows' : Exists(a.member)'
    BY <1>7, <1>10, RestGiven DEF RestOK, Exists, Assignment
  <2>2. \A o \in Members : Exists(o)' => address'[member'[o].family] # "none"
    BY <1>6, <1>7, <1>10, RestGiven DEF RestOK, Exists
  <2>3. \A o \in Members : login'[o] # "none" => Exists(o)'
    BY <1>7, <1>8, RestGiven DEF RestOK, Exists, Logins
  <2>. QED
    BY <1>7, <1>8, <1>9, <1>10, <2>1, <2>2, <2>3, RestGiven DEF RestOK
<1>12. RowsKeyed'
  BY <1>10 DEF IInv, RowsKeyed
<1>13. Frozen'
  BY <1>10 DEF IInv, Frozen, CustomIn
<1>14. ruled' # {} /\ (led = {} => Near(m))
  BY <1>1, <1>2, <1>10 DEF Sound, Formed, InDens
<1>15. FarStay
  BY <1>7, <1>8, <1>10, <1>14 DEF FarStay, Logins
<1>16. Grows
  BY <1>10, <1>14, RestGiven DEF Grows, GhostsGrow, RowsGrow, GroupsStay, HomesStay, RestOK
<1>17. Careful
  BY <1>10, <1>14, <1>15, <1>16 DEF Careful, NewRowsFit, AdminsStay
<1>. QED
  BY <1>4, <1>11, <1>12, <1>13, <1>17, IdleSound, CarefulStep

-----------------------------------------------------------------------------
(* Steps that change roles.                                                *)

LEMMA RowsStep ==
    ASSUME IInv, UNCHANGED <<custom, overrides, peopleVars, placeVars, ghostVars, money, made>>,
           history' \subseteq Members, serial' \in Nat, serial <= serial',
           rows' \subseteq Assignment,
           \A a \in rows' : Exists(a.member) /\ (a \in rows \/ a.id > serial),
           RowsKeyed', NewRowsFit,
           ruled = {} => \A a \in AdminRows : a \in rows => a \in rows',
           NEW r \in Requests, NEW q \in Request,
           request' = [request EXCEPT ![r] = q], Sound(q)
    PROVE  IInv'
<1>1. /\ UNCHANGED <<custom, overrides, member, address, login, subgroup, folded>>
      /\ UNCHANGED <<start, ruled, led, imported, money, made>>
  BY DEF peopleVars, placeVars, ghostVars
<1>2. RestOK'
  BY <1>1, RestGiven DEF RestOK, Exists
<1>3. Frozen'
  BY <1>1 DEF IInv, Frozen, CustomIn
<1>4. Careful
  BY <1>1 DEF Careful, Grows, GhostsGrow, RowsGrow, GroupsStay, HomesStay, AdminsStay, FarStay
<1>5. Sound(q)'
  BY <1>4, RestGiven, SoundKept DEF Careful
<1>. QED
  BY <1>2, <1>3, <1>4, <1>5, CarefulStep

LEMMA RemoveRoleStep ==
    ASSUME IInv, NEW r \in Requests, RemoveRole(r)
    PROVE  IInv'
<1>1. PICK p \in Request : p = request[r] /\ Sound(p) /\ p.at = "removing"
  BY Current DEF RemoveRole, At
<1>2. /\ rows' = {a \in rows : a.id # p.on.row} /\ Done(r)
      /\ UNCHANGED <<custom, overrides, peopleVars, placeVars, ghostVars, money, serial, made>>
  BY <1>1 DEF RemoveRole
<1>3. PICK q \in Request : q = Idle /\ request' = [request EXCEPT ![r] = q]
  BY <1>2, DoneEffect
<1>4. history' \subseteq Members
  BY <1>1, AuditTyped, RestGiven DEF RemoveRole, RestOK
<1>5. /\ rows' \subseteq rows /\ rows' \subseteq Assignment /\ \A a \in rows' : Exists(a.member)
      /\ serial' \in Nat /\ serial <= serial'
  BY <1>2, RestGiven DEF RestOK
<1>6. RowsKeyed'
  BY <1>2, <1>5 DEF IInv, RowsKeyed, placeVars
<1>7. ASSUME ruled = {}, NEW a \in AdminRows, a \in rows
      PROVE  a \in rows'
  BY <1>1, <1>2, <1>7 DEF Sound, Held, ForNoAdmin, AdminRows
<1>8. NewRowsFit
  BY <1>5 DEF NewRowsFit
<1>. QED
  BY <1>2, <1>3, <1>4, <1>5, <1>6, <1>7, <1>8, IdleSound, RowsStep

LEMMA AssignRoleStep ==
    ASSUME IInv, NEW r \in Requests, AssignRole(r)
    PROVE  IInv'
<1>1. PICK p \in Request : p = request[r] /\ Sound(p) /\ p.at = "assigning"
  BY Current DEF AssignRole, At
<1>2. /\ p.on.member \in Members /\ p.on.role \in Slugs /\ p.as.unit \in Units
      /\ p.on.group \in SubGroups \cup {NoGroup}
      /\ p.on.group # NoGroup => subgroup[p.on.group] = p.as.unit
      /\ p.on.then \in {"idle", "logging_in", "importing"}
  BY <1>1, RequestFields DEF Sound, Formed, AboutSomebody, Choosing
<1>3. PICK t \in Target : t = About(p.on.member)
  BY <1>2, AboutFields
<1>4. /\ Exists(p.on.member) /\ GoOn(r, p.on.then, t) /\ audit(r)
      /\ UNCHANGED <<custom, overrides, peopleVars, placeVars, ghostVars, money, made>>
      /\ \/ UNCHANGED <<rows, serial>>
         \/ /\ serial' = serial + 1
            /\ rows' = rows \cup {MkRow(serial', p.on.member, p.as.unit, p.on.group, p.on.role)}
  BY <1>1, <1>3 DEF AssignRole, Writes
<1>5. PICK q \in Request : request' = [request EXCEPT ![r] = q] /\ Sound(q)
  <2>1. CASE p.on.then = "idle"
    BY <1>4, <2>1, IdleSound DEF GoOn, Becomes
  <2>2. CASE p.on.then # "idle"
    <3>1. p.on.then \in Stages \ {"idle"}
      BY <1>2, <2>2 DEF Stages
    <3>2. PICK q \in Request :
              request' = [request EXCEPT ![r] = q] /\ q.at = p.on.then /\ q.as = p.as /\ q.on = t
      BY <1>1, <1>4, <3>1, GoesOn
    <3>. QED
      BY <1>1, <1>3, <3>2, AfterAssigning
  <2>. QED
    BY <2>1, <2>2
<1>6. history' \subseteq Members
  BY <1>1, <1>4, AuditTyped
<1>7. CASE UNCHANGED <<rows, serial>>
  <2>1. /\ rows' \subseteq Assignment /\ \A a \in rows' : Exists(a.member)
        /\ serial' \in Nat /\ serial <= serial'
    BY <1>7, RestGiven DEF RestOK
  <2>2. RowsKeyed'
    BY <1>4, <1>7 DEF IInv, RowsKeyed, placeVars
  <2>3. NewRowsFit
    BY <1>7 DEF NewRowsFit
  <2>. QED
    BY <1>4, <1>5, <1>6, <1>7, <2>1, <2>2, <2>3, RowsStep
<1>8. CASE /\ serial' = serial + 1
           /\ rows' = rows \cup {MkRow(serial', p.on.member, p.as.unit, p.on.group, p.on.role)}
  <2>1. serial \in Nat /\ serial' \in Nat /\ serial <= serial' /\ serial' > serial
    BY <1>8, RestGiven DEF RestOK
  <2>2. PICK n \in Assignment :
            /\ n = MkRow(serial', p.on.member, p.as.unit, p.on.group, p.on.role)
            /\ n.id = serial' /\ n.member = p.on.member /\ n.unit = p.as.unit
            /\ n.group = p.on.group /\ n.role = p.on.role
    <3>1. PICK n : n = MkRow(serial', p.on.member, p.as.unit, p.on.group, p.on.role)
      OBVIOUS
    <3>2. /\ n \in Assignment /\ n.id = serial' /\ n.member = p.on.member /\ n.unit = p.as.unit
          /\ n.group = p.on.group /\ n.role = p.on.role
      BY <1>2, <2>1, <3>1 DEF MkRow, Assignment
    <3>. QED
      BY <3>1, <3>2
  <2>3. rows' = rows \cup {n}
    BY <1>8, <2>2
  <2>4. /\ rows' \subseteq Assignment
        /\ \A a \in rows' : Exists(a.member) /\ (a \in rows \/ a.id > serial)
    BY <1>4, <2>1, <2>2, <2>3, RestGiven DEF RestOK
  <2>5. RowsKeyed'
    <3>1. subgroup' = subgroup
      BY <1>4 DEF placeVars
    <3>2. \A a \in rows : a.id \in Nat /\ a.id <= serial
      BY RestGiven DEF RestOK, Assignment, IInv, RowsKeyed
    <3>3. \A a, b \in rows' : a.id = b.id => a = b
      BY <2>1, <2>2, <2>3, <3>2 DEF IInv, RowsKeyed
    <3>4. \A a \in rows' : a.id <= serial' /\ (a.group # NoGroup => subgroup'[a.group] = a.unit)
      BY <1>2, <2>1, <2>2, <2>3, <3>1, <3>2 DEF IInv, RowsKeyed
    <3>. QED
      BY <3>3, <3>4 DEF RowsKeyed
  <2>6. NewRowsFit
    <3>1. /\ p.as.unit \notin ruled => Modest(p.as.unit, GrantedAtStart(p.as.unit, p.on.role))
          /\ p.as.unit \notin led => p.on.group \in LedDens(p.as.unit)
          /\ led = {} => Near(p.on.member)
      BY <1>1 DEF Sound, Within, InDens, Choosing
    <3>2. ruled' = ruled /\ led' = led
      BY <1>4 DEF ghostVars
    <3>. QED
      BY <2>2, <2>3, <3>1, <3>2 DEF NewRowsFit
  <2>. QED
    BY <1>4, <1>5, <1>6, <2>1, <2>3, <2>4, <2>5, <2>6, RowsStep
<1>. QED
  BY <1>4, <1>7, <1>8

\* What roles grant changes in a unit in which an Admin acts, and there only.
LEMMA RulesStep ==
    ASSUME IInv, NEW r \in Requests, Rules(r), serial' \in Nat, serial <= serial',
           custom' \subseteq CustomRole,
           \A c, d \in custom' : c.unit = d.unit /\ c.slug = d.slug => c = d,
           overrides' \in Overrides,
           \A u \in Units \ {request[r].as.unit} :
              overrides'[u] = overrides[u] /\ CustomIn(custom', u) = CustomIn(custom, u)
    PROVE  IInv'
<1>1. PICK p \in Request : p = request[r] /\ Sound(p) /\ p.at = "ruling"
  BY Current DEF Rules, At
<1>2. /\ UNCHANGED <<rows, member, address, login, subgroup, folded>>
      /\ UNCHANGED <<start, ruled, led, imported, money, made>>
      /\ Done(r) /\ audit(r)
  BY DEF Rules, peopleVars, placeVars, ghostVars
<1>3. PICK q \in Request : q = Idle /\ request' = [request EXCEPT ![r] = q]
  BY <1>2, DoneEffect
<1>4. history' \subseteq Members
  BY <1>1, <1>2, AuditTyped
<1>5. RestOK'
  BY <1>2, <1>4, RestGiven DEF RestOK, Exists
<1>6. RowsKeyed'
  <2>1. \A a \in rows : a.id \in Nat /\ a.id <= serial'
    BY RestGiven DEF RestOK, Assignment, IInv, RowsKeyed
  <2>. QED
    BY <1>2, <2>1 DEF IInv, RowsKeyed
<1>7. Frozen'
  <2>1. p.as.unit \in ruled
    BY <1>1 DEF Sound, Formed
  <2>. QED
    BY <1>1, <1>2, <2>1 DEF IInv, Frozen
<1>8. Careful
  BY <1>2 DEF Careful, Grows, GhostsGrow, RowsGrow, GroupsStay, HomesStay, AdminsStay, FarStay,
              NewRowsFit
<1>. QED
  BY <1>3, <1>5, <1>6, <1>7, <1>8, IdleSound, CarefulStep

LEMMA SetSystemRoleCapabilitiesStep ==
    ASSUME IInv, NEW r \in Requests, NEW slug \in SystemRoles, NEW granted \in Ticked,
           SetSystemRoleCapabilities(r, slug, granted)
    PROVE  IInv'
<1>1. PICK grant \in (SUBSET AllCapabilities) \cup {Default} :
          overrides' = [overrides EXCEPT ![request[r].as.unit] =
                          [overrides[request[r].as.unit] EXCEPT ![slug] = grant]]
  BY RosterAssumption DEF SetSystemRoleCapabilities
<1>2. Rules(r) /\ custom' = custom /\ serial' = serial
  BY DEF SetSystemRoleCapabilities
<1>3. /\ overrides' \in Overrides
      /\ \A u \in Units \ {request[r].as.unit} : overrides'[u] = overrides[u]
  BY <1>1, RestGiven DEF RestOK, Overrides
<1>4. /\ custom' \subseteq CustomRole /\ serial' \in Nat /\ serial <= serial'
      /\ \A c, d \in custom' : c.unit = d.unit /\ c.slug = d.slug => c = d
  BY <1>2, RestGiven DEF RestOK
<1>. QED
  BY <1>2, <1>3, <1>4, RulesStep

LEMMA CreateCustomRoleStep ==
    ASSUME IInv, NEW r \in Requests, NEW slug \in CustomSlugs, NEW granted \in Ticked,
           CreateCustomRole(r, slug, granted)
    PROVE  IInv'
<1>1. PICK u \in Units : u = request[r].as.unit
  BY DEF CreateCustomRole, Rules, At, IInv, Sound, Formed
<1>2. /\ Rules(r) /\ serial' = serial + 1 /\ overrides' = overrides
      /\ custom' = custom \cup {MkCustomRole(serial', u, slug, granted)}
      /\ \A c \in custom : ~(c.unit = u /\ c.slug = slug)
  BY <1>1 DEF CreateCustomRole
<1>3. serial' \in Nat /\ serial <= serial'
  BY <1>2, RestGiven DEF RestOK
<1>4. PICK n \in CustomRole :
          n = MkCustomRole(serial', u, slug, granted) /\ n.unit = u /\ n.slug = slug
  <2>1. PICK n : n = MkCustomRole(serial', u, slug, granted)
    OBVIOUS
  <2>2. n \in CustomRole /\ n.unit = u /\ n.slug = slug
    BY <1>3, <2>1, RosterAssumption DEF MkCustomRole, CustomRole
  <2>. QED
    BY <2>1, <2>2
<1>5. custom' = custom \cup {n}
  BY <1>2, <1>4
<1>6. /\ custom' \subseteq CustomRole /\ overrides' \in Overrides
      /\ \A c, d \in custom' : c.unit = d.unit /\ c.slug = d.slug => c = d
  BY <1>2, <1>4, <1>5, RestGiven DEF RestOK
<1>7. \A v \in Units \ {u} :
          overrides'[v] = overrides[v] /\ CustomIn(custom', v) = CustomIn(custom, v)
  BY <1>2, <1>4, <1>5 DEF CustomIn
<1>. QED
  BY <1>1, <1>2, <1>3, <1>6, <1>7, RulesStep

LEMMA UpdateCustomRoleStep ==
    ASSUME IInv, NEW r \in Requests, NEW c \in custom, NEW granted \in Ticked,
           UpdateCustomRole(r, c, granted)
    PROVE  IInv'
<1>1. /\ Rules(r) /\ c.unit = request[r].as.unit /\ overrides' = overrides /\ serial' = serial
      /\ custom' = (custom \ {c}) \cup {MkCustomRole(c.id, c.unit, c.slug, granted)}
  BY DEF UpdateCustomRole
<1>2. c \in CustomRole /\ serial' \in Nat /\ serial <= serial'
  BY <1>1, RestGiven DEF RestOK
<1>3. PICK n \in CustomRole :
          /\ n = MkCustomRole(c.id, c.unit, c.slug, granted)
          /\ n.unit = c.unit /\ n.slug = c.slug
  <2>1. PICK n : n = MkCustomRole(c.id, c.unit, c.slug, granted)
    OBVIOUS
  <2>2. n \in CustomRole /\ n.unit = c.unit /\ n.slug = c.slug
    BY <1>2, <2>1, RosterAssumption DEF MkCustomRole, CustomRole
  <2>. QED
    BY <2>1, <2>2
<1>4. custom' = (custom \ {c}) \cup {n}
  BY <1>1, <1>3
<1>5. /\ custom' \subseteq CustomRole /\ overrides' \in Overrides
      /\ \A d, e \in custom' : d.unit = e.unit /\ d.slug = e.slug => d = e
  BY <1>1, <1>3, <1>4, RestGiven DEF RestOK
<1>6. \A v \in Units \ {c.unit} :
          overrides'[v] = overrides[v] /\ CustomIn(custom', v) = CustomIn(custom, v)
  BY <1>1, <1>3, <1>4 DEF CustomIn
<1>. QED
  BY <1>1, <1>2, <1>5, <1>6, RulesStep

LEMMA DeleteCustomRoleStep ==
    ASSUME IInv, NEW r \in Requests, NEW c \in custom, DeleteCustomRole(r, c)
    PROVE  IInv'
<1>1. /\ Rules(r) /\ c.unit = request[r].as.unit /\ overrides' = overrides /\ serial' = serial
      /\ custom' = custom \ {c}
  BY DEF DeleteCustomRole
<1>2. /\ custom' \subseteq CustomRole /\ overrides' \in Overrides
      /\ \A d, e \in custom' : d.unit = e.unit /\ d.slug = e.slug => d = e
      /\ serial' \in Nat /\ serial <= serial'
  BY <1>1, RestGiven DEF RestOK
<1>3. \A v \in Units \ {c.unit} :
          overrides'[v] = overrides[v] /\ CustomIn(custom', v) = CustomIn(custom, v)
  BY <1>1 DEF CustomIn
<1>. QED
  BY <1>1, <1>2, <1>3, RulesStep

-----------------------------------------------------------------------------
(* Dens and patrols, the books, and the whole.                             *)

LEMMA PlacesStep ==
    ASSUME IInv, UNCHANGED <<accessVars, peopleVars, ghostVars, money, serial, made>>,
           history' \subseteq Members, folded' \subseteq SubGroups,
           subgroup' \in [SubGroups -> Units \cup {NoUnit}], GroupsStay,
           NEW r \in Requests, Done(r)
    PROVE  IInv'
<1>1. /\ UNCHANGED <<rows, custom, overrides, member, address, login>>
      /\ UNCHANGED <<start, ruled, led, imported, money, serial, made>>
  BY DEF accessVars, peopleVars, ghostVars
<1>2. PICK q \in Request : q = Idle /\ request' = [request EXCEPT ![r] = q]
  BY DoneEffect
<1>3. RestOK'
  BY <1>1, RestGiven DEF RestOK, Exists
<1>4. RowsKeyed'
  <2>1. \A a \in rows : a.group # NoGroup => subgroup'[a.group] = a.unit
    BY RestGiven, RosterAssumption DEF GroupsStay, RestOK, Assignment, IInv, RowsKeyed
  <2>. QED
    BY <1>1, <2>1 DEF IInv, RowsKeyed
<1>5. Frozen'
  BY <1>1 DEF IInv, Frozen, CustomIn
<1>6. Careful
  BY <1>1, RestGiven DEF Careful, Grows, GhostsGrow, RowsGrow, HomesStay, AdminsStay, FarStay,
                         NewRowsFit, RestOK
<1>. QED
  BY <1>2, <1>3, <1>4, <1>5, <1>6, IdleSound, CarefulStep

LEMMA CreateSubGroupStep ==
    ASSUME IInv, NEW r \in Requests, NEW g \in SubGroups, CreateSubGroup(r, g)
    PROVE  IInv'
<1>1. PICK u \in Units : u = request[r].as.unit
  BY DEF CreateSubGroup, At, IInv, Sound, Formed
<1>2. request[r].at = "entitled" /\ Done(r) /\ audit(r) /\ folded' = folded
  BY DEF CreateSubGroup, At
<1>3. subgroup[g] = NoUnit /\ subgroup' = [subgroup EXCEPT ![g] = u]
  BY <1>1 DEF CreateSubGroup
<1>4. subgroup' \in [SubGroups -> Units \cup {NoUnit}] /\ GroupsStay
  BY <1>3, RestGiven DEF RestOK, GroupsStay
<1>5. folded' \subseteq SubGroups /\ history' \subseteq Members
  BY <1>2, RestGiven, AuditTyped DEF RestOK
<1>6. UNCHANGED <<accessVars, peopleVars, ghostVars, money, serial, made>>
  BY DEF CreateSubGroup
<1>. QED
  BY <1>2, <1>4, <1>5, <1>6, PlacesStep

LEMMA SetSubGroupActiveStep ==
    ASSUME IInv, NEW r \in Requests, NEW g \in SubGroups, SetSubGroupActive(r, g)
    PROVE  IInv'
<1>1. /\ request[r].at = "entitled" /\ Done(r) /\ audit(r) /\ subgroup' = subgroup
      /\ folded' \in {folded \cup {g}, folded \ {g}}
  BY DEF SetSubGroupActive, At
<1>2. /\ subgroup' \in [SubGroups -> Units \cup {NoUnit}] /\ GroupsStay
      /\ folded' \subseteq SubGroups /\ history' \subseteq Members
  BY <1>1, RestGiven, AuditTyped DEF RestOK, GroupsStay
<1>3. UNCHANGED <<accessVars, peopleVars, ghostVars, money, serial, made>>
  BY DEF SetSubGroupActive
<1>. QED
  BY <1>1, <1>2, <1>3, PlacesStep

LEMMA ScoutAccountMovesStep ==
    ASSUME IInv, NEW m \in Members, ScoutAccountMoves(m)
    PROVE  IInv'
<1>1. /\ UNCHANGED <<rows, custom, overrides, member, address, login, subgroup, folded>>
      /\ UNCHANGED <<start, ruled, led, imported, serial, request>>
      /\ money' \in {money \cup {m}, money \ {m}} /\ history' = history \cup {m}
      /\ made < MaxRequests /\ made' = made + 1
  BY DEF ScoutAccountMoves, accessVars, peopleVars, placeVars, ghostVars
<1>2. RestOK'
  BY <1>1, OneMore, RestGiven DEF RestOK, Exists
<1>3. RowsKeyed' /\ Frozen'
  BY <1>1 DEF IInv, RowsKeyed, Frozen, CustomIn
<1>4. Careful
  BY <1>1, RestGiven DEF Careful, Grows, GhostsGrow, RowsGrow, GroupsStay, HomesStay, AdminsStay,
                         FarStay, NewRowsFit, RestOK
<1>5. ASSUME NEW r \in Requests
      PROVE  Sound(request[r])'
  <2>1. PICK p \in Request : p = request[r] /\ Sound(p)
    BY Current
  <2>2. Sound(p)'
    BY <1>4, <2>1, RestGiven, SoundKept DEF Careful
  <2>3. request'[r] = p
    BY <1>1, <2>1
  <2>. QED
    BY <2>2, <2>3
<1>6. TypeOK'
  BY <1>1, <1>2 DEF IInv, TypeOK, RestOK
<1>. QED
  BY <1>2, <1>3, <1>4, <1>5, <1>6, NoEscalationKept, AdminsSecureKept, DensKept DEF IInv

LEMMA RequestKeeps ==
    ASSUME IInv, NEW r \in Requests, Step(r)
    PROVE  IInv'
<1>1. CASE \E x \in Logins, u \in Units :
             \/ requireRosterEditor(r, x, u)
             \/ requireFamilyAdult(r, x, u)
             \/ requireSuperAdminForRoles(r, x, u)
  BY <1>1, requireRosterEditorStep, requireFamilyAdultStep, requireSuperAdminForRolesStep
<1>2. CASE rosterScope(r) \/ Ends(r) \/ \E m \in Members : ManageMember(r, m)
  BY <1>2, rosterScopeStep, EndsStep, ManageMemberStep
<1>3. CASE \/ AdminRosterResetPassword(r) \/ AdminRosterResetMemberLoginPassword(r)
           \/ AdminRosterCreateMemberLogin(r)
  BY <1>3, requireFamilyCeilingStep, requireMemberCeilingStep, ResetFamilyPasswordStep,
     ResetMemberLoginPasswordStep, CreateMemberLoginStep
  DEF AdminRosterResetPassword, AdminRosterResetMemberLoginPassword, AdminRosterCreateMemberLogin
<1>4. CASE AdminRosterMemberDeactivate(r) \/ AdminRosterMemberReactivate(r)
  BY <1>4, requireMemberCeilingStep, ScoutAccountBalancesForMemberStep, SetMemberActiveStep
  DEF AdminRosterMemberDeactivate, AdminRosterMemberReactivate
<1>5. CASE AdminRosterMemberDelete(r)
  BY <1>5, DeleteMemberStep, requireSuperAdminToDeleteStep DEF AdminRosterMemberDelete
<1>6. CASE AdminRosterMemberUpdate(r)
  <2>1. ASSUME NEW release \in BOOLEAN, SetFamilyAddress(r, release)
        PROVE  SetFamilyAddress(r, TRUE) \/ SetFamilyAddress(r, FALSE)
    BY <2>1, Zenon
  <2>. QED
    BY <1>6, <2>1, UpdateMemberStep, SetContactInfoStep, SetFamilyAddressStep
    DEF AdminRosterMemberUpdate
<1>7. CASE \E m \in Members : MyFamilyUpdateMember(r, m)
  BY <1>7, MyFamilyUpdateMemberStep
<1>8. CASE \E release \in BOOLEAN : MyFamilyUpdateAddress(r, release)
  <2>1. MyFamilyUpdateAddress(r, TRUE) \/ MyFamilyUpdateAddress(r, FALSE)
    BY <1>8, Zenon
  <2>. QED
    BY <2>1, MyFamilyUpdateAddressStep
<1>9. CASE \/ AdminRosterAssignRole(r) \/ AdminRosterCreateFamily(r) \/ AdminRosterAddMember(r)
           \/ \E m \in Members : AdminRosterAssignExistingMember(r, m)
  BY <1>9, AdminRosterAssignRoleStep, AdminRosterCreateFamilyStep, AdminRosterAddMemberStep,
     AdminRosterAssignExistingMemberStep
<1>10. CASE AdminRosterImportApply(r)
  BY <1>10, BeginImportStep, ImportRowStep DEF AdminRosterImportApply
<1>11. CASE Placement(r)
  BY <1>11, AssignRoleStep, RoleNotAssignedStep, CreateFamilyWithMemberStep, AddMemberStep
  DEF Placement
<1>12. CASE AdminRosterRemoveRole(r)
  BY <1>12, GetRoleAssignmentStep, ManageHolderStep, requireRoleCeilingStep, RemoveRoleStep
  DEF AdminRosterRemoveRole
<1>13. CASE AdminSystemRoleUpdate(r) \/ AdminCustomRolesCreate(r)
  BY <1>13, SetSystemRoleCapabilitiesStep, CreateCustomRoleStep
  DEF AdminSystemRoleUpdate, AdminCustomRolesCreate
<1>14. CASE AdminCustomRolesUpdate(r) \/ AdminCustomRolesDelete(r)
  BY <1>14, UpdateCustomRoleStep, DeleteCustomRoleStep
  DEF AdminCustomRolesUpdate, AdminCustomRolesDelete
<1>15. CASE AdminRosterCreateSubGroup(r) \/ AdminRosterSetSubGroupActive(r)
  BY <1>15, CreateSubGroupStep, SetSubGroupActiveStep
  DEF AdminRosterCreateSubGroup, AdminRosterSetSubGroupActive
<1>. QED
  BY <1>1, <1>2, <1>3, <1>4, <1>5, <1>6, <1>7, <1>8, <1>9, <1>10, <1>11, <1>12, <1>13, <1>14,
     <1>15 DEF Step

\* The beginning.
LEMMA InitRest ==
    ASSUME Init
    PROVE  RestOK
<1>1. start \in Start /\ start \in Roster /\ Kept(start)
  BY RosterAssumption DEF Init
<1>2. /\ member \in [Members -> Member] /\ rows \subseteq Assignment /\ custom \subseteq CustomRole
      /\ overrides \in Overrides /\ subgroup \in [SubGroups -> Units \cup {NoUnit}]
      /\ login \in [Logins -> {"none", "own", "handed"}] /\ serial \in Nat
  BY <1>1 DEF Init, Roster
<1>3. /\ \A a \in rows : Exists(a.member)
      /\ \A c, d \in custom : c.unit = d.unit /\ c.slug = d.slug => c = d
      /\ \A m \in Members : login[m] # "none" => Exists(m)
  BY <1>1 DEF Init, Kept, Exists
<1>4. address \in [Families -> {"none", "kept", "released"}]
  BY DEF Init
<1>5. ASSUME NEW m \in Members, Exists(m)
      PROVE  address[member[m].family] # "none"
  <2>1. PICK f \in Families : f = member[m].family
    BY <1>2, <1>5 DEF Exists, Member
  <2>2. start.member[m].family = f
    BY <2>1 DEF Init
  <2>. QED
    BY <2>1, <2>2 DEF Init
<1>6. made \in 0..MaxRequests
  BY RosterAssumption DEF Init
<1>7. /\ money \subseteq Members /\ history \subseteq Members /\ folded \subseteq SubGroups
      /\ ruled \subseteq Units /\ led \subseteq Units /\ imported \subseteq Members
  BY DEF Init
<1>. QED
  BY <1>1, <1>2, <1>3, <1>4, <1>5, <1>6, <1>7 DEF RestOK

LEMMA InitIInv == Init => IInv
<1>. SUFFICES ASSUME Init
              PROVE  IInv
  OBVIOUS
<1>1. RestOK
  BY InitRest
<1>2. /\ request = [r \in Requests |-> Idle] /\ rows = start.rows /\ custom = start.custom
      /\ overrides = start.overrides /\ member = start.member /\ login = start.login
      /\ subgroup = start.subgroup /\ serial = start.last /\ ruled = {} /\ led = {}
  BY DEF Init
<1>3. TypeOK
  BY <1>1, <1>2, IdleSound DEF TypeOK, RestOK
<1>4. RowsKeyed
  BY <1>1, <1>2, StartKept DEF RowsKeyed, Kept
<1>5. Frozen
  BY <1>2 DEF Frozen
<1>6. NoEscalation
  <2>1. SUFFICES ASSUME NEW u \in Units, NEW a \in start.rows, a.unit = u,
                        ~IsSuperAdmin(GrantedAtStart(u, a.role))
                 PROVE  Covers(BelowAdmin(u), GrantedAtStart(u, a.role))
    BY <1>2, <1>5, StartGrants DEF NoEscalation
  <2>2. GrantedAtStart(u, a.role) \subseteq BelowAdmin(u)
    BY <2>1 DEF BelowAdmin
  <2>. QED
    BY <2>2 DEF Covers
<1>7. AdminsSecure
  BY <1>2 DEF AdminsSecure
<1>8. FarKept /\ DenRows
  BY <1>2 DEF FarKept, DenRows
<1>9. RowsNear
  BY <1>2 DEF RowsNear, Near, InLedDen
<1>10. \A r \in Requests : Sound(request[r])
  BY <1>2, IdleSound
<1>. QED
  BY <1>3, <1>4, <1>5, <1>6, <1>7, <1>8, <1>9, <1>10 DEF IInv

\* IInv of a state in which nothing has changed.
LEMMA Stands ==
    ASSUME IInv, UNCHANGED vars
    PROVE  IInv'
<1>1. /\ UNCHANGED <<rows, custom, overrides, member, address, login, subgroup, folded>>
      /\ UNCHANGED <<start, ruled, led, imported, money, history, serial, request, made>>
  BY DEF vars, accessVars, peopleVars, placeVars, ghostVars
<1>2. RestOK'
  BY <1>1, RestGiven DEF RestOK, Exists
<1>3. RowsKeyed' /\ Frozen'
  BY <1>1 DEF IInv, RowsKeyed, Frozen, CustomIn
<1>4. Careful
  BY <1>1, RestGiven DEF Careful, Grows, GhostsGrow, RowsGrow, GroupsStay, HomesStay, AdminsStay,
                         FarStay, NewRowsFit, RestOK
<1>5. ASSUME NEW r \in Requests
      PROVE  Sound(request[r])'
  <2>1. PICK p \in Request : p = request[r] /\ Sound(p)
    BY Current
  <2>2. Sound(p)'
    BY <1>4, <2>1, RestGiven, SoundKept DEF Careful
  <2>3. request'[r] = p
    BY <1>1, <2>1
  <2>. QED
    BY <2>2, <2>3
<1>6. TypeOK'
  BY <1>1, <1>2 DEF IInv, TypeOK, RestOK
<1>. QED
  BY <1>2, <1>3, <1>4, <1>5, <1>6, NoEscalationKept, AdminsSecureKept, DensKept DEF IInv

\* IInv is inductive: what each request has made sure of by the stage it has come to stays
\* so whatever the others do meanwhile (internal/web/admin_roster.go).
THEOREM Invariance == Spec => []IInv
<1>1. Init => IInv
  BY InitIInv
<1>2. IInv /\ [Next]_vars => IInv'
  BY RequestKeeps, ScoutAccountMovesStep, Stands DEF Next
<1>. QED
  BY <1>1, <1>2, PTL DEF Spec

\* Every table and every request is of the shape that the schema and the handlers give it:
\* roles are of members there are, and so are logins (internal/roster).
THEOREM TypeCorrectness == Spec => []TypeOK
<1>1. IInv => TypeOK
  BY DEF IInv
<1>. QED
  BY <1>1, Invariance, PTL

\* Until an Admin acts in a unit, nobody there comes by a capability that no one short of
\* an Admin held, nor becomes an Admin (roster.AllowedRoles, units.Covers).
THEOREM NobodyEscalates == Spec => []NoEscalation
<1>1. IInv => NoEscalation
  BY DEF IInv
<1>. QED
  BY <1>1, Invariance, PTL

\* Until an Admin acts, an Admin keeps role, activity, household and passwords
\* (internal/web/admin_roster.go, requireCeiling; internal/roster/privilege.go).
THEOREM AdminsAreSecure == Spec => []AdminsSecure
<1>1. IInv => AdminsSecure
  BY DEF IInv
<1>. QED
  BY <1>1, Invariance, PTL

\* A den's leader gives no role outside the dens that have a leader, and changes nobody out
\* of them (roster.Scope, resolveSubGroup, CanManageMember).
THEOREM LeadersStayInTheDen == Spec => []StaysInTheDen
<1>1. IInv => StaysInTheDen
  BY DEF IInv, StaysInTheDen, DenRows, FarKept, Near
<1>. QED
  BY <1>1, Invariance, PTL

-----------------------------------------------------------------------------
(* What the pages list.                                                    *)

\* No custom role of the unit has the name of a built-in one.
Plainly(u) == \A c \in custom : c.unit = u => c.slug \notin SystemRoles

\* A list's query and a check find the same in a role.
LEMMA GrantsAgree ==
    ASSUME NEW u, Plainly(u), NEW a \in rows, a.unit = u, NEW cap
    PROVE  Grants(a, u, cap) <=> cap \in RoleCapabilities(u, a.role)
<1>1. CASE a.role \in SystemRoles
  <2>1. Grants(a, u, cap) <=> a.role \in SystemRolesWithCapabilityForUnit(u, cap)
    BY <1>1 DEF Grants, Plainly
  <2>. QED
    BY <1>1, <2>1 DEF SystemRolesWithCapabilityForUnit, RoleCapabilities, GrantedBy
<1>2. CASE a.role \notin SystemRoles
  BY <1>2 DEF Grants, SystemRolesWithCapabilityForUnit, RoleCapabilities, GrantedBy
<1>. QED
  BY <1>1, <1>2

LEMMA CapabilityHeld ==
    ASSUME NEW x, NEW u, NEW cap
    PROVE  cap \in capabilitiesFor(x, u) <=>
              \E a \in rows : /\ a.unit = u /\ BelongsTo(x, a.member) /\ member[a.member].active
                              /\ cap \in RoleCapabilities(u, a.role)
BY DEF capabilitiesFor, CapabilitiesForRoles, rolesFor, RowsIn

LEMMA ApproversAgree ==
    ASSUME RestOK, NEW u, Plainly(u), NEW cap
    PROVE  MembersWithCapability(u, cap) =
              {m \in Members : Exists(m) /\ cap \in capabilitiesFor(m, u)}
<1>1. \A m \in Members : \A n : BelongsTo(m, n) <=> m = n /\ Exists(n)
  BY RosterAssumption DEF BelongsTo
<1>2. \A a \in rows : a.member \in Members /\ Exists(a.member)
  BY DEF RestOK, Assignment
<1>3. ASSUME NEW m \in MembersWithCapability(u, cap)
      PROVE  m \in Members /\ Exists(m) /\ cap \in capabilitiesFor(m, u)
  <2>1. PICK a \in rows : /\ a.member = m /\ a.unit = u /\ member[m].active
                          /\ Grants(a, u, cap)
    BY <1>3 DEF MembersWithCapability
  <2>. QED
    BY <1>1, <1>2, <2>1, GrantsAgree, CapabilityHeld
<1>4. ASSUME NEW m \in Members, cap \in capabilitiesFor(m, u)
      PROVE  m \in MembersWithCapability(u, cap)
  <2>1. PICK a \in rows : /\ a.member = m /\ a.unit = u /\ member[m].active
                          /\ cap \in RoleCapabilities(u, a.role)
    BY <1>1, <1>4, CapabilityHeld
  <2>. QED
    BY <2>1, GrantsAgree DEF MembersWithCapability
<1>. QED
  BY <1>3, <1>4

LEMMA GroupsAgree ==
    ASSUME NEW u, Plainly(u), NEW cap, NEW x, SubGroupIDsWithCapability(x, u, cap) # {}
    PROVE  cap \in capabilitiesFor(x, u)
<1>1. PICK a \in RowsIn(x, u) : member[a.member].active /\ Grants(a, u, cap)
  BY DEF SubGroupIDsWithCapability
<1>. QED
  BY <1>1, GrantsAgree, CapabilityHeld DEF RowsIn

\* Who is on the two listings.
Listed(u) ==
    {n \in Members : /\ Exists(n) /\ member[n].active
                     /\ \E a \in RowsOf(n) : a.unit = u /\ a.role # "super_admin"}

LEMMA RosterLists ==
    ASSUME RestOK, NEW u
    PROVE  {a.member : a \in {b \in rows : b.unit = u /\ member[b.member].active}}
           \ {n \in Members : \A a \in RowsOf(n) : a.unit = u => a.role = "super_admin"}
             = Listed(u)
BY DEF Listed, RowsOf, RestOK, Assignment

LEMMA ListingsAgree ==
    ASSUME RestOK, NEW u
    PROVE  /\ DirectoryForUnit(u) = {[member |-> m, told |-> Told(m)] : m \in Listed(u)}
           /\ RosterForUnit(u) = {[member |-> m, told |-> Told(m)] : m \in Listed(u)}
           /\ {e.member : e \in RosterForUnit(u)} = Listed(u)
<1>1. DirectoryForUnit(u) = {[member |-> m, told |-> Told(m)] : m \in Listed(u)}
  BY DEF DirectoryForUnit, Listed
<1>2. RosterForUnit(u) = {[member |-> m, told |-> Told(m)] : m \in Listed(u)}
  BY RosterLists DEF RosterForUnit
<1>3. {e.member : e \in RosterForUnit(u)} = Listed(u)
  <2>1. \A m \in Listed(u) : \E e \in RosterForUnit(u) : e.member = m
    <3>1. ASSUME NEW m \in Listed(u)
          PROVE  \E e \in RosterForUnit(u) : e.member = m
      <4>1. [member |-> m, told |-> Told(m)] \in RosterForUnit(u)
        BY <1>2
      <4>. QED
        BY <4>1
    <3>. QED
      BY <3>1
  <2>2. \A e \in RosterForUnit(u) : e.member \in Listed(u)
    BY <1>2
  <2>. QED
    BY <2>1, <2>2
<1>. QED
  BY <1>1, <1>2, <1>3

LEMMA TreasurySeen ==
    ASSUME NEW x, NEW u, "manage_ledger" \in capabilitiesFor(x, u)
    PROVE  HasAnyTreasuryRole(x)
<1>1. PICK a \in rows : /\ a.unit = u /\ BelongsTo(x, a.member)
                        /\ "manage_ledger" \in RoleCapabilities(u, a.role)
  BY CapabilityHeld
<1>. QED
  BY <1>1 DEF HasAnyTreasuryRole, capabilitiesAcrossUnits

LEMMA EmailedGroupsSeen ==
    ASSUME NEW x, NEW u
    PROVE  groupEmailAccess(x, u) \subseteq GroupView(x, u)
<1>1. ASSUME NEW g \in groupEmailAccess(x, u)
      PROVE  isUnitMember(x, u)
  <2>1. CASE CanEmailGroup(capabilitiesFor(x, u))
    BY <2>1 DEF CanEmailGroup, capabilitiesFor, CapabilitiesForRoles, isUnitMember
  <2>2. CASE g \in SubGroupIDsWithCapability(x, u, "email_group")
    BY <2>2 DEF SubGroupIDsWithCapability, isUnitMember, rolesFor
  <2>. QED
    BY <1>1, <2>1, <2>2 DEF groupEmailAccess
<1>. QED
  BY <1>1 DEF groupEmailAccess, GroupView

\* The leaders' page, for a leader of the whole unit or of some dens.
Shown(u) == Listed(u) \cup InactiveRosterForUnit(u)

LEMMA ShownInUnit ==
    ASSUME RestOK, NEW u, NEW m \in Shown(u)
    PROVE  \E a \in RowsOf(m) : a.unit = u
BY DEF Shown, Listed, InactiveRosterForUnit, RowsOf

LEMMA ManageableAgree ==
    ASSUME RestOK, NEW u, NEW wide \in BOOLEAN, NEW dens, NEW m \in Shown(u)
    PROVE  wide \/ m \in ManageableMemberIDs(dens, u) <=> CanManageMember(wide, dens, m, u)
<1>1. CASE wide
  BY <1>1, ShownInUnit DEF CanManageMember, CanManageSubGroup
<1>2. CASE ~wide
  BY <1>2 DEF CanManageMember, CanManageSubGroup, ManageableMemberIDs, RowsOf
<1>. QED
  BY <1>1, <1>2

LEMMA NobodyUnlisted ==
    ASSUME RestOK, NEW u, NEW m \in Members, Exists(m)
    PROVE  \/ m \in Shown(u) \cup MembersNotInUnit(u)
           \/ \A a \in RowsOf(m) : a.unit = u => a.role = "super_admin"
BY DEF Shown, Listed, InactiveRosterForUnit, MembersNotInUnit, RowsOf

LEMMA SelfListed ==
    ASSUME RestOK, NEW u, NEW x \in Members, isUnitMember(x, u)
    PROVE  \/ \E e \in FamilyDirectory(x, u) : e.member = x
           \/ rolesFor(x, u) = {"super_admin"}
<1>1. \A n : BelongsTo(x, n) <=> x = n /\ Exists(n)
  BY RosterAssumption DEF BelongsTo
<1>2. CASE x \in Listed(u)
  <2>1. [member |-> x, told |-> Told(x)] \in FamilyDirectory(x, u)
    BY <1>2, ListingsAgree DEF FamilyDirectory
  <2>. QED
    BY <2>1
<1>3. CASE x \notin Listed(u)
  <2>1. \A s \in rolesFor(x, u) : s = "super_admin"
    BY <1>1, <1>3 DEF rolesFor, RowsIn, Listed, RowsOf
  <2>. QED
    BY <2>1 DEF isUnitMember
<1>. QED
  BY <1>2, <1>3

LEMMA PageAgrees ==
    ASSUME RestOK, NEW u, NEW wide \in BOOLEAN, NEW dens, NEW page,
           page = AdminRosterList(u, wide, dens)
    PROVE  /\ page.editable = {m \in page.shown : CanManageMember(wide, dens, m, u)}
           /\ page.addable \subseteq resolveSubGroup(u, wide, dens)
           /\ wide => \A m \in Members : Exists(m) =>
                 \/ m \in page.shown \cup page.others
                 \/ \A a \in RowsOf(m) : a.unit = u => a.role = "super_admin"
<1>1. /\ page.shown = Shown(u)
      /\ page.editable = {m \in Shown(u) : wide \/ m \in ManageableMemberIDs(dens, u)}
      /\ page.addable = {g \in SubGroupsForUnit(u) : CanManageSubGroup(wide, dens, g)}
      /\ wide => page.others = MembersNotInUnit(u)
  BY ListingsAgree DEF AdminRosterList, Shown
<1>2. page.editable = {m \in page.shown : CanManageMember(wide, dens, m, u)}
  BY <1>1, ManageableAgree
<1>3. page.addable \subseteq resolveSubGroup(u, wide, dens)
  BY <1>1 DEF SubGroupsForUnit, resolveSubGroup
<1>4. wide => \A m \in Members : Exists(m) =>
                 \/ m \in page.shown \cup page.others
                 \/ \A a \in RowsOf(m) : a.unit = u => a.role = "super_admin"
  BY <1>1, NobodyUnlisted
<1>. QED
  BY <1>2, <1>3, <1>4

LEMMA ListsAgreeAlways ==
    ASSUME IInv
    PROVE  ListsAgree
<1>1. ASSUME NEW u \in Units, Plainly(u)
      PROVE  /\ \A cap \in Asked :
                   /\ MembersWithCapability(u, cap) =
                        {m \in Members : Exists(m) /\ cap \in capabilitiesFor(m, u)}
                   /\ \A x \in Logins : SubGroupIDsWithCapability(x, u, cap) # {} =>
                                           cap \in capabilitiesFor(x, u)
             /\ DirectoryForUnit(u) = RosterForUnit(u)
  BY <1>1, RestGiven, ApproversAgree, GroupsAgree, ListingsAgree
<1>2. ASSUME NEW u \in Units, NEW x \in Logins
      PROVE  LET wide == UnitWide(x, u)
                 dens == ScopeSubGroups(x, u)
                 page == AdminRosterList(u, wide, dens) IN
             /\ "manage_ledger" \in capabilitiesFor(x, u) => HasAnyTreasuryRole(x)
             /\ groupEmailAccess(x, u) \subseteq GroupView(x, u)
             /\ page.editable = {m \in page.shown : CanManageMember(wide, dens, m, u)}
             /\ page.addable \subseteq resolveSubGroup(u, wide, dens)
             /\ wide => \A m \in Members : Exists(m) =>
                   \/ m \in page.shown \cup page.others
                   \/ \A a \in RowsOf(m) : a.unit = u => a.role = "super_admin"
             /\ isUnitMember(x, u) /\ x \in Members =>
                   \/ \E e \in FamilyDirectory(x, u) : e.member = x
                   \/ rolesFor(x, u) = {"super_admin"}
  <2>1. "manage_ledger" \in capabilitiesFor(x, u) => HasAnyTreasuryRole(x)
    BY TreasurySeen
  <2>2. groupEmailAccess(x, u) \subseteq GroupView(x, u)
    BY EmailedGroupsSeen
  <2>3. isUnitMember(x, u) /\ x \in Members =>
           \/ \E e \in FamilyDirectory(x, u) : e.member = x
           \/ rolesFor(x, u) = {"super_admin"}
    BY RestGiven, SelfListed
  <2>4. PICK wide \in BOOLEAN, dens \in SUBSET SubGroups :
            wide = UnitWide(x, u) /\ dens = ScopeSubGroups(x, u)
    BY RestGiven, ScopeTyped
  <2>5. PICK page : page = AdminRosterList(u, wide, dens)
    OBVIOUS
  <2>6. /\ page.editable = {m \in page.shown : CanManageMember(wide, dens, m, u)}
        /\ page.addable \subseteq resolveSubGroup(u, wide, dens)
        /\ wide => \A m \in Members : Exists(m) =>
              \/ m \in page.shown \cup page.others
              \/ \A a \in RowsOf(m) : a.unit = u => a.role = "super_admin"
    BY <2>5, RestGiven, PageAgrees
  <2>. QED
    BY <2>1, <2>2, <2>3, <2>4, <2>5, <2>6, Zenon
<1>. QED
  BY <1>1, <1>2 DEF ListsAgree, Plainly

\* What a page lists is what the checks behind its forms accept, whatever roles have been
\* made to grant (roster.MembersWithCapability, DirectoryForUnit, family.RosterForUnit).
THEOREM ListsAlwaysAgree == Spec => []ListsAgree
BY Invariance, ListsAgreeAlways, PTL
=============================================================================
