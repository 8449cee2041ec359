------------------------------- MODULE Roster -------------------------------
(***************************************************************************)
(* Families, members, roles and capabilities (internal/roster,              *)
(* internal/units, internal/family) and the pages that change them          *)
(* (internal/web: admin_roster, admin_roles, roster_import, my_family).     *)
(*                                                                         *)
(* A handler is a request that works in steps: what the login may do, where *)
(* it may do it, whom it is about, the ceiling, and every write, each read  *)
(* when the code reads it.  A step that fails, and a server that stops,     *)
(* leave what the earlier steps have written.  The login itself, with its   *)
(* passwords, factors and sessions, is SignIn's.                            *)
(***************************************************************************)
EXTENDS Naturals, FiniteSets

CONSTANTS
    Units, Packs,    \* the units, and those that are Packs
    Families, Members, SubGroups,
    CustomSlugs,     \* slugs of custom roles; "parent" and "scout" may be among them
    Requests,
    NoUnit, NoFamily, NoMember, NoGroup, NoRole, NoLogin,
    ContactKinds,    \* what a member may release: an email address, phone numbers
    Asked,           \* the capabilities that pages list the holders of
    Start,           \* the rosters that bootstrap and imports have left
    Offered,         \* bound: the roles chosen in forms
    Ticked,          \* bound: the sets of capabilities ticked in the role forms
    MaxRequests      \* bound on the requests ever made, each row of an import counted

AllCapabilities == {"edit_content", "approve_submissions", "submit_for_approval",
                    "manage_ledger", "approve_expenses", "super_admin", "email_group"}
SystemRoles == {"super_admin", "scoutmaster", "assistant_scoutmaster", "cubmaster",
                "den_leader", "treasurer", "senior_patrol_leader", "patrol_leader",
                "parent", "scout"}
ReservedRoleSlugs == SystemRoles \ {"parent", "scout"}
Slugs == SystemRoles \cup CustomSlugs
Logins == Families \cup Members

\* What the code grants a built-in role.
systemRoleCapabilities(slug) ==
    CASE slug = "cubmaster" -> {"edit_content", "approve_expenses", "email_group"}
      [] slug = "den_leader" -> {"edit_content", "email_group"}
      [] slug = "scoutmaster" -> {"edit_content", "approve_submissions", "approve_expenses",
                                  "email_group"}
      [] slug = "assistant_scoutmaster" -> {"edit_content", "approve_submissions",
                                            "email_group"}
      [] slug = "senior_patrol_leader" -> {"submit_for_approval"}
      [] slug = "patrol_leader" -> {"submit_for_approval", "email_group"}
      [] slug = "treasurer" -> {"manage_ledger"}
      [] slug = "super_admin" -> AllCapabilities \ {"submit_for_approval"}
      [] OTHER -> {}

\* An override that is not there; an empty one grants nothing.
Default == {"default"}

Assignment == [id : Nat, member : Members, unit : Units, group : SubGroups \cup {NoGroup},
               role : Slugs]
CustomRole == [id : Nat, unit : Units, slug : CustomSlugs, caps : SUBSET AllCapabilities]
Overrides == [Units -> [SystemRoles -> (SUBSET AllCapabilities) \cup {Default}]]
Member == [family : Families \cup {NoFamily}, type : {"adult", "youth"}, active : BOOLEAN,
           shown : SUBSET ContactKinds]
Roster == [member : [Members -> Member], rows : SUBSET Assignment,
           custom : SUBSET CustomRole, overrides : Overrides,
           subgroup : [SubGroups -> Units \cup {NoUnit}],
           login : [Logins -> {"none", "own"}], last : Nat]

\* What keys, references and resolveSubGroup have kept: a role is of a member there is, in
\* a sub-group of its unit; a unit has one custom role of a slug; a login is of a member.
Kept(s) ==
    /\ \A a \in s.rows : /\ s.member[a.member].family # NoFamily /\ a.id <= s.last
                         /\ a.group # NoGroup => s.subgroup[a.group] = a.unit
    /\ \A a, b \in s.rows : a.id = b.id => a = b
    /\ \A c, d \in s.custom : c.unit = d.unit /\ c.slug = d.slug => c = d
    /\ \A m \in Members : s.login[m] # "none" => s.member[m].family # NoFamily

ASSUME RosterAssumption ==
    /\ Packs \subseteq Units
    /\ Families \cap Members = {} /\ CustomSlugs \cap ReservedRoleSlugs = {}
    /\ NoUnit \notin Units /\ NoFamily \notin Families /\ NoMember \notin Members
    /\ NoGroup \notin SubGroups /\ NoRole \notin Slugs /\ NoLogin \notin Logins
    /\ Start \subseteq Roster /\ \A s \in Start : Kept(s)
    /\ Asked \subseteq AllCapabilities
    /\ Offered \subseteq Slugs /\ Ticked \subseteq SUBSET AllCapabilities
    /\ MaxRequests \in Nat

VARIABLES
    start,      \* history: the roster of the beginning
    member,     \* members
    rows,       \* role_assignments
    custom,     \* custom_roles
    overrides,  \* role_capability_overrides
    subgroup,   \* sub_groups: each one's unit
    folded,     \* the sub-groups that have been archived
    address,    \* families: "none" when there is no such family, "kept" or "released"
    login,      \* users: "none", a password its owner chose, or one a leader was shown
    money,      \* members whose Scout account is not at zero
    history,    \* members that records refer to
    ruled,      \* history: the units in which an Admin has acted
    led,        \* history: the units in which a unit-wide leader has acted
    imported,   \* history: members that an import has named
    request,
    serial,     \* the last identifier of a row
    made        \* how many requests have been made, and rows imported

accessVars == <<rows, custom, overrides>>
peopleVars == <<member, address, login>>
placeVars == <<subgroup, folded>>
ghostVars == <<start, ruled, led, imported>>
vars == <<accessVars, peopleVars, placeVars, ghostVars, money, history, request, serial, made>>

Stages == {"idle", "scoping", "entitled", "deleting", "managing", "cleared", "household_cleared",
           "closing", "contacting", "addressing", "holding", "measuring", "removing",
           "founding", "placing", "importing", "assigning", "logging_in", "ruling", "parenting"}

\* as: the login, and what the request has read of what it may do.  on: whom and what
\* it is about, and the stage after the assignment of a role.
Editor == [who : Logins \cup {NoLogin}, unit : Units \cup {NoUnit},
           caps : SUBSET AllCapabilities, wide : BOOLEAN, dens : SUBSET SubGroups,
           actor : Members \cup {NoMember}]
Target == [member : Members \cup {NoMember}, role : Slugs \cup {NoRole},
           group : SubGroups \cup {NoGroup}, row : Nat, then : Stages]
Request == [at : Stages, as : Editor, on : Target]

Exists(m) == member[m].family # NoFamily

TypeOK ==
    /\ start \in Start
    /\ member \in [Members -> Member]
    /\ rows \subseteq Assignment /\ \A a \in rows : Exists(a.member)
    /\ custom \subseteq CustomRole
    /\ \A c, d \in custom : c.unit = d.unit /\ c.slug = d.slug => c = d
    /\ overrides \in Overrides
    /\ subgroup \in [SubGroups -> Units \cup {NoUnit}] /\ folded \subseteq SubGroups
    /\ address \in [Families -> {"none", "kept", "released"}]
    /\ \A m \in Members : Exists(m) => address[member[m].family] # "none"
    /\ login \in [Logins -> {"none", "own", "handed"}]
    /\ \A m \in Members : login[m] # "none" => Exists(m)
    /\ money \subseteq Members /\ history \subseteq Members
    /\ ruled \subseteq Units /\ led \subseteq Units /\ imported \subseteq Members
    /\ request \in [Requests -> Request]
    /\ serial \in Nat /\ made \in 0..MaxRequests

-----------------------------------------------------------------------------
(* What a role grants, and what a login may do with it.                    *)

\* With the overrides and the custom roles of a roster.
GrantedBy(over, defined, u, slug) ==
    IF slug \in SystemRoles
    THEN IF over[u][slug] # Default THEN over[u][slug] ELSE systemRoleCapabilities(slug)
    ELSE UNION {c.caps : c \in {d \in defined : d.unit = u /\ d.slug = slug}}

RoleCapabilities(u, slug) == GrantedBy(overrides, custom, u, slug)
CapabilitiesForRoles(u, slugs) == UNION {RoleCapabilities(u, s) : s \in slugs}

\* Member m is the login's own, or one of the household whose login it is.
BelongsTo(x, m) == IF x \in Families THEN member[m].family = x ELSE m = x /\ Exists(m)

RowsOf(m) == {a \in rows : a.member = m}
RowsIn(x, u) == {a \in rows : a.unit = u /\ BelongsTo(x, a.member)}
rolesFor(x, u) == {a.role : a \in {b \in RowsIn(x, u) : member[b.member].active}}
capabilitiesFor(x, u) == CapabilitiesForRoles(u, rolesFor(x, u))
isUnitMember(x, u) == rolesFor(x, u) # {}

CanEditUnitContent(caps) == "edit_content" \in caps
IsSuperAdmin(caps) == "super_admin" \in caps
CanEmailGroup(caps) == "email_group" \in caps

\* The ceiling: enough to hand out what is needed, or to act on who holds it.
Covers(caps, needed) ==
    \/ IsSuperAdmin(caps)
    \/ needed \subseteq caps \cup (IF CanEditUnitContent(caps) THEN {"submit_for_approval"} ELSE {})

capabilitiesAcrossUnits(assigned) == UNION {RoleCapabilities(a.unit, a.role) : a \in assigned}

\* Mutant: what the member may do today.
ActiveCapabilities(m) ==
    IF member[m].active THEN capabilitiesAcrossUnits(RowsOf(m)) ELSE {}
\* Inactive assignments count: "a ceiling".
MemberCapabilitiesAcrossUnits(m) == capabilitiesAcrossUnits(RowsOf(m))
FamilyCapabilitiesAcrossUnits(f) ==
    capabilitiesAcrossUnits({a \in rows : member[a.member].family = f})
HasAnyTreasuryRole(x) ==
    "manage_ledger" \in capabilitiesAcrossUnits({a \in rows : BelongsTo(x, a.member)})

UnitWideRoles == {"cubmaster", "scoutmaster", "assistant_scoutmaster", "super_admin"}

\* ScopeForFamily looks at active members only; ScopeForMember does not ask.
ScopeRows(x, u) == {a \in RowsIn(x, u) : x \in Families => member[a.member].active}
UnitWide(x, u) == \E a \in ScopeRows(x, u) : a.role \in UnitWideRoles
ScopeSubGroups(x, u) ==
    {a.group : a \in {b \in ScopeRows(x, u) : b.role = "den_leader"}} \ {NoGroup}

CanManageSubGroup(wide, dens, g) == wide \/ g \in dens
CanManageMember(wide, dens, m, u) ==
    \E a \in RowsOf(m) : a.unit = u /\ CanManageSubGroup(wide, dens, a.group)
\* The same for a whole list; "wide" is answered by the caller.
ManageableMemberIDs(dens, u) == {a.member : a \in {b \in rows : b.unit = u /\ b.group \in dens}}

fixedRoleOptions(u, wide) ==
    {"parent", "scout"} \cup
    (IF ~wide THEN {} ELSE
     IF u \in Packs THEN {"cubmaster", "den_leader", "treasurer"} ELSE
     {"scoutmaster", "assistant_scoutmaster", "senior_patrol_leader", "patrol_leader",
      "treasurer"})
RoleOptions(u, wide) ==
    fixedRoleOptions(u, wide) \cup
    (IF wide THEN {c.slug : c \in {d \in custom : d.unit = u}} ELSE {})

\* Mutant: where a leader may act, and never what they may hand out.
RolesInScope(u, wide, caps) == RoleOptions(u, wide)
AllowedRoles(u, wide, caps) ==
    {s \in RoleOptions(u, wide) : Covers(caps, RoleCapabilities(u, s))}

\* Mutant: a leader of one den may leave the choice blank.
AnyBlank(u, wide, dens) ==
    {g \in SubGroups : CanManageSubGroup(wide, dens, g) /\ subgroup[g] = u} \cup {NoGroup}
\* The sub-groups that resolveSubGroup lets through; NoGroup is the blank choice.
resolveSubGroup(u, wide, dens) ==
    {g \in SubGroups : CanManageSubGroup(wide, dens, g) /\ subgroup[g] = u}
    \cup (IF wide THEN {NoGroup} ELSE {})

\* The member whom the login's changes are put down to.
actingMember(x, u, m) ==
    /\ BelongsTo(x, m)
    /\ x \in Families =>
         \A n \in Members : BelongsTo(x, n) =>
            /\ (\E a \in RowsOf(n) : a.unit = u) => (\E a \in RowsOf(m) : a.unit = u)
            /\ ((\E a \in RowsOf(m) : a.unit = u) => (\E a \in RowsOf(n) : a.unit = u))
               /\ member[n].type = "adult" => member[m].type = "adult"

HasAdult(f) == \E m \in Members : member[m].family = f /\ member[m].type = "adult"
adultInOwnFamily(x) ==
    IF x \in Families THEN HasAdult(x) ELSE Exists(x) /\ member[x].type = "adult"

-----------------------------------------------------------------------------
(* The lists that pages show.                                              *)

\* Mutant: the code's defaults, whatever the unit has changed.
DefaultRolesWithCapability(u, cap) ==
    {s \in SystemRoles : cap \in systemRoleCapabilities(s)}
SystemRolesWithCapabilityForUnit(u, cap) ==
    {s \in SystemRoles :
        cap \in (IF overrides[u][s] # Default THEN overrides[u][s]
                 ELSE systemRoleCapabilities(s))}

\* A row grants cap through a built-in role, or through the custom role of its slug.
Grants(a, u, cap) ==
    \/ a.role \in SystemRolesWithCapabilityForUnit(u, cap)
    \/ \E c \in custom : c.unit = a.unit /\ c.slug = a.role /\ cap \in c.caps

MembersWithCapability(u, cap) ==
    {a.member : a \in {b \in rows : b.unit = u /\ member[b.member].active /\ Grants(b, u, cap)}}
SubGroupIDsWithCapability(x, u, cap) ==
    {a.group : a \in {b \in RowsIn(x, u) : /\ member[b.member].active
                                           /\ b.group # NoGroup
                                           /\ subgroup[b.group] = u /\ b.group \notin folded
                                           /\ Grants(b, u, cap)}}

SubGroupsForUnit(u) == {g \in SubGroups : subgroup[g] = u /\ g \notin folded}
InactiveSubGroupsForUnit(u) == {g \in SubGroups : subgroup[g] = u /\ g \in folded}

\* The groups this login may email.
groupEmailAccess(x, u) ==
    {g \in SubGroupsForUnit(u) :
        \/ CanEmailGroup(capabilitiesFor(x, u)) /\ UnitWide(x, u)
        \/ g \in SubGroupIDsWithCapability(x, u, "email_group")}

\* The pages of the groups that this login may open.
GroupView(x, u) == IF isUnitMember(x, u) THEN SubGroupsForUnit(u) ELSE {}

\* Who is listed, and what of them is told: one list by families, one by roles.
Told(m) == [kinds |-> member[m].shown, address |-> address[member[m].family] = "released"]
DirectoryForUnit(u) ==
    {[member |-> m, told |-> Told(m)] :
        m \in {n \in Members : /\ Exists(n) /\ member[n].active
                               /\ \E a \in RowsOf(n) : a.unit = u /\ a.role # "super_admin"}}
RosterForUnit(u) ==
    {[member |-> m, told |-> Told(m)] :
        m \in {a.member : a \in {b \in rows : b.unit = u /\ member[b.member].active}}
              \ {n \in Members : \A a \in RowsOf(n) : a.unit = u => a.role = "super_admin"}}
InactiveRosterForUnit(u) ==
    {a.member : a \in {b \in rows : b.unit = u /\ ~member[b.member].active}}
MembersNotInUnit(u) == {m \in Members : Exists(m) /\ \A a \in RowsOf(m) : a.unit # u}

FamilyDirectory(x, u) == IF isUnitMember(x, u) THEN DirectoryForUnit(u) ELSE {}

\* The leaders' page: who is on it, whom it lets edit, the groups it offers, and, to a
\* unit-wide leader, the archived ones and the people of other units.
AdminRosterList(u, wide, dens) ==
    LET shown == {e.member : e \in RosterForUnit(u)} \cup InactiveRosterForUnit(u) IN
    [shown |-> shown,
     editable |-> {m \in shown : wide \/ m \in ManageableMemberIDs(dens, u)},
     addable |-> {g \in SubGroupsForUnit(u) : CanManageSubGroup(wide, dens, g)},
     archived |-> IF wide THEN InactiveSubGroupsForUnit(u) ELSE {},
     others |-> IF wide THEN MembersNotInUnit(u) ELSE {}]

-----------------------------------------------------------------------------
(* Requests.                                                               *)

MkEditor(x, u, caps, wide, dens, m) ==
    [who |-> x, unit |-> u, caps |-> caps, wide |-> wide, dens |-> dens, actor |-> m]
MkTarget(m, s, g, id, next) ==
    [member |-> m, role |-> s, group |-> g, row |-> id, then |-> next]
MkRequest(stage, editor, target) == [at |-> stage, as |-> editor, on |-> target]

Nobody == MkEditor(NoLogin, NoUnit, {}, FALSE, {}, NoMember)
Nothing == MkTarget(NoMember, NoRole, NoGroup, 0, "idle")
About(m) == MkTarget(m, NoRole, NoGroup, 0, "idle")
Idle == MkRequest("idle", Nobody, Nothing)

Becomes(r, stage, editor, target) ==
    request' = [request EXCEPT ![r] = IF stage = "idle" THEN Idle
                                      ELSE MkRequest(stage, editor, target)]
GoOn(r, stage, target) == Becomes(r, stage, request[r].as, target)
Done(r) == request' = [request EXCEPT ![r] = Idle]
At(r, stage) == request[r].at = stage

Arrives(r, x) ==
    /\ At(r, "idle") /\ made < MaxRequests /\ made' = made + 1
    /\ login[x] # "none"

\* The activity log names the actor, if there still is one.
audit(r) ==
    history' = IF Exists(request[r].as.actor) THEN history \cup {request[r].as.actor}
               ELSE history

\* A read, or a step that only the request remembers.
Reads == UNCHANGED <<accessVars, peopleVars, placeVars, start, money, history, serial>>

\* What the login may do here: requireRosterEditor.
requireRosterEditor(r, x, u) ==
    LET caps == capabilitiesFor(x, u) IN
    /\ Arrives(r, x)
    /\ CanEditUnitContent(caps)
    /\ Becomes(r, "scoping", MkEditor(x, u, caps, FALSE, {}, NoMember), Nothing)
    /\ ruled' = IF IsSuperAdmin(caps) THEN ruled \cup {u} ELSE ruled
    /\ Reads /\ UNCHANGED <<led, imported>>

\* Where it may do it, and whose doing it will be.
rosterScope(r) ==
    LET e == request[r].as IN
    /\ At(r, "scoping")
    /\ \E m \in Members :
         /\ actingMember(e.who, e.unit, m)
         /\ Becomes(r, "entitled",
                    MkEditor(e.who, e.unit, e.caps, UnitWide(e.who, e.unit),
                             ScopeSubGroups(e.who, e.unit), m), Nothing)
    /\ led' = IF UnitWide(e.who, e.unit) THEN led \cup {e.unit} ELSE led
    /\ Reads /\ UNCHANGED <<ruled, imported, made>>

\* Whom it is about.
ManageMember(r, m) ==
    LET e == request[r].as IN
    /\ At(r, "entitled")
    /\ CanManageMember(e.wide, e.dens, m, e.unit)
    /\ GoOn(r, "managing", About(m))
    /\ Reads /\ UNCHANGED <<ruled, led, imported, made>>

\* requireCeiling, on what a member holds, or what anyone in the household does.
requireMemberCeiling(r) ==
    /\ At(r, "managing")
    /\ Covers(request[r].as.caps, MemberCapabilitiesAcrossUnits(request[r].on.member))
    /\ GoOn(r, "cleared", request[r].on)
    /\ Reads /\ UNCHANGED <<ruled, led, imported, made>>

requireFamilyCeiling(r) ==
    /\ At(r, "managing")
    /\ Exists(request[r].on.member)
    /\ Covers(request[r].as.caps,
              FamilyCapabilitiesAcrossUnits(member[request[r].on.member].family))
    /\ GoOn(r, "household_cleared", request[r].on)
    /\ Reads /\ UNCHANGED <<ruled, led, imported, made>>

\* A check fails, a statement does, or the server stops.
Ends(r) ==
    /\ ~At(r, "idle")
    /\ Done(r)
    /\ Reads /\ UNCHANGED <<ruled, led, imported, made>>

-----------------------------------------------------------------------------
(* Accounts.                                                               *)

Writes(r, stage, target) ==
    GoOn(r, stage, target) /\ audit(r) /\ UNCHANGED <<ghostVars, money, made>>

ResetMemberLoginPassword(r) ==
    LET m == request[r].on.member IN
    /\ At(r, "cleared")
    /\ login[m] # "none"
    /\ login' = [login EXCEPT ![m] = "handed"]
    /\ Done(r) /\ audit(r)
    /\ UNCHANGED <<accessVars, placeVars, ghostVars, member, address, money, serial, made>>

ResetFamilyPassword(r) ==
    LET f == member[request[r].on.member].family IN
    /\ At(r, "household_cleared")
    /\ Exists(request[r].on.member) /\ login[f] # "none"
    /\ login' = [login EXCEPT ![f] = "handed"]
    /\ Done(r) /\ audit(r)
    /\ UNCHANGED <<accessVars, placeVars, ghostVars, member, address, money, serial, made>>

\* On the member's page, or for one who has just been added.
CreateMemberLogin(r) ==
    LET m == request[r].on.member IN
    /\ At(r, "cleared") \/ At(r, "logging_in")
    /\ Exists(m) /\ login[m] = "none"
    /\ login' = [login EXCEPT ![m] = "handed"]
    /\ Done(r) /\ audit(r)
    /\ UNCHANGED <<accessVars, placeVars, ghostVars, member, address, money, serial, made>>

SetMember(m, family, type, active, shown) ==
    member' = [member EXCEPT ![m] = [family |-> family, type |-> type, active |-> active,
                                     shown |-> shown]]

\* SetMemberActive(false) looks at the money first, in a statement of its own.
ScoutAccountBalancesForMember(r) ==
    /\ At(r, "cleared")
    /\ request[r].on.member \notin money
    /\ GoOn(r, "closing", request[r].on)
    /\ Reads /\ UNCHANGED <<ruled, led, imported, made>>

SetMemberActive(r, active) ==
    LET m == request[r].on.member IN
    /\ At(r, IF active THEN "managing" ELSE "closing")
    /\ Exists(m)
    /\ SetMember(m, member[m].family, member[m].type, active, member[m].shown)
    /\ Done(r) /\ audit(r)
    /\ UNCHANGED <<accessVars, placeVars, ghostVars, address, login, money, serial, made>>

\* An Admin's alone: what the login may do is read once more.
requireSuperAdminToDelete(r, m) ==
    LET e == request[r].as IN
    /\ At(r, "entitled")
    /\ IsSuperAdmin(capabilitiesFor(e.who, e.unit))
    /\ CanManageMember(e.wide, e.dens, m, e.unit)
    /\ GoOn(r, "deleting", About(m))
    /\ ruled' = ruled \cup {e.unit}
    /\ Reads /\ UNCHANGED <<led, imported, made>>

\* Mutant: the roles are left behind.
DeleteMemberOnly(r) ==
    LET m == request[r].on.member IN
    /\ At(r, "deleting")
    /\ Exists(m) /\ m \notin history \cup money
    /\ SetMember(m, NoFamily, "adult", FALSE, {})
    /\ login' = [login EXCEPT ![m] = "none"]
    /\ Done(r) /\ audit(r)
    /\ UNCHANGED <<accessVars, placeVars, ghostVars, address, money, serial, made>>

\* The database refuses while a record refers to the member; roles and login go along.
DeleteMember(r) ==
    LET m == request[r].on.member IN
    /\ At(r, "deleting")
    /\ Exists(m) /\ m \notin history \cup money
    /\ SetMember(m, NoFamily, "adult", FALSE, {})
    /\ rows' = rows \ RowsOf(m)
    /\ login' = [login EXCEPT ![m] = "none"]
    /\ Done(r) /\ audit(r)
    /\ UNCHANGED <<custom, overrides, placeVars, ghostVars, address, money, serial, made>>

-----------------------------------------------------------------------------
(* What is on file of a member and a household.                            *)

UpdateMember(r, type) ==
    LET m == request[r].on.member IN
    /\ At(r, "managing")
    /\ Exists(m)
    /\ SetMember(m, member[m].family, type, member[m].active, member[m].shown)
    /\ Writes(r, "contacting", MkTarget(m, NoRole, NoGroup, 0, "addressing"))
    /\ UNCHANGED <<accessVars, placeVars, address, login, serial>>

\* From the leaders' page, or from My Family: what is typed replaces what is on file.
SetContactInfo(r, shown) ==
    LET m == request[r].on.member IN
    /\ At(r, "contacting")
    /\ Exists(m)
    /\ SetMember(m, member[m].family, member[m].type, member[m].active, shown)
    /\ IF request[r].on.then = "addressing" THEN Writes(r, "addressing", About(m))
       ELSE Done(r) /\ audit(r) /\ UNCHANGED <<ghostVars, money, made>>
    /\ UNCHANGED <<accessVars, placeVars, address, login, serial>>

SetAddress(r, f, release) ==
    /\ address' = [address EXCEPT ![f] = IF release THEN "released" ELSE "kept"]
    /\ Done(r) /\ audit(r)
    /\ UNCHANGED <<accessVars, placeVars, ghostVars, member, login, money, serial, made>>

SetFamilyAddress(r, release) ==
    /\ At(r, "addressing")
    /\ Exists(request[r].on.member)
    /\ SetAddress(r, member[request[r].on.member].family, release)

\* My Family: an adult's, for their own household.
requireFamilyAdult(r, x, u) ==
    /\ Arrives(r, x)
    /\ adultInOwnFamily(x)
    /\ \E m \in Members :
         /\ actingMember(x, u, m)
         /\ Becomes(r, "parenting", MkEditor(x, u, {}, FALSE, {}, m), Nothing)
    /\ Reads /\ UNCHANGED <<ruled, led, imported>>

HomeOf(x) == IF x \in Families THEN x ELSE member[x].family

MyFamilyUpdateMember(r, m) ==
    /\ At(r, "parenting")
    /\ Exists(m) /\ member[m].family = HomeOf(request[r].as.who)
    /\ GoOn(r, "contacting", About(m))
    /\ Reads /\ UNCHANGED <<ruled, led, imported, made>>

MyFamilyUpdateAddress(r, release) ==
    /\ At(r, "parenting")
    /\ HomeOf(request[r].as.who) # NoFamily
    /\ SetAddress(r, HomeOf(request[r].as.who), release)

-----------------------------------------------------------------------------
(* Roles: given, and taken away.                                           *)

\* IsAllowedRole and resolveSubGroup, for target member m (NoMember: one to be added).
Choose(r, m, stage, next) ==
    LET e == request[r].as IN
    \E s \in Offered \cap AllowedRoles(e.unit, e.wide, e.caps),
       g \in resolveSubGroup(e.unit, e.wide, e.dens) :
          /\ GoOn(r, stage, MkTarget(m, s, g, 0, next))
          /\ Reads /\ UNCHANGED <<ruled, led>>

AdminRosterAssignRole(r) ==
    /\ At(r, "managing")
    /\ Choose(r, request[r].on.member, "assigning", "idle")
    /\ UNCHANGED <<imported, made>>

\* Somebody of another unit: a unit-wide leader's, and about anyone there is.
AdminRosterAssignExistingMember(r, m) ==
    /\ At(r, "entitled") /\ request[r].as.wide /\ Exists(m)
    /\ Choose(r, m, "assigning", "idle")
    /\ UNCHANGED <<imported, made>>

AdminRosterCreateFamily(r) ==
    /\ At(r, "entitled")
    /\ Choose(r, NoMember, "founding", "idle")
    /\ UNCHANGED <<imported, made>>

\* With or without a login of their own.
AdminRosterAddMember(r) ==
    /\ At(r, "entitled")
    /\ \E next \in {"idle", "logging_in"} : Choose(r, NoMember, "placing", next)
    /\ UNCHANGED <<imported, made>>

\* The import knows the sub-groups by the names they had when it began.
BeginImport(r) ==
    LET e == request[r].as IN
    /\ At(r, "entitled")
    /\ Becomes(r, "importing",
               MkEditor(e.who, e.unit, e.caps, e.wide,
                        {g \in SubGroups : /\ subgroup[g] = e.unit /\ g \notin folded
                                           /\ CanManageSubGroup(e.wide, e.dens, g)},
                        e.actor), Nothing)
    /\ Reads /\ UNCHANGED <<ruled, led, imported, made>>

\* A row of it: of a new member, or of one the family already has.
ImportRow(r, m) ==
    /\ At(r, "importing") /\ made < MaxRequests /\ made' = made + 1
    /\ m # NoMember => Exists(m)
    /\ Choose(r, m, IF m = NoMember THEN "placing" ELSE "assigning", "importing")
    /\ imported' = imported \cup ({m} \ {NoMember})

\* The first adult, the household and its login, in one transaction.
CreateFamilyWithMember(r, f, m) ==
    LET t == request[r].on IN
    /\ At(r, "founding") \/ (At(r, "placing") /\ t.then = "importing")
    /\ address[f] = "none" /\ ~Exists(m)
    /\ address' = [address EXCEPT ![f] = "kept"]
    /\ login' = [login EXCEPT ![f] = "handed"]
    /\ SetMember(m, f, "adult", TRUE, {})
    /\ Writes(r, "assigning", MkTarget(m, t.role, t.group, 0, t.then))
    /\ UNCHANGED <<accessVars, placeVars, serial>>

AddMember(r, f, m, type) ==
    LET t == request[r].on IN
    /\ At(r, "placing")
    /\ address[f] # "none" /\ ~Exists(m)
    /\ SetMember(m, f, type, TRUE, {})
    /\ Writes(r, "assigning", MkTarget(m, t.role, t.group, 0, t.then))
    /\ UNCHANGED <<accessVars, placeVars, address, login, serial>>

MkRow(id, m, u, g, s) == [id |-> id, member |-> m, unit |-> u, group |-> g, role |-> s]

\* The unique constraint sees no two blanks as the same: a role for the whole unit
\* can be given twice.
AssignRole(r) ==
    LET t == request[r].on  u == request[r].as.unit IN
    /\ At(r, "assigning")
    /\ Exists(t.member)
    /\ \/ /\ t.group # NoGroup
          /\ \E a \in RowsOf(t.member) : a.unit = u /\ a.group = t.group /\ a.role = t.role
          /\ UNCHANGED <<rows, serial>>
       \/ /\ t.group = NoGroup \/
             \A a \in RowsOf(t.member) : ~(a.unit = u /\ a.group = t.group /\ a.role = t.role)
          /\ serial' = serial + 1
          /\ rows' = rows \cup {MkRow(serial', t.member, u, t.group, t.role)}
    /\ Writes(r, t.then, About(t.member))
    /\ UNCHANGED <<custom, overrides, peopleVars, placeVars>>

\* For a new member, and in an import, "log.Printf": the role is not there, and the
\* request goes on.
RoleNotAssigned(r) ==
    /\ At(r, "assigning") /\ request[r].on.then # "idle"
    /\ GoOn(r, request[r].on.then, About(request[r].on.member))
    /\ Reads /\ UNCHANGED <<ruled, led, imported, made>>

\* Taking away: the row, then whom it is about, then the ceiling, then the row again.
GetRoleAssignment(r, a) ==
    /\ At(r, "entitled")
    /\ a.unit = request[r].as.unit
    /\ GoOn(r, "holding", MkTarget(a.member, a.role, a.group, a.id, "idle"))
    /\ Reads /\ UNCHANGED <<ruled, led, imported, made>>

ManageHolder(r) ==
    LET e == request[r].as IN
    /\ At(r, "holding")
    /\ CanManageMember(e.wide, e.dens, request[r].on.member, e.unit)
    /\ GoOn(r, "measuring", request[r].on)
    /\ Reads /\ UNCHANGED <<ruled, led, imported, made>>

requireRoleCeiling(r) ==
    LET e == request[r].as IN
    /\ At(r, "measuring")
    /\ Covers(e.caps, RoleCapabilities(e.unit, request[r].on.role))
    /\ GoOn(r, "removing", request[r].on)
    /\ Reads /\ UNCHANGED <<ruled, led, imported, made>>

RemoveRole(r) ==
    /\ At(r, "removing")
    /\ rows' = {a \in rows : a.id # request[r].on.row}
    /\ Done(r)
    /\ IF rows' = rows THEN UNCHANGED history ELSE audit(r)
    /\ UNCHANGED <<custom, overrides, peopleVars, placeVars, ghostVars, money, serial, made>>

-----------------------------------------------------------------------------
(* What roles grant: an Admin's alone.                                     *)

requireSuperAdminForRoles(r, x, u) ==
    LET caps == capabilitiesFor(x, u) IN
    /\ Arrives(r, x)
    /\ IsSuperAdmin(caps)
    /\ \E m \in Members :
         /\ actingMember(x, u, m)
         /\ Becomes(r, "ruling", MkEditor(x, u, caps, FALSE, {}, m), Nothing)
    /\ ruled' = ruled \cup {u}
    /\ Reads /\ UNCHANGED <<led, imported>>

Rules(r) ==
    /\ At(r, "ruling")
    /\ Done(r) /\ audit(r)
    /\ UNCHANGED <<rows, peopleVars, placeVars, ghostVars, money, made>>

\* A set equal to the code's own clears the override.
SetSystemRoleCapabilities(r, slug, granted) ==
    LET u == request[r].as.unit IN
    /\ Rules(r)
    /\ slug = "super_admin" => "super_admin" \in granted
    /\ granted = systemRoleCapabilities(slug) \/ Exists(request[r].as.actor)
    /\ overrides' = [overrides EXCEPT ![u] = [overrides[u] EXCEPT ![slug] =
                        IF granted = systemRoleCapabilities(slug) THEN Default ELSE granted]]
    /\ UNCHANGED <<custom, serial>>

MkCustomRole(id, u, slug, caps) == [id |-> id, unit |-> u, slug |-> slug, caps |-> caps]

CreateCustomRole(r, slug, granted) ==
    LET u == request[r].as.unit IN
    /\ Rules(r)
    /\ Exists(request[r].as.actor)
    /\ \A c \in custom : ~(c.unit = u /\ c.slug = slug)
    /\ serial' = serial + 1
    /\ custom' = custom \cup {MkCustomRole(serial', u, slug, granted)}
    /\ UNCHANGED overrides

UpdateCustomRole(r, c, granted) ==
    /\ Rules(r)
    /\ c.unit = request[r].as.unit
    /\ custom' = (custom \ {c}) \cup {MkCustomRole(c.id, c.unit, c.slug, granted)}
    /\ UNCHANGED <<overrides, serial>>

\* The assignments stay, and a role of the same slug made later finds them.
DeleteCustomRole(r, c) ==
    /\ Rules(r)
    /\ c.unit = request[r].as.unit
    /\ custom' = custom \ {c}
    /\ UNCHANGED <<overrides, serial>>

-----------------------------------------------------------------------------
(* Dens and patrols, and the books.                                        *)

CreateSubGroup(r, g) ==
    /\ At(r, "entitled") /\ request[r].as.wide
    /\ subgroup[g] = NoUnit
    /\ subgroup' = [subgroup EXCEPT ![g] = request[r].as.unit]
    /\ Done(r) /\ audit(r)
    /\ UNCHANGED <<accessVars, peopleVars, folded, ghostVars, money, serial, made>>

SetSubGroupActive(r, g) ==
    /\ At(r, "entitled") /\ request[r].as.wide
    /\ subgroup[g] = request[r].as.unit
    /\ folded' \in {folded \cup {g}, folded \ {g}}
    /\ Done(r) /\ audit(r)
    /\ UNCHANGED <<accessVars, peopleVars, subgroup, ghostVars, money, serial, made>>

\* External: a posting to a Scout account, or one that brings it back to zero.
ScoutAccountMoves(m) ==
    /\ Exists(m) /\ made < MaxRequests /\ made' = made + 1
    /\ money' \in {money \cup {m}, money \ {m}}
    /\ history' = history \cup {m}
    /\ UNCHANGED <<accessVars, peopleVars, placeVars, ghostVars, request, serial>>

-----------------------------------------------------------------------------
Init ==
    /\ start \in Start
    /\ member = start.member /\ rows = start.rows
    /\ custom = start.custom /\ overrides = start.overrides
    /\ subgroup = start.subgroup /\ folded = {}
    /\ address = [f \in Families |->
                    IF start.login[f] = "none" /\ \A m \in Members : start.member[m].family # f
                    THEN "none" ELSE "kept"]
    /\ login = start.login
    /\ money = {} /\ history = {} /\ ruled = {} /\ led = {} /\ imported = {}
    /\ request = [r \in Requests |-> Idle]
    /\ serial = start.last /\ made = 0

\* Each handler is the steps that it goes through, after those that all of them share.
AdminRosterResetPassword(r) == requireFamilyCeiling(r) \/ ResetFamilyPassword(r)
AdminRosterResetMemberLoginPassword(r) ==
    requireMemberCeiling(r) \/ ResetMemberLoginPassword(r)
AdminRosterCreateMemberLogin(r) == requireMemberCeiling(r) \/ CreateMemberLogin(r)
AdminRosterMemberDeactivate(r) ==
    requireMemberCeiling(r) \/ ScoutAccountBalancesForMember(r) \/ SetMemberActive(r, FALSE)
AdminRosterMemberReactivate(r) == SetMemberActive(r, TRUE)
AdminRosterMemberDelete(r) ==
    DeleteMember(r) \/ \E m \in Members : requireSuperAdminToDelete(r, m)

AdminRosterMemberUpdate(r) ==
    \/ \E type \in {"adult", "youth"} : UpdateMember(r, type)
    \/ \E shown \in SUBSET ContactKinds : SetContactInfo(r, shown)
    \/ \E release \in BOOLEAN : SetFamilyAddress(r, release)

AdminRosterRemoveRole(r) ==
    \/ \E a \in rows : GetRoleAssignment(r, a)
    \/ ManageHolder(r) \/ requireRoleCeiling(r) \/ RemoveRole(r)

AdminRosterImportApply(r) ==
    BeginImport(r) \/ \E m \in Members \cup {NoMember} : ImportRow(r, m)

Placement(r) ==
    \/ AssignRole(r) \/ RoleNotAssigned(r)
    \/ \E f \in Families, m \in Members :
          \/ CreateFamilyWithMember(r, f, m)
          \/ \E type \in {"adult", "youth"} : AddMember(r, f, m, type)

AdminSystemRoleUpdate(r) ==
    \E slug \in SystemRoles, granted \in Ticked : SetSystemRoleCapabilities(r, slug, granted)
AdminCustomRolesCreate(r) ==
    \E slug \in CustomSlugs, granted \in Ticked : CreateCustomRole(r, slug, granted)
AdminCustomRolesUpdate(r) ==
    \E c \in custom, granted \in Ticked : UpdateCustomRole(r, c, granted)
AdminCustomRolesDelete(r) == \E c \in custom : DeleteCustomRole(r, c)
AdminRosterCreateSubGroup(r) == \E g \in SubGroups : CreateSubGroup(r, g)
AdminRosterSetSubGroupActive(r) == \E g \in SubGroups : SetSubGroupActive(r, g)

Step(r) ==
    \/ \E x \in Logins, u \in Units :
          \/ requireRosterEditor(r, x, u)
          \/ requireFamilyAdult(r, x, u)
          \/ requireSuperAdminForRoles(r, x, u)
    \/ rosterScope(r)
    \/ \E m \in Members : ManageMember(r, m)
    \/ AdminRosterResetPassword(r) \/ AdminRosterResetMemberLoginPassword(r)
    \/ AdminRosterCreateMemberLogin(r) \/ AdminRosterMemberDeactivate(r)
    \/ AdminRosterMemberReactivate(r) \/ AdminRosterMemberDelete(r)
    \/ AdminRosterMemberUpdate(r)
    \/ \E m \in Members : MyFamilyUpdateMember(r, m)
    \/ \E release \in BOOLEAN : MyFamilyUpdateAddress(r, release)
    \/ AdminRosterAssignRole(r) \/ AdminRosterCreateFamily(r) \/ AdminRosterAddMember(r)
    \/ \E m \in Members : AdminRosterAssignExistingMember(r, m)
    \/ AdminRosterImportApply(r) \/ Placement(r)
    \/ AdminRosterRemoveRole(r)
    \/ AdminSystemRoleUpdate(r) \/ AdminCustomRolesCreate(r)
    \/ AdminCustomRolesUpdate(r) \/ AdminCustomRolesDelete(r)
    \/ AdminRosterCreateSubGroup(r) \/ AdminRosterSetSubGroupActive(r)
    \/ Ends(r)

Next ==
    \/ \E r \in Requests : Step(r)
    \/ \E m \in Members : ScoutAccountMoves(m)

Spec == Init /\ [][Next]_vars

-----------------------------------------------------------------------------
(* Properties.                                                             *)

\* What a role granted in the beginning.
GrantedAtStart(u, slug) == GrantedBy(start.overrides, start.custom, u, slug)

\* Everything that anybody short of an Admin held in unit u in the beginning.
BelowAdmin(u) ==
    UNION {GrantedAtStart(u, a.role) :
              a \in {b \in start.rows : b.unit = u /\ ~IsSuperAdmin(GrantedAtStart(u, b.role))}}

\* NO ESCALATION.  Until an Admin of a unit acts in it, no sequence of forms, however
\* interleaved with changes to roles, members and accounts, gives anybody there a
\* capability that no one short of an Admin held, or makes another Admin: "assign
\* yourself Treasurer" (units.Covers, roster.AllowedRoles).
NoEscalation ==
    \A u \in Units \ ruled : \A a \in {b \in rows : b.unit = u} :
        IF IsSuperAdmin(RoleCapabilities(u, a.role)) THEN a \in start.rows
        ELSE Covers(BelowAdmin(u), RoleCapabilities(u, a.role))

\* ADMINS ARE SAFE.  Until an Admin acts, in whichever unit, nobody takes an Admin's
\* role away, switches their account off, or is shown a password of theirs or of their
\* household: not from the other unit, and not while the Admin is off the rolls
\* (privilege.go, requireCeiling).
AdminsSecure ==
    ruled = {} =>
        \A a \in {b \in start.rows : IsSuperAdmin(GrantedAtStart(b.unit, b.role))} :
            LET m == a.member  f == start.member[m].family IN
            /\ a \in rows
            /\ start.member[m].active => member[m].active
            /\ member[m].family = f
            /\ login[m] = start.login[m] /\ login[f] = start.login[f]

\* The dens that have a leader of their own.
LedDens(u) ==
    {a.group : a \in {b \in start.rows : b.unit = u /\ b.role = "den_leader"}} \ {NoGroup}
InLedDen(m) == \E a \in start.rows : a.member = m /\ a.group \in LedDens(a.unit)

\* A LEADER STAYS IN THE DEN.  Until a unit-wide leader of the unit acts, every role given
\* there is one of a den that has a leader; and until one of any unit acts, the type,
\* the activity and the login of a member outside those dens stay as they were, unless an
\* import has named the member: that page asks no more than that the den is the leader's
\* (roster.Scope, resolveSubGroup, CanManageMember).
StaysInTheDen ==
    /\ \A u \in Units \ led : \A a \in rows :
          a.unit = u /\ a.group \notin LedDens(u) => a \in start.rows
    /\ led = {} =>
          \A m \in Members \ imported : start.member[m].family # NoFamily /\ ~InLedDen(m) =>
             /\ member[m].type = start.member[m].type
             /\ member[m].active = start.member[m].active
             /\ login[m] = start.login[m]

\* LISTS AGREE WITH CHECKS.  Whatever roles have been made to grant, the approvers and
\* the groups that the queries list are those the permission checks let act, the two
\* listings of a unit tell the same of the same people, the leaders' page offers what its
\* forms then accept, and nobody is on no list; but for a unit with a custom role named like one of the two built-in
\* roles that CreateCustomRole does not reserve, where they differ.  It is said of a roster
\* that no request is at work on; since a request may stop anywhere, that is all of them.
ListsAgree ==
    (\A r \in Requests : At(r, "idle")) =>
    \A u \in Units : (\A c \in custom : c.unit = u => c.slug \notin SystemRoles) =>
        /\ \A cap \in Asked :
              /\ MembersWithCapability(u, cap) =
                    {m \in Members : Exists(m) /\ cap \in capabilitiesFor(m, u)}
              /\ \A x \in Logins :
                    SubGroupIDsWithCapability(x, u, cap) # {} => cap \in capabilitiesFor(x, u)
        /\ DirectoryForUnit(u) = RosterForUnit(u)
        /\ \A x \in Logins :
              LET wide == UnitWide(x, u)
                  dens == ScopeSubGroups(x, u)
                  page == AdminRosterList(u, wide, dens) IN
              /\ "manage_ledger" \in capabilitiesFor(x, u) => HasAnyTreasuryRole(x)
              /\ groupEmailAccess(x, u) \subseteq GroupView(x, u)
              /\ page.editable = {m \in page.shown : CanManageMember(wide, dens, m, u)}
              /\ page.addable \subseteq resolveSubGroup(u, wide, dens)
              /\ wide => \A m \in Members : Exists(m) =>
                    \/ m \in page.shown \cup page.others
                    \/ \A a \in RowsOf(m) : a.unit = u => a.role = "super_admin"
              /\ isUnitMember(x, u) /\ x \in Members =>
                    \/ \E e \in FamilyDirectory(x, u) : e.member = x
                    \/ rolesFor(x, u) = {"super_admin"}
=============================================================================
