------------------------------ MODULE MCRoster ------------------------------
(* A Pack with two dens and a Troop.  One den's leader, the Cubmaster in one *)
(* of the rosters, and an Admin of the Troop who is a parent in the den.    *)
EXTENDS Roster, TLC

CONSTANTS pack, troop, f1, f2, f3, lead, cub, adm, new, d1, d2, r1, r2

Person(f, type, active) == [family |-> f, type |-> type, active |-> active, shown |-> {}]
Row(id, m, u, g, s) == MkRow(id, m, u, g, s)

Plain == [u \in Units |-> [s \in SystemRoles |-> Default]]

\* At its smallest: nobody in the Pack but the den's leader, and the Admin's child's den.
InTheDen(active) ==
    [member |-> [m \in Members |->
        CASE m = lead -> Person(f1, "adult", TRUE)
          [] m = cub -> Person(f2, "youth", TRUE)
          [] m = adm -> Person(f2, "adult", active)
          [] OTHER -> Person(NoFamily, "adult", FALSE)],
     rows |-> {Row(1, lead, pack, d1, "den_leader"), Row(2, adm, pack, d1, "parent"),
               Row(3, adm, troop, NoGroup, "super_admin"), Row(4, cub, pack, d2, "scout")},
     custom |-> {}, overrides |-> Plain,
     subgroup |-> [g \in SubGroups |-> pack],
     login |-> [x \in Logins |-> IF x \in {f1, f2, adm} THEN "own" ELSE "none"],
     last |-> 4]

\* A Pack whose Cubmaster answers for money too, and whose Admin is its own.
WholePack ==
    [InTheDen(TRUE) EXCEPT
        !.member = [@ EXCEPT ![cub] = Person(f1, "adult", TRUE)],
        !.rows = {Row(1, lead, pack, d1, "den_leader"), Row(2, adm, pack, NoGroup, "super_admin"),
                  Row(3, cub, pack, NoGroup, "cubmaster"), Row(4, cub, pack, d1, "chair")},
        !.custom = {MkCustomRole(1, pack, "chair", {"email_group"})},
        !.overrides = [@ EXCEPT ![pack] = [@ EXCEPT !["den_leader"] = {"edit_content"}]],
        !.subgroup = [g \in SubGroups |-> IF g = d1 THEN pack ELSE NoUnit]]

Symmetry == Permutations(Requests)

MCStart == {InTheDen(TRUE), InTheDen(FALSE), WholePack}
MCTicked == {{"manage_ledger"}, {"edit_content", "super_admin"}}
MCOffered == {"parent", "treasurer", "chair"}
MCCustomSlugs == {"chair"}
=============================================================================
