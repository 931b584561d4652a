---------------------------- MODULE MC_Accounts ----------------------------
(***************************************************************************)
(* Small instances of Accounts for TLC.  The administrator role is seeded, *)
(* protected and held by `chief'; `desk' is a role an administrator made,  *)
(* of tier ADMIN, held by `dana'; `rita' is a reader, `nora' an account and *)
(* `fresh' a role that do not exist yet.                                   *)
(***************************************************************************)
EXTENDS Accounts, TLC

CONSTANTS chief, dana, rita, nora, admin, desk, reader, fresh

MCRole == {admin, desk, reader}
MCRoleAndFresh == MCRole \cup {fresh}
MCMinTier ==
    [p \in {"user.manage", "role.manage"} |-> "ADMIN"]

SystemRole(tier, protected, perms) ==
    [row |-> "kept", tier |-> tier, isSystem |-> TRUE, isProtected |-> protected,
     perms |-> perms]
CustomRole(perms) ==
    [row |-> "kept", tier |-> "ADMIN", isSystem |-> FALSE, isProtected |-> FALSE,
     perms |-> perms]

MCFirstRoles ==
    [r \in Role |->
        CASE r = admin  -> SystemRole("ADMIN", TRUE, {"user.manage", "role.manage"})
          [] r = reader -> SystemRole("READER", FALSE, {})
          [] r = desk   -> CustomRole({"role.manage"})
          [] OTHER      -> [row |-> "none", tier |-> "READER", isSystem |-> FALSE,
                            isProtected |-> FALSE, perms |-> {}]]

\* The same with a desk that manages people as well.
MCTwoManagers == [MCFirstRoles EXCEPT ![desk] = CustomRole({"user.manage", "role.manage"})]

Person(status, tier, r) ==
    [status |-> status, tier |-> tier, roleId |-> r, erased |-> FALSE]

MCFirstUsers ==
    [u \in User |->
        CASE u = chief -> Person("ACTIVE", "ADMIN", admin)
          [] u = dana  -> Person("ACTIVE", "ADMIN", desk)
          [] u = rita  -> Person("ACTIVE", "READER", reader)
          [] OTHER     -> Person("NONE", "READER", NoRole)]

\* Requests are interchangeable.
ReqSymmetry == Permutations(Req)
=============================================================================
