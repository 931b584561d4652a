------------------------------ MODULE Accounts ------------------------------
(***************************************************************************)
(* Who may administer the site: the rules of lib/auth/roleService.ts, the  *)
(* server actions that reach them (dashboard/roles/actions.ts and          *)
(* dashboard/users/actions.ts), the moderators' suspension of a reader     *)
(* (dashboard/comments/actions.ts) and the erasure of an account           *)
(* (lib/accountDeletion.ts).                                               *)
(*                                                                         *)
(* auth() re-reads the account on every request (lib/auth/config.ts), so   *)
(* a request is authorised by the tables as they are when it begins.  The  *)
(* rules are checked by later reads and the result written by a step of    *)
(* its own, by primary key.                                                *)
(***************************************************************************)
EXTENDS Naturals, FiniteSets

CONSTANTS
    User,           \* identities of accounts
    Role,           \* identities of roles
    FirstRoles,     \* the UserRole table after the seed
    FirstUsers,     \* the User table after the seed
    Writers,        \* accounts that have written articles
    MinTier,        \* the tier each permission asks for
    Req,            \* server actions that may be in flight at once
    Ops,            \* the server actions in use
    MaxStarted,     \* bound of the model: server actions started
    Crashes,        \* whether the process may die under a request
    NoRole          \* null in User.roleId

VARIABLES
    role,           \* the UserRole and RolePermission tables
    user,           \* the User table
    signedIn,       \* accounts with a token that carries their sessionVersion
    audit,          \* AuditLog rows: <<actor, action, target>>
    req,            \* the server actions in flight
    started         \* history: how many have been started

vars == <<role, user, signedIn, audit, req, started>>

---------------------------------------------------------------------------
(* Rows and requests                                                       *)

Tiers == {"READER", "MODERATOR", "ADMIN"}
TierRank == [READER |-> 0, MODERATOR |-> 1, ADMIN |-> 2]
AtLeast(tier, min) == TierRank[tier] >= TierRank[min]

\* user.manage and role.manage are CRITICAL_PERMISSIONS.
Permission == DOMAIN MinTier
Critical == {"user.manage", "role.manage"}

\* validatePermissions refuses a permission above the role's tier.
TierAllows(tier, perms) == \A p \in perms : AtLeast(tier, MinTier[p])

RoleRow ==
    [row : {"none", "kept", "deleted"}, tier : Tiers, isSystem : BOOLEAN,
     isProtected : BOOLEAN, perms : SUBSET Permission]

UserStatuses == {"ACTIVE", "SUSPENDED", "BANNED"}

\* Status "NONE" is an account that has not been created.
UserRow ==
    [status : UserStatuses \cup {"NONE"}, tier : Tiers,
     roleId : Role \cup {NoRole}, erased : BOOLEAN]

Kept(r) == role[r].row = "kept"
Exists(u) == user[u].status # "NONE"
Holders(r) == {u \in User : Exists(u) /\ user[u].roleId = r}

PermsOf(u) == IF user[u].roleId = NoRole THEN {} ELSE role[user[u].roleId].perms

\* The accounts that can manage people, as assertNotLastAdministrator counts.
Managers ==
    {u \in User : user[u].status = "ACTIVE" /\ ~user[u].erased
                  /\ "user.manage" \in PermsOf(u)}

\* auth(): a current token of an ACTIVE account.
Session(u) == u \in signedIn /\ user[u].status = "ACTIVE"
HasPermission(u, p) == Session(u) /\ p \in PermsOf(u)
HasTier(u, min) == Session(u) /\ AtLeast(user[u].tier, min)

AllOps == {"assign", "create user", "update role", "delete role",
           "create role", "status", "suspend", "erase"}

Idle == [pc |-> "idle"]

AssignRequest ==
    [pc : {"count managers", "write"}, op : {"assign", "create user"},
     actor : User, target : User, role : Role, tier : Tiers]
UpdateRoleRequest ==
    [pc : {"write"}, op : {"update role"}, actor : User, target : Role,
     tier : Tiers, wasTier : Tiers, perms : SUBSET Permission]
DeleteRoleRequest ==
    [pc : {"write"}, op : {"delete role"}, actor : User, target : Role]
StatusRequest ==
    [pc : {"count admins", "write"}, op : {"status", "suspend"},
     actor : User, target : User, to : UserStatuses]
EraseRequest ==
    [pc : {"write"}, op : {"erase"}, actor : User, target : User]
AuditRequest ==
    [pc : {"audit"}, op : AllOps, actor : User, target : User \cup Role]

ASSUME ConstantsAssumption ==
    /\ MinTier \in [Permission -> Tiers] /\ Critical \subseteq Permission
    /\ FirstRoles \in [Role -> RoleRow] /\ FirstUsers \in [User -> UserRow]
    /\ \A r \in Role :
           /\ TierAllows(FirstRoles[r].tier, FirstRoles[r].perms)
           /\ FirstRoles[r].isProtected =>
                  /\ FirstRoles[r].row = "kept" /\ FirstRoles[r].isSystem
                  /\ Critical \subseteq FirstRoles[r].perms
    /\ Writers \subseteq User /\ NoRole \notin Role
    /\ Ops \subseteq AllOps /\ MaxStarted \in Nat /\ Crashes \in BOOLEAN

Begin(q, op, request) ==
    /\ op \in Ops
    /\ req[q] = Idle
    /\ started < MaxStarted
    /\ started' = started + 1
    /\ req' = [req EXCEPT ![q] = request]
    /\ UNCHANGED <<role, user, signedIn, audit>>

Goto(q, pc) == req' = [req EXCEPT ![q].pc = pc] /\ UNCHANGED started
Finish(q) == req' = [req EXCEPT ![q] = Idle] /\ UNCHANGED started

\* The write threw: the row is gone, or a foreign key no longer resolves.
Refuse(q) == Finish(q) /\ UNCHANGED <<role, user, signedIn, audit>>

\* What is left to do after the write is recordAudit.
ThenAudit(q) ==
    /\ req' = [req EXCEPT ![q] =
           [pc |-> "audit", op |-> req[q].op, actor |-> req[q].actor,
            target |-> req[q].target]]
    /\ UNCHANGED <<audit, started>>

---------------------------------------------------------------------------

Init ==
    /\ role = FirstRoles
    /\ user = FirstUsers
    /\ signedIn = {}
    /\ audit = {}
    /\ req = [q \in Req |-> Idle]
    /\ started = 0

\* A completed sign-in mints a token with the current sessionVersion.
SignIn(u) ==
    /\ user[u].status = "ACTIVE" /\ ~user[u].erased
    /\ signedIn' = signedIn \cup {u}
    /\ UNCHANGED <<role, user, audit, req, started>>

---------------------------------------------------------------------------
(* Moving a person onto a role                                             *)

\* setUserRole and the two reads of assignRole: the role's tier is what it is
\* now, and a role that manages people skips the count.
BeginAssign(q, a, u, r) ==
    /\ HasPermission(a, "user.manage")
    /\ Exists(u) /\ ~user[u].erased /\ Kept(r)
    /\ user[u].roleId # r
    /\ a # u
    /\ Begin(q, "assign",
           [pc |-> IF "user.manage" \in role[r].perms THEN "write" ELSE "count managers",
            op |-> "assign", actor |-> a, target |-> u, role |-> r,
            tier |-> role[r].tier])

\* createUser reads the role before it hashes the password and inserts.
BeginCreateUser(q, a, u, r) ==
    /\ HasPermission(a, "user.manage")
    /\ ~Exists(u) /\ Kept(r)
    /\ Begin(q, "create user",
           [pc |-> "write", op |-> "create user", actor |-> a, target |-> u,
            role |-> r, tier |-> role[r].tier])

\* assertNotLastAdministrator.
CountManagers(q) ==
    /\ req[q].pc = "count managers"
    /\ IF Managers \ {req[q].target} = {} THEN Finish(q) ELSE Goto(q, "write")
    /\ UNCHANGED <<role, user, signedIn, audit>>

\* Mutant: the tier is written, the sessions are not revoked.
WriteAssignKeepingSessions(q) ==
    LET r == req[q] IN
    /\ r.pc = "write" /\ r.op = "assign"
    /\ IF Kept(r.role)
         THEN /\ user' = [user EXCEPT ![r.target].roleId = r.role,
                                      ![r.target].tier = r.tier]
              /\ ThenAudit(q)
              /\ UNCHANGED <<role, signedIn>>
         ELSE Refuse(q)

\* assignRole's transaction: roleId, tier and sessionVersion together.
WriteAssign(q) ==
    LET r == req[q] IN
    /\ r.pc = "write" /\ r.op = "assign"
    /\ IF Kept(r.role)
         THEN /\ user' = [user EXCEPT ![r.target].roleId = r.role,
                                      ![r.target].tier = r.tier]
              /\ signedIn' = signedIn \ {r.target}
              /\ ThenAudit(q)
              /\ UNCHANGED role
         ELSE Refuse(q)

\* createUser's insert; email and handle are unique.
WriteCreateUser(q) ==
    LET r == req[q] IN
    /\ r.pc = "write" /\ r.op = "create user"
    /\ IF Kept(r.role) /\ ~Exists(r.target)
         THEN /\ user' = [user EXCEPT ![r.target] =
                     [status |-> "ACTIVE", tier |-> r.tier, roleId |-> r.role,
                      erased |-> FALSE]]
              /\ ThenAudit(q)
              /\ UNCHANGED <<role, signedIn>>
         ELSE Refuse(q)

---------------------------------------------------------------------------
(* Editing roles                                                           *)

\* createRole: the key is unique, so the insert settles who came first.
CreateRole(q, a, r, tier, perms) ==
    /\ "create role" \in Ops /\ req[q] = Idle /\ started < MaxStarted
    /\ HasPermission(a, "role.manage")
    /\ role[r].row = "none"
    /\ TierAllows(tier, perms)
    /\ role' = [role EXCEPT ![r] =
           [row |-> "kept", tier |-> tier, isSystem |-> FALSE,
            isProtected |-> FALSE, perms |-> perms]]
    /\ req' = [req EXCEPT ![q] =
           [pc |-> "audit", op |-> "create role", actor |-> a, target |-> r]]
    /\ started' = started + 1
    /\ UNCHANGED <<user, signedIn, audit>>

\* Mutant: the permissions are checked against the tier the role still has.
BeginUpdateByOldTier(q, a, r, tier, perms) ==
    /\ HasPermission(a, "role.manage")
    /\ Kept(r)
    /\ role[r].isSystem => tier = role[r].tier
    /\ TierAllows(role[r].tier, perms)
    /\ role[r].isProtected => Critical \subseteq perms
    /\ Begin(q, "update role",
           [pc |-> "write", op |-> "update role", actor |-> a, target |-> r,
            tier |-> tier, wasTier |-> role[r].tier, perms |-> perms])

\* Mutant: assertProtectedRoleKeepsControl asks for one of the two.
BeginUpdateKeepingOne(q, a, r, tier, perms) ==
    /\ HasPermission(a, "role.manage")
    /\ Kept(r)
    /\ role[r].isSystem => tier = role[r].tier
    /\ TierAllows(tier, perms)
    /\ role[r].isProtected => Critical \cap perms # {}
    /\ Begin(q, "update role",
           [pc |-> "write", op |-> "update role", actor |-> a, target |-> r,
            tier |-> tier, wasTier |-> role[r].tier, perms |-> perms])

\* updateRole up to its transaction, validatePermissions and
\* assertProtectedRoleKeepsControl included.
BeginUpdateRole(q, a, r, tier, perms) ==
    /\ HasPermission(a, "role.manage")
    /\ Kept(r)
    /\ role[r].isSystem => tier = role[r].tier
    /\ TierAllows(tier, perms)
    /\ role[r].isProtected => Critical \subseteq perms
    /\ Begin(q, "update role",
           [pc |-> "write", op |-> "update role", actor |-> a, target |-> r,
            tier |-> tier, wasTier |-> role[r].tier, perms |-> perms])

\* Mutant: the holders' copy of the tier is forgotten.
WriteUpdateRoleOnly(q) ==
    LET r == req[q] IN
    /\ r.pc = "write" /\ r.op = "update role"
    /\ IF Kept(r.target)
         THEN /\ role' = [role EXCEPT ![r.target].tier = r.tier,
                                      ![r.target].perms = r.perms]
              /\ ThenAudit(q)
              /\ UNCHANGED <<user, signedIn>>
         ELSE Refuse(q)

\* updateRole's transaction: the holders' copy of the tier follows when the
\* tier differs from the one read before.
WriteUpdateRole(q) ==
    LET r == req[q]
        followers == IF r.tier # r.wasTier THEN Holders(r.target) ELSE {} IN
    /\ r.pc = "write" /\ r.op = "update role"
    /\ IF Kept(r.target)
         THEN /\ role' = [role EXCEPT ![r.target].tier = r.tier,
                                      ![r.target].perms = r.perms]
              /\ user' = [u \in User |->
                     IF u \in followers THEN [user[u] EXCEPT !.tier = r.tier] ELSE user[u]]
              /\ signedIn' = signedIn \ followers
              /\ ThenAudit(q)
         ELSE Refuse(q)

\* Mutant: only the built-in roles are kept.
BeginDeleteHeldRole(q, a, r) ==
    /\ HasPermission(a, "role.manage")
    /\ Kept(r) /\ ~role[r].isSystem
    /\ Begin(q, "delete role",
           [pc |-> "write", op |-> "delete role", actor |-> a, target |-> r])

\* deleteRole's read: a built-in role and a role somebody holds are refused.
BeginDeleteRole(q, a, r) ==
    /\ HasPermission(a, "role.manage")
    /\ Kept(r) /\ ~role[r].isSystem
    /\ Holders(r) = {}
    /\ Begin(q, "delete role",
           [pc |-> "write", op |-> "delete role", actor |-> a, target |-> r])

\* The delete: User.roleId is ON DELETE SET NULL.
WriteDeleteRole(q) ==
    LET r == req[q].target IN
    /\ req[q].pc = "write" /\ req[q].op = "delete role"
    /\ IF Kept(r)
         THEN /\ role' = [role EXCEPT ![r].row = "deleted"]
              /\ user' = [u \in User |->
                     IF u \in Holders(r) THEN [user[u] EXCEPT !.roleId = NoRole] ELSE user[u]]
              /\ ThenAudit(q)
              /\ UNCHANGED signedIn
         ELSE Refuse(q)

---------------------------------------------------------------------------
(* Suspending, reinstating and erasing                                     *)

\* setUserStatus up to its first count: wouldRemoveLastAdmin concerns an ACTIVE
\* account of tier ADMIN that is to stop being ACTIVE.
BeginStatus(q, a, u, to) ==
    /\ HasTier(a, "ADMIN")
    /\ a # u
    /\ Exists(u) /\ user[u].status # to
    /\ Begin(q, "status",
           [pc |-> IF to # "ACTIVE" /\ user[u].tier = "ADMIN" /\ user[u].status = "ACTIVE"
                     THEN "count admins" ELSE "write",
            op |-> "status", actor |-> a, target |-> u, to |-> to])

\* The count of wouldRemoveLastAdmin: of tiers, not of permissions.
CountAdmins(q) ==
    LET others == {u \in User \ {req[q].target} :
                     user[u].tier = "ADMIN" /\ user[u].status = "ACTIVE"} IN
    /\ req[q].pc = "count admins"
    /\ IF others = {} THEN Finish(q) ELSE Goto(q, "write")
    /\ UNCHANGED <<role, user, signedIn, audit>>

\* suspendCommenter reads the target's tier: only readers are suspended there.
BeginSuspend(q, a, u) ==
    /\ HasTier(a, "MODERATOR")
    /\ Exists(u) /\ user[u].tier = "READER"
    /\ Begin(q, "suspend",
           [pc |-> "write", op |-> "suspend", actor |-> a, target |-> u,
            to |-> "SUSPENDED"])

\* The update of both, with sessionVersion incremented.
WriteStatus(q) ==
    LET r == req[q] IN
    /\ r.pc = "write" /\ r.op \in {"status", "suspend"}
    /\ user' = [user EXCEPT ![r.target].status = r.to]
    /\ signedIn' = signedIn \ {r.target}
    /\ ThenAudit(q)
    /\ UNCHANGED role

\* deleteMyAccount and anonymiseAccount's check.
BeginErase(q, u) ==
    /\ Session(u) /\ ~user[u].erased
    /\ u \notin Writers
    /\ Begin(q, "erase", [pc |-> "write", op |-> "erase", actor |-> u, target |-> u])

\* Mutant: the row is stripped but sessionVersion stays.
WriteEraseKeepingSessions(q) ==
    LET u == req[q].target IN
    /\ req[q].pc = "write" /\ req[q].op = "erase"
    /\ user' = [user EXCEPT ![u].tier = "READER", ![u].status = "BANNED", ![u].erased = TRUE]
    /\ ThenAudit(q)
    /\ UNCHANGED <<role, signedIn>>

\* Mutant: the tier column is cleared instead of set to READER.
WriteEraseClearingTier(q) ==
    LET u == req[q].target IN
    /\ req[q].pc = "write" /\ req[q].op = "erase"
    /\ user' = [user EXCEPT ![u].tier = NoRole, ![u].status = "BANNED", ![u].erased = TRUE]
    /\ signedIn' = signedIn \ {u}
    /\ ThenAudit(q)
    /\ UNCHANGED role

\* anonymiseAccount's transaction on the User row: the tier goes, roleId stays.
WriteErase(q) ==
    LET u == req[q].target IN
    /\ req[q].pc = "write" /\ req[q].op = "erase"
    /\ user' = [user EXCEPT ![u].tier = "READER", ![u].status = "BANNED", ![u].erased = TRUE]
    /\ signedIn' = signedIn \ {u}
    /\ ThenAudit(q)
    /\ UNCHANGED role

---------------------------------------------------------------------------

RecordAudit(q) ==
    LET r == req[q] IN
    /\ r.pc = "audit"
    /\ audit' = audit \cup {<<r.actor, r.op, r.target>>}
    /\ Finish(q)
    /\ UNCHANGED <<role, user, signedIn>>

\* The process is restarted, or an await throws, part of the way through.
Crash(q) ==
    /\ Crashes
    /\ req[q] # Idle
    /\ Refuse(q)

BeginRequest(q, a) ==
    \/ \E u \in User, r \in Role : BeginAssign(q, a, u, r) \/ BeginCreateUser(q, a, u, r)
    \/ \E r \in Role, tier \in Tiers, perms \in SUBSET Permission :
          CreateRole(q, a, r, tier, perms) \/ BeginUpdateRole(q, a, r, tier, perms)
    \/ \E r \in Role : BeginDeleteRole(q, a, r)
    \/ \E u \in User, to \in UserStatuses : BeginStatus(q, a, u, to)
    \/ \E u \in User : BeginSuspend(q, a, u)
    \/ BeginErase(q, a)

RequestStep(q) ==
    \/ CountManagers(q) \/ CountAdmins(q)
    \/ WriteAssign(q) \/ WriteCreateUser(q) \/ WriteUpdateRole(q)
    \/ WriteDeleteRole(q) \/ WriteStatus(q) \/ WriteErase(q)
    \/ RecordAudit(q)

Next ==
    \/ \E u \in User : SignIn(u)
    \/ \E q \in Req, a \in User : BeginRequest(q, a)
    \/ \E q \in Req : RequestStep(q)
    \/ \E q \in Req : Crash(q)

Spec == Init /\ [][Next]_vars

---------------------------------------------------------------------------
(* Properties                                                              *)

TypeOK ==
    /\ role \in [Role -> RoleRow]
    /\ user \in [User -> UserRow]
    /\ signedIn \subseteq User
    /\ audit \subseteq User \X AllOps \X (User \cup Role)
    /\ req \in [Req -> AssignRequest \cup UpdateRoleRequest \cup DeleteRoleRequest
                       \cup StatusRequest \cup EraseRequest \cup AuditRequest
                       \cup {Idle}]
    /\ started \in 0..MaxStarted

\* However two edits of one role interleave, no role ends up with a permission
\* above its tier, which would be held without the second factor the tier asks
\* for (validatePermissions, and the transaction in updateRole).
PermissionsFitTier ==
    \A r \in Role : Kept(r) => TierAllows(role[r].tier, role[r].perms)

\* The administrator role always exists and always holds both of the permissions
\* that administer the site (assertProtectedRoleKeepsControl, deleteRole).
ProtectedRoleKeepsControl ==
    \A r \in Role :
        FirstRoles[r].isProtected => Kept(r) /\ Critical \subseteq role[r].perms

\* A change of what an account is reaches it at once: no step changes the tier of
\* an account, or stops it being ACTIVE, and leaves it a token that still works
\* (the sessionVersion increments of roleService.ts and users/actions.ts).
ChangedIsSignedOut ==
    [][\A u \in User :
          (\/ user'[u].tier # user[u].tier
           \/ user[u].status = "ACTIVE" /\ user'[u].status # "ACTIVE")
              => u \notin signedIn']_vars

\* An account that was erased never has a working session again, even if an
\* administrator sets its status back (lib/accountDeletion.ts, setUserStatus).
ErasedStaysOut == \A u \in signedIn : ~user[u].erased

\* Somebody can always manage people: "the last account that can manage people
\* cannot be moved off it" (lib/auth/roleService.ts:27).
SomebodyManagesPeople == Managers # {}

\* With one request at a time, moving people, creating them and deleting roles
\* never take the last person who can manage people away; only an edit of
\* permissions or a change of status, which do not count managers, can
\* (assignRole's two rules, deleteRole's refusal of a role somebody holds).
MovingKeepsAManager ==
    [][Managers # {} /\ Managers' = {} =>
          \/ \E r \in Role : role'[r].perms # role[r].perms
          \/ \E u \in User : user'[u].status # user[u].status]_vars

\* "User.role is a denormalised copy of Role.tier ... so the two cannot drift"
\* (prisma/schema.prisma:26-29); of the accounts that still are somebody's.
TierAgrees ==
    \A u \in User :
        Exists(u) /\ ~user[u].erased /\ user[u].roleId # NoRole
            => user[u].tier = role[user[u].roleId].tier

\* "Deleting a role somebody still holds" is refused, for "they would silently
\* drop to no permissions at all" (docs/roles-and-permissions.md): every account
\* has a role.
EveryoneHasARole ==
    \A u \in User : Exists(u) => user[u].roleId # NoRole /\ Kept(user[u].roleId)

\* Every account holds a role that exists, and the tier it acts with is that
\* role's.
EveryoneHoldsTheirRole == EveryoneHasARole /\ TierAgrees

\* Whatever edits overlap, a role keeps to its tier and the administrators'
\* keeps control of the site.
RolesKeepTheirShape == PermissionsFitTier /\ ProtectedRoleKeepsControl
=============================================================================
