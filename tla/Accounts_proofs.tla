-------------------------- MODULE Accounts_proofs --------------------------
(***************************************************************************)
(* Proofs about Accounts, for any number of accounts, roles, permissions   *)
(* and requests in flight and whatever may crash: the types, that roles    *)
(* keep to their tier and the protected one its control, that an erased    *)
(* account stays out, and that a change of what an account is signs it     *)
(* out in the same step.  With one request at a time: that everybody holds *)
(* a role, and that moving people leaves somebody who manages them.        *)
(***************************************************************************)
EXTENDS Accounts, TLAPS

---------------------------------------------------------------------------
(* The inductive invariant                                                 *)

Request == AssignRequest \cup UpdateRoleRequest \cup DeleteRoleRequest
               \cup StatusRequest \cup EraseRequest \cup AuditRequest \cup {Idle}

\* What updateRole and deleteRole have checked before they write, and nothing
\* that another request does takes back.
Checked(r) ==
    /\ r.pc = "write" /\ r.op = "update role" =>
           /\ TierAllows(r.tier, r.perms)
           /\ FirstRoles[r.target].isProtected => Critical \subseteq r.perms
    /\ r.pc = "write" /\ r.op = "delete role" => ~FirstRoles[r.target].isProtected

RequestsAreChecked == \A q \in Req : Checked(req[q])

\* The flags of a seeded protected role stand, so every later edit is measured
\* by them.
RolesAreSound ==
    /\ RolesKeepTheirShape
    /\ \A r \in Role :
           FirstRoles[r].isProtected => role[r].isSystem /\ role[r].isProtected

\* Only accounts that exist and were not erased are signed in.
SessionsAreSound == \A u \in signedIn : Exists(u) /\ ~user[u].erased

AccountsInv == TypeOK /\ RolesAreSound /\ SessionsAreSound /\ RequestsAreChecked

---------------------------------------------------------------------------
(* Requests                                                                *)

\* The step and the operation tell what kind of request it is.
LEMMA KindOfRequest ==
    ASSUME NEW r \in Request
    PROVE  /\ r.pc = "write" /\ r.op \in {"assign", "create user"} => r \in AssignRequest
           /\ r.pc = "write" /\ r.op = "update role" => r \in UpdateRoleRequest
           /\ r.pc = "write" /\ r.op = "delete role" => r \in DeleteRoleRequest
           /\ r.pc = "write" /\ r.op \in {"status", "suspend"} => r \in StatusRequest
           /\ r.pc = "write" /\ r.op = "erase" => r \in EraseRequest
           /\ r.pc = "audit" => r \in AuditRequest
           /\ r.pc = "count managers" => r \in AssignRequest
           /\ r.pc = "count admins" => r \in StatusRequest
<1>1. CASE r \in AssignRequest
  BY <1>1 DEF AssignRequest
<1>2. CASE r \in UpdateRoleRequest
  BY <1>2 DEF UpdateRoleRequest
<1>3. CASE r \in DeleteRoleRequest
  BY <1>3 DEF DeleteRoleRequest
<1>4. CASE r \in StatusRequest
  BY <1>4 DEF StatusRequest
<1>5. CASE r \in EraseRequest
  BY <1>5 DEF EraseRequest
<1>6. CASE r \in AuditRequest
  BY <1>6 DEF AuditRequest
<1>7. CASE r = Idle
  BY <1>7 DEF Idle
<1>8. QED
  BY <1>1, <1>2, <1>3, <1>4, <1>5, <1>6, <1>7 DEF Request

\* A request that moves to r leaves the others where they were.
LEMMA MovedRequest ==
    ASSUME req \in [Req -> Request], RequestsAreChecked,
           NEW q \in Req, NEW r \in Request, Checked(r),
           req' = [req EXCEPT ![q] = r]
    PROVE  req' \in [Req -> Request] /\ RequestsAreChecked'
<1>1. \A p \in Req : req'[p] = r \/ req'[p] = req[p]
  OBVIOUS
<1>2. \A p \in Req : Checked(req'[p])
  BY <1>1 DEF RequestsAreChecked
<1>3. RequestsAreChecked' <=> \A p \in Req : Checked(req'[p])
  BY DEF RequestsAreChecked, Checked
<1>4. QED
  BY <1>2, <1>3

\* A request that is over relies on nothing.
LEMMA IdleIsChecked == Idle \in Request /\ Checked(Idle)
BY DEF Request, Checked, Idle

LEMMA FinishKeepsRequests ==
    ASSUME req \in [Req -> Request], RequestsAreChecked, NEW q \in Req, Finish(q)
    PROVE  req' \in [Req -> Request] /\ RequestsAreChecked'
BY MovedRequest, IdleIsChecked DEF Finish

\* After its write a request has an audit row to leave, and nothing to rely on.
LEMMA ThenAuditKeepsRequests ==
    ASSUME req \in [Req -> Request], RequestsAreChecked, NEW q \in Req, ThenAudit(q),
           req[q].op \in AllOps, req[q].actor \in User, req[q].target \in User \cup Role
    PROVE  req' \in [Req -> Request] /\ RequestsAreChecked'
<1> DEFINE r == [pc |-> "audit", op |-> req[q].op, actor |-> req[q].actor,
                 target |-> req[q].target]
<1>1. r \in Request /\ Checked(r)
  BY DEF Request, AuditRequest, Checked
<1>2. req' = [req EXCEPT ![q] = r]
  BY DEF ThenAudit
<1> HIDE DEF r
<1>3. QED
  BY <1>1, <1>2, MovedRequest

\* What a request of each kind names is there to be audited.
LEMMA NamesAreThere ==
    ASSUME NEW r \in Request, r.pc = "write"
    PROVE  r.op \in AllOps /\ r.actor \in User /\ r.target \in User \cup Role
<1>1. CASE r \in AssignRequest
  BY <1>1 DEF AssignRequest, AllOps
<1>2. CASE r \in UpdateRoleRequest
  BY <1>2 DEF UpdateRoleRequest, AllOps
<1>3. CASE r \in DeleteRoleRequest
  BY <1>3 DEF DeleteRoleRequest, AllOps
<1>4. CASE r \in StatusRequest
  BY <1>4 DEF StatusRequest, AllOps
<1>5. CASE r \in EraseRequest
  BY <1>5 DEF EraseRequest, AllOps
<1>6. CASE r \in AuditRequest
  BY <1>6 DEF AuditRequest, AllOps
<1>7. CASE r = Idle
  BY <1>7 DEF Idle
<1>8. QED
  BY <1>1, <1>2, <1>3, <1>4, <1>5, <1>6, <1>7 DEF Request

---------------------------------------------------------------------------
(* Steps that leave the tables alone                                       *)

\* If roles, accounts and sessions stay, only the requests matter.
LEMMA TablesStand ==
    ASSUME AccountsInv, UNCHANGED <<role, user, signedIn>>,
           audit' \subseteq User \X AllOps \X (User \cup Role),
           started' \in 0..MaxStarted,
           req' \in [Req -> Request], RequestsAreChecked'
    PROVE  AccountsInv'
<1>1. TypeOK'
  BY DEF AccountsInv, TypeOK, Request
<1>2. RolesAreSound' /\ SessionsAreSound'
  BY DEF AccountsInv, RolesAreSound, SessionsAreSound, RolesKeepTheirShape,
         PermissionsFitTier, ProtectedRoleKeepsControl, Kept, Exists
<1>3. QED
  BY <1>1, <1>2 DEF AccountsInv

LEMMA TypesOfRequests ==
    ASSUME AccountsInv
    PROVE  /\ req \in [Req -> Request] /\ RequestsAreChecked
           /\ audit \subseteq User \X AllOps \X (User \cup Role)
           /\ started \in 0..MaxStarted
BY DEF AccountsInv, TypeOK, Request

LEMMA BeginKeeps ==
    ASSUME ConstantsAssumption, AccountsInv, NEW q \in Req, NEW op, NEW r \in Request,
           Checked(r), Begin(q, op, r)
    PROVE  AccountsInv'
<1>1. req' = [req EXCEPT ![q] = r]
  BY DEF Begin
<1>2. req' \in [Req -> Request] /\ RequestsAreChecked'
  BY <1>1, MovedRequest, TypesOfRequests
<1>3. started' \in 0..MaxStarted
  BY TypesOfRequests DEF Begin, ConstantsAssumption
<1>4. UNCHANGED <<role, user, signedIn, audit>>
  BY DEF Begin
<1>5. QED
  BY <1>2, <1>3, <1>4, TablesStand, TypesOfRequests

LEMMA FinishKeeps ==
    ASSUME AccountsInv, NEW q \in Req, Finish(q), UNCHANGED <<role, user, signedIn, audit>>
    PROVE  AccountsInv'
<1>1. req' \in [Req -> Request] /\ RequestsAreChecked'
  BY FinishKeepsRequests, TypesOfRequests
<1>2. started' \in 0..MaxStarted
  BY TypesOfRequests DEF Finish
<1>3. QED
  BY <1>1, <1>2, TablesStand, TypesOfRequests

LEMMA RefuseKeeps ==
    ASSUME AccountsInv, NEW q \in Req, Refuse(q)
    PROVE  AccountsInv'
BY FinishKeeps DEF Refuse

---------------------------------------------------------------------------
(* Beginnings                                                              *)

LEMMA BeginRequestKeeps ==
    ASSUME ConstantsAssumption, AccountsInv, NEW q \in Req, NEW a \in User,
           BeginRequest(q, a)
    PROVE  AccountsInv'
<1>1. ASSUME NEW u \in User, NEW r \in Role, BeginAssign(q, a, u, r)
      PROVE  AccountsInv'
  <2> DEFINE new == [pc |-> IF "user.manage" \in role[r].perms THEN "write" ELSE "count managers",
                     op |-> "assign", actor |-> a, target |-> u, role |-> r,
                     tier |-> role[r].tier]
  <2>1. role[r].tier \in Tiers
    BY DEF AccountsInv, TypeOK, RoleRow
  <2>2. new \in Request /\ Checked(new)
    BY <2>1 DEF Request, AssignRequest, Checked
  <2>3. Begin(q, "assign", new)
    BY <1>1 DEF BeginAssign
  <2> HIDE DEF new
  <2>4. QED
    BY <2>2, <2>3, BeginKeeps
<1>2. ASSUME NEW u \in User, NEW r \in Role, BeginCreateUser(q, a, u, r)
      PROVE  AccountsInv'
  <2> DEFINE new == [pc |-> "write", op |-> "create user", actor |-> a, target |-> u,
                     role |-> r, tier |-> role[r].tier]
  <2>1. role[r].tier \in Tiers
    BY DEF AccountsInv, TypeOK, RoleRow
  <2>2. new \in Request /\ Checked(new)
    BY <2>1 DEF Request, AssignRequest, Checked
  <2>3. Begin(q, "create user", new)
    BY <1>2 DEF BeginCreateUser
  <2> HIDE DEF new
  <2>4. QED
    BY <2>2, <2>3, BeginKeeps
<1>3. ASSUME NEW r \in Role, NEW tier \in Tiers, NEW perms \in SUBSET Permission,
             CreateRole(q, a, r, tier, perms)
      PROVE  AccountsInv'
  <2> DEFINE new == [pc |-> "audit", op |-> "create role", actor |-> a, target |-> r]
             row == [row |-> "kept", tier |-> tier, isSystem |-> FALSE,
                     isProtected |-> FALSE, perms |-> perms]
  <2>1. new \in Request /\ Checked(new)
    BY DEF Request, AuditRequest, AllOps, Checked
  <2>2. req' = [req EXCEPT ![q] = new]
    BY <1>3 DEF CreateRole
  <2> HIDE DEF new
  <2>3. req' \in [Req -> Request] /\ RequestsAreChecked'
    BY <2>1, <2>2, MovedRequest, TypesOfRequests
  <2>4. started' \in 0..MaxStarted
    <3>1. started < MaxStarted /\ started' = started + 1
      BY <1>3 DEF CreateRole
    <3>2. QED
      BY <3>1, TypesOfRequests DEF ConstantsAssumption
  <2>5. row \in RoleRow /\ row.row = "kept" /\ row.tier = tier /\ row.perms = perms
    BY DEF RoleRow
  <2>6. role' = [role EXCEPT ![r] = row] /\ UNCHANGED <<user, signedIn, audit>>
        /\ role[r].row = "none" /\ TierAllows(tier, perms)
    BY <1>3 DEF CreateRole
  <2> HIDE DEF row
  <2>7. TypeOK'
    BY <2>3, <2>4, <2>5, <2>6 DEF AccountsInv, TypeOK, Request
  <2>8. ~FirstRoles[r].isProtected
    BY <2>6 DEF AccountsInv, RolesAreSound, RolesKeepTheirShape, ProtectedRoleKeepsControl, Kept
  <2>9. \A s \in Role : role'[s] = IF s = r THEN row ELSE role[s]
    BY <2>6 DEF AccountsInv, TypeOK
  <2>10. RolesAreSound'
    BY <2>5, <2>6, <2>8, <2>9 DEF AccountsInv, RolesAreSound, RolesKeepTheirShape,
       PermissionsFitTier, ProtectedRoleKeepsControl, Kept
  <2>11. SessionsAreSound'
    BY <2>6 DEF AccountsInv, SessionsAreSound, Exists
  <2>12. QED
    BY <2>3, <2>7, <2>10, <2>11 DEF AccountsInv
<1>4. ASSUME NEW r \in Role, NEW tier \in Tiers, NEW perms \in SUBSET Permission,
             BeginUpdateRole(q, a, r, tier, perms)
      PROVE  AccountsInv'
  <2> DEFINE new == [pc |-> "write", op |-> "update role", actor |-> a, target |-> r,
                     tier |-> tier, wasTier |-> role[r].tier, perms |-> perms]
  <2>1. role[r].tier \in Tiers
    BY DEF AccountsInv, TypeOK, RoleRow
  <2>2. new \in Request
    BY <2>1 DEF Request, UpdateRoleRequest
  <2>3. FirstRoles[r].isProtected => Critical \subseteq perms
    BY <1>4 DEF BeginUpdateRole, AccountsInv, RolesAreSound
  <2>4. Checked(new)
    BY <1>4, <2>3 DEF BeginUpdateRole, Checked
  <2>5. Begin(q, "update role", new)
    BY <1>4 DEF BeginUpdateRole
  <2> HIDE DEF new
  <2>6. QED
    BY <2>2, <2>4, <2>5, BeginKeeps
<1>5. ASSUME NEW r \in Role, BeginDeleteRole(q, a, r)
      PROVE  AccountsInv'
  <2> DEFINE new == [pc |-> "write", op |-> "delete role", actor |-> a, target |-> r]
  <2>1. new \in Request
    BY DEF Request, DeleteRoleRequest
  <2>2. ~FirstRoles[r].isProtected
    BY <1>5 DEF BeginDeleteRole, AccountsInv, RolesAreSound
  <2>3. Checked(new)
    BY <2>2 DEF Checked
  <2>4. Begin(q, "delete role", new)
    BY <1>5 DEF BeginDeleteRole
  <2> HIDE DEF new
  <2>5. QED
    BY <2>1, <2>3, <2>4, BeginKeeps
<1>6. ASSUME NEW u \in User, NEW to \in UserStatuses, BeginStatus(q, a, u, to)
      PROVE  AccountsInv'
  <2> DEFINE new == [pc |-> IF to # "ACTIVE" /\ user[u].tier = "ADMIN" /\ user[u].status = "ACTIVE"
                              THEN "count admins" ELSE "write",
                     op |-> "status", actor |-> a, target |-> u, to |-> to]
  <2>1. new \in Request /\ Checked(new)
    BY DEF Request, StatusRequest, Checked
  <2>2. Begin(q, "status", new)
    BY <1>6 DEF BeginStatus
  <2> HIDE DEF new
  <2>3. QED
    BY <2>1, <2>2, BeginKeeps
<1>7. ASSUME NEW u \in User, BeginSuspend(q, a, u)
      PROVE  AccountsInv'
  <2> DEFINE new == [pc |-> "write", op |-> "suspend", actor |-> a, target |-> u,
                     to |-> "SUSPENDED"]
  <2>1. new \in Request /\ Checked(new)
    BY DEF Request, StatusRequest, UserStatuses, Checked
  <2>2. Begin(q, "suspend", new)
    BY <1>7 DEF BeginSuspend
  <2> HIDE DEF new
  <2>3. QED
    BY <2>1, <2>2, BeginKeeps
<1>8. CASE BeginErase(q, a)
  <2> DEFINE new == [pc |-> "write", op |-> "erase", actor |-> a, target |-> a]
  <2>1. new \in Request /\ Checked(new)
    BY DEF Request, EraseRequest, Checked
  <2>2. Begin(q, "erase", new)
    BY <1>8 DEF BeginErase
  <2> HIDE DEF new
  <2>3. QED
    BY <2>1, <2>2, BeginKeeps
<1>9. QED
  BY <1>1, <1>2, <1>3, <1>4, <1>5, <1>6, <1>7, <1>8 DEF BeginRequest

---------------------------------------------------------------------------
(* The steps of a request                                                  *)

\* An account that loses its role, and a role that is edited, keep their shape.
LEMMA UserLosesRole ==
    ASSUME NEW row \in UserRow
    PROVE  LET new == [row EXCEPT !.roleId = NoRole]
           IN  new \in UserRow /\ new.status = row.status /\ new.erased = row.erased
  BY DEF UserRow

LEMMA RoleIsEdited ==
    ASSUME NEW row \in RoleRow, NEW t \in Tiers, NEW perms \in SUBSET Permission
    PROVE  [row EXCEPT !.tier = t, !.perms = perms] \in RoleRow
  BY DEF RoleRow

\* The tables after a step, given that the requests are sound after it.
LEMMA WithRequests ==
    ASSUME role' \in [Role -> RoleRow], user' \in [User -> UserRow], signedIn' \subseteq User,
           audit' \subseteq User \X AllOps \X (User \cup Role), started' \in 0..MaxStarted,
           req' \in [Req -> Request], RequestsAreChecked',
           RolesAreSound', SessionsAreSound'
    PROVE  AccountsInv'
BY DEF AccountsInv, TypeOK, Request

\* Roles that are not written stay as they should be.
LEMMA RolesStand ==
    ASSUME RolesAreSound, UNCHANGED role
    PROVE  RolesAreSound'
BY DEF RolesAreSound, RolesKeepTheirShape, PermissionsFitTier, ProtectedRoleKeepsControl, Kept

\* A request that goes on from its count to its write.
LEMMA CountKeeps ==
    ASSUME AccountsInv, NEW q \in Req, CountManagers(q) \/ CountAdmins(q)
    PROVE  AccountsInv'
<1> DEFINE r == [req[q] EXCEPT !.pc = "write"]
<1>1. UNCHANGED <<role, user, signedIn, audit>>
  BY DEF CountManagers, CountAdmins
<1>2. CASE Finish(q)
  BY <1>1, <1>2, FinishKeeps
<1>3. CASE Goto(q, "write")
  <2>1. req[q] \in Request /\ req[q].pc \in {"count managers", "count admins"}
    BY TypesOfRequests DEF CountManagers, CountAdmins
  <2>2. req[q] \in AssignRequest \/ req[q] \in StatusRequest
    BY <2>1, KindOfRequest
  <2>3. r \in Request /\ r.op \notin {"update role", "delete role"}
    BY <2>2 DEF Request, AssignRequest, StatusRequest
  <2>4. Checked(r)
    BY <2>3 DEF Checked
  <2>5. req' = [req EXCEPT ![q] = r] /\ started' = started
    BY <1>3, TypesOfRequests DEF Goto
  <2> HIDE DEF r
  <2>6. req' \in [Req -> Request] /\ RequestsAreChecked'
    BY <2>3, <2>4, <2>5, MovedRequest, TypesOfRequests
  <2>7. QED
    BY <1>1, <2>5, <2>6, TablesStand, TypesOfRequests
<1>4. QED
  BY <1>2, <1>3 DEF CountManagers, CountAdmins

\* What every write leaves of the requests.
LEMMA WriteKeepsRequests ==
    ASSUME AccountsInv, NEW q \in Req, req[q].pc = "write", ThenAudit(q)
    PROVE  /\ req' \in [Req -> Request] /\ RequestsAreChecked'
           /\ audit' \subseteq User \X AllOps \X (User \cup Role)
           /\ started' \in 0..MaxStarted
<1>1. req[q].op \in AllOps /\ req[q].actor \in User /\ req[q].target \in User \cup Role
  BY TypesOfRequests, NamesAreThere
<1>2. req' \in [Req -> Request] /\ RequestsAreChecked'
  BY <1>1, ThenAuditKeepsRequests, TypesOfRequests
<1>3. QED
  BY <1>2, TypesOfRequests DEF ThenAudit

LEMMA WriteAssignKeeps ==
    ASSUME AccountsInv, NEW q \in Req, WriteAssign(q)
    PROVE  AccountsInv'
<1> DEFINE r == req[q]
<1>1. CASE Refuse(q)
  BY <1>1, RefuseKeeps
<1>2. CASE ~Refuse(q)
  <2>1. r \in AssignRequest
    BY KindOfRequest, TypesOfRequests DEF WriteAssign
  <2>2. r.target \in User /\ r.role \in Role /\ r.tier \in Tiers
    BY <2>1 DEF AssignRequest
  <2>3. /\ user' = [user EXCEPT ![r.target].roleId = r.role, ![r.target].tier = r.tier]
        /\ signedIn' = signedIn \ {r.target}
        /\ ThenAudit(q) /\ UNCHANGED role /\ r.pc = "write"
    BY <1>2 DEF WriteAssign
  <2>4. user' \in [User -> UserRow]
    BY <2>2, <2>3 DEF AccountsInv, TypeOK, UserRow
  <2>5. \A u \in User : user'[u].status = user[u].status /\ user'[u].erased = user[u].erased
    BY <2>2, <2>3 DEF AccountsInv, TypeOK, UserRow
  <2>6. SessionsAreSound' /\ signedIn' \subseteq User
    BY <2>3, <2>5 DEF AccountsInv, TypeOK, SessionsAreSound, Exists
  <2>7. RolesAreSound' /\ role' \in [Role -> RoleRow]
    BY <2>3, RolesStand DEF AccountsInv, TypeOK
  <2>8. QED
    BY <2>3, <2>4, <2>6, <2>7, WriteKeepsRequests, WithRequests
<1>3. QED
  BY <1>1, <1>2

LEMMA WriteCreateUserKeeps ==
    ASSUME AccountsInv, NEW q \in Req, WriteCreateUser(q)
    PROVE  AccountsInv'
<1> DEFINE r == req[q]
           row == [status |-> "ACTIVE", tier |-> r.tier, roleId |-> r.role, erased |-> FALSE]
<1>1. CASE Refuse(q)
  BY <1>1, RefuseKeeps
<1>2. CASE ~Refuse(q)
  <2>1. r \in AssignRequest
    BY KindOfRequest, TypesOfRequests DEF WriteCreateUser
  <2>2. r.target \in User /\ row \in UserRow /\ row.status # "NONE" /\ ~row.erased
    BY <2>1 DEF AssignRequest, UserRow, UserStatuses
  <2>3. /\ user' = [user EXCEPT ![r.target] = row] /\ UNCHANGED <<role, signedIn>>
        /\ ThenAudit(q) /\ r.pc = "write"
    BY <1>2 DEF WriteCreateUser
  <2> HIDE DEF row
  <2>4. user' \in [User -> UserRow]
    BY <2>2, <2>3 DEF AccountsInv, TypeOK
  <2>5. SessionsAreSound' /\ signedIn' \subseteq User
    BY <2>2, <2>3 DEF AccountsInv, TypeOK, SessionsAreSound, Exists
  <2>6. RolesAreSound' /\ role' \in [Role -> RoleRow]
    BY <2>3, RolesStand DEF AccountsInv, TypeOK
  <2>7. QED
    BY <2>3, <2>4, <2>5, <2>6, WriteKeepsRequests, WithRequests
<1>3. QED
  BY <1>1, <1>2

\* The transaction of updateRole writes what was checked before it, whatever
\* became of the role in between.
LEMMA WriteUpdateRoleKeeps ==
    ASSUME AccountsInv, NEW q \in Req, WriteUpdateRole(q)
    PROVE  AccountsInv'
<1> DEFINE r == req[q]
           followers == IF r.tier # r.wasTier THEN Holders(r.target) ELSE {}
<1>1. CASE Refuse(q)
  BY <1>1, RefuseKeeps
<1>2. CASE ~Refuse(q)
  <2>1. r \in UpdateRoleRequest
    BY KindOfRequest, TypesOfRequests DEF WriteUpdateRole
  <2>2. r.target \in Role /\ r.tier \in Tiers /\ r.perms \in SUBSET Permission
    BY <2>1 DEF UpdateRoleRequest
  <2>3. /\ role' = [role EXCEPT ![r.target].tier = r.tier, ![r.target].perms = r.perms]
        /\ user' = [u \in User |->
               IF u \in followers THEN [user[u] EXCEPT !.tier = r.tier] ELSE user[u]]
        /\ signedIn' = signedIn \ followers
        /\ ThenAudit(q) /\ r.pc = "write" /\ r.op = "update role"
    BY <1>2 DEF WriteUpdateRole
  <2>4. /\ TierAllows(r.tier, r.perms)
        /\ FirstRoles[r.target].isProtected => Critical \subseteq r.perms
    BY <2>3 DEF AccountsInv, RequestsAreChecked, Checked
  <2> HIDE DEF followers
  <2>5. user' \in [User -> UserRow]
    BY <2>2, <2>3 DEF AccountsInv, TypeOK, UserRow
  <2>6. \A u \in User : user'[u].status = user[u].status /\ user'[u].erased = user[u].erased
    BY <2>3 DEF AccountsInv, TypeOK, UserRow
  <2>7. SessionsAreSound' /\ signedIn' \subseteq User
    BY <2>3, <2>6 DEF AccountsInv, TypeOK, SessionsAreSound, Exists
  <2>8. role' \in [Role -> RoleRow]
    <3>1. role[r.target] \in RoleRow
      BY <2>2 DEF AccountsInv, TypeOK
    <3>2. [role[r.target] EXCEPT !.tier = r.tier, !.perms = r.perms] \in RoleRow
      BY <2>2, <3>1, RoleIsEdited
    <3>3. role' = [role EXCEPT ![r.target] = [role[r.target] EXCEPT !.tier = r.tier, !.perms = r.perms]]
      BY <2>3
    <3> HIDE DEF r
    <3>4. QED
      BY <3>2, <3>3 DEF AccountsInv, TypeOK
  <2>9. \A s \in Role :
            /\ role'[s].row = role[s].row
            /\ role'[s].isSystem = role[s].isSystem
            /\ role'[s].isProtected = role[s].isProtected
            /\ IF s = r.target THEN role'[s].tier = r.tier /\ role'[s].perms = r.perms
                               ELSE role'[s].tier = role[s].tier /\ role'[s].perms = role[s].perms
    BY <2>2, <2>3 DEF AccountsInv, TypeOK, RoleRow
  <2>10. RolesAreSound'
    BY <2>4, <2>9 DEF AccountsInv, RolesAreSound, RolesKeepTheirShape, PermissionsFitTier,
       ProtectedRoleKeepsControl, Kept
  <2>11. QED
    BY <2>3, <2>5, <2>7, <2>8, <2>10, WriteKeepsRequests, WithRequests
<1>3. QED
  BY <1>1, <1>2

LEMMA WriteDeleteRoleKeeps ==
    ASSUME ConstantsAssumption, AccountsInv, NEW q \in Req, WriteDeleteRole(q)
    PROVE  AccountsInv'
<1> DEFINE r == req[q].target
<1>1. CASE Refuse(q)
  BY <1>1, RefuseKeeps
<1>2. CASE ~Refuse(q)
  <2>1. req[q] \in DeleteRoleRequest
    BY KindOfRequest, TypesOfRequests DEF WriteDeleteRole
  <2>2. r \in Role
    BY <2>1 DEF DeleteRoleRequest
  <2>3. /\ role' = [role EXCEPT ![r].row = "deleted"]
        /\ user' = [u \in User |->
               IF u \in Holders(r) THEN [user[u] EXCEPT !.roleId = NoRole] ELSE user[u]]
        /\ ThenAudit(q) /\ UNCHANGED signedIn
        /\ req[q].pc = "write" /\ req[q].op = "delete role"
    BY <1>2 DEF WriteDeleteRole
  <2>4. ~FirstRoles[r].isProtected
    BY <2>3 DEF AccountsInv, RequestsAreChecked, Checked
  <2>5. \A u \in User : user[u] \in UserRow
    BY DEF AccountsInv, TypeOK
  <2>6. user' \in [User -> UserRow]
    BY <2>3, <2>5, UserLosesRole
  <2>7. \A u \in User : user'[u].status = user[u].status /\ user'[u].erased = user[u].erased
    BY <2>3, <2>5, UserLosesRole
  <2>8. SessionsAreSound' /\ signedIn' \subseteq User
    BY <2>3, <2>7 DEF AccountsInv, TypeOK, SessionsAreSound, Exists
  <2>9. role' \in [Role -> RoleRow]
    <3>1. [role[r] EXCEPT !.row = "deleted"] \in RoleRow
      BY <2>2 DEF AccountsInv, TypeOK, RoleRow
    <3>2. role' = [role EXCEPT ![r] = [role[r] EXCEPT !.row = "deleted"]]
      BY <2>3
    <3> HIDE DEF r
    <3>3. QED
      BY <3>1, <3>2 DEF AccountsInv, TypeOK
  <2>10. \A s \in Role :
            /\ s # r => role'[s] = role[s]
            /\ role'[r].row = "deleted"
    BY <2>2, <2>3 DEF AccountsInv, TypeOK, RoleRow
  <2>11. RolesAreSound'
    BY <2>4, <2>10 DEF AccountsInv, RolesAreSound, RolesKeepTheirShape, PermissionsFitTier,
       ProtectedRoleKeepsControl, Kept
  <2>12. QED
    BY <2>3, <2>6, <2>8, <2>9, <2>11, WriteKeepsRequests, WithRequests
<1>3. QED
  BY <1>1, <1>2

LEMMA WriteStatusKeeps ==
    ASSUME AccountsInv, NEW q \in Req, WriteStatus(q)
    PROVE  AccountsInv'
<1> DEFINE r == req[q]
<1>1. r \in StatusRequest
  BY KindOfRequest, TypesOfRequests DEF WriteStatus
<1>2. r.target \in User /\ r.to \in UserStatuses
  BY <1>1 DEF StatusRequest
<1>3. /\ user' = [user EXCEPT ![r.target].status = r.to]
      /\ signedIn' = signedIn \ {r.target}
      /\ ThenAudit(q) /\ UNCHANGED role /\ r.pc = "write"
  BY DEF WriteStatus
<1>4. user' \in [User -> UserRow]
  BY <1>2, <1>3 DEF AccountsInv, TypeOK, UserRow
<1>5. \A u \in User \ {r.target} : user'[u] = user[u]
  BY <1>3 DEF AccountsInv, TypeOK
<1>6. SessionsAreSound' /\ signedIn' \subseteq User
  BY <1>3, <1>5 DEF AccountsInv, TypeOK, SessionsAreSound, Exists
<1>7. RolesAreSound' /\ role' \in [Role -> RoleRow]
  BY <1>3, RolesStand DEF AccountsInv, TypeOK
<1>8. QED
  BY <1>3, <1>4, <1>6, <1>7, WriteKeepsRequests, WithRequests

LEMMA WriteEraseKeeps ==
    ASSUME AccountsInv, NEW q \in Req, WriteErase(q)
    PROVE  AccountsInv'
<1> DEFINE u == req[q].target
<1>1. req[q] \in EraseRequest
  BY KindOfRequest, TypesOfRequests DEF WriteErase
<1>2. u \in User
  BY <1>1 DEF EraseRequest
<1>3. /\ user' = [user EXCEPT ![u].tier = "READER", ![u].status = "BANNED", ![u].erased = TRUE]
      /\ signedIn' = signedIn \ {u}
      /\ ThenAudit(q) /\ UNCHANGED role /\ req[q].pc = "write"
  BY DEF WriteErase
<1>4. user' \in [User -> UserRow]
  BY <1>2, <1>3 DEF AccountsInv, TypeOK, UserRow, UserStatuses, Tiers
<1>5. \A v \in User \ {u} : user'[v] = user[v]
  BY <1>3 DEF AccountsInv, TypeOK
<1>6. SessionsAreSound' /\ signedIn' \subseteq User
  BY <1>3, <1>5 DEF AccountsInv, TypeOK, SessionsAreSound, Exists
<1>7. RolesAreSound' /\ role' \in [Role -> RoleRow]
  BY <1>3, RolesStand DEF AccountsInv, TypeOK
<1>8. QED
  BY <1>3, <1>4, <1>6, <1>7, WriteKeepsRequests, WithRequests

LEMMA RecordAuditKeeps ==
    ASSUME AccountsInv, NEW q \in Req, RecordAudit(q)
    PROVE  AccountsInv'
<1>1. req[q] \in AuditRequest
  BY KindOfRequest, TypesOfRequests DEF RecordAudit
<1>2. <<req[q].actor, req[q].op, req[q].target>> \in User \X AllOps \X (User \cup Role)
  BY <1>1 DEF AuditRequest
<1>3. audit' \subseteq User \X AllOps \X (User \cup Role)
  BY <1>2, TypesOfRequests DEF RecordAudit
<1>4. Finish(q) /\ UNCHANGED <<role, user, signedIn>>
  BY DEF RecordAudit
<1>5. req' \in [Req -> Request] /\ RequestsAreChecked' /\ started' \in 0..MaxStarted
  BY <1>4, FinishKeepsRequests, TypesOfRequests DEF Finish
<1>6. QED
  BY <1>3, <1>4, <1>5, TablesStand

LEMMA SignInKeeps ==
    ASSUME AccountsInv, NEW u \in User, SignIn(u)
    PROVE  AccountsInv'
<1>1. /\ user[u].status = "ACTIVE" /\ ~user[u].erased
      /\ signedIn' = signedIn \cup {u} /\ UNCHANGED <<role, user, audit, req, started>>
  BY DEF SignIn
<1>2. SessionsAreSound'
  BY <1>1 DEF AccountsInv, SessionsAreSound, Exists
<1>3. RolesAreSound'
  BY <1>1, RolesStand DEF AccountsInv
<1>4. RequestsAreChecked'
  BY <1>1 DEF AccountsInv, RequestsAreChecked, Checked
<1>5. TypeOK'
  BY <1>1 DEF AccountsInv, TypeOK
<1>6. QED
  BY <1>2, <1>3, <1>4, <1>5 DEF AccountsInv

---------------------------------------------------------------------------
(* The invariant and what follows from it                                  *)

LEMMA InitHolds ==
    ASSUME ConstantsAssumption, Init
    PROVE  AccountsInv
<1>1. req \in [Req -> Request] /\ RequestsAreChecked
  BY IdleIsChecked DEF Init, RequestsAreChecked
<1>2. started \in 0..MaxStarted
  BY DEF Init, ConstantsAssumption
<1>3. TypeOK
  BY <1>1, <1>2 DEF Init, TypeOK, Request, ConstantsAssumption
<1>4. RolesAreSound
  BY DEF Init, RolesAreSound, RolesKeepTheirShape, PermissionsFitTier,
         ProtectedRoleKeepsControl, Kept, ConstantsAssumption
<1>5. SessionsAreSound
  BY DEF Init, SessionsAreSound
<1>6. QED
  BY <1>1, <1>3, <1>4, <1>5 DEF AccountsInv

LEMMA StepKeeps ==
    ASSUME ConstantsAssumption, AccountsInv, [Next]_vars
    PROVE  AccountsInv'
<1>1. CASE \E u \in User : SignIn(u)
  BY <1>1, SignInKeeps
<1>2. CASE \E q \in Req, a \in User : BeginRequest(q, a)
  BY <1>2, BeginRequestKeeps
<1>3. CASE \E q \in Req : RequestStep(q)
  <2>1. PICK q \in Req : RequestStep(q)
    BY <1>3
  <2>2. QED
    BY <2>1, CountKeeps, WriteAssignKeeps, WriteCreateUserKeeps, WriteUpdateRoleKeeps,
       WriteDeleteRoleKeeps, WriteStatusKeeps, WriteEraseKeeps, RecordAuditKeeps
       DEF RequestStep
<1>4. CASE \E q \in Req : Crash(q)
  BY <1>4, RefuseKeeps DEF Crash
<1>5. CASE UNCHANGED vars
  <2>1. UNCHANGED <<role, user, signedIn, audit, req, started>>
    BY <1>5 DEF vars
  <2>2. RequestsAreChecked'
    BY <2>1 DEF AccountsInv, RequestsAreChecked, Checked
  <2>3. QED
    BY <2>1, <2>2, TablesStand, TypesOfRequests
<1>6. QED
  BY <1>1, <1>2, <1>3, <1>4, <1>5 DEF Next

\* What roles, sessions and requests rest on holds in every reachable state.
THEOREM AccountsInvariance == ConstantsAssumption => (Spec => []AccountsInv)
<1>1. ASSUME ConstantsAssumption PROVE Spec => []AccountsInv
  <2>1. Init => AccountsInv
    BY <1>1, InitHolds
  <2>2. AccountsInv /\ [Next]_vars => AccountsInv'
    BY <1>1, StepKeeps
  <2>3. QED
    BY <2>1, <2>2, PTL DEF Spec
<1>2. QED
  BY <1>1

\* The tables, the requests and the sessions keep their types, whatever edits,
\* assignments, suspensions, erasures and crashes interleave.
THEOREM TypeInvariance == Spec => []TypeOK
<1>1. AccountsInv => TypeOK
  BY DEF AccountsInv
<1>2. QED
  BY <1>1, AccountsInvariance, ConstantsAssumption, PTL

\* No role ends up with a permission above its tier, and a protected role is
\* never deleted nor loses control of the site, however edits of roles overlap
\* (validatePermissions and assertProtectedRoleKeepsControl are asked before the
\* transaction that writes).
THEOREM RolesStayInShape == Spec => []RolesKeepTheirShape
<1>1. AccountsInv => RolesKeepTheirShape
  BY DEF AccountsInv, RolesAreSound
<1>2. QED
  BY <1>1, AccountsInvariance, ConstantsAssumption, PTL

\* An erased account has no working session, whoever sets its status back and
\* whatever sign-in, suspension and erasure interleave (anonymiseAccount).
THEOREM ErasedIsOut == Spec => []ErasedStaysOut
<1>1. AccountsInv => ErasedStaysOut
  BY DEF AccountsInv, SessionsAreSound, ErasedStaysOut
<1>2. QED
  BY <1>1, AccountsInvariance, ConstantsAssumption, PTL

---------------------------------------------------------------------------
(* Changes reach the sessions                                              *)

\* The change that has to reach an account.
Changed(u) ==
    \/ user'[u].tier # user[u].tier
    \/ user[u].status = "ACTIVE" /\ user'[u].status # "ACTIVE"

\* Whatever begins has only read so far.
LEMMA BeginningsLeaveAccounts ==
    ASSUME NEW q \in Req, NEW a \in User, BeginRequest(q, a)
    PROVE  UNCHANGED user
<1>1. \A op, r : Begin(q, op, r) => UNCHANGED user
  BY DEF Begin
<1>2. ASSUME NEW u \in User, NEW r \in Role, BeginAssign(q, a, u, r) \/ BeginCreateUser(q, a, u, r)
      PROVE  UNCHANGED user
  BY <1>1, <1>2 DEF BeginAssign, BeginCreateUser
<1>3. ASSUME NEW r \in Role, NEW tier \in Tiers, NEW perms \in SUBSET Permission,
             CreateRole(q, a, r, tier, perms) \/ BeginUpdateRole(q, a, r, tier, perms)
      PROVE  UNCHANGED user
  BY <1>1, <1>3 DEF CreateRole, BeginUpdateRole
<1>4. ASSUME NEW r \in Role, BeginDeleteRole(q, a, r)
      PROVE  UNCHANGED user
  BY <1>1, <1>4 DEF BeginDeleteRole
<1>5. ASSUME NEW u \in User, NEW to \in UserStatuses, BeginStatus(q, a, u, to)
      PROVE  UNCHANGED user
  BY <1>1, <1>5 DEF BeginStatus
<1>6. ASSUME NEW u \in User, BeginSuspend(q, a, u)
      PROVE  UNCHANGED user
  BY <1>1, <1>6 DEF BeginSuspend
<1>7. CASE BeginErase(q, a)
  BY <1>1, <1>7 DEF BeginErase
<1>8. QED
  BY <1>2, <1>3, <1>4, <1>5, <1>6, <1>7 DEF BeginRequest

LEMMA ChangeReaches ==
    ASSUME AccountsInv, [Next]_vars, NEW u \in User, Changed(u)
    PROVE  u \notin signedIn'
<1>1. user' # user
  BY DEF Changed
<1>2. PICK q \in Req : \/ WriteAssign(q) \/ WriteCreateUser(q) \/ WriteUpdateRole(q)
                       \/ WriteDeleteRole(q) \/ WriteStatus(q) \/ WriteErase(q)
  <2>1. ~(\E q \in Req, a \in User : BeginRequest(q, a))
    BY <1>1, BeginningsLeaveAccounts
  <2>2. ~(\E v \in User : SignIn(v)) /\ ~(\E q \in Req : Crash(q)) /\ ~UNCHANGED vars
    BY <1>1 DEF SignIn, Crash, Refuse, vars
  <2>3. PICK q \in Req : RequestStep(q)
    BY <2>1, <2>2 DEF Next
  <2>4. ~CountManagers(q) /\ ~CountAdmins(q) /\ ~RecordAudit(q)
    BY <1>1 DEF CountManagers, CountAdmins, RecordAudit
  <2>5. QED
    BY <2>3, <2>4 DEF RequestStep
<1>3. user \in [User -> UserRow] /\ req[q] \in Request
  BY TypesOfRequests DEF AccountsInv, TypeOK
<1>4. ~Refuse(q)
  BY <1>1 DEF Refuse
<1>5. CASE WriteAssign(q)
  BY <1>3, <1>4, <1>5 DEF WriteAssign, Changed
<1>6. CASE WriteCreateUser(q)
  <2>1. ~Exists(req[q].target) /\ UNCHANGED signedIn
    BY <1>4, <1>6 DEF WriteCreateUser
  <2>2. req[q].target \notin signedIn
    BY <2>1 DEF AccountsInv, SessionsAreSound
  <2>3. u = req[q].target
    BY <1>3, <1>4, <1>6 DEF WriteCreateUser, Changed
  <2>4. QED
    BY <2>1, <2>2, <2>3
<1>7. CASE WriteUpdateRole(q)
  <2> DEFINE followers == IF req[q].tier # req[q].wasTier THEN Holders(req[q].target) ELSE {}
  <2>1. /\ user' = [v \in User |->
               IF v \in followers THEN [user[v] EXCEPT !.tier = req[q].tier] ELSE user[v]]
        /\ signedIn' = signedIn \ followers
    BY <1>4, <1>7 DEF WriteUpdateRole
  <2> HIDE DEF followers
  <2>2. QED
    BY <2>1 DEF Changed
<1>8. CASE WriteDeleteRole(q)
  <2>1. user'[u].tier = user[u].tier /\ user'[u].status = user[u].status
    BY <1>3, <1>4, <1>8 DEF WriteDeleteRole, UserRow
  <2>2. QED
    BY <2>1 DEF Changed
<1>9. CASE WriteStatus(q)
  BY <1>3, <1>9 DEF WriteStatus, Changed
<1>10. CASE WriteErase(q)
  BY <1>3, <1>10 DEF WriteErase, Changed
<1>11. QED
  BY <1>2, <1>5, <1>6, <1>7, <1>8, <1>9, <1>10

\* A change of tier, and an end of being ACTIVE, end the account's sessions in
\* the same step; so no request can be authorised by a token that carries what
\* the account was (the sessionVersion increments of roleService.ts,
\* users/actions.ts and accountDeletion.ts).
THEOREM ChangesSignOut == Spec => ChangedIsSignedOut
<1>1. AccountsInv /\ [Next]_vars => [\A u \in User : Changed(u) => u \notin signedIn']_vars
  BY ChangeReaches
<1>2. QED
  BY <1>1, AccountsInvariance, ConstantsAssumption, PTL DEF Spec, ChangedIsSignedOut, Changed

---------------------------------------------------------------------------
(* One request at a time                                                   *)

OneAtATime == \A p, q \in Req : p = q

\* What a request has read is still so when it writes.
Standing(r) ==
    /\ r.pc \in {"count managers", "write"} /\ r.op \in {"assign", "create user"} =>
           Kept(r.role) /\ r.tier = role[r.role].tier
    /\ r.pc \in {"count managers", "write"} /\ r.op = "assign" => Exists(r.target)
    /\ r.pc = "write" /\ r.op = "assign" =>
           "user.manage" \in role[r.role].perms \/ Managers \ {r.target} # {}
    /\ r.pc = "write" /\ r.op = "update role" => r.wasTier = role[r.target].tier
    /\ r.pc = "write" /\ r.op = "delete role" => Holders(r.target) = {}
    /\ r.pc \in {"count admins", "write"} /\ r.op \in {"status", "suspend", "erase"} => Exists(r.target)

ReadsStand == \A q \in Req : Standing(req[q])

\* A request that has written relies on nothing, and there is no other.
LEMMA DoneStands ==
    ASSUME OneAtATime, req \in [Req -> Request], NEW q \in Req, NEW c,
           req' = [req EXCEPT ![q] = c], c.pc \in {"audit", "idle"}
    PROVE  ReadsStand'
<1>1. \A p \in Req : req'[p] = c
  BY DEF OneAtATime
<1>2. QED
  BY <1>1 DEF ReadsStand, Standing

\* Tables that stay are what they were when they were read.
LEMMA ReadingStands ==
    ASSUME OneAtATime, req \in [Req -> Request], NEW q \in Req, NEW c,
           req' = [req EXCEPT ![q] = c], UNCHANGED <<role, user>>, Standing(c)
    PROVE  ReadsStand'
<1>1. \A p \in Req : req'[p] = c
  BY DEF OneAtATime
<1>2. Managers' = Managers /\ \A r : Holders(r)' = Holders(r)
  BY DEF Managers, PermsOf, Holders, Exists
<1>3. QED
  BY <1>1, <1>2 DEF ReadsStand, Standing, Kept, Exists

LEMMA BeginningStands ==
    ASSUME OneAtATime, AccountsInv, NEW q \in Req, NEW a \in User, BeginRequest(q, a)
    PROVE  ReadsStand'
<1>0. req \in [Req -> Request]
  BY TypesOfRequests
<1>1. ASSUME NEW op, NEW c, Begin(q, op, c), Standing(c)
      PROVE  ReadsStand'
  BY <1>0, <1>1, ReadingStands DEF Begin
<1>2. ASSUME NEW u \in User, NEW r \in Role, BeginAssign(q, a, u, r)
      PROVE  ReadsStand'
  <2> DEFINE new == [pc |-> IF "user.manage" \in role[r].perms THEN "write" ELSE "count managers",
                     op |-> "assign", actor |-> a, target |-> u, role |-> r,
                     tier |-> role[r].tier]
  <2>1. Standing(new) /\ Begin(q, "assign", new)
    BY <1>2 DEF BeginAssign, Standing
  <2>2. QED
    BY <1>1, <2>1
<1>3. ASSUME NEW u \in User, NEW r \in Role, BeginCreateUser(q, a, u, r)
      PROVE  ReadsStand'
  <2> DEFINE new == [pc |-> "write", op |-> "create user", actor |-> a, target |-> u,
                     role |-> r, tier |-> role[r].tier]
  <2>1. Standing(new) /\ Begin(q, "create user", new)
    BY <1>3 DEF BeginCreateUser, Standing
  <2>2. QED
    BY <1>1, <2>1
<1>4. ASSUME NEW r \in Role, NEW tier \in Tiers, NEW perms \in SUBSET Permission,
             CreateRole(q, a, r, tier, perms)
      PROVE  ReadsStand'
  <2>1. PICK c : c.pc = "audit" /\ req' = [req EXCEPT ![q] = c]
    BY <1>4 DEF CreateRole
  <2>2. QED
    BY <1>0, <2>1, DoneStands
<1>5. ASSUME NEW r \in Role, NEW tier \in Tiers, NEW perms \in SUBSET Permission,
             BeginUpdateRole(q, a, r, tier, perms)
      PROVE  ReadsStand'
  <2> DEFINE new == [pc |-> "write", op |-> "update role", actor |-> a, target |-> r,
                     tier |-> tier, wasTier |-> role[r].tier, perms |-> perms]
  <2>1. Standing(new) /\ Begin(q, "update role", new)
    BY <1>5 DEF BeginUpdateRole, Standing
  <2>2. QED
    BY <1>1, <2>1
<1>6. ASSUME NEW r \in Role, BeginDeleteRole(q, a, r)
      PROVE  ReadsStand'
  <2> DEFINE new == [pc |-> "write", op |-> "delete role", actor |-> a, target |-> r]
  <2>1. Standing(new) /\ Begin(q, "delete role", new)
    BY <1>6 DEF BeginDeleteRole, Standing
  <2>2. QED
    BY <1>1, <2>1
<1>7. ASSUME NEW u \in User, NEW to \in UserStatuses, BeginStatus(q, a, u, to)
      PROVE  ReadsStand'
  <2> DEFINE new == [pc |-> IF to # "ACTIVE" /\ user[u].tier = "ADMIN" /\ user[u].status = "ACTIVE"
                              THEN "count admins" ELSE "write",
                     op |-> "status", actor |-> a, target |-> u, to |-> to]
  <2>1. Standing(new) /\ Begin(q, "status", new)
    BY <1>7 DEF BeginStatus, Standing
  <2>2. QED
    BY <1>1, <2>1
<1>8. ASSUME NEW u \in User, BeginSuspend(q, a, u)
      PROVE  ReadsStand'
  <2> DEFINE new == [pc |-> "write", op |-> "suspend", actor |-> a, target |-> u,
                     to |-> "SUSPENDED"]
  <2>1. Standing(new) /\ Begin(q, "suspend", new)
    BY <1>8 DEF BeginSuspend, Standing
  <2>2. QED
    BY <1>1, <2>1
<1>9. CASE BeginErase(q, a)
  <2> DEFINE new == [pc |-> "write", op |-> "erase", actor |-> a, target |-> a]
  <2>1. Standing(new) /\ Begin(q, "erase", new)
    BY <1>9 DEF BeginErase, Session, Exists, Standing
  <2>2. QED
    BY <1>1, <2>1
<1>10. QED
  BY <1>2, <1>3, <1>4, <1>5, <1>6, <1>7, <1>8, <1>9 DEF BeginRequest

\* The steps after which nothing is relied on: a refusal, or the audit to come.
LEMMA EndingStands ==
    ASSUME OneAtATime, AccountsInv, NEW q \in Req, Finish(q) \/ ThenAudit(q)
    PROVE  ReadsStand'
<1>1. req \in [Req -> Request]
  BY TypesOfRequests
<1>2. CASE Finish(q)
  <2>1. Idle.pc = "idle" /\ req' = [req EXCEPT ![q] = Idle]
    BY <1>2 DEF Finish, Idle
  <2>2. QED
    BY <1>1, <2>1, DoneStands
<1>3. CASE ThenAudit(q)
  <2>1. PICK c : c = [pc |-> "audit", op |-> req[q].op, actor |-> req[q].actor, target |-> req[q].target]
    OBVIOUS
  <2>2. c.pc = "audit" /\ req' = [req EXCEPT ![q] = c]
    BY <1>3, <2>1 DEF ThenAudit
  <2>3. QED
    BY <1>1, <2>2, DoneStands
<1>4. QED
  BY <1>2, <1>3

\* A count that is passed is what the write relies on.
LEMMA CountStands ==
    ASSUME OneAtATime, AccountsInv, ReadsStand, NEW q \in Req, CountManagers(q) \/ CountAdmins(q)
    PROVE  ReadsStand'
<1>1. CASE Finish(q)
  BY <1>1, EndingStands
<1>2. CASE ~Finish(q)
  <2> DEFINE r == req[q]
  <2>1. PICK c : c = [r EXCEPT !.pc = "write"]
    OBVIOUS
  <2>2. req' = [req EXCEPT ![q] = c] /\ UNCHANGED <<role, user>> /\ req \in [Req -> Request]
    BY <1>2, <2>1, TypesOfRequests DEF CountManagers, CountAdmins, Goto
  <2>3. Standing(c)
    <3>1. CASE CountManagers(q)
      <4>1. r \in AssignRequest /\ r.pc = "count managers" /\ Standing(r)
        BY <2>2, <3>1, KindOfRequest DEF CountManagers, ReadsStand
      <4>2. /\ c.pc = "write" /\ c.op = r.op /\ c.target = r.target /\ c.role = r.role /\ c.tier = r.tier
            /\ r.op \in {"assign", "create user"}
        BY <2>1, <4>1 DEF AssignRequest
      <4>3. Managers \ {r.target} # {}
        BY <1>2, <3>1 DEF CountManagers
      <4>4. QED
        BY <4>1, <4>2, <4>3 DEF Standing
    <3>2. CASE CountAdmins(q)
      <4>1. r \in StatusRequest /\ r.pc = "count admins" /\ Standing(r)
        BY <2>2, <3>2, KindOfRequest DEF CountAdmins, ReadsStand
      <4>2. c.pc = "write" /\ c.op = r.op /\ c.target = r.target /\ r.op \in {"status", "suspend"}
        BY <2>1, <4>1 DEF StatusRequest
      <4>3. QED
        BY <4>1, <4>2 DEF Standing
    <3>3. QED
      BY <3>1, <3>2
  <2>4. QED
    BY <2>2, <2>3, ReadingStands
<1>3. QED
  BY <1>1, <1>2

LEMMA StepKeepsReads ==
    ASSUME OneAtATime, AccountsInv, ReadsStand, [Next]_vars
    PROVE  ReadsStand'
<1>1. CASE UNCHANGED <<req, role, user>>
  <2>1. Managers' = Managers /\ \A r : Holders(r)' = Holders(r)
    BY <1>1 DEF Managers, PermsOf, Holders, Exists
  <2>2. QED
    BY <1>1, <2>1 DEF ReadsStand, Standing, Kept, Exists
<1>2. ASSUME NEW q \in Req, NEW a \in User, BeginRequest(q, a)
      PROVE  ReadsStand'
  BY <1>2, BeginningStands
<1>3. ASSUME NEW q \in Req, CountManagers(q) \/ CountAdmins(q)
      PROVE  ReadsStand'
  BY <1>3, CountStands
<1>4. ASSUME NEW q \in Req,
             \/ WriteAssign(q) \/ WriteCreateUser(q) \/ WriteUpdateRole(q) \/ WriteDeleteRole(q)
             \/ WriteStatus(q) \/ WriteErase(q) \/ RecordAudit(q) \/ Crash(q)
      PROVE  ReadsStand'
  <2>1. Finish(q) \/ ThenAudit(q)
    BY <1>4 DEF WriteAssign, WriteCreateUser, WriteUpdateRole, WriteDeleteRole, WriteStatus, WriteErase,
                RecordAudit, Crash, Refuse
  <2>2. QED
    BY <2>1, EndingStands
<1>5. QED
  BY <1>1, <1>2, <1>3, <1>4 DEF Next, RequestStep, SignIn, vars

---------------------------------------------------------------------------
(* ... keeps everybody in a role and somebody managing people              *)

\* Every account the seed creates holds a role of the seed, and its tier.
SeedIsInOrder ==
    \A u \in User : FirstUsers[u].status # "NONE" =>
        /\ FirstUsers[u].roleId \in Role /\ FirstRoles[FirstUsers[u].roleId].row = "kept"
        /\ ~FirstUsers[u].erased => FirstUsers[u].tier = FirstRoles[FirstUsers[u].roleId].tier

\* An account holds a role that is kept, and its tier unless it was erased.
InRole(u) ==
    /\ user[u].roleId # NoRole /\ Kept(user[u].roleId)
    /\ ~user[u].erased => user[u].tier = role[user[u].roleId].tier

LEMMA HoldersAreInRoles == EveryoneHoldsTheirRole <=> \A u \in User : Exists(u) => InRole(u)
BY DEF EveryoneHoldsTheirRole, EveryoneHasARole, TierAgrees, InRole

LEMMA HoldersStayInRoles ==
    ASSUME \A u \in User : Exists(u)' => InRole(u)'
    PROVE  EveryoneHoldsTheirRole'
BY DEF EveryoneHoldsTheirRole, EveryoneHasARole, TierAgrees, InRole

\* Who keeps role and tier, in a role that is kept and keeps its tier, holds it still.
LEMMA StaysInRole ==
    ASSUME NEW u \in User, InRole(u), user'[u].roleId = user[u].roleId,
           role'[user[u].roleId].row = "kept",
           \/ user'[u].erased
           \/ /\ user'[u].erased = user[u].erased /\ user'[u].tier = user[u].tier
              /\ role'[user[u].roleId].tier = role[user[u].roleId].tier
    PROVE  InRole(u)'
BY DEF InRole, Kept

LEMMA WriteAssignKeepsHolders ==
    ASSUME AccountsInv, ReadsStand, EveryoneHoldsTheirRole, ConstantsAssumption, NEW q \in Req, WriteAssign(q), ~Refuse(q)
    PROVE  EveryoneHoldsTheirRole'
<1> DEFINE r == req[q]
<1>1. r \in AssignRequest /\ user \in [User -> UserRow]
  BY KindOfRequest, TypesOfRequests DEF WriteAssign, AccountsInv, TypeOK
<1>2. /\ r.target \in User /\ r.role \in Role /\ r.role # NoRole /\ r.pc = "write" /\ r.op = "assign"
      /\ user' = [user EXCEPT ![r.target].roleId = r.role, ![r.target].tier = r.tier] /\ UNCHANGED role
  BY <1>1 DEF WriteAssign, AssignRequest, ConstantsAssumption
<1>3. Kept(r.role) /\ r.tier = role[r.role].tier /\ Exists(r.target)
  BY <1>2 DEF ReadsStand, Standing
<1>4. /\ user'[r.target].roleId = r.role /\ user'[r.target].tier = r.tier
      /\ \A u \in User \ {r.target} : user'[u] = user[u]
  BY <1>1, <1>2 DEF UserRow
<1>5. ASSUME NEW u \in User, Exists(u)'
      PROVE  InRole(u)'
  <2>1. CASE u = r.target
    BY <1>2, <1>3, <1>4, <2>1 DEF InRole, Kept
  <2>2. CASE u # r.target
    <3>1. user'[u] = user[u] /\ Exists(u) /\ InRole(u)
      BY <1>4, <1>5, <2>2, HoldersAreInRoles DEF Exists
    <3>2. QED
      BY <1>2, <3>1 DEF InRole, Kept
  <2>3. QED
    BY <2>1, <2>2
<1>6. QED
  BY <1>5, HoldersStayInRoles

LEMMA WriteCreateUserKeepsHolders ==
    ASSUME AccountsInv, ReadsStand, EveryoneHoldsTheirRole, ConstantsAssumption, NEW q \in Req, WriteCreateUser(q), ~Refuse(q)
    PROVE  EveryoneHoldsTheirRole'
<1> DEFINE r == req[q]
           row == [status |-> "ACTIVE", tier |-> r.tier, roleId |-> r.role, erased |-> FALSE]
<1>1. r \in AssignRequest /\ user \in [User -> UserRow]
  BY KindOfRequest, TypesOfRequests DEF WriteCreateUser, AccountsInv, TypeOK
<1>2. /\ r.target \in User /\ r.role \in Role /\ r.role # NoRole /\ r.pc = "write" /\ r.op = "create user"
      /\ user' = [user EXCEPT ![r.target] = row] /\ UNCHANGED role
  BY <1>1 DEF WriteCreateUser, AssignRequest, ConstantsAssumption
<1>3. Kept(r.role) /\ r.tier = role[r.role].tier
  BY <1>2 DEF ReadsStand, Standing
<1>4. /\ user'[r.target].roleId = r.role /\ user'[r.target].tier = r.tier
      /\ \A u \in User \ {r.target} : user'[u] = user[u]
  BY <1>1, <1>2
<1>5. ASSUME NEW u \in User, Exists(u)'
      PROVE  InRole(u)'
  <2>1. CASE u = r.target
    BY <1>2, <1>3, <1>4, <2>1 DEF InRole, Kept
  <2>2. CASE u # r.target
    <3>1. user'[u] = user[u] /\ Exists(u) /\ InRole(u)
      BY <1>4, <1>5, <2>2, HoldersAreInRoles DEF Exists
    <3>2. QED
      BY <1>2, <3>1 DEF InRole, Kept
  <2>3. QED
    BY <2>1, <2>2
<1>6. QED
  BY <1>5, HoldersStayInRoles

\* The tier that was read is the one the holders have, so those that do not
\* follow need not.
LEMMA WriteUpdateRoleKeepsHolders ==
    ASSUME AccountsInv, ReadsStand, EveryoneHoldsTheirRole, NEW q \in Req, WriteUpdateRole(q), ~Refuse(q)
    PROVE  EveryoneHoldsTheirRole'
<1> DEFINE r == req[q]
           followers == IF r.tier # r.wasTier THEN Holders(r.target) ELSE {}
<1>1. r \in UpdateRoleRequest /\ user \in [User -> UserRow] /\ role \in [Role -> RoleRow]
  BY KindOfRequest, TypesOfRequests DEF WriteUpdateRole, AccountsInv, TypeOK
<1>2. /\ r.target \in Role /\ r.pc = "write" /\ r.op = "update role"
      /\ role' = [role EXCEPT ![r.target].tier = r.tier, ![r.target].perms = r.perms]
      /\ user' = [u \in User |-> IF u \in followers THEN [user[u] EXCEPT !.tier = r.tier] ELSE user[u]]
  BY <1>1 DEF WriteUpdateRole, UpdateRoleRequest
<1>3. r.wasTier = role[r.target].tier
  BY <1>2 DEF ReadsStand, Standing
<1> HIDE DEF followers
<1>4. \A s \in Role : /\ role'[s].row = role[s].row
                       /\ role'[s].tier = IF s = r.target THEN r.tier ELSE role[s].tier
  BY <1>1, <1>2 DEF RoleRow
<1>5. \A u \in User : /\ user'[u].roleId = user[u].roleId /\ user'[u].status = user[u].status
                       /\ user'[u].erased = user[u].erased
                       /\ user'[u].tier = IF u \in followers THEN r.tier ELSE user[u].tier
  BY <1>1, <1>2 DEF UserRow
<1>6. ASSUME NEW u \in User, Exists(u)'
      PROVE  InRole(u)'
  <2>1. InRole(u) /\ Exists(u)
    BY <1>5, <1>6, HoldersAreInRoles DEF Exists
  <2>2. user[u].roleId \in Role /\ role[user[u].roleId].row = "kept"
    BY <1>1, <2>1 DEF InRole, Kept, UserRow
  <2>3. user'[u].roleId = user[u].roleId /\ role'[user[u].roleId].row = "kept"
    BY <1>4, <1>5, <2>2
  <2>4. CASE user[u].erased
    BY <1>5, <2>1, <2>3, <2>4, StaysInRole
  <2>5. CASE ~user[u].erased /\ user[u].roleId = r.target
    <3>1. user[u].tier = r.wasTier
      BY <1>3, <2>1, <2>5 DEF InRole
    <3>2. user'[u].tier = r.tier
      BY <1>5, <2>1, <2>5, <3>1 DEF followers, Holders
    <3>3. QED
      BY <1>4, <1>5, <2>1, <2>2, <2>3, <2>5, <3>2 DEF InRole, Kept
  <2>6. CASE ~user[u].erased /\ user[u].roleId # r.target
    <3>1. u \notin followers
      BY <2>6 DEF followers, Holders
    <3>2. QED
      BY <1>4, <1>5, <2>1, <2>2, <2>3, <2>6, <3>1, StaysInRole
  <2>7. QED
    BY <2>4, <2>5, <2>6
<1>7. QED
  BY <1>6, HoldersStayInRoles

\* Nobody holds the role that goes, so the foreign key clears nobody's.
LEMMA WriteDeleteRoleLeavesHolders ==
    ASSUME AccountsInv, ReadsStand, NEW q \in Req, WriteDeleteRole(q), ~Refuse(q)
    PROVE  UNCHANGED user
<1> DEFINE r == req[q].target
<1>1. req[q] \in DeleteRoleRequest /\ user \in [User -> UserRow]
  BY KindOfRequest, TypesOfRequests DEF WriteDeleteRole, AccountsInv, TypeOK
<1>2. /\ r \in Role /\ req[q].pc = "write" /\ req[q].op = "delete role"
      /\ user' = [u \in User |-> IF u \in Holders(r) THEN [user[u] EXCEPT !.roleId = NoRole] ELSE user[u]]
  BY <1>1 DEF WriteDeleteRole, DeleteRoleRequest
<1>3. Holders(r) = {}
  BY <1>2 DEF ReadsStand, Standing
<1>4. QED
  BY <1>1, <1>2, <1>3

LEMMA WriteDeleteRoleKeepsHolders ==
    ASSUME AccountsInv, ReadsStand, EveryoneHoldsTheirRole, NEW q \in Req, WriteDeleteRole(q), ~Refuse(q)
    PROVE  EveryoneHoldsTheirRole'
<1> DEFINE r == req[q].target
<1>1. req[q] \in DeleteRoleRequest /\ user \in [User -> UserRow] /\ role \in [Role -> RoleRow]
  BY KindOfRequest, TypesOfRequests DEF WriteDeleteRole, AccountsInv, TypeOK
<1>2. /\ r \in Role /\ req[q].pc = "write" /\ req[q].op = "delete role"
      /\ role' = [role EXCEPT ![r].row = "deleted"]
  BY <1>1 DEF WriteDeleteRole, DeleteRoleRequest
<1>3. Holders(r) = {}
  BY <1>2 DEF ReadsStand, Standing
<1>4. UNCHANGED user
  BY WriteDeleteRoleLeavesHolders
<1> HIDE DEF r
<1>5. \A s \in Role : role'[s].tier = role[s].tier
  BY <1>1, <1>2 DEF RoleRow
<1>6. \A s \in Role \ {r} : role'[s].row = role[s].row
  BY <1>1, <1>2 DEF RoleRow
<1>7. ASSUME NEW u \in User, Exists(u)
      PROVE  InRole(u)'
  <2>1. InRole(u)
    BY <1>7, HoldersAreInRoles
  <2>2. user[u].roleId \in Role /\ user[u].roleId # r /\ role[user[u].roleId].row = "kept"
    BY <1>1, <1>3, <1>7, <2>1 DEF UserRow, Holders, InRole, Kept
  <2>3. role'[user[u].roleId].row = "kept" /\ role'[user[u].roleId].tier = role[user[u].roleId].tier
    BY <1>5, <1>6, <2>2
  <2>4. user'[u] = user[u]
    BY <1>4
  <2>5. QED
    BY <2>1, <2>3, <2>4, StaysInRole
<1>8. \A u \in User : Exists(u)' => Exists(u)
  BY <1>4 DEF Exists
<1>9. QED
  BY <1>7, <1>8, HoldersStayInRoles

LEMMA WriteStatusKeepsHolders ==
    ASSUME AccountsInv, ReadsStand, EveryoneHoldsTheirRole, NEW q \in Req, WriteStatus(q) \/ WriteErase(q)
    PROVE  EveryoneHoldsTheirRole'
<1> DEFINE v == req[q].target
<1>1. req[q].pc = "write" /\ req[q].op \in {"status", "suspend", "erase"} /\ UNCHANGED role
  BY DEF WriteStatus, WriteErase
<1>2. Exists(v)
  BY <1>1 DEF ReadsStand, Standing
<1>3. user \in [User -> UserRow]
  BY DEF AccountsInv, TypeOK
<1>4. \A u \in User \ {v} : user'[u] = user[u]
  BY <1>3 DEF WriteStatus, WriteErase
<1>5. ASSUME v \in User
      PROVE  /\ user'[v].roleId = user[v].roleId
             /\ user'[v].erased \/ (user'[v].tier = user[v].tier /\ user'[v].erased = user[v].erased)
  <2>1. user[v] \in UserRow
    BY <1>3, <1>5
  <2>2. CASE WriteStatus(q)
    <3>1. user'[v] = [user[v] EXCEPT !.status = req[q].to]
      BY <1>3, <1>5, <2>2 DEF WriteStatus
    <3>2. QED
      BY <2>1, <3>1 DEF UserRow
  <2>3. CASE WriteErase(q)
    <3>1. user'[v] = [user[v] EXCEPT !.tier = "READER", !.status = "BANNED", !.erased = TRUE]
      BY <1>3, <1>5, <2>3 DEF WriteErase
    <3>2. QED
      BY <2>1, <3>1 DEF UserRow
  <2>4. QED
    BY <2>2, <2>3
<1>6. ASSUME NEW u \in User, Exists(u)'
      PROVE  InRole(u)'
  <2>1. Exists(u)
    BY <1>2, <1>4, <1>6 DEF Exists
  <2>2. InRole(u)
    BY <2>1, HoldersAreInRoles
  <2>3. user'[u].roleId = user[u].roleId /\ role'[user[u].roleId].row = "kept"
    BY <1>1, <1>4, <1>5, <2>2 DEF InRole, Kept
  <2>4. QED
    BY <1>1, <1>4, <1>5, <2>2, <2>3, StaysInRole
<1>7. QED
  BY <1>6, HoldersStayInRoles

LEMMA StepKeepsHolders ==
    ASSUME ConstantsAssumption, AccountsInv, ReadsStand, EveryoneHoldsTheirRole, [Next]_vars
    PROVE  EveryoneHoldsTheirRole'
<1>1. CASE UNCHANGED <<role, user>>
  BY <1>1 DEF EveryoneHoldsTheirRole, EveryoneHasARole, TierAgrees, Exists, Kept
<1>2. ASSUME NEW q \in Req, NEW a \in User, BeginRequest(q, a)
      PROVE  EveryoneHoldsTheirRole'
  <2>1. UNCHANGED user
    BY <1>2, BeginningsLeaveAccounts
  <2>2. \A s \in Role : Kept(s) => role'[s] = role[s]
    <3>1. \A op, c : Begin(q, op, c) => UNCHANGED role
      BY DEF Begin
    <3>2. CASE UNCHANGED role
      BY <3>2
    <3>3. ASSUME NEW r \in Role, NEW tier \in Tiers, NEW perms \in SUBSET Permission,
                 CreateRole(q, a, r, tier, perms)
          PROVE  \A s \in Role : Kept(s) => role'[s] = role[s]
      BY <3>3 DEF CreateRole, Kept, AccountsInv, TypeOK
    <3>4. \/ UNCHANGED role
          \/ \E r \in Role, tier \in Tiers, perms \in SUBSET Permission : CreateRole(q, a, r, tier, perms)
      BY <1>2, <3>1 DEF BeginRequest, BeginAssign, BeginCreateUser, BeginUpdateRole, BeginDeleteRole,
                        BeginStatus, BeginSuspend, BeginErase
    <3>5. QED
      BY <3>2, <3>3, <3>4
  <2>3. ASSUME NEW u \in User, Exists(u)
        PROVE  InRole(u)'
    <3>1. InRole(u) /\ user[u].roleId \in Role /\ Kept(user[u].roleId)
      BY <2>3, HoldersAreInRoles DEF AccountsInv, TypeOK, UserRow, InRole
    <3>2. role'[user[u].roleId] = role[user[u].roleId]
      BY <2>2, <3>1
    <3>3. QED
      BY <2>1, <3>1, <3>2, StaysInRole DEF Kept
  <2>4. \A u \in User : Exists(u)' => Exists(u)
    BY <2>1 DEF Exists
  <2>5. QED
    BY <2>3, <2>4, HoldersStayInRoles
<1>3. ASSUME NEW q \in Req,
             \/ WriteAssign(q) \/ WriteCreateUser(q) \/ WriteUpdateRole(q) \/ WriteDeleteRole(q)
             \/ WriteStatus(q) \/ WriteErase(q)
      PROVE  EveryoneHoldsTheirRole'
  <2>1. CASE Refuse(q)
    BY <1>1, <2>1 DEF Refuse
  <2>2. CASE ~Refuse(q)
    BY <1>3, <2>2, WriteAssignKeepsHolders, WriteCreateUserKeepsHolders, WriteUpdateRoleKeepsHolders,
       WriteDeleteRoleKeepsHolders, WriteStatusKeepsHolders
  <2>3. QED
    BY <2>1, <2>2
<1>4. QED
  BY <1>1, <1>2, <1>3 DEF Next, RequestStep, SignIn, CountManagers, CountAdmins, RecordAudit, Crash, Refuse, vars

\* "Deleting a role somebody still holds" is refused, and User.role "cannot
\* drift" from its role's tier (docs/roles-and-permissions.md, the comment in
\* prisma/schema.prisma): both hold from any seed in which they do, as long as
\* no two server actions overlap, whatever sessions begin and processes die.
THEOREM EveryoneHoldsOneAtATime == OneAtATime /\ SeedIsInOrder => (Spec => []EveryoneHoldsTheirRole)
<1>1. ASSUME OneAtATime, SeedIsInOrder PROVE Spec => []EveryoneHoldsTheirRole
  <2>1. Init => EveryoneHoldsTheirRole /\ ReadsStand
    <3>1. Init => EveryoneHoldsTheirRole
      BY <1>1, ConstantsAssumption
         DEF Init, SeedIsInOrder, EveryoneHoldsTheirRole, EveryoneHasARole, TierAgrees, Exists, Kept
    <3>2. ASSUME Init PROVE ReadsStand
      <4>1. \A q \in Req : req[q].pc = "idle"
        BY <3>2 DEF Init, Idle
      <4>2. QED
        BY <4>1 DEF ReadsStand, Standing
    <3>3. QED
      BY <3>1, <3>2
  <2>2. AccountsInv /\ ReadsStand /\ [Next]_vars => ReadsStand'
    BY <1>1, StepKeepsReads
  <2>3. AccountsInv /\ ReadsStand /\ EveryoneHoldsTheirRole /\ [Next]_vars => EveryoneHoldsTheirRole'
    BY StepKeepsHolders, ConstantsAssumption
  <2>4. QED
    BY <2>1, <2>2, <2>3, AccountsInvariance, ConstantsAssumption, PTL DEF Spec
<1>2. QED
  BY <1>1

---------------------------------------------------------------------------
(* Moving people about, one request at a time                              *)

\* What a step must not do, with neither an edit of permissions nor a change of
\* status to answer for it.
StaysManaged ==
    Managers # {} /\ Managers' = {} =>
        \/ \E r \in Role : role'[r].perms # role[r].perms
        \/ \E u \in User : user'[u].status # user[u].status

\* A manager a step does not touch still manages.
LEMMA UntouchedManages ==
    ASSUME TypeOK, NEW m \in Managers, user'[m] = user[m],
           \A s \in Role : role'[s].perms = role[s].perms
    PROVE  m \in Managers'
<1>1. m \in User /\ user[m].status = "ACTIVE" /\ ~user[m].erased /\ "user.manage" \in PermsOf(m)
  BY DEF Managers
<1>2. user[m].roleId # NoRole /\ user[m].roleId \in Role
  BY <1>1 DEF PermsOf, TypeOK, UserRow
<1>3. "user.manage" \in role[user[m].roleId].perms
  BY <1>1, <1>2 DEF PermsOf
<1>4. user'[m].roleId = user[m].roleId /\ role'[user[m].roleId].perms = role[user[m].roleId].perms
  BY <1>2
<1>5. "user.manage" \in PermsOf(m)'
  BY <1>2, <1>3, <1>4 DEF PermsOf
<1>6. QED
  BY <1>1, <1>5 DEF Managers

\* Either the role given can manage people, or somebody else was counted.
LEMMA WriteAssignKeepsManaged ==
    ASSUME ConstantsAssumption, AccountsInv, ReadsStand, NEW q \in Req, WriteAssign(q), ~Refuse(q)
    PROVE  StaysManaged
<1> DEFINE r == req[q]
<1>1. r \in AssignRequest /\ user \in [User -> UserRow] /\ TypeOK
  BY KindOfRequest, TypesOfRequests DEF WriteAssign, AccountsInv, TypeOK
<1>2. /\ r.target \in User /\ r.role \in Role /\ r.pc = "write" /\ r.op = "assign"
      /\ user' = [user EXCEPT ![r.target].roleId = r.role, ![r.target].tier = r.tier]
      /\ UNCHANGED role
  BY <1>1 DEF WriteAssign, AssignRequest
<1>3. "user.manage" \in role[r.role].perms \/ Managers \ {r.target} # {}
  BY <1>2 DEF ReadsStand, Standing
<1> HIDE DEF r
<1>4. ASSUME NEW m \in Managers, m # r.target
      PROVE  Managers' # {}
  <2>1. m \in User
    BY DEF Managers
  <2>2. user'[m] = user[m]
    BY <1>1, <1>2, <1>4, <2>1
  <2>3. QED
    BY <1>1, <1>2, <2>2, UntouchedManages
<1>5. ASSUME NEW v \in Managers, v = r.target, "user.manage" \in role[r.role].perms
      PROVE  Managers' # {}
  <2>1. v \in User /\ user[v] \in UserRow
    BY <1>1, <1>2, <1>5
  <2>2. user'[v] = [user[v] EXCEPT !.roleId = r.role, !.tier = r.tier]
    BY <1>1, <1>2, <1>5
  <2>3. user'[v].status = user[v].status /\ user'[v].erased = user[v].erased /\ user'[v].roleId = r.role
    BY <2>1, <2>2 DEF UserRow
  <2>4. "user.manage" \in PermsOf(v)'
    BY <1>2, <1>5, <2>3 DEF PermsOf, ConstantsAssumption
  <2>5. QED
    BY <1>5, <2>1, <2>3, <2>4 DEF Managers
<1>6. QED
  BY <1>3, <1>4, <1>5 DEF StaysManaged

LEMMA StepKeepsManaged ==
    ASSUME ConstantsAssumption, AccountsInv, ReadsStand, [Next]_vars
    PROVE  StaysManaged
<1>0. TypeOK
  BY DEF AccountsInv
<1>1. ASSUME UNCHANGED user
      PROVE  StaysManaged
  BY <1>0, <1>1, UntouchedManages DEF StaysManaged
<1>2. ASSUME NEW q \in Req, WriteCreateUser(q) \/ WriteStatus(q) \/ WriteErase(q), ~Refuse(q)
      PROVE  StaysManaged
  <2> DEFINE v == req[q].target
  <2>1. /\ \A u \in User \ {v} : user'[u] = user[u]
        /\ UNCHANGED role
    BY <1>0, <1>2 DEF WriteCreateUser, WriteStatus, WriteErase, TypeOK
  <2>2. ASSUME v \in Managers
        PROVE  user'[v].status # user[v].status \/ v \in Managers'
    <3>1. v \in User /\ user[v] \in UserRow /\ user[v].status = "ACTIVE"
      BY <1>0, <2>2 DEF Managers, TypeOK
    <3>2. ~WriteCreateUser(q)
      BY <1>2, <3>1 DEF WriteCreateUser, Exists
    <3>3. CASE WriteStatus(q)
      <4>1. user'[v] = [user[v] EXCEPT !.status = req[q].to]
        BY <1>0, <3>1, <3>3 DEF WriteStatus, TypeOK
      <4>2. CASE req[q].to = "ACTIVE"
        <5>1. user'[v] = user[v]
          BY <3>1, <4>1, <4>2 DEF UserRow
        <5>2. QED
          BY <1>0, <2>1, <2>2, <5>1, UntouchedManages
      <4>3. CASE req[q].to # "ACTIVE"
        BY <3>1, <4>1, <4>3 DEF UserRow
      <4>4. QED
        BY <4>2, <4>3
    <3>4. CASE WriteErase(q)
      <4>1. user'[v] = [user[v] EXCEPT !.tier = "READER", !.status = "BANNED", !.erased = TRUE]
        BY <1>0, <3>1, <3>4 DEF WriteErase, TypeOK
      <4>2. user'[v].status = "BANNED"
        BY <3>1, <4>1 DEF UserRow
      <4>3. QED
        BY <3>1, <4>2
    <3>5. QED
      BY <1>2, <3>2, <3>3, <3>4
  <2> HIDE DEF v
  <2>3. ASSUME NEW m \in Managers, m # v
        PROVE  Managers' # {}
    <3>1. user'[m] = user[m]
      BY <2>1, <2>3 DEF Managers
    <3>2. QED
      BY <1>0, <2>1, <3>1, UntouchedManages
  <2>4. \A m \in Managers : m \in User
    BY DEF Managers
  <2>5. QED
    BY <2>2, <2>3, <2>4 DEF StaysManaged
<1>3. ASSUME NEW q \in Req, WriteUpdateRole(q), ~Refuse(q)
      PROVE  StaysManaged
  <2> DEFINE r == req[q]
             followers == IF r.tier # r.wasTier THEN Holders(r.target) ELSE {}
  <2>1. user \in [User -> UserRow] /\ role \in [Role -> RoleRow]
    BY <1>0 DEF TypeOK
  <2>2. /\ user' = [u \in User |-> IF u \in followers THEN [user[u] EXCEPT !.tier = r.tier] ELSE user[u]]
    BY <1>3 DEF WriteUpdateRole
  <2> HIDE DEF r, followers
  <2>3. \A u \in User : /\ user'[u].roleId = user[u].roleId /\ user'[u].status = user[u].status
                         /\ user'[u].erased = user[u].erased
    BY <2>1, <2>2 DEF UserRow
  <2>4. ASSUME NEW m \in Managers, \A s \in Role : role'[s].perms = role[s].perms
        PROVE  m \in Managers'
    <3>1. m \in User /\ user[m].roleId # NoRole /\ user[m].roleId \in Role
      BY <1>0 DEF Managers, PermsOf, TypeOK, UserRow
    <3>2. PermsOf(m)' = PermsOf(m)
      BY <2>3, <2>4, <3>1 DEF PermsOf
    <3>3. QED
      BY <2>3, <3>1, <3>2 DEF Managers
  <2>5. QED
    BY <2>4 DEF StaysManaged
<1>4. ASSUME NEW q \in Req,
             \/ WriteAssign(q) \/ WriteCreateUser(q) \/ WriteUpdateRole(q) \/ WriteDeleteRole(q)
             \/ WriteStatus(q) \/ WriteErase(q)
      PROVE  StaysManaged
  <2>1. CASE Refuse(q)
    BY <1>1, <2>1 DEF Refuse
  <2>2. CASE ~Refuse(q) /\ WriteDeleteRole(q)
    BY <1>1, <2>2, WriteDeleteRoleLeavesHolders
  <2>3. CASE ~Refuse(q) /\ ~WriteDeleteRole(q)
    BY <1>2, <1>3, <1>4, <2>3, WriteAssignKeepsManaged
  <2>4. QED
    BY <2>1, <2>2, <2>3
<1>5. ASSUME NEW q \in Req, NEW a \in User, BeginRequest(q, a)
      PROVE  UNCHANGED user
  BY <1>5, BeginningsLeaveAccounts
<1>6. QED
  BY <1>1, <1>4, <1>5 DEF Next, RequestStep, SignIn, CountManagers, CountAdmins, RecordAudit, Crash, Refuse, vars

\* "The last account that can manage people cannot be moved off it"
\* (lib/auth/roleService.ts): from any seed, as long as no two server actions
\* overlap, only an edit of permissions or a change of status can end it.
THEOREM MovingKeepsAManagerOneAtATime == OneAtATime => (Spec => MovingKeepsAManager)
<1>1. ASSUME OneAtATime PROVE Spec => MovingKeepsAManager
  <2>1. Init => ReadsStand
    <3>1. ASSUME Init PROVE \A q \in Req : req[q].pc = "idle"
      BY <3>1 DEF Init, Idle
    <3>2. QED
      BY <3>1 DEF ReadsStand, Standing
  <2>2. AccountsInv /\ ReadsStand /\ [Next]_vars => ReadsStand'
    BY <1>1, StepKeepsReads
  <2>3. AccountsInv /\ ReadsStand /\ [Next]_vars => [StaysManaged]_vars
    BY StepKeepsManaged, ConstantsAssumption
  <2>4. QED
    BY <2>1, <2>2, <2>3, AccountsInvariance, ConstantsAssumption, PTL DEF Spec, MovingKeepsAManager, StaysManaged
<1>2. QED
  BY <1>1
=============================================================================
