------------------------------ MODULE Accounts ------------------------------
(***************************************************************************)
(* The accounts of one company: UsersService, RolesService, what           *)
(* JwtStrategy and PermissionsGuard ask of a token, and the tokens that    *)
(* AuthService issues meanwhile.                                           *)
(*                                                                         *)
(* updateStatus, replaceRoles and replacePermissions read the row they     *)
(* change before their SERIALIZABLE transaction and go on with what they   *)
(* read; remove counts the users of a role before its transaction.  Each   *)
(* is two steps: Begin is the read behind the guards, and the commit is    *)
(* where the transaction takes effect.                                     *)
(***************************************************************************)
EXTENDS Integers, FiniteSets

CONSTANTS
    Users,
    Roles,
    SystemRole,        \* the role with isSystem
    Founder,           \* the administrator the seed creates
    Permissions,       \* PERMISSIONS, reduced to those the model asks for
    RoleChoices,       \* sets of roles a request may ask for (bound)
    PermissionChoices, \* sets of permissions a request may ask for (bound)
    Clients,           \* administrative requests that may overlap
    NoRequest,         \* a client with no request open
    MaxVersion         \* bound of authVersion

Administrative == {"users.create", "users.manage_status", "users.manage_roles",
                   "roles.create", "roles.manage_permissions", "roles.delete"}

ASSUME RolesAssumption == SystemRole \in Roles /\ RoleChoices \subseteq SUBSET Roles
ASSUME PermissionsAssumption ==
    /\ Administrative \subseteq Permissions
    /\ PermissionChoices \subseteq SUBSET Permissions
ASSUME FounderAssumption == Founder \in Users
ASSUME MaxVersionAssumption == MaxVersion \in Nat
ASSUME FiniteAssumption == IsFiniteSet(Users) /\ IsFiniteSet(Clients)

VARIABLES
    account,      \* User.isActive; NONE before the row exists
    authVersion,  \* User.authVersion
    rolesOf,      \* UserRole rows
    roleRows,     \* Role rows that exist
    permissionsOf, \* RolePermission rows
    tokens,       \* issued access tokens and unrevoked refresh tokens
    signing,      \* logins and refreshes that have read the user
    request       \* what each client's request has read and asks for

vars == <<account, authVersion, rolesOf, roleRows, permissionsOf, tokens, signing, request>>

Token == [user : Users, version : 0..MaxVersion]
Requests ==
    [op : {"updateStatus", "replaceRoles", "replacePermissions", "remove"},
     user : Users, role : Roles, on : BOOLEAN, roles : SUBSET Roles,
     permissions : SUBSET Permissions, wasActive : BOOLEAN, had : SUBSET Permissions]

(* Types; roles are assigned, and have permissions, only while they exist. *)
TypeOK ==
    /\ account \in [Users -> {"NONE", "ACTIVE", "INACTIVE"}]
    /\ authVersion \in [Users -> 0..MaxVersion]
    /\ rolesOf \in [Users -> SUBSET roleRows]
    /\ roleRows \in SUBSET Roles
    /\ permissionsOf \in [Roles -> SUBSET Permissions]
    /\ \A r \in Roles \ roleRows : permissionsOf[r] = {}
    /\ tokens \subseteq Token
    /\ signing \subseteq Token
    /\ request \in [Clients -> Requests \cup {NoRequest}]

(* The seed: an administrator with the system role.                        *)
Init ==
    /\ account = [u \in Users |-> IF u = Founder THEN "ACTIVE" ELSE "NONE"]
    /\ authVersion = [u \in Users |-> 0]
    /\ rolesOf = [u \in Users |-> IF u = Founder THEN {SystemRole} ELSE {}]
    /\ roleRows = {SystemRole}
    /\ permissionsOf = [r \in Roles |-> IF r = SystemRole THEN Administrative ELSE {}]
    /\ tokens = {}
    /\ signing = {}
    /\ request = [t \in Clients |-> NoRequest]

Effective(u) == UNION {permissionsOf[r] : r \in rolesOf[u]}
Administers(u) == account[u] = "ACTIVE" /\ "users.manage_roles" \in Effective(u)
Administrators == {u \in Users : Administers(u)}

-----------------------------------------------------------------------------
(* Tokens.                                                                 *)

(* JwtStrategy.validate; refresh asks the same of the user.                *)
Valid(k) == account[k.user] = "ACTIVE" /\ authVersion[k.user] = k.version

(* PermissionsGuard.canActivate, which reads the roles again.              *)
Permitted(u, permission) ==
    /\ \E k \in tokens : k.user = u /\ Valid(k)
    /\ permission \in Effective(u)

accounts == <<account, authVersion, rolesOf, roleRows, permissionsOf>>

(* login or refresh reads the user ...                                     *)
BeginSigning(u) ==
    /\ account[u] = "ACTIVE"
    /\ signing' = signing \cup {[user |-> u, version |-> authVersion[u]]}
    /\ UNCHANGED <<accounts, tokens, request>>

(* ... and issues tokens of the version it read.                           *)
IssueTokens(k) ==
    /\ k \in signing
    /\ signing' = signing \ {k}
    /\ tokens' = tokens \cup {k}
    /\ UNCHANGED <<accounts, request>>

(* The tokens expire, or the user signs out.                               *)
DropToken(k) ==
    /\ k \in tokens
    /\ tokens' = tokens \ {k}
    /\ UNCHANGED <<accounts, signing, request>>

-----------------------------------------------------------------------------
(* Requests of administrators.                                             *)

Done(t) == request' = [request EXCEPT ![t] = NoRequest]

createUser(actor, u, roles) ==
    /\ account[u] = "NONE"
    /\ Permitted(actor, "users.create")
    /\ roles # {} => "users.manage_roles" \in Effective(actor)
    /\ roles \subseteq roleRows
    /\ account' = [account EXCEPT ![u] = "ACTIVE"]
    /\ rolesOf' = [rolesOf EXCEPT ![u] = roles]
    /\ UNCHANGED <<authVersion, roleRows, permissionsOf, tokens, signing, request>>

createRole(actor, r, permissions) ==
    /\ r \notin roleRows
    /\ Permitted(actor, "roles.create")
    /\ permissions # {} => "roles.manage_permissions" \in Effective(actor)
    /\ roleRows' = roleRows \cup {r}
    /\ permissionsOf' = [permissionsOf EXCEPT ![r] = permissions]
    /\ UNCHANGED <<account, authVersion, rolesOf, tokens, signing, request>>

Open(t, q) ==
    /\ request[t] = NoRequest
    /\ request' = [request EXCEPT ![t] = q]
    /\ UNCHANGED <<accounts, tokens, signing>>

Ask(op, u, r, on, roles, permissions) ==
    [op |-> op, user |-> u, role |-> r, on |-> on, roles |-> roles, permissions |-> permissions,
     wasActive |-> account[u] = "ACTIVE", had |-> permissionsOf[r]]

BeginUpdateStatus(t, actor, u, on) ==
    /\ Permitted(actor, "users.manage_status")
    /\ u # actor \/ on
    /\ account[u] # "NONE"
    /\ Open(t, Ask("updateStatus", u, SystemRole, on, {}, {}))

BeginReplaceRoles(t, actor, u, roles) ==
    /\ Permitted(actor, "users.manage_roles")
    /\ account[u] # "NONE"
    /\ roles \subseteq roleRows
    /\ Open(t, Ask("replaceRoles", u, SystemRole, TRUE, roles, {}))

(* The system role keeps every administrative permission.                  *)
BeginReplacePermissions(t, actor, r, permissions) ==
    /\ Permitted(actor, "roles.manage_permissions")
    /\ r \in roleRows
    /\ r = SystemRole => Administrative \subseteq permissions
    /\ Open(t, Ask("replacePermissions", Founder, r, TRUE, {}, permissions))

BeginRemove(t, actor, r) ==
    /\ Permitted(actor, "roles.delete")
    /\ r \in roleRows \ {SystemRole}
    /\ \A u \in Users : r \notin rolesOf[u]
    /\ Open(t, Ask("remove", Founder, r, TRUE, {}, {}))

(* Fault: the administrator in question counts as another one.             *)
FaultAnotherAdministrator == Cardinality(Administrators) >= 1

(* ensureAnotherActiveAdministrator.                                       *)
AnotherAdministrator == Cardinality(Administrators) > 1

VersionAfterStatus(q) ==
    IF ~q.on /\ q.wasActive THEN authVersion[q.user] + 1 ELSE authVersion[q.user]

CommitUpdateStatus(t) ==
    LET q == request[t] IN
    /\ q # NoRequest /\ q.op = "updateStatus"
    /\ (~q.on /\ q.wasActive /\ Administers(q.user)) => AnotherAdministrator
    /\ VersionAfterStatus(q) <= MaxVersion
    /\ account' = [account EXCEPT ![q.user] = IF q.on THEN "ACTIVE" ELSE "INACTIVE"]
    /\ authVersion' = [authVersion EXCEPT ![q.user] = VersionAfterStatus(q)]
    /\ Done(t)
    /\ UNCHANGED <<rolesOf, roleRows, permissionsOf, tokens, signing>>

Remains(q) == \E r \in q.roles \cap roleRows : "users.manage_roles" \in permissionsOf[r]

CommitReplaceRoles(t) ==
    LET q == request[t] IN
    /\ q # NoRequest /\ q.op = "replaceRoles"
    /\ q.roles \subseteq roleRows
    /\ (q.wasActive /\ Administers(q.user) /\ ~Remains(q)) => AnotherAdministrator
    /\ authVersion[q.user] < MaxVersion
    /\ rolesOf' = [rolesOf EXCEPT ![q.user] = q.roles]
    /\ authVersion' = [authVersion EXCEPT ![q.user] = @ + 1]
    /\ Done(t)
    /\ UNCHANGED <<account, roleRows, permissionsOf, tokens, signing>>

HoldersOf(r) == {u \in Users : r \in rolesOf[u]}

Affected(q) == HoldersOf(q.role)

(* Whoever administers without the role.                                   *)
OtherAdministrators(r) ==
    {u \in Users : account[u] = "ACTIVE"
                   /\ \E s \in rolesOf[u] \ {r} : "users.manage_roles" \in permissionsOf[s]}

CommitReplacePermissions(t) ==
    LET q == request[t] IN
    /\ q # NoRequest /\ q.op = "replacePermissions"
    /\ q.role \in roleRows
    /\ ("users.manage_roles" \in q.had \ q.permissions
        /\ \E u \in HoldersOf(q.role) : account[u] = "ACTIVE") => OtherAdministrators(q.role) # {}
    /\ \A u \in Affected(q) : authVersion[u] < MaxVersion
    /\ permissionsOf' = [permissionsOf EXCEPT ![q.role] = q.permissions]
    /\ authVersion' = [u \in Users |-> authVersion[u] + (IF u \in Affected(q) THEN 1 ELSE 0)]
    /\ Done(t)
    /\ UNCHANGED <<account, rolesOf, roleRows, tokens, signing>>

(* Fault: the foreign key of UserRole cascades.                            *)
FaultCommitRemove(t) ==
    LET q == request[t] IN
    /\ q # NoRequest /\ q.op = "remove"
    /\ q.role \in roleRows
    /\ roleRows' = roleRows \ {q.role}
    /\ permissionsOf' = [permissionsOf EXCEPT ![q.role] = {}]
    /\ rolesOf' = [u \in Users |-> rolesOf[u] \ {q.role}]
    /\ Done(t)
    /\ UNCHANGED <<account, authVersion, tokens, signing>>

(* The foreign key of UserRole refuses a role assigned since the count.    *)
CommitRemove(t) ==
    LET q == request[t] IN
    /\ q # NoRequest /\ q.op = "remove"
    /\ q.role \in roleRows
    /\ HoldersOf(q.role) = {}
    /\ roleRows' = roleRows \ {q.role}
    /\ permissionsOf' = [permissionsOf EXCEPT ![q.role] = {}]
    /\ Done(t)
    /\ UNCHANGED <<account, authVersion, rolesOf, tokens, signing>>

(* A refusal, a serialization conflict (which nothing retries), a crash.   *)
Rollback(t) ==
    /\ request[t] # NoRequest
    /\ Done(t)
    /\ UNCHANGED <<accounts, tokens, signing>>

Begin(t, actor) ==
    \/ \E u \in Users, on \in BOOLEAN : BeginUpdateStatus(t, actor, u, on)
    \/ \E u \in Users, roles \in RoleChoices : BeginReplaceRoles(t, actor, u, roles)
    \/ \E r \in Roles, permissions \in PermissionChoices :
         BeginReplacePermissions(t, actor, r, permissions)
    \/ \E r \in Roles : BeginRemove(t, actor, r)

Next ==
    \/ \E u \in Users : BeginSigning(u)
    \/ \E k \in Token : IssueTokens(k) \/ DropToken(k)
    \/ \E actor, u \in Users, roles \in RoleChoices : createUser(actor, u, roles)
    \/ \E actor \in Users, r \in Roles, permissions \in PermissionChoices :
         createRole(actor, r, permissions)
    \/ \E t \in Clients, actor \in Users : Begin(t, actor)
    \/ \E t \in Clients : CommitUpdateStatus(t) \/ CommitReplaceRoles(t)
                          \/ CommitReplacePermissions(t) \/ CommitRemove(t) \/ Rollback(t)

Spec == Init /\ [][Next]_vars

-----------------------------------------------------------------------------
(* Properties.                                                             *)

(* A change of what a user may do, by whatever request, leaves no token    *)
(* that is valid after it: every holder has to sign in again.              *)
NewGrantsVoidTokens ==
    \A u \in Users : Effective(u)' # Effective(u) =>
        \A k \in tokens : k.user = u => ~Valid(k)'
GrantsNeedNewLogin == [][NewGrantsVoidTokens]_vars

(* docs/02-requisitos.md: a company keeps an active user with              *)
(* users.manage_roles.                                                     *)
AdministratorRemains == Administrators # {}

(* docs/02-requisitos.md and docs/03-arquitetura.md: a deactivation makes  *)
(* the tokens issued before it invalid, so that none comes back to life    *)
(* when the account is activated again.                                    *)
InactiveHasNoToken ==
    \A u \in Users : account[u] = "INACTIVE" =>
        \A k \in tokens \cup signing : k.user = u => k.version # authVersion[u]
=============================================================================
