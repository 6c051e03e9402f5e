------------------------------ MODULE AdminRoles ------------------------------
(***************************************************************************)
(* The roles of administrators (api/routes_admin_roles.py,                 *)
(* crud/permissions.py, models/admin_role.py, the roles' side of           *)
(* api/routes_admin_users.py and seed_rbac of seed.py): which permission   *)
(* keys a role grants, who has it, and how an administrator who is no      *)
(* Super Admin passes on permissions.                                      *)
(*                                                                         *)
(* Nothing locks a role.  A request checks what it is about to do against  *)
(* what it reads, and commits later.  The update of a role deletes the     *)
(* grants that are there when the statement runs and inserts the new ones. *)
(* Passwords, sessions and accounts that are switched off are SignIn's.    *)
(***************************************************************************)

CONSTANTS
  Keys,            \* PERMISSION_KEYS
  Manage,          \* the key that stands for those of the routes modelled here
  RoleIds,         \* the roles that have rows of grants
  Super,           \* the Super Admin role, which has none
  SystemRoles,     \* those of RoleIds with is_system
  RestrictedRoles, \* those of RoleIds in RESTRICTED_ROLE_SLUGS
  DefaultGrants,   \* DEFAULT_GRANTS, of system roles
  Officers,        \* administrators
  Clerks,          \* request threads
  NoRole,          \* no role, or no account
  RolePlans        \* the first contents, the requests of each thread and whom they move

ASSUME RolesAssumption ==
  /\ Manage \in Keys /\ Super # NoRole /\ {Super, NoRole} \cap RoleIds = {}
  /\ RestrictedRoles \subseteq RoleIds
  /\ DefaultGrants \in [SystemRoles -> SUBSET Keys] /\ SystemRoles \subseteq RoleIds
  /\ \A x \in RolePlans :
       /\ DOMAIN x.roles \subseteq RoleIds /\ x.roles \in [DOMAIN x.roles -> SUBSET Keys]
       /\ x.posts \in [Officers -> DOMAIN x.roles \cup {Super, NoRole}]
       /\ x.permissions \subseteq Keys /\ x.choices \subseteq SUBSET Keys
       /\ x.moved \subseteq Officers

VARIABLES
  adminRoles,   \* admin_roles with their admin_role_permissions
  posts,        \* posts[o]: users.admin_role_id
  permissions,  \* the rows of the catalog in this database
  saves,        \* the request each thread is running
  rolePlan      \* the plan of this behaviour

roleRows == <<adminRoles, posts, permissions>>
roleVars == <<roleRows, saves, rolePlan>>

AdminRole == [here: BOOLEAN, keys: SUBSET Keys]
(* What a request has checked.  super: it is a Super Admin's; met: history,*)
(* another request has committed since the check.                          *)
Save ==
  [pc: {"off"}]
  \cup [pc: {"create", "update", "save", "delete", "post"}, super: BOOLEAN, role: RoleIds \cup {Super},
        keys: SUBSET Keys, doomed: SUBSET Keys, who: Officers \cup {NoRole}, met: BOOLEAN]

RolesTypeOK ==
  /\ adminRoles \in [RoleIds -> AdminRole]
  /\ \A x \in RoleIds : ~adminRoles[x].here => adminRoles[x].keys = {}
  /\ posts \in [Officers -> RoleIds \cup {Super, NoRole}]
  /\ \A o \in Officers : posts[o] \in RoleIds => adminRoles[posts[o]].here
  /\ permissions \subseteq Keys
  /\ saves \in [Clerks -> Save]

Off == [pc |-> "off"]
RolesInit ==
  /\ rolePlan \in RolePlans
  /\ adminRoles = [x \in RoleIds |->
       [here |-> x \in DOMAIN rolePlan.roles,
        keys |-> IF x \in DOMAIN rolePlan.roles THEN rolePlan.roles[x] ELSE {}]]
  /\ posts = rolePlan.posts
  /\ permissions = rolePlan.permissions
  /\ saves = [p \in Clerks |-> Off]

-------------------------------------------------------------------------------
KeysOf(x) == IF x = Super THEN Keys ELSE IF x = NoRole THEN {} ELSE adminRoles[x].keys
EffectivePermissions(o) == KeysOf(posts[o])
IsSuperAdmin(o) == posts[o] = Super
HasRole(x) == {o \in Officers : posts[o] = x}
InScope(o, keys) == IsSuperAdmin(o) \/ keys \subseteq EffectivePermissions(o)

(* Mutant: only the restricted roles are kept from other administrators.   *)
Unrestricted(o, x) == IsSuperAdmin(o) \/ x \notin RestrictedRoles \cup {Super}
MayHandOut(o, x) ==
  \/ IsSuperAdmin(o)
  \/ x \notin RestrictedRoles \cup {Super} /\ KeysOf(x) \subseteq EffectivePermissions(o)

Checks(p, op, o) ==
  saves[p] = Off /\ op \in rolePlan.runs[p] /\ Manage \in EffectivePermissions(o)
Checked(p, op, o, x, keys, who) ==
  /\ saves' = [saves EXCEPT ![p] =
       [pc |-> op, super |-> IsSuperAdmin(o), role |-> x, keys |-> keys, doomed |-> {},
        who |-> who, met |-> FALSE]]
  /\ UNCHANGED <<roleRows, rolePlan>>
(* A commit, which the requests under way have met; those that deleted     *)
(* the same grants of role x find them gone.                               *)
Ends(p, x, deleted) ==
  saves' = [o \in Clerks |->
    IF o = p THEN Off ELSE IF saves[o] = Off THEN Off
    ELSE [saves[o] EXCEPT !.met = TRUE,
            !.doomed = IF saves[o].role = x THEN @ \ deleted ELSE @]]

-------------------------------------------------------------------------------
(* Roles.                                                                  *)
CreateRole(p) ==
  \E o \in Officers, x \in RoleIds, keys \in rolePlan.choices :
    /\ Checks(p, "create", o)
    /\ ~adminRoles[x].here /\ x \notin SystemRoles
    /\ InScope(o, keys)
    /\ Checked(p, "create", o, x, keys, NoRole)

(* A key the code knows may not be in this database yet.  No request under *)
(* way has the new id.                                                     *)
InsertRole(p) ==
  LET q == saves[p] IN
  /\ q.pc = "create" /\ ~adminRoles[q.role].here /\ q.keys \subseteq permissions
  /\ \A o \in Clerks : saves[o].pc \notin {"off", "create"} => saves[o].role # q.role
  /\ adminRoles' = [adminRoles EXCEPT ![q.role] = [here |-> TRUE, keys |-> q.keys]]
  /\ Ends(p, NoRole, {})
  /\ UNCHANGED <<posts, permissions, rolePlan>>

UpdateRole(p) ==
  \E o \in Officers, x \in RoleIds, keys \in rolePlan.choices :
    /\ Checks(p, "update", o)
    /\ adminRoles[x].here
    /\ InScope(o, adminRoles[x].keys) /\ InScope(o, keys)
    /\ Checked(p, "update", o, x, keys, NoRole)

DeleteGrants(p) ==
  /\ saves[p].pc = "update"
  /\ saves' = [saves EXCEPT ![p] =
       [@ EXCEPT !.pc = "save", !.doomed = adminRoles[saves[p].role].keys]]
  /\ UNCHANGED <<roleRows, rolePlan>>

(* Grants others committed since the deletion stay; one that is there      *)
(* twice is refused.                                                       *)
InsertGrants(p) ==
  LET q == saves[p]
      kept == adminRoles[q.role].keys \ q.doomed
  IN
  /\ q.pc = "save" /\ adminRoles[q.role].here
  /\ q.keys \subseteq permissions /\ kept \cap q.keys = {}
  /\ adminRoles' = [adminRoles EXCEPT ![q.role] = [@ EXCEPT !.keys = kept \cup q.keys]]
  /\ Ends(p, q.role, q.doomed)
  /\ UNCHANGED <<posts, permissions, rolePlan>>

DeleteRole(p) ==
  \E o \in Officers, x \in RoleIds \ SystemRoles :
    /\ Checks(p, "delete", o)
    /\ adminRoles[x].here /\ HasRole(x) = {}
    /\ Checked(p, "delete", o, x, {}, NoRole)

(* The foreign key refuses a role somebody has been given meanwhile.       *)
DropRole(p) ==
  LET q == saves[p] IN
  /\ q.pc = "delete" /\ adminRoles[q.role].here /\ HasRole(q.role) = {}
  /\ adminRoles' = [adminRoles EXCEPT ![q.role] = [here |-> FALSE, keys |-> {}]]
  /\ Ends(p, q.role, adminRoles[q.role].keys)
  /\ UNCHANGED <<posts, permissions, rolePlan>>

-------------------------------------------------------------------------------
(* Who has which.                                                          *)
Assignable(x) == x \in {Super} \cup {y \in RoleIds : adminRoles[y].here}
OtherSupers(t) == HasRole(Super) \ {t}
(* _lock_super_admin_role: changes of an administrator's role take turns.  *)
SuperRoleFree ==
  \A p \in Clerks : saves[p].pc = "post" => posts[saves[p].who] = NoRole

CreateAdminUser(p) ==
  \E o \in Officers, t \in rolePlan.moved, x \in RoleIds \cup {Super} :
    /\ Checks(p, "post", o)
    /\ posts[t] = NoRole /\ \A c \in Clerks : saves[c].pc = "post" => saves[c].who # t
    /\ Assignable(x) /\ MayHandOut(o, x)
    /\ Checked(p, "post", o, x, {}, t)

UpdateAdminUser(p) ==
  \E o \in Officers, t \in rolePlan.moved, x \in RoleIds \cup {Super} :
    /\ Checks(p, "post", o) /\ SuperRoleFree
    /\ posts[t] \notin {NoRole, x} /\ Assignable(x)
    /\ MayHandOut(o, posts[t]) /\ MayHandOut(o, x)
    /\ posts[t] = Super => OtherSupers(t) # {}
    /\ Checked(p, "post", o, x, {}, t)

PostOfficer(p) ==
  LET q == saves[p] IN
  /\ q.pc = "post" /\ Assignable(q.role)
  /\ posts' = [posts EXCEPT ![q.who] = q.role]
  /\ Ends(p, NoRole, {})
  /\ UNCHANGED <<adminRoles, permissions, rolePlan>>

DeleteAdminUser(p) ==
  \E o \in Officers, t \in rolePlan.moved :
    /\ Checks(p, "dismiss", o) /\ SuperRoleFree
    /\ t # o /\ posts[t] # NoRole /\ MayHandOut(o, posts[t])
    /\ posts[t] = Super => OtherSupers(t) # {}
    /\ posts' = [posts EXCEPT ![t] = NoRole]
    /\ Ends(p, NoRole, {})
    /\ UNCHANGED <<adminRoles, permissions, rolePlan>>

-------------------------------------------------------------------------------
(* A request is refused by the database, or its server stops.              *)
RollsBack(p) ==
  /\ saves[p] # Off
  /\ saves' = [saves EXCEPT ![p] = Off]
  /\ UNCHANGED <<roleRows, rolePlan>>

(* Every deployment completes the catalog and the default grants, with the *)
(* service stopped.                                                        *)
SeedRbac ==
  /\ \A p \in Clerks : saves[p] = Off
  /\ permissions' = Keys
  /\ adminRoles' = [x \in RoleIds |->
       IF x \in SystemRoles /\ adminRoles[x].here
       THEN [adminRoles[x] EXCEPT !.keys = @ \cup DefaultGrants[x]] ELSE adminRoles[x]]
  /\ UNCHANGED <<posts, saves, rolePlan>>

RolesNext ==
  \/ \E p \in Clerks :
       \/ CreateRole(p) \/ InsertRole(p)
       \/ UpdateRole(p) \/ DeleteGrants(p) \/ InsertGrants(p)
       \/ DeleteRole(p) \/ DropRole(p)
       \/ CreateAdminUser(p) \/ UpdateAdminUser(p) \/ PostOfficer(p) \/ DeleteAdminUser(p)
       \/ RollsBack(p)
  \/ SeedRbac

RolesSpec == RolesInit /\ [][RolesNext]_roleVars

-------------------------------------------------------------------------------
(* What the administrators who are no Super Admin are allowed to do, taken *)
(* together, grows only by a Super Admin's request, by the default grants  *)
(* a deployment restores, or by a request whose check another request has  *)
(* overtaken: nobody passes on more than is held, by making, changing and  *)
(* handing out roles in any order (routes_admin_roles.py:109, 160-165,     *)
(* routes_admin_users.py:87-94, seed.py:88-102).                           *)
Held == UNION {EffectivePermissions(o) : o \in Officers \ HasRole(Super)}
DelegationStaysInScope ==
  [][Held' \subseteq Held
     \/ /\ saves' = saves /\ permissions' = Keys
        /\ Held' \subseteq Held \cup UNION {DefaultGrants[x] : x \in SystemRoles}
     \/ \E p \in Clerks :
          saves[p] # Off /\ saves'[p] = Off /\ (saves[p].super \/ saves[p].met)]_roleVars
===============================================================================
