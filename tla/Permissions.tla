---------------------------- MODULE Permissions ----------------------------
(***************************************************************************)
(* Roles, their grants and assignments, and the overrides an administrator *)
(* puts on his own rights.  A service call is one READ COMMITTED           *)
(* transaction: it reads when it begins, and what it writes takes effect   *)
(* when it commits, against rows other transactions may have changed.      *)
(***************************************************************************)
EXTENDS Naturals, FiniteSets

CONSTANTS
    RoleIds,    \* ids roles may get
    Users, Admins,
    Groups,     \* permission groups
    Parent,     \* group -> the group it is an item of, or NoRole
    Methods,    \* RoleGroupPermissionEnum, "GET" among them
    Requests,   \* sets of <<group, method>> that clients send as permissions
    Calls,      \* service calls that may be open at a time
    NoRole

ASSUME PermissionsAssumption ==
    /\ Admins \subseteq Users
    /\ Parent \in [Groups -> Groups \cup {NoRole}]
    /\ "GET" \in Methods
    /\ Requests \subseteq SUBSET (Groups \X Methods)

VARIABLES
    roleState,  \* "unborn", "live" or "deleted"
    defaults,   \* roles with is_default
    grants,     \* role -> its <<group, method>> rows
    assigned,   \* user -> role, or NoRole
    call,       \* the open calls
    suppressed, \* Redis: administrators in user mode
    custom,     \* Redis: custom permissions of an administrator, or NoRole
    overlapped  \* history: two calls that set a default overlapped

permissionsVars ==
    <<roleState, defaults, grants, assigned, call, suppressed, custom, overlapped>>

Permission == Groups \X Methods
Live == {r \in RoleIds : roleState[r] = "live"}

\* An open call: what it is to do, whether it locks the role's row, the default roles it
\* has seen, and whether a call on the same rows that it need not see has committed.
Call == [op: {"update", "default", "plain", "delete", "assign"}, role: RoleIds,
         user: Users, rows: Requests \cup {{}}, locks: BOOLEAN,
         seen: SUBSET RoleIds, late: BOOLEAN]

PermissionsInit ==
    /\ roleState = [r \in RoleIds |-> "unborn"]
    /\ defaults = {}
    /\ grants = [r \in RoleIds |-> {}]
    /\ assigned = [u \in Users |-> NoRole]
    /\ call = [c \in Calls |-> NoRole]
    /\ suppressed = {}
    /\ custom = [u \in Users |-> NoRole]
    /\ overlapped = FALSE

-----------------------------------------------------------------------------
\* get_ancestor_ids, with the group itself: the least set that has it and the parent of
\* each of its members.
Lineage(g) ==
    {x \in Groups : \A T \in SUBSET Groups :
        g \in T /\ (\A y \in T : Parent[y] \in T \cup {NoRole}) => x \in T}

\* Mutant: a grant does not reach the groups above.
OwnGroupOnly(rows) ==
    UNION {{<<p[1], m>> : m \in {p[2], "GET"}} : p \in rows}

\* _apply_permission_dependencies: any grant brings GET along, and the same on every
\* group above.
WithDependencies(rows) ==
    UNION {{<<g, m>> : g \in Lineage(p[1]), m \in {p[2], "GET"}} : p \in rows}

-----------------------------------------------------------------------------
(* Service calls *)

CreateRole(r, rows) ==
    /\ roleState[r] = "unborn"
    /\ roleState' = [roleState EXCEPT ![r] = "live"]
    /\ grants' = [grants EXCEPT ![r] = WithDependencies(rows)]
    /\ UNCHANGED <<defaults, assigned, call, suppressed, custom, overlapped>>

Begin(c, op, r, u, rows, locks) ==
    /\ call[c] = NoRole /\ r \in Live
    /\ call' = [call EXCEPT ![c] = [op |-> op, role |-> r, user |-> u, rows |-> rows,
                                    locks |-> locks, seen |-> defaults, late |-> FALSE]]
    /\ UNCHANGED <<roleState, defaults, grants, assigned, suppressed, custom, overlapped>>

\* update_role; the role's own row is written, and so locked, unless nothing of it changes.
BeginUpdate(c, r) ==
    \E rows \in Requests, locks \in BOOLEAN, u \in Users :
        Begin(c, "update", r, u, rows, locks)

\* set_default_role, on or off
BeginSetDefault(c, r) ==
    \E op \in {"default", "plain"}, u \in Users : Begin(c, op, r, u, {}, TRUE)

\* delete_role refuses the default role.
BeginDelete(c, r) ==
    /\ r \notin defaults
    /\ \E u \in Users : Begin(c, "delete", r, u, {}, TRUE)

\* assign_role, and set_user_role with a role
BeginAssign(c, u, r) ==
    /\ assigned[u] # r
    /\ Begin(c, "assign", r, u, {}, TRUE)

Pending(c, op) == {d \in Calls \ {c} : call[d] # NoRole /\ call[d].op = op}

\* What the others learn of a commit that wrote the rows they are about to write.
Committed(c, others) ==
    call' = [d \in Calls |-> IF d = c THEN NoRole
                             ELSE IF d \in others THEN [call[d] EXCEPT !.late = TRUE]
                             ELSE call[d]]

\* Of two updates that both lock the role's row the later one deletes what the other has
\* inserted.  The inserts of one that does not lock only share the key, which excludes
\* nobody: the other's delete may have run before they were committed, and then they
\* stay beside its own.
CommitUpdate(c) ==
    LET me == call[c]
    IN  /\ me # NoRole /\ me.op = "update" /\ me.role \in Live
        /\ \E kept \in {{}} \cup (IF me.late THEN {grants[me.role]} ELSE {}) :
              grants' = [grants EXCEPT ![me.role] = kept \cup WithDependencies(me.rows)]
        /\ Committed(c, {d \in Pending(c, "update") :
                            call[d].role = me.role /\ ~(me.locks /\ call[d].locks)})
        /\ UNCHANGED <<roleState, defaults, assigned, suppressed, custom, overlapped>>

\* clear_default_flag, of the rows its statement found
Cleared(flags, seen) == flags \ seen

\* The new default needs no assignments: those of the role are dropped.
CommitDefault(c) ==
    LET me == call[c]
    IN  /\ me # NoRole /\ me.op = "default" /\ me.role \in Live
        /\ defaults' = Cleared(defaults, me.seen) \cup {me.role}
        /\ assigned' = [u \in Users |-> IF assigned[u] = me.role THEN NoRole ELSE assigned[u]]
        /\ overlapped' = (overlapped \/ me.late)
        /\ Committed(c, Pending(c, "default"))
        /\ UNCHANGED <<roleState, grants, suppressed, custom>>

\* Nothing is written when the flag was seen to be off.
CommitPlain(c) ==
    LET me == call[c]
    IN  /\ me # NoRole /\ me.op = "plain" /\ me.role \in Live
        /\ defaults' = IF me.role \in me.seen THEN defaults \ {me.role} ELSE defaults
        /\ Committed(c, {})
        /\ UNCHANGED <<roleState, grants, assigned, suppressed, custom, overlapped>>

CommitDelete(c) ==
    LET me == call[c]
    IN  /\ me # NoRole /\ me.op = "delete" /\ me.role \in Live
        /\ roleState' = [roleState EXCEPT ![me.role] = "deleted"]
        /\ defaults' = defaults \ {me.role}
        /\ grants' = [grants EXCEPT ![me.role] = {}]
        /\ assigned' = [u \in Users |-> IF assigned[u] = me.role THEN NoRole ELSE assigned[u]]
        /\ Committed(c, {})
        /\ UNCHANGED <<suppressed, custom, overlapped>>

\* user_id is unique: a row another call inserted meanwhile makes this one fail.
CommitAssign(c) ==
    LET me == call[c]
    IN  /\ me # NoRole /\ me.op = "assign" /\ me.role \in Live /\ ~me.late
        /\ assigned' = [assigned EXCEPT ![me.user] = me.role]
        /\ Committed(c, {d \in Pending(c, "assign") : call[d].user = me.user})
        /\ UNCHANGED <<roleState, defaults, grants, suppressed, custom, overlapped>>

\* A foreign key or unique violation, a row that is gone, a lost connection.
Rollback(c) ==
    /\ call[c] # NoRole
    /\ call' = [call EXCEPT ![c] = NoRole]
    /\ UNCHANGED <<roleState, defaults, grants, assigned, suppressed, custom, overlapped>>

\* remove_assignment, and set_user_role without a role
Unassign(u) ==
    /\ assigned[u] # NoRole
    /\ assigned' = [assigned EXCEPT ![u] = NoRole]
    /\ UNCHANGED <<roleState, defaults, grants, call, suppressed, custom, overlapped>>

-----------------------------------------------------------------------------
(* Overrides: POST me/admin-mode, PUT and DELETE me/custom-permissions *)

SuppressAdminMode(u) ==
    /\ u \in Admins /\ custom[u] = NoRole
    /\ suppressed' = suppressed \cup {u}
    /\ UNCHANGED <<roleState, defaults, grants, assigned, call, custom, overlapped>>

\* POST with enabled, or the key has lived its day.
RestoreAdminMode(u) ==
    /\ u \in suppressed
    /\ suppressed' = suppressed \ {u}
    /\ UNCHANGED <<roleState, defaults, grants, assigned, call, custom, overlapped>>

SetCustomPermissions(u, rows) ==
    /\ u \in Admins /\ rows # {}
    /\ custom' = [custom EXCEPT ![u] = rows]
    /\ UNCHANGED <<roleState, defaults, grants, assigned, call, suppressed, overlapped>>

\* DELETE, or the key has lived its day.
ClearCustomPermissions(u) ==
    /\ custom[u] # NoRole
    /\ custom' = [custom EXCEPT ![u] = NoRole]
    /\ UNCHANGED <<roleState, defaults, grants, assigned, call, suppressed, overlapped>>

PermissionsNext ==
    \/ \E r \in RoleIds : \E rows \in Requests : CreateRole(r, rows)
    \/ \E c \in Calls, r \in RoleIds :
        \/ BeginUpdate(c, r) \/ BeginSetDefault(c, r) \/ BeginDelete(c, r)
        \/ \E u \in Users : BeginAssign(c, u, r)
    \/ \E c \in Calls :
        \/ CommitUpdate(c) \/ CommitDefault(c) \/ CommitPlain(c) \/ CommitDelete(c)
        \/ CommitAssign(c) \/ Rollback(c)
    \/ \E u \in Users :
        \/ Unassign(u) \/ SuppressAdminMode(u) \/ RestoreAdminMode(u)
        \/ ClearCustomPermissions(u)
        \/ \E rows \in Requests : SetCustomPermissions(u, rows)

PermissionsSpec == PermissionsInit /\ [][PermissionsNext]_permissionsVars

-----------------------------------------------------------------------------
(* What follows from the tables *)

EffectiveAdmin(u) == u \in Admins /\ u \notin suppressed

\* The role a query may answer with: .first() of the default roles.
RolesOf(u) == IF assigned[u] # NoRole THEN {assigned[u]} ELSE defaults

\* RoleAuthorizationMiddleware: may it let u call method m of group g?
Admits(u, g, m) ==
    \/ custom[u] # NoRole /\ <<g, m>> \in custom[u]
    \/ custom[u] = NoRole /\ EffectiveAdmin(u)
    \/ /\ custom[u] = NoRole /\ ~EffectiveAdmin(u)
       /\ \E r \in RolesOf(u) : <<g, m>> \in grants[r]

\* get_current_user_permissions: what the client may be told.
Reported(u) ==
    IF custom[u] # NoRole THEN {custom[u]}
    ELSE IF EffectiveAdmin(u) THEN {Permission}
    ELSE IF RolesOf(u) = {} THEN {{}} ELSE {grants[r] : r \in RolesOf(u)}

-----------------------------------------------------------------------------
PermissionsTypeOK ==
    /\ roleState \in [RoleIds -> {"unborn", "live", "deleted"}]
    /\ defaults \subseteq RoleIds
    /\ grants \in [RoleIds -> SUBSET Permission]
    /\ assigned \in [Users -> RoleIds \cup {NoRole}]
    /\ call \in [Calls -> Call \cup {NoRole}]
    /\ suppressed \subseteq Admins
    /\ custom \in [Users -> (SUBSET Permission) \cup {NoRole}]
    /\ overlapped \in BOOLEAN

\* Unless two calls that set the default overlapped, there is one default role at most,
\* and then the client is told exactly what the middleware admits.
OneDefault ==
    ~overlapped =>
        /\ Cardinality(defaults) <= 1
        /\ \A u \in Users : Reported(u) = {{p \in Permission : Admits(u, p[1], p[2])}}

\* Whatever calls overlapped, a role that may do something with a group may read it and
\* every group above it; and no row refers to a role that is gone.
GrantsClosed ==
    /\ \A r \in RoleIds : \A p \in grants[r] : \A g \in Lineage(p[1]) :
            {<<g, p[2]>>, <<g, "GET">>} \subseteq grants[r]
    /\ \A r \in RoleIds \ Live : grants[r] = {} /\ r \notin defaults
    /\ \A u \in Users : assigned[u] \in Live \cup {NoRole}

\* What the authorization of every request rests on.
RolesSound == OneDefault /\ GrantsClosed

=============================================================================
