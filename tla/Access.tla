------------------------------- MODULE Access -------------------------------
(***************************************************************************)
(* Accounts, their roles and what a session may do.  A login copies the    *)
(* permissions of the account's roles into its session, where the guards   *)
(* look; changing a role's permissions deletes the sessions of those who   *)
(* have the role, so that they log in again (rbac-admin.service).          *)
(***************************************************************************)
EXTENDS Organization

CONSTANTS Roles, Permissions, Sessions

ASSUME AccessAssumption == \A ps \in SUBSET Permissions : ps # None

VARIABLES
    account,      \* User.status: ABSENT, ACTIVE, INACTIVE or REMOVED
    role,         \* the permissions of each role, None before and after its life
    binding,      \* pairs <<user, role>>: the global bindings that have not ended
    session       \* the session table: [user, auth], auth None until the login has built it

accessTables == <<account, role, binding, session>>
accessVars == <<requestVars, orgTables, accessTables>>

NoSession == [user |-> None, auth |-> None]
AccountExists(u) == account[u] \in {"ACTIVE", "INACTIVE"}
RoleExists(g) == role[g] # None
RolesOf(u) == {g \in Roles : <<u, g>> \in binding}
UsersOf(g) == {u \in Users : <<u, g>> \in binding}
Granted(u) == UNION {role[g] : g \in RolesOf(u)}

\* The employee of an account: the one of before is released, the new one taken from whoever has
\* it (create, update) or refused (setEmployee).
Linked(u, e) ==
    [f \in Employees |-> IF f = e THEN [employee[f] EXCEPT !.user = u]
                         ELSE IF employee[f].user = u THEN [employee[f] EXCEPT !.user = None]
                         ELSE employee[f]]
EmployeeGiven(e) == e # None => employee[e].status # "ABSENT"

CreateUser(u, gs, e, status) ==
    /\ AtOnce("account")
    /\ account[u] = "ABSENT"
    /\ \A g \in gs : RoleExists(g)
    /\ EmployeeGiven(e)
    /\ account' = [account EXCEPT ![u] = status]
    /\ employee' = IF e = None THEN employee ELSE Linked(u, e)
    /\ binding' = binding \cup ({u} \X gs)
    /\ UNCHANGED <<role, session, department, member>>

\* update without roles; no employee leaves the link as it is.
UpdateUser(u, e, status) ==
    /\ AtOnce("account")
    /\ AccountExists(u)
    /\ EmployeeGiven(e)
    /\ account' = [account EXCEPT ![u] = status]
    /\ employee' = IF e = None THEN employee ELSE Linked(u, e)
    /\ UNCHANGED <<role, binding, session, department, member>>

\* update with roles and setGlobalRoles: the DELETE takes the rows it sees.
AssignRolesRead(r, u, gs) ==
    /\ Starts(r, "assign")
    /\ AccountExists(u) /\ \A g \in gs : RoleExists(g)
    /\ Goes(r, [pc |-> "assign", user |-> u, roles |-> gs, old |-> RolesOf(u)])
    /\ UNCHANGED <<orgTables, accessTables>>
AssignRolesCommit(r) ==
    /\ At(r, "assign")
    /\ LET u == request[r].user gs == request[r].roles IN
        /\ AccountExists(u) /\ \A g \in gs : RoleExists(g)
        /\ binding' = (binding \ ({u} \X request[r].old)) \cup ({u} \X gs)
    /\ Ends(r) /\ UNCHANGED <<orgTables, account, role, session>>

SetEmployeeRead(r, u, e) ==
    /\ Starts(r, "link")
    /\ AccountExists(u) /\ Hired(e) /\ employee[e].user \in {None, u}
    /\ Goes(r, [pc |-> "link", user |-> u, employee |-> e])
    /\ UNCHANGED <<orgTables, accessTables>>
SetEmployeeCommit(r) ==
    /\ At(r, "link")
    /\ AccountExists(request[r].user)
    /\ employee' = Linked(request[r].user, request[r].employee)
    /\ Ends(r) /\ UNCHANGED <<accessTables, department, member>>
ClearEmployee(u) ==
    /\ AtOnce("link")
    /\ AccountExists(u)
    /\ employee' = Linked(u, None)
    /\ UNCHANGED <<accessTables, department, member>>

RemoveUser(u) ==
    /\ AtOnce("account")
    /\ AccountExists(u)
    /\ account' = [account EXCEPT ![u] = "REMOVED"]
    /\ employee' = Linked(u, None)
    /\ binding' = binding \ ({u} \X Roles)
    /\ UNCHANGED <<role, session, department, member>>

CreateRole(g) ==
    /\ AtOnce("role")
    /\ ~RoleExists(g)
    /\ role' = [role EXCEPT ![g] = {}]
    /\ UNCHANGED <<orgTables, account, binding, session>>

\* deleteRole counts the bindings, then deletes the row, which cascades to those made since.
DeleteRoleRead(r, g) ==
    /\ Starts(r, "role")
    /\ RoleExists(g) /\ UsersOf(g) = {}
    /\ Goes(r, [pc |-> "deleteRole", role |-> g])
    /\ UNCHANGED <<orgTables, accessTables>>
DeleteRoleCommit(r) ==
    /\ At(r, "deleteRole")
    /\ RoleExists(request[r].role)
    /\ role' = [role EXCEPT ![request[r].role] = None]
    /\ binding' = binding \ (Users \X {request[r].role})
    /\ Ends(r) /\ UNCHANGED <<orgTables, account, session>>

AffectedFirst(g) == IF UsersOf(g) = {} THEN {} ELSE {CHOOSE u \in UsersOf(g) : TRUE}
Affected(g) == UsersOf(g)
\* An empty list is answered without effect.
UpdatePermissionsRead(r, g, ps) ==
    /\ Starts(r, "permissions")
    /\ ps # {} /\ RoleExists(g)
    /\ Goes(r, [pc |-> "permissions", role |-> g, perms |-> ps, users |-> Affected(g)])
    /\ UNCHANGED <<orgTables, accessTables>>
UpdatePermissionsCommit(r) ==
    /\ At(r, "permissions")
    /\ RoleExists(request[r].role)
    /\ role' = [role EXCEPT ![request[r].role] = request[r].perms]
    /\ Goes(r, [pc |-> "sessions", users |-> request[r].users])
    /\ UNCHANGED <<orgTables, account, binding, session>>
\* deleteSessionsByUserId, once per user of the list.
DeleteSessions(r) ==
    /\ At(r, "sessions")
    /\ session' = [s \in Sessions |-> IF session[s].user \in request[r].users THEN NoSession ELSE session[s]]
    /\ Ends(r) /\ UNCHANGED <<orgTables, account, role, binding>>

\* login: passport stores the user in a new session, then the permissions are read and saved.
Login(r, s, u) ==
    /\ Starts(r, "login")
    /\ session[s] = NoSession /\ account[u] = "ACTIVE"
    /\ \A q \in Clients : At(q, "build") \/ At(q, "save") => request[q].session # s
    /\ session' = [session EXCEPT ![s].user = u]
    /\ Goes(r, [pc |-> "build", session |-> s, user |-> u])
    /\ UNCHANGED <<orgTables, account, role, binding>>
BuildAuthSession(r) ==
    /\ At(r, "build")
    /\ LET u == request[r].user IN
        IF account[u] = "ACTIVE"
        THEN Goes(r, [pc |-> "save", session |-> request[r].session, user |-> u, perms |-> Granted(u)])
        ELSE Ends(r)
    /\ UNCHANGED <<orgTables, accessTables>>
\* The store writes the row back also when it has been deleted meanwhile.
SaveSession(r) ==
    /\ At(r, "save")
    /\ session' = [session EXCEPT ![request[r].session] = [user |-> request[r].user, auth |-> request[r].perms]]
    /\ Ends(r) /\ UNCHANGED <<orgTables, account, role, binding>>
Logout(s) ==
    /\ AtOnce("logout")
    /\ session' = [session EXCEPT ![s] = NoSession]
    /\ UNCHANGED <<orgTables, account, role, binding>>

AccessPcs == {"assign", "link", "deleteRole", "permissions", "build", "save"}
\* Sessions that could not be deleted stay: the update is not undone.
AbortAccess(r) ==
    /\ request[r].pc \in AccessPcs \/ (At(r, "sessions") /\ "crash" \in scenario.calls)
    /\ Abort(r) /\ UNCHANGED <<orgTables, accessTables>>

AccessTablesInit ==
    /\ account = [u \in Users |-> "ABSENT"]
    /\ role = [g \in Roles |-> None]
    /\ binding = {}
    /\ session = [s \in Sessions |-> NoSession]
AccessInit == OrgInit /\ AccessTablesInit

AccountStep ==
    \/ \E u \in Users, e \in Employees \cup {None}, status \in {"ACTIVE", "INACTIVE"} :
        \/ \E gs \in SUBSET Roles : CreateUser(u, gs, e, status)
        \/ UpdateUser(u, e, status)
    \/ \E u \in Users : ClearEmployee(u) \/ RemoveUser(u)
    \/ \E r \in Clients :
        \/ \E u \in Users :
            \/ \E gs \in SUBSET Roles : AssignRolesRead(r, u, gs)
            \/ \E e \in Employees : SetEmployeeRead(r, u, e)
        \/ AssignRolesCommit(r) \/ SetEmployeeCommit(r)
RoleStep ==
    \/ \E g \in Roles : CreateRole(g)
    \/ \E r \in Clients :
        \/ \E g \in Roles :
            \/ DeleteRoleRead(r, g)
            \/ \E ps \in SUBSET Permissions : UpdatePermissionsRead(r, g, ps)
        \/ DeleteRoleCommit(r) \/ UpdatePermissionsCommit(r) \/ DeleteSessions(r)
SessionStep ==
    \/ \E s \in Sessions : Logout(s)
    \/ \E r \in Clients :
        \/ \E s \in Sessions, u \in Users : Login(r, s, u)
        \/ BuildAuthSession(r) \/ SaveSession(r)
AccessStep == AccountStep \/ RoleStep \/ SessionStep \/ \E r \in Clients : AbortAccess(r)
AccessNext == AccessStep \/ (OrgNext /\ UNCHANGED accessTables)
AccessSpec == AccessInit /\ [][AccessNext]_accessVars

(***************************************************************************)
(* Properties                                                              *)
(***************************************************************************)
\* Whoever is logged in works with what the roles grant now: an update of a role's permissions
\* leaves no session that carries the old ones ("Xoa session cua tat ca user dang dung role nay").
\* Promised where accounts keep their roles, calls come one after another and none is cut off
\* between the update and the deletion of the sessions.
SessionsFollowRoles ==
    Alone /\ Quiet /\ scenario.calls \cap {"assign", "crash"} = {} =>
        \A s \in Sessions :
            session[s].auth # None /\ AccountExists(session[s].user) =>
                session[s].auth = Granted(session[s].user)
=============================================================================
