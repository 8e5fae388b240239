---------------------------- MODULE Organization ----------------------------
(***************************************************************************)
(* Departments, a forest of soft-deleted rows (departments.service), and   *)
(* employees with their memberships (employees.service).  Departments are  *)
(* changed outside of transactions: every check is a statement of its own. *)
(***************************************************************************)
EXTENDS Requests

CONSTANTS Departments, Employees, Users

ASSUME OrganizationAssumption == IsFiniteSet(Departments) /\ None \notin Departments

VARIABLES
    department,   \* [status, type, parent]
    employee,     \* [status, user]
    member        \* pairs <<employee, department>>, the EmployeeDepartment rows

orgTables == <<department, employee, member>>
orgVars == <<requestVars, orgTables>>

Rank == [board |-> 0, office |-> 1, group |-> 2, branch |-> 3]
DepartmentTypes == DOMAIN Rank
NoDepartment == [status |-> "ABSENT", type |-> "board", parent |-> None]
NoEmployee == [status |-> "ABSENT", user |-> None]

Stored(d) == department[d].status # "ABSENT"
Live(d) == department[d].status = "LIVE"

\* departmentExists finds soft-deleted rows too; clients pick from a list of the live ones unless
\* the scenario lets them name any.
DepartmentExists(d) == d # None => Stored(d)
Offered == {None} \cup {d \in Departments : Live(d) \/ "anyParent" \in scenario.calls}

IsValidParent(type, parent) ==
    parent # None => Stored(parent) /\ Rank[type] = Rank[department[parent].type] + 1

\* wouldCreateCycle walks from the new parent up to a root.
Up(d) == IF d = None THEN None ELSE department[d].parent
Walk(d) ==
    LET step[n \in 0 .. Cardinality(Departments)] == IF n = 0 THEN d ELSE Up(step[n - 1])
    IN {step[n] : n \in 0 .. Cardinality(Departments)} \ {None}
WouldCreateCycleNear(parent, self) == parent = self \/ Up(parent) = self
WouldCreateCycle(parent, self) == self \in Walk(parent)

LiveChildren(d) == {c \in Departments : Live(c) /\ department[c].parent = d}

CreateDepartment(d, type, parent) ==
    /\ AtOnce("department")
    /\ ~Stored(d) /\ parent \in Offered
    /\ DepartmentExists(parent) /\ IsValidParent(type, parent)
    /\ department' = [department EXCEPT ![d] = [status |-> "LIVE", type |-> type, parent |-> parent]]
    /\ UNCHANGED <<employee, member>>

\* The type of the new parent is not looked at, nor whether it is deleted.
MoveDepartmentRead(r, d, parent) ==
    /\ Starts(r, "department")
    /\ Live(d) /\ parent \in Offered
    /\ DepartmentExists(parent) /\ ~WouldCreateCycle(parent, d)
    /\ Goes(r, [pc |-> "move", department |-> d, parent |-> parent])
    /\ UNCHANGED orgTables
MoveDepartmentWrite(r) ==
    /\ At(r, "move")
    /\ department' = [department EXCEPT ![request[r].department].parent = request[r].parent]
    /\ Ends(r) /\ UNCHANGED <<employee, member>>

\* The type is an editable field that nothing checks.
RetypeDepartment(d, type) ==
    /\ AtOnce("department")
    /\ Live(d)
    /\ department' = [department EXCEPT ![d].type = type]
    /\ UNCHANGED <<employee, member>>

RemoveDepartmentRead(r, d) ==
    /\ Starts(r, "department")
    /\ Live(d) /\ LiveChildren(d) = {}
    /\ Goes(r, [pc |-> "remove", department |-> d])
    /\ UNCHANGED orgTables
RemoveDepartmentWrite(r) ==
    /\ At(r, "remove")
    /\ department' = [department EXCEPT ![request[r].department].status = "DELETED"]
    /\ Ends(r) /\ UNCHANGED <<employee, member>>

Hired(e) == employee[e].status = "LIVE"

\* Departments of the form are rows that exist (a foreign key), deleted ones included.
CreateEmployee(e, ds) ==
    /\ AtOnce("employee")
    /\ employee[e].status = "ABSENT" /\ \A d \in ds : Stored(d)
    /\ employee' = [employee EXCEPT ![e].status = "LIVE"]
    /\ member' = member \cup ({e} \X ds)
    /\ UNCHANGED department

UpdateEmployee(e, ds) ==
    /\ AtOnce("employee")
    /\ Hired(e) /\ \A d \in ds : Stored(d)
    /\ member' = {m \in member : m[1] # e} \cup ({e} \X ds)
    /\ UNCHANGED <<department, employee>>

\* Only the row is marked: memberships and the account stay.
DeleteEmployees(es) ==
    /\ AtOnce("employee")
    /\ \E e \in es : Hired(e)
    /\ employee' = [e \in Employees |->
            IF e \in es /\ Hired(e) THEN [employee[e] EXCEPT !.status = "DELETED"] ELSE employee[e]]
    /\ UNCHANGED <<department, member>>

AbortOrg(r) == request[r].pc \in {"move", "remove"} /\ Abort(r) /\ UNCHANGED orgTables

OrgTablesInit ==
    /\ department = [d \in Departments |-> NoDepartment]
    /\ employee = [e \in Employees |-> NoEmployee]
    /\ member = {}
OrgInit == RequestsInit /\ OrgTablesInit
DepartmentStep ==
    \/ \E d \in Departments, type \in DepartmentTypes :
        \/ \E p \in Departments \cup {None} : CreateDepartment(d, type, p)
        \/ RetypeDepartment(d, type)
    \/ \E r \in Clients :
        \/ \E d \in Departments :
            \/ \E p \in Departments \cup {None} : MoveDepartmentRead(r, d, p)
            \/ RemoveDepartmentRead(r, d)
        \/ MoveDepartmentWrite(r) \/ RemoveDepartmentWrite(r) \/ AbortOrg(r)
EmployeeStep ==
    \/ \E e \in Employees, ds \in SUBSET Departments : CreateEmployee(e, ds) \/ UpdateEmployee(e, ds)
    \/ \E es \in SUBSET Employees : DeleteEmployees(es)
OrgNext == DepartmentStep \/ EmployeeStep
OrgSpec == OrgInit /\ [][OrgNext]_orgVars

(***************************************************************************)
(* Properties                                                              *)
(***************************************************************************)
\* findTree hangs live departments under live parents, from those without a parent down.
Shown ==
    LET level[n \in 0 .. Cardinality(Departments)] ==
            IF n = 0 THEN LiveChildren(None) ELSE UNION {LiveChildren(d) : d \in level[n - 1]}
    IN UNION {level[n] : n \in 0 .. Cardinality(Departments)}

\* However departments are created, moved and removed, the tree of the organization shows every
\* live one: no move closes a circle and none is left under a removed parent.  Each call checks
\* that on rows it does not lock, so it is promised for calls made one after another.
TreeShowsAll ==
    Alone /\ "anyParent" \notin scenario.calls => Shown = {d \in Departments : Live(d)}
=============================================================================
