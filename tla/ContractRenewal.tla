--------------------------- MODULE ContractRenewal ---------------------------
(***************************************************************************)
(* Contracts (ContractsService): creation, renewal, edition and removal,   *)
(* assignment to customers, the Excel import, and the expiry report.       *)
(*                                                                         *)
(* Requests are cut at their reads.  "locked" holds the rows a transaction *)
(* has updated or deleted before it reads again.                           *)
(***************************************************************************)
EXTENDS Integers

CONSTANTS
    Contracts,     \* ids a Contract row may get
    Customers,
    MaxDay,        \* bound: days a contract may start or end
    ExpiringIn,    \* CONTRACT_EXPIRING_IN_DAYS
    ExpiredWithin, \* CONTRACT_EXPIRED_WITHIN_DAYS
    Requests,      \* requests the web process may be serving
    Scenarios,     \* kinds of use: what clients call, edit and enter, by which requests
    None

ContractStatus == {"Draft", "Pending", "Active", "Terminated", "Cancelled"}
Calls == {"create", "update", "remove", "assign", "unassign", "import"}
Edits == {"status", "dates", "customer", "renewal"}

ASSUME DaysAssumption == MaxDay \in Nat /\ ExpiringIn \in Nat /\ ExpiredWithin \in Nat
ASSUME NoneAssumption ==
    None \notin Contracts \cup Customers \cup ContractStatus \cup Nat
ASSUME ScenariosAssumption ==
    \A s \in Scenarios : /\ s.calls \subseteq Calls /\ s.edits \subseteq Edits
                         /\ s.statuses \subseteq ContractStatus /\ s.requests \subseteq Requests
                         /\ s.periods \subseteq (1 .. MaxDay) \X (1 .. MaxDay)

VARIABLES
    contract,      \* the Contract table
    request,       \* what each request has read so far
    scenario       \* what clients do: chosen once, at the start

vars == <<contract, request, scenario>>

Days == 1 .. MaxDay
Absent == [status |-> "ABSENT", customer |-> None, start |-> 0, end |-> 0, renewalOf |-> None]
Removed == [Absent EXCEPT !.status = "REMOVED"]   \* its id is never used again
Idle == [pc |-> "idle", id |-> None, row |-> Absent, start |-> None, end |-> None,
         old |-> None, reopen |-> FALSE, locked |-> {}]

ExistsIn(table) == {c \in Contracts : table[c].status \in ContractStatus}
Exists == ExistsIn(contract)
RenewalsOf(o) == {c \in Exists : contract[c].renewalOf = o}
Locked(c, r) == \E q \in Requests \ {r} : c \in request[q].locked

Given(new, old) == IF new = None THEN old ELSE new
Optional(edit, S) == IF edit \in scenario.edits THEN S \cup {None} ELSE {None}

(***************************************************************************)
(* Checks and computations the handlers share.  The operator before a      *)
(* definition is what it would be after a slip; no action uses it.         *)
(***************************************************************************)
SetStatus(table, o, status) == IF o = None THEN table ELSE [table EXCEPT ![o].status = status]

DeletedOnly(table, c) == [table EXCEPT ![c] = Removed]
\* The row goes, and its renewals name it no more (onDelete: SetNull).
Deleted(table, c) ==
    [x \in Contracts |-> IF x = c THEN Removed
                         ELSE IF table[x].renewalOf = c THEN [table[x] EXCEPT !.renewalOf = None]
                         ELSE table[x]]

RenewedAny(table, o) == table
\* The contract a new one renews is terminated.
Renewed(table, o) == SetStatus(table, o, "Terminated")

OthersNever(o, c) == FALSE
\* hasOtherRenewals: of the old origin, besides the contract that leaves it.
Others(o, c) == RenewalsOf(o) \ {c} # {}

FollowsSameDay(start, o) == start >= contract[o].end
Follows(start, o) == start > contract[o].end

OverlapsStart(c, customer, start, end) ==
    {x \in Exists \ {c} : /\ contract[x].customer = customer
                          /\ start <= contract[x].start /\ contract[x].start < end}
\* findOverlapsForCustomer: both ends belong to a contract.
Overlaps(c, customer, start, end) ==
    {x \in Exists \ {c} : /\ contract[x].customer = customer
                          /\ contract[x].start <= end /\ contract[x].end >= start}

Init ==
    /\ contract = [c \in Contracts |-> Absent]
    /\ request = [r \in Requests |-> Idle]
    /\ scenario \in Scenarios

Begin(call, r) ==
    /\ call \in scenario.calls
    /\ r \in scenario.requests
    /\ request[r].pc = "idle"

-----------------------------------------------------------------------------
(* create, and a row of importFromExcel, which checks less.                 *)

NewRows ==
    {row \in [status : scenario.statuses, customer : Optional("customer", Customers),
              start : Days, end : Days, renewalOf : Exists \cup {None}] :
        <<row.start, row.end>> \in scenario.periods}

RowRead(r, call, c, row) ==
    /\ Begin(call, r)
    /\ contract[c] = Absent
    /\ request' = [request EXCEPT ![r] = [Idle EXCEPT !.pc = "insert", !.id = c, !.row = row]]
    /\ UNCHANGED <<contract, scenario>>

\* The end is not compared with the start.
CreateRead(r, c, row) ==
    /\ row.renewalOf # None =>
           /\ \/ None \in {row.customer, contract[row.renewalOf].customer}
              \/ row.customer = contract[row.renewalOf].customer
           /\ Follows(row.start, row.renewalOf)
    /\ RowRead(r, "create", c, row)

\* Neither the customer nor the dates of the origin are looked at.
ImportRead(r, c, row) ==
    /\ row.customer # None
    /\ row.start <= row.end
    /\ RowRead(r, "import", c, row)

InsertCommit(r) ==
    LET q == request[r]
    IN  /\ q.pc = "insert"
        /\ contract[q.id] = Absent
        /\ q.row.renewalOf # None => q.row.renewalOf \in Exists /\ ~Locked(q.row.renewalOf, r)
        /\ contract' = Renewed([contract EXCEPT ![q.id] = q.row], q.row.renewalOf)
        /\ request' = [request EXCEPT ![r] = Idle]
        /\ UNCHANGED scenario

-----------------------------------------------------------------------------
(* update: a renewal that is not named is taken away, and its origin active *)
(* again if it was its last.                                                *)

UpdateRead(r, c, status, customer, start, end, renewalOf) ==
    /\ Begin("update", r)
    /\ c \in Exists
    /\ request' = [request EXCEPT ![r] =
           [Idle EXCEPT !.pc = IF renewalOf # None THEN "updateOrigin" ELSE "updateOthers",
                        !.id = c, !.start = start, !.end = end,
                        !.row = [contract[c] EXCEPT !.status = Given(status, @),
                                                    !.customer = Given(customer, @),
                                                    !.start = Given(start, @),
                                                    !.renewalOf = renewalOf],
                        !.old = contract[c].renewalOf]]
    /\ UNCHANGED <<contract, scenario>>

\* Once checked, the new origin is updated, so its row is held.
UpdateReadOrigin(r) ==
    LET q == request[r]
        origin == q.row.renewalOf
    IN  /\ q.pc = "updateOrigin"
        /\ origin \in Exists
        /\ ~Locked(origin, r)
        /\ contract[origin].customer = q.row.customer
        /\ Follows(q.row.start, origin)
        /\ request' = [request EXCEPT ![r].pc = "updateOthers", ![r].locked = {origin}]
        /\ UNCHANGED <<contract, scenario>>

UpdateReadOthers(r) ==
    LET q == request[r]
    IN  /\ q.pc = "updateOthers"
        /\ request' = [request EXCEPT ![r].pc = "update",
                                      ![r].reopen = /\ q.old # None
                                                    /\ q.old # q.row.renewalOf
                                                    /\ ~Others(q.old, q.id)]
        /\ UNCHANGED <<contract, scenario>>

\* Dates are written when given; customer, status and renewal always, as read.
UpdateCommit(r) ==
    LET q == request[r]
        reopened == IF q.reopen THEN q.old ELSE None
        unlinked == SetStatus(Renewed(contract, q.row.renewalOf), reopened, "Active")
        updated == [unlinked EXCEPT ![q.id] =
                       [status |-> q.row.status, customer |-> q.row.customer,
                        start |-> Given(q.start, @.start), end |-> Given(q.end, @.end),
                        renewalOf |-> q.row.renewalOf]]
    IN  /\ q.pc = "update"
        /\ {q.id, reopened} \ {None} \subseteq Exists
        /\ \A c \in {q.id, reopened} : ~Locked(c, r)
        /\ contract' = IF q.row.status = "Active" THEN Renewed(updated, q.row.renewalOf)
                                                  ELSE updated
        /\ request' = [request EXCEPT ![r] = Idle]
        /\ UNCHANGED scenario

-----------------------------------------------------------------------------
(* remove: its origin is active again if it was the last renewal.           *)

RemoveRead(r, c) ==
    /\ Begin("remove", r)
    /\ c \in Exists
    /\ request' = [request EXCEPT ![r] = [Idle EXCEPT !.pc = "removeDelete", !.id = c,
                                                      !.old = contract[c].renewalOf]]
    /\ UNCHANGED <<contract, scenario>>

\* The row is deleted, then the other renewals of its origin are looked for.
RemoveDelete(r) ==
    LET q == request[r]
        touched == {q.id} \cup RenewalsOf(q.id)
    IN  /\ q.pc = "removeDelete"
        /\ q.id \in Exists
        /\ \A c \in touched : ~Locked(c, r)
        /\ request' = [request EXCEPT ![r].pc = "remove", ![r].locked = touched,
                                      ![r].reopen = q.old # None /\ ~Others(q.old, q.id)]
        /\ UNCHANGED <<contract, scenario>>

RemoveCommit(r) ==
    LET q == request[r]
        reopened == IF q.reopen THEN q.old ELSE None
        left == Deleted(contract, q.id)
    IN  /\ q.pc = "remove"
        /\ reopened # None => reopened \in ExistsIn(left) /\ ~Locked(reopened, r)
        /\ contract' = SetStatus(left, reopened, "Active")
        /\ request' = [request EXCEPT ![r] = Idle]
        /\ UNCHANGED scenario

-----------------------------------------------------------------------------
(* assignContractsToCustomer and unassignContractsFromCustomer, a contract  *)
(* at a time.                                                               *)

AssignRead(r, c, customer) ==
    /\ Begin("assign", r)
    /\ c \in Exists
    /\ contract[c].status # "Cancelled"
    /\ contract[c].customer \in {None, customer}
    /\ request' = [request EXCEPT ![r] = [Idle EXCEPT !.pc = "assignOverlaps", !.id = c,
                                                      !.row = [contract[c] EXCEPT !.customer = customer]]]
    /\ UNCHANGED <<contract, scenario>>

AssignReadOverlaps(r) ==
    LET q == request[r]
    IN  /\ q.pc = "assignOverlaps"
        /\ Overlaps(q.id, q.row.customer, q.row.start, q.row.end) = {}
        /\ request' = [request EXCEPT ![r].pc = "setCustomer"]
        /\ UNCHANGED <<contract, scenario>>

UnassignRead(r, c, customer) ==
    /\ Begin("unassign", r)
    /\ c \in Exists
    /\ contract[c].customer = customer
    /\ contract[c].status # "Cancelled"
    /\ request' = [request EXCEPT ![r] = [Idle EXCEPT !.pc = "setCustomer", !.id = c]]
    /\ UNCHANGED <<contract, scenario>>

SetCustomer(r) ==
    LET q == request[r]
    IN  /\ q.pc = "setCustomer"
        /\ q.id \in Exists
        /\ ~Locked(q.id, r)
        /\ contract' = [contract EXCEPT ![q.id].customer = q.row.customer]
        /\ request' = [request EXCEPT ![r] = Idle]
        /\ UNCHANGED scenario

\* A check fails, a row is gone, a deadlock rolls back, or the process dies.
Abort(r) ==
    /\ request[r].pc # "idle"
    /\ request' = [request EXCEPT ![r] = Idle]
    /\ UNCHANGED <<contract, scenario>>

Insert(r) ==
    \/ \E c \in Contracts, row \in NewRows : CreateRead(r, c, row) \/ ImportRead(r, c, row)
    \/ InsertCommit(r)

Update(r) ==
    \/ \E c \in Contracts, status \in Optional("status", scenario.statuses),
          customer \in Optional("customer", Customers), start \in Optional("dates", Days),
          end \in Optional("dates", Days), renewalOf \in Optional("renewal", Contracts) :
           UpdateRead(r, c, status, customer, start, end, renewalOf)
    \/ UpdateReadOrigin(r)
    \/ UpdateReadOthers(r)
    \/ UpdateCommit(r)

Remove(r) == (\E c \in Contracts : RemoveRead(r, c)) \/ RemoveDelete(r) \/ RemoveCommit(r)

Assign(r) ==
    \/ \E c \in Contracts, customer \in Customers :
           AssignRead(r, c, customer) \/ UnassignRead(r, c, customer)
    \/ AssignReadOverlaps(r)
    \/ SetCustomer(r)

Next == \E r \in Requests : Insert(r) \/ Update(r) \/ Remove(r) \/ Assign(r) \/ Abort(r)

Spec == Init /\ [][Next]_vars

-----------------------------------------------------------------------------
(* Readers: the counts in the mail of a day and the rows of its sheet       *)
(* (getContractExpiryCounts, getContractExpiryList), and the contract a     *)
(* TERM order of a day is filed under.  Contracts are of the type it needs. *)

Expiring(day) ==
    {c \in Exists : /\ contract[c].status = "Active"
                    /\ contract[c].end >= day /\ contract[c].end <= day + ExpiringIn}
Expired(day) ==
    {c \in Exists : /\ contract[c].status = "Active"
                    /\ contract[c].end < day /\ contract[c].end >= day - ExpiredWithin}

\* The rows asked for, each with the status derived from its end.
ReportStatus == {"expiring", "expired"}
DerivedStatus(c, day) == IF contract[c].end < day THEN "expired" ELSE "expiring"
ReportRows(day, statuses) ==
    {c \in Exists : /\ contract[c].status = "Active"
                    /\ contract[c].end \in day - ExpiredWithin .. day + ExpiringIn
                    /\ DerivedStatus(c, day) \in statuses}

\* findValidPurchaseContract, before it takes the one that ends first.
ValidContracts(customer, day) ==
    {c \in Exists : /\ contract[c].customer = customer
                    /\ contract[c].status = "Active"
                    /\ contract[c].start <= day /\ contract[c].end >= day}

-----------------------------------------------------------------------------
(* Properties                                                              *)

ContractRow == [status : ContractStatus \cup {"ABSENT", "REMOVED"}, customer : Customers \cup {None},
                start : 0 .. MaxDay, end : 0 .. MaxDay, renewalOf : Contracts \cup {None}]
RequestState == [pc : {"idle", "insert", "updateOrigin", "updateOthers", "update",
                       "removeDelete", "remove", "assignOverlaps", "setCustomer"},
                 id : Contracts \cup {None}, row : ContractRow, start : Days \cup {None},
                 end : Days \cup {None}, old : Contracts \cup {None}, reopen : BOOLEAN,
                 locked : SUBSET Contracts]

\* Contracts and requests have the shape the code gives them.
TypeOK ==
    /\ contract \in [Contracts -> ContractRow]
    /\ request \in [Requests -> RequestState]
    /\ scenario \in Scenarios

OneAtATime == \A q, r \in scenario.requests : q = r

\* A contract that has been renewed is out of use, even before it ends: the report neither counts
\* nor lists it and no TERM order is filed under it, as long as nobody edits statuses by hand,
\* whatever is renewed, moved to another origin, detached or removed, one request at a time.
RenewedIsNotReported ==
    OneAtATime /\ "status" \notin scenario.edits =>
        \A day \in Days, customer \in Customers :
            \A c \in Expiring(day) \cup Expired(day) \cup ReportRows(day, ReportStatus)
                    \cup ValidContracts(customer, day) : RenewalsOf(c) = {}

\* However requests interleave, a renewal names a contract that is there; and it starts after that
\* one has ended, where dates are entered once and nothing is imported.
RenewalFollows ==
    \A c \in {x \in Exists : contract[x].renewalOf # None} :
        LET o == contract[c].renewalOf IN
        /\ o \in Exists
        /\ "dates" \notin scenario.edits /\ "import" \notin scenario.calls =>
                contract[c].start > contract[o].end

On(c, day) == contract[c].start <= day /\ day <= contract[c].end

\* A customer who gets contracts by assignment only, one at a time, has no two
\* on the same day.
NoOverlap ==
    OneAtATime /\ scenario.edits \cap {"customer", "dates"} = {} =>
        \A c, d \in Exists :
            /\ c # d
            /\ contract[c].customer = contract[d].customer
            /\ contract[c].customer # None
            => \A day \in Days : ~(On(c, day) /\ On(d, day))
=============================================================================
