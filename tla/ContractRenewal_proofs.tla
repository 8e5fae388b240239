------------------------ MODULE ContractRenewal_proofs ------------------------
(***************************************************************************)
(* Proofs about ContractRenewal, for any contracts, customers, days,       *)
(* requests and uses.  However requests interleave: types, and that a      *)
(* renewal names a contract that is there and, where dates are entered     *)
(* once, ended before it starts.  The argument is the rows a transaction   *)
(* holds: an origin an update has checked is held until it is named, so no *)
(* removal takes it away between.                                          *)
(*                                                                         *)
(* One request at a time: that a contract that has been renewed is out of  *)
(* use, and that assigned contracts do not overlap.  The argument is that  *)
(* what a request has read is still so when it writes (ReadsNow).          *)
(***************************************************************************)
EXTENDS ContractRenewal, TLAPS

USE DaysAssumption, NoneAssumption

Table == [Contracts -> ContractRow]
Live(row) == row.status \in ContractStatus

LEMMA ExistsIsLive == \A table : ExistsIn(table) = {c \in Contracts : Live(table[c])}
BY DEF ExistsIn, Live

LEMMA ScenarioIs ==
    ASSUME scenario \in Scenarios
    PROVE  /\ scenario.statuses \subseteq ContractStatus /\ scenario.requests \subseteq Requests
           /\ scenario.periods \subseteq Days \X Days
BY ScenariosAssumption DEF Days

LEMMA AbsentIsTyped == Absent \in ContractRow /\ Removed \in ContractRow /\ Idle \in RequestState
BY DEF Absent, Removed, Idle, ContractRow, RequestState

\* Only the status of one row changes.
LEMMA SetStatusIs ==
    ASSUME NEW table \in Table, NEW o \in Contracts \cup {None}, NEW status \in ContractStatus
    PROVE  /\ SetStatus(table, o, status) \in Table
           /\ \A x \in Contracts :
                /\ SetStatus(table, o, status)[x].status = IF x = o THEN status ELSE table[x].status
                /\ SetStatus(table, o, status)[x].customer = table[x].customer
                /\ SetStatus(table, o, status)[x].start = table[x].start
                /\ SetStatus(table, o, status)[x].end = table[x].end
                /\ SetStatus(table, o, status)[x].renewalOf = table[x].renewalOf
<1>1. CASE o = None
  BY <1>1 DEF SetStatus
<1>2. CASE o # None
  <2>1. SetStatus(table, o, status) = [table EXCEPT ![o] = [table[o] EXCEPT !.status = status]]
    BY <1>2 DEF SetStatus
  <2>2. table[o] \in ContractRow
    BY <1>2 DEF Table
  <2>3. [table[o] EXCEPT !.status = status] \in ContractRow
    BY <2>2 DEF ContractRow
  <2> QED
    BY <1>2, <2>1, <2>2, <2>3 DEF Table, ContractRow
<1> QED
  BY <1>1, <1>2

LEMMA RenewedIs ==
    ASSUME NEW table \in Table, NEW o \in Contracts \cup {None}
    PROVE  /\ Renewed(table, o) \in Table
           /\ \A x \in Contracts :
                /\ Renewed(table, o)[x].status = IF x = o THEN "Terminated" ELSE table[x].status
                /\ Renewed(table, o)[x].customer = table[x].customer
                /\ Renewed(table, o)[x].start = table[x].start
                /\ Renewed(table, o)[x].end = table[x].end
                /\ Renewed(table, o)[x].renewalOf = table[x].renewalOf
<1>1. "Terminated" \in ContractStatus
  BY DEF ContractStatus
<1> QED
  BY <1>1, SetStatusIs DEF Renewed

LEMMA DeletedIs ==
    ASSUME NEW table \in Table, NEW c \in Contracts
    PROVE  /\ Deleted(table, c) \in Table
           /\ Deleted(table, c)[c] = Removed
           /\ \A x \in Contracts \ {c} :
                /\ Deleted(table, c)[x].status = table[x].status
                /\ Deleted(table, c)[x].customer = table[x].customer
                /\ Deleted(table, c)[x].start = table[x].start
                /\ Deleted(table, c)[x].end = table[x].end
                /\ Deleted(table, c)[x].renewalOf = IF table[x].renewalOf = c THEN None
                                                   ELSE table[x].renewalOf
<1>1. ASSUME NEW x \in Contracts
      PROVE  /\ table[x] \in ContractRow
             /\ [table[x] EXCEPT !.renewalOf = None] \in ContractRow
  BY DEF Table, ContractRow
<1> QED
  BY <1>1, AbsentIsTyped DEF Deleted, Table, ContractRow

-----------------------------------------------------------------------------
(* Types.                                                                   *)

\* What a request that is to write keeps for it.
Reads ==
    \A r \in Requests :
        /\ request[r].pc # "idle" => request[r].id \in Contracts
        /\ request[r].pc \in {"insert", "updateOrigin", "updateOthers", "update"} =>
               Live(request[r].row)
        /\ request[r].pc = "updateOrigin" => request[r].row.renewalOf # None
        /\ request[r].pc = "setCustomer" \/ request[r].pc = "assignOverlaps" =>
               request[r].row.customer \in Customers \cup {None}

TInv == TypeOK /\ Reads

LEMMA ReadStep ==
    ASSUME TInv, NEW r \in Requests, NEW n \in RequestState,
           n.pc # "idle" => n.id \in Contracts,
           n.pc \in {"insert", "updateOrigin", "updateOthers", "update"} => Live(n.row),
           n.pc = "updateOrigin" => n.row.renewalOf # None,
           request' = [request EXCEPT ![r] = n], contract' \in Table, UNCHANGED scenario
    PROVE  TInv'
<1>1. n.row \in ContractRow
  BY DEF RequestState
<1>2. TypeOK'
  BY DEF TInv, TypeOK, Table
<1>3. \A q \in Requests : request'[q] = IF q = r THEN n ELSE request[q]
  BY DEF TInv, TypeOK
<1>4. Reads'
  BY <1>1, <1>3 DEF TInv, Reads, ContractRow
<1> QED
  BY <1>2, <1>4 DEF TInv

LEMMA Ends ==
    ASSUME TInv, NEW r \in Requests, contract' \in Table,
           request' = [request EXCEPT ![r] = Idle], UNCHANGED scenario
    PROVE  TInv'
<1>1. Idle.pc = "idle" /\ Idle \in RequestState
  BY AbsentIsTyped DEF Idle
<1> QED
  BY <1>1, ReadStep

\* The table UpdateCommit leaves: the contract is written, its origin and its
\* former origin change status only.
LEMMA UpdateIs ==
    ASSUME TInv, NEW r \in Requests, UpdateCommit(r)
    PROVE  LET q == request[r] IN
           /\ contract' \in Table
           /\ Live(contract'[q.id])
           /\ contract'[q.id].renewalOf = q.row.renewalOf
           /\ contract'[q.id].start = Given(q.start, contract[q.id].start)
           /\ contract'[q.id].end = Given(q.end, contract[q.id].end)
           /\ contract'[q.id].customer = q.row.customer
           /\ contract'[q.id].status = "Active" => q.row.status = "Active" /\ q.row.renewalOf # q.id
           /\ \A x \in Contracts \ {q.id} :
                /\ contract'[x].customer = contract[x].customer
                /\ contract'[x].status = "Active" =>
                       \/ q.reopen /\ x = q.old
                       \/ contract[x].status = "Active" /\ x # q.row.renewalOf
                /\ Live(contract[x]) \/ x = q.row.renewalOf => Live(contract'[x])
                /\ Live(contract'[x]) => Live(contract[x]) \/ x = q.row.renewalOf
                /\ contract'[x].status = "ABSENT" => contract[x].status = "ABSENT"
                /\ contract'[x].start = contract[x].start
                /\ contract'[x].end = contract[x].end
                /\ contract'[x].renewalOf = contract[x].renewalOf
<1> DEFINE q == request[r]
           origin == q.row.renewalOf
           reopened == IF q.reopen THEN q.old ELSE None
           terminated == Renewed(contract, origin)
           unlinked == SetStatus(terminated, reopened, "Active")
           row == [status |-> q.row.status, customer |-> q.row.customer,
                   start |-> Given(q.start, unlinked[q.id].start), end |-> Given(q.end, unlinked[q.id].end),
                   renewalOf |-> origin]
           updated == [unlinked EXCEPT ![q.id] = row]
<1>1. /\ contract \in Table
      /\ q.id \in Contracts
      /\ q.row.status \in ContractStatus /\ q.row.customer \in Customers \cup {None}
      /\ origin \in Contracts \cup {None}
      /\ reopened \in Contracts \cup {None}
      /\ reopened # None => Live(contract[reopened])
      /\ q.start \in Days \cup {None} /\ q.end \in Days \cup {None}
  BY DEF TInv, TypeOK, Reads, Live, Table, RequestState, ContractRow, UpdateCommit, Exists, ExistsIn
<1>2. contract' = IF q.row.status = "Active" THEN Renewed(updated, origin) ELSE updated
  BY DEF UpdateCommit
<1>3. "Terminated" \in ContractStatus /\ "Active" \in ContractStatus
  BY DEF ContractStatus
<1> HIDE DEF q, reopened, origin
<1>4. /\ terminated \in Table
      /\ \A x \in Contracts :
           /\ terminated[x].status = IF x = origin THEN "Terminated" ELSE contract[x].status
           /\ terminated[x].customer = contract[x].customer
           /\ terminated[x].start = contract[x].start
           /\ terminated[x].end = contract[x].end
           /\ terminated[x].renewalOf = contract[x].renewalOf
  BY <1>1, RenewedIs
<1> HIDE DEF terminated
<1>5. /\ unlinked \in Table
      /\ \A x \in Contracts :
           /\ unlinked[x].status = IF x = reopened THEN "Active" ELSE terminated[x].status
           /\ unlinked[x].customer = terminated[x].customer
           /\ unlinked[x].start = terminated[x].start
           /\ unlinked[x].end = terminated[x].end
           /\ unlinked[x].renewalOf = terminated[x].renewalOf
  <2>1. terminated \in Table /\ reopened \in Contracts \cup {None} /\ "Active" \in ContractStatus
    BY <1>1, <1>3, <1>4
  <2> QED
    BY <2>1, SetStatusIs
<1> HIDE DEF unlinked
<1>6. /\ row.status = q.row.status /\ row.renewalOf = origin /\ row.customer = q.row.customer
      /\ row.start = Given(q.start, contract[q.id].start) /\ row.end = Given(q.end, contract[q.id].end)
      /\ row \in ContractRow
  <2>1. unlinked[q.id] \in ContractRow
    BY <1>1, <1>5 DEF Table
  <2>2. row.start \in 0 .. MaxDay /\ row.end \in 0 .. MaxDay
    BY <1>1, <2>1 DEF Given, Days, ContractRow
  <2> QED
    BY <1>1, <1>4, <1>5, <2>2 DEF ContractRow
<1> HIDE DEF row
<1>7. /\ updated \in Table
      /\ updated[q.id] = row
      /\ \A x \in Contracts \ {q.id} : updated[x] = unlinked[x]
  BY <1>1, <1>5, <1>6 DEF Table
<1> HIDE DEF updated
<1>8. /\ Renewed(updated, origin) \in Table
      /\ \A x \in Contracts :
           /\ Renewed(updated, origin)[x].status = IF x = origin THEN "Terminated" ELSE updated[x].status
           /\ Renewed(updated, origin)[x].customer = updated[x].customer
           /\ Renewed(updated, origin)[x].start = updated[x].start
           /\ Renewed(updated, origin)[x].end = updated[x].end
           /\ Renewed(updated, origin)[x].renewalOf = updated[x].renewalOf
  BY <1>1, <1>7, RenewedIs
<1>9. /\ contract' \in Table
      /\ \A x \in Contracts :
           /\ contract'[x].status = updated[x].status \/ (x = origin /\ contract'[x].status = "Terminated")
           /\ x = origin /\ q.row.status = "Active" => contract'[x].status = "Terminated"
           /\ contract'[x].customer = updated[x].customer
           /\ contract'[x].start = updated[x].start
           /\ contract'[x].end = updated[x].end
           /\ contract'[x].renewalOf = updated[x].renewalOf
  BY <1>2, <1>7, <1>8
<1>10. /\ Live(contract'[q.id])
       /\ contract'[q.id].renewalOf = origin
       /\ contract'[q.id].start = Given(q.start, contract[q.id].start)
       /\ contract'[q.id].end = Given(q.end, contract[q.id].end)
       /\ contract'[q.id].customer = q.row.customer
       /\ contract'[q.id].status = "Active" => q.row.status = "Active" /\ origin # q.id
  BY <1>1, <1>3, <1>6, <1>7, <1>9 DEF Live
<1>11. ASSUME NEW x \in Contracts \ {q.id}
       PROVE  /\ Live(contract[x]) \/ x = origin => Live(contract'[x])
              /\ Live(contract'[x]) => Live(contract[x]) \/ x = origin
              /\ contract'[x].status = "ABSENT" => contract[x].status = "ABSENT"
              /\ contract'[x].start = contract[x].start
              /\ contract'[x].end = contract[x].end
              /\ contract'[x].renewalOf = contract[x].renewalOf
              /\ contract'[x].customer = contract[x].customer
              /\ contract'[x].status = "Active" =>
                     x = reopened \/ (contract[x].status = "Active" /\ x # origin)
  BY <1>1, <1>3, <1>4, <1>5, <1>7, <1>9 DEF Live
<1> QED
  BY <1>1, <1>9, <1>10, <1>11 DEF q, origin, reopened

\* The table RemoveCommit leaves.
LEMMA RemoveIs ==
    ASSUME TInv, NEW r \in Requests, RemoveCommit(r)
    PROVE  LET c == request[r].id IN
           /\ contract' \in Table
           /\ contract'[c].status = "REMOVED"
           /\ \A x \in Contracts \ {c} :
                /\ Live(contract[x]) <=> Live(contract'[x])
                /\ contract'[x].status = "ABSENT" => contract[x].status = "ABSENT"
                /\ contract'[x].start = contract[x].start
                /\ contract'[x].end = contract[x].end
                /\ contract'[x].customer = contract[x].customer
                /\ contract'[x].status = "Active" =>
                       contract[x].status = "Active" \/ (request[r].reopen /\ x = request[r].old)
                /\ contract'[x].renewalOf = IF contract[x].renewalOf = c THEN None
                                            ELSE contract[x].renewalOf
<1> DEFINE q == request[r]
           reopened == IF q.reopen THEN q.old ELSE None
           left == Deleted(contract, q.id)
<1>1. /\ contract \in Table
      /\ q.id \in Contracts
      /\ reopened \in Contracts \cup {None}
      /\ reopened # None => reopened \in Contracts /\ Live(left[reopened])
      /\ contract' = SetStatus(left, reopened, "Active")
      /\ "Active" \in ContractStatus /\ ~("REMOVED" \in ContractStatus)
      /\ reopened # None => q.reopen /\ reopened = q.old
  BY ExistsIsLive DEF TInv, TypeOK, Reads, Table, RequestState, RemoveCommit, ContractStatus
<1> HIDE DEF reopened
<1>2. /\ left \in Table
      /\ left[q.id].status = "REMOVED"
      /\ \A x \in Contracts \ {q.id} :
           /\ left[x].status = contract[x].status
           /\ left[x].customer = contract[x].customer
           /\ left[x].start = contract[x].start
           /\ left[x].end = contract[x].end
           /\ left[x].renewalOf = IF contract[x].renewalOf = q.id THEN None ELSE contract[x].renewalOf
  BY <1>1, DeletedIs DEF Removed, Absent
<1> HIDE DEF left, q
<1>3. /\ contract' \in Table
      /\ \A x \in Contracts :
           /\ contract'[x].status = IF x = reopened THEN "Active" ELSE left[x].status
           /\ contract'[x].customer = left[x].customer
           /\ contract'[x].start = left[x].start
           /\ contract'[x].end = left[x].end
           /\ contract'[x].renewalOf = left[x].renewalOf
  BY <1>1, <1>2, SetStatusIs
<1>4. reopened # q.id
  BY <1>1, <1>2 DEF Live
<1> QED
  BY <1>1, <1>2, <1>3, <1>4 DEF Live, q

LEMMA TypeStep == TInv /\ [Next]_vars => TInv'
<1> SUFFICES ASSUME TInv, [Next]_vars PROVE TInv'
  OBVIOUS
<1>0. /\ contract \in Table
      /\ request \in [Requests -> RequestState]
      /\ Reads
  BY DEF TInv, TypeOK, Table
<1>00. \A r \in Requests : request[r].row \in ContractRow
  BY <1>0 DEF RequestState
<1>1. CASE UNCHANGED vars
  BY <1>1 DEF vars, TInv, TypeOK, Reads
<1>2. ASSUME NEW r \in Requests, NEW call, NEW c \in Contracts, NEW row \in NewRows, RowRead(r, call, c, row)
      PROVE  TInv'
  <2> DEFINE n == [Idle EXCEPT !.pc = "insert", !.id = c, !.row = row]
  <2>1. row \in ContractRow /\ Live(row)
    <3>1. scenario.statuses \subseteq ContractStatus
      BY ScenarioIs DEF TInv, TypeOK
    <3>2. Optional("customer", Customers) \subseteq Customers \cup {None} /\ Exists \subseteq Contracts
      BY DEF Optional, Exists, ExistsIn
    <3> QED
      BY <3>1, <3>2 DEF NewRows, ContractRow, Live, Days
  <2>2. n \in RequestState /\ n.pc = "insert" /\ n.id = c /\ n.row = row
    BY <2>1, AbsentIsTyped DEF Idle, RequestState
  <2>3. request' = [request EXCEPT ![r] = n] /\ contract' = contract /\ UNCHANGED scenario
    BY <1>2 DEF RowRead
  <2> HIDE DEF n
  <2> QED
    BY <1>0, <2>1, <2>2, <2>3, ReadStep
<1>3. ASSUME NEW r \in Requests, InsertCommit(r) PROVE TInv'
  <2> DEFINE q == request[r]
  <2>1. /\ q.id \in Contracts /\ q.row \in ContractRow /\ q.row.renewalOf \in Contracts \cup {None}
    BY <1>0, <1>00, <1>3 DEF InsertCommit, Reads, ContractRow
  <2>2. [contract EXCEPT ![q.id] = q.row] \in Table
    BY <1>0, <2>1 DEF Table
  <2>3. contract' \in Table
    BY <1>3, <2>1, <2>2, RenewedIs DEF InsertCommit
  <2> QED
    BY <1>3, <2>3, Ends DEF InsertCommit
<1>4. ASSUME NEW r \in Requests, NEW c \in Contracts, NEW status \in Optional("status", scenario.statuses),
             NEW customer \in Optional("customer", Customers), NEW start \in Optional("dates", Days),
             NEW end \in Optional("dates", Days), NEW renewalOf \in Optional("renewal", Contracts),
             UpdateRead(r, c, status, customer, start, end, renewalOf)
      PROVE  TInv'
  <2> DEFINE pc == IF renewalOf # None THEN "updateOrigin" ELSE "updateOthers"
             row == [contract[c] EXCEPT !.status = Given(status, @), !.customer = Given(customer, @),
                                        !.start = Given(start, @), !.renewalOf = renewalOf]
             n == [Idle EXCEPT !.pc = pc, !.id = c, !.start = start, !.end = end, !.row = row,
                               !.old = contract[c].renewalOf]
  <2>1. contract[c] \in ContractRow /\ contract[c].status \in ContractStatus
        /\ contract[c].renewalOf \in Contracts \cup {None}
    BY <1>0, <1>4 DEF UpdateRead, Exists, ExistsIn, Table, ContractRow
  <2>0. scenario.statuses \subseteq ContractStatus
    BY ScenarioIs DEF TInv, TypeOK
  <2>2. /\ Given(status, contract[c].status) \in ContractStatus
        /\ Given(customer, contract[c].customer) \in Customers \cup {None}
        /\ Given(start, contract[c].start) \in 0 .. MaxDay
        /\ renewalOf \in Contracts \cup {None} /\ start \in Days \cup {None} /\ end \in Days \cup {None}
    BY <2>0, <2>1 DEF Given, Optional, ContractRow, Days
  <2>3. row \in ContractRow /\ Live(row) /\ row.renewalOf = renewalOf
    <3> DEFINE status2 == Given(status, contract[c].status)
               customer2 == Given(customer, contract[c].customer)
               start2 == Given(start, contract[c].start)
    <3>1. row = [contract[c] EXCEPT !.status = status2, !.customer = customer2, !.start = start2,
                                    !.renewalOf = renewalOf]
      OBVIOUS
    <3>2. status2 \in ContractStatus /\ customer2 \in Customers \cup {None} /\ start2 \in 0 .. MaxDay
          /\ renewalOf \in Contracts \cup {None}
      BY <2>2
    <3> HIDE DEF status2, customer2, start2, row
    <3> QED
      BY <2>1, <3>1, <3>2 DEF ContractRow, Live
  <2> HIDE DEF row
  <2>4. n \in RequestState /\ n.pc = pc /\ n.id = c /\ n.row = row
    BY <2>1, <2>2, <2>3, AbsentIsTyped DEF Idle, RequestState
  <2>5. request' = [request EXCEPT ![r] = n] /\ contract' = contract /\ UNCHANGED scenario
    BY <1>4 DEF UpdateRead, row
  <2> HIDE DEF n
  <2> QED
    BY <1>0, <2>3, <2>4, <2>5, ReadStep
<1>5. ASSUME NEW r \in Requests, UpdateReadOrigin(r) PROVE TInv'
  <2> DEFINE n == [request[r] EXCEPT !.pc = "updateOthers", !.locked = {request[r].row.renewalOf}]
  <2>1. request' = [request EXCEPT ![r] = n] /\ contract' = contract /\ UNCHANGED scenario
    BY <1>5 DEF UpdateReadOrigin
  <2>2. /\ n \in RequestState /\ n.pc = "updateOthers" /\ n.id = request[r].id /\ n.row = request[r].row
    BY <1>0, <1>5 DEF UpdateReadOrigin, RequestState, Exists, ExistsIn
  <2> HIDE DEF n
  <2> QED
    <3>1. request[r].id \in Contracts /\ Live(request[r].row)
      BY <1>0, <1>5 DEF UpdateReadOrigin, Reads
    <3> QED
      BY <1>0, <2>1, <2>2, <3>1, ReadStep
<1>6. ASSUME NEW r \in Requests, UpdateReadOthers(r) PROVE TInv'
  <2> DEFINE q == request[r]
             reopen == q.old # None /\ q.old # q.row.renewalOf /\ ~Others(q.old, q.id)
             n == [q EXCEPT !.pc = "update", !.reopen = reopen]
  <2>1. request' = [request EXCEPT ![r] = n] /\ contract' = contract /\ UNCHANGED scenario
    BY <1>6 DEF UpdateReadOthers
  <2>2. reopen \in BOOLEAN
    OBVIOUS
  <2> HIDE DEF reopen
  <2>3. n \in RequestState /\ n.pc = "update" /\ n.id = q.id /\ n.row = q.row
    BY <1>0, <2>2 DEF RequestState
  <2> HIDE DEF n
  <2> QED
    <3>1. q.id \in Contracts /\ Live(q.row)
      BY <1>0, <1>6 DEF UpdateReadOthers, Reads
    <3> QED
      BY <1>0, <2>1, <2>3, <3>1, ReadStep
<1>7. ASSUME NEW r \in Requests, UpdateCommit(r) PROVE TInv'
  BY <1>0, <1>00, <1>7, Ends, UpdateIs DEF UpdateCommit
<1>8. ASSUME NEW r \in Requests, NEW c \in Contracts, RemoveRead(r, c) PROVE TInv'
  <2> DEFINE n == [Idle EXCEPT !.pc = "removeDelete", !.id = c, !.old = contract[c].renewalOf]
  <2>1. n \in RequestState /\ n.pc = "removeDelete" /\ n.id = c
    BY <1>0, AbsentIsTyped DEF Idle, RequestState, Table, ContractRow
  <2>2. request' = [request EXCEPT ![r] = n] /\ contract' = contract /\ UNCHANGED scenario
    BY <1>8 DEF RemoveRead
  <2> HIDE DEF n
  <2> QED
    BY <1>0, <2>1, <2>2, ReadStep
<1>9. ASSUME NEW r \in Requests, RemoveDelete(r) PROVE TInv'
  <2> DEFINE q == request[r]
             touched == {q.id} \cup RenewalsOf(q.id)
             reopen == q.old # None /\ ~Others(q.old, q.id)
             n == [q EXCEPT !.pc = "remove", !.locked = touched, !.reopen = reopen]
  <2>1. request' = [request EXCEPT ![r] = n] /\ contract' = contract /\ UNCHANGED scenario
    BY <1>9 DEF RemoveDelete
  <2>2. reopen \in BOOLEAN /\ touched \subseteq Contracts
    BY <1>9 DEF RemoveDelete, Exists, ExistsIn, RenewalsOf
  <2> HIDE DEF reopen, touched
  <2>3. n \in RequestState /\ n.pc = "remove" /\ n.id = q.id
    BY <1>0, <2>2 DEF RequestState
  <2> HIDE DEF n
  <2> QED
    <3>1. q.id \in Contracts
      BY <1>0, <1>9 DEF RemoveDelete, Reads
    <3> QED
      BY <1>0, <2>1, <2>3, <3>1, ReadStep
<1>10. ASSUME NEW r \in Requests, RemoveCommit(r) PROVE TInv'
  BY <1>0, <1>10, Ends, RemoveIs DEF RemoveCommit
<1>11. ASSUME NEW r \in Requests, NEW c \in Contracts, NEW customer \in Customers, AssignRead(r, c, customer)
       PROVE  TInv'
  <2> DEFINE row == [contract[c] EXCEPT !.customer = customer]
             n == [Idle EXCEPT !.pc = "assignOverlaps", !.id = c, !.row = row]
  <2>1. row \in ContractRow
    BY <1>0 DEF Table, ContractRow
  <2> HIDE DEF row
  <2>2. n \in RequestState /\ n.pc = "assignOverlaps" /\ n.id = c
    BY <2>1, AbsentIsTyped DEF Idle, RequestState
  <2>3. request' = [request EXCEPT ![r] = n] /\ contract' = contract /\ UNCHANGED scenario
    BY <1>11 DEF AssignRead, row
  <2> HIDE DEF n
  <2> QED
    BY <1>0, <2>2, <2>3, ReadStep
<1>12. ASSUME NEW r \in Requests, AssignReadOverlaps(r) PROVE TInv'
  <2> DEFINE n == [request[r] EXCEPT !.pc = "setCustomer"]
  <2>1. n \in RequestState /\ n.pc = "setCustomer" /\ n.id = request[r].id
    BY <1>0 DEF RequestState
  <2>2. request' = [request EXCEPT ![r] = n] /\ contract' = contract /\ UNCHANGED scenario
    BY <1>12 DEF AssignReadOverlaps
  <2> HIDE DEF n
  <2> QED
    BY <1>0, <1>12, <2>1, <2>2, ReadStep DEF AssignReadOverlaps, Reads
<1>13. ASSUME NEW r \in Requests, NEW c \in Contracts, NEW customer \in Customers, UnassignRead(r, c, customer)
       PROVE  TInv'
  <2> DEFINE n == [Idle EXCEPT !.pc = "setCustomer", !.id = c]
  <2>1. n \in RequestState /\ n.pc = "setCustomer" /\ n.id = c
    BY AbsentIsTyped DEF Idle, RequestState
  <2>2. request' = [request EXCEPT ![r] = n] /\ contract' = contract /\ UNCHANGED scenario
    BY <1>13 DEF UnassignRead
  <2> HIDE DEF n
  <2> QED
    BY <1>0, <2>1, <2>2, ReadStep
<1>14. ASSUME NEW r \in Requests, SetCustomer(r) PROVE TInv'
  <2> DEFINE c == request[r].id
             row == [contract[c] EXCEPT !.customer = request[r].row.customer]
  <2>1. c \in Contracts /\ contract' = [contract EXCEPT ![c] = row]
    BY <1>14 DEF SetCustomer, Exists, ExistsIn
  <2>2. row \in ContractRow
    BY <1>0, <1>00, <2>1 DEF Table, ContractRow
  <2> HIDE DEF row
  <2>3. contract' \in Table
    BY <1>0, <2>1, <2>2 DEF Table
  <2> QED
    BY <1>14, <2>3, Ends DEF SetCustomer
<1>15. ASSUME NEW r \in Requests, Abort(r) PROVE TInv'
  BY <1>0, <1>15, Ends DEF Abort
<1> QED
  BY <1>1, <1>2, <1>3, <1>4, <1>5, <1>6, <1>7, <1>8, <1>9, <1>10, <1>11, <1>12, <1>13, <1>14, <1>15
     DEF Next, Insert, Update, Remove, Assign, CreateRead, ImportRead

THEOREM TypeInvariant == Spec => []TInv
<1>1. Init => TInv
  BY AbsentIsTyped DEF Init, TInv, TypeOK, Reads, Idle
<1> QED
  BY <1>1, TypeStep, PTL DEF Spec

\* Contracts and requests always have the shape the code gives them.
THEOREM TypeCorrect == Spec => []TypeOK
<1>1. TInv => TypeOK
  BY DEF TInv
<1> QED
  BY <1>1, TypeInvariant, PTL

-----------------------------------------------------------------------------
(* What renewals name.                                                      *)

DatesOnce == "dates" \notin scenario.edits /\ "import" \notin scenario.calls

OriginsExist ==
    \A c \in Contracts : Live(contract[c]) /\ contract[c].renewalOf # None =>
        Live(contract[contract[c].renewalOf])

\* An update holds the origin it is going to name, a removal the row it deletes.
Held ==
    \A r \in Requests :
        /\ request[r].pc \in {"updateOthers", "update"} /\ request[r].row.renewalOf # None =>
               Live(contract[request[r].row.renewalOf])
               /\ request[r].row.renewalOf \in request[r].locked
        /\ request[r].pc = "remove" => request[r].id \in request[r].locked

Apart == \A q, r \in Requests : q # r => request[q].locked \cap request[r].locked = {}

RowsFollow ==
    \A c \in Contracts : Live(contract[c]) /\ contract[c].renewalOf # None =>
        contract[c].start > contract[contract[c].renewalOf].end

\* What a request has read of dates stays true until it writes.
ReadsFollow ==
    \A r \in Requests :
        /\ request[r].pc = "insert" /\ request[r].row.renewalOf # None =>
               /\ contract[request[r].row.renewalOf].status # "ABSENT"
               /\ Live(contract[request[r].row.renewalOf]) =>
                      request[r].row.start > contract[request[r].row.renewalOf].end
        /\ request[r].pc \in {"updateOrigin", "updateOthers", "update"} =>
               /\ request[r].start = None /\ request[r].end = None
               /\ contract[request[r].id].status # "ABSENT"
               /\ Live(contract[request[r].id]) => request[r].row.start = contract[request[r].id].start
        /\ request[r].pc \in {"updateOthers", "update"} /\ request[r].row.renewalOf # None =>
               request[r].row.start > contract[request[r].row.renewalOf].end

FInv == OriginsExist /\ Held /\ Apart /\ (DatesOnce => RowsFollow /\ ReadsFollow)

\* A step of a request that only reads.
LEMMA ReadFollows ==
    ASSUME TInv, TInv', FInv, NEW r \in Requests, NEW n,
           request' = [request EXCEPT ![r] = n], contract' = contract, UNCHANGED scenario,
           \A q \in Requests \ {r} : request[q].locked \cap n.locked = {},
           n.pc \in {"updateOthers", "update"} /\ n.row.renewalOf # None =>
               Live(contract[n.row.renewalOf]) /\ n.row.renewalOf \in n.locked,
           n.pc = "remove" => n.id \in n.locked,
           DatesOnce =>
               /\ n.pc = "insert" /\ n.row.renewalOf # None =>
                      /\ contract[n.row.renewalOf].status # "ABSENT"
                      /\ Live(contract[n.row.renewalOf]) => n.row.start > contract[n.row.renewalOf].end
               /\ n.pc \in {"updateOrigin", "updateOthers", "update"} =>
                      /\ n.start = None /\ n.end = None
                      /\ contract[n.id].status # "ABSENT"
                      /\ Live(contract[n.id]) => n.row.start = contract[n.id].start
               /\ n.pc \in {"updateOthers", "update"} /\ n.row.renewalOf # None =>
                      n.row.start > contract[n.row.renewalOf].end
    PROVE  FInv'
<1>1. \A q \in Requests : request'[q] = IF q = r THEN n ELSE request[q]
  BY DEF TInv, TypeOK
<1>2. OriginsExist'
  BY DEF FInv, OriginsExist
<1>3. Held'
  BY <1>1 DEF FInv, Held
<1>4. Apart'
  BY <1>1 DEF FInv, Apart
<1>5. DatesOnce' => RowsFollow'
  BY DEF FInv, DatesOnce, RowsFollow
<1>6. ASSUME DatesOnce' PROVE ReadsFollow'
  <2>1. DatesOnce /\ ReadsFollow
    BY <1>6 DEF FInv, DatesOnce
  <2> QED
    BY <1>1, <2>1 DEF ReadsFollow
<1> QED
  BY <1>2, <1>3, <1>4, <1>5, <1>6 DEF FInv

\* A step of a request that ends it and writes.
LEMMA CommitFollows ==
    ASSUME TInv, TInv', FInv, NEW r \in Requests, request' = [request EXCEPT ![r] = Idle], UNCHANGED scenario,
           \A x \in Contracts : contract[x].status # "ABSENT" => contract'[x].status # "ABSENT",
           \A x \in Contracts : Live(contract[x]) /\ ~Live(contract'[x]) => x \in request[r].locked,
           DatesOnce => \A x \in Contracts : contract[x].status # "ABSENT" /\ Live(contract'[x]) =>
               Live(contract[x]) /\ contract'[x].start = contract[x].start /\ contract'[x].end = contract[x].end,
           OriginsExist', DatesOnce => RowsFollow'
    PROVE  FInv'
<1>1. \A q \in Requests : request'[q] = IF q = r THEN Idle ELSE request[q]
  BY DEF TInv, TypeOK
<1>2. Idle.pc = "idle" /\ Idle.locked = {}
  BY DEF Idle
<1>3. \A q \in Requests : request[q].row.renewalOf \in Contracts \cup {None}
                          /\ (request[q].pc # "idle" => request[q].id \in Contracts)
  BY DEF TInv, TypeOK, Reads, RequestState, ContractRow
<1>4. Held'
  BY <1>1, <1>2, <1>3 DEF FInv, Held, Apart
<1>5. Apart'
  BY <1>1, <1>2 DEF FInv, Apart
<1>6. ASSUME DatesOnce' PROVE ReadsFollow'
  <2>1. DatesOnce /\ ReadsFollow
    BY <1>6 DEF FInv, DatesOnce
  <2>2. ASSUME NEW q \in Requests, request'[q].pc # "idle"
        PROVE  q # r /\ request'[q] = request[q]
    BY <1>1, <1>2, <2>2
  <2>3. ASSUME NEW q \in Requests, request'[q].pc = "insert", request'[q].row.renewalOf # None
        PROVE  /\ contract'[request'[q].row.renewalOf].status # "ABSENT"
               /\ Live(contract'[request'[q].row.renewalOf]) =>
                      request'[q].row.start > contract'[request'[q].row.renewalOf].end
    BY <1>3, <2>1, <2>2, <2>3 DEF ReadsFollow
  <2>4. ASSUME NEW q \in Requests, request'[q].pc \in {"updateOrigin", "updateOthers", "update"}
        PROVE  /\ request'[q].start = None /\ request'[q].end = None
               /\ contract'[request'[q].id].status # "ABSENT"
               /\ Live(contract'[request'[q].id]) => request'[q].row.start = contract'[request'[q].id].start
    BY <1>3, <2>1, <2>2, <2>4 DEF ReadsFollow
  <2>5. ASSUME NEW q \in Requests, request'[q].pc \in {"updateOthers", "update"},
               request'[q].row.renewalOf # None
        PROVE  request'[q].row.start > contract'[request'[q].row.renewalOf].end
    <3>1. request'[q] = request[q] /\ Live(contract'[request[q].row.renewalOf])
      BY <1>4, <2>2, <2>5 DEF Held
    <3>2. request[q].row.renewalOf \in Contracts /\ Live(contract[request[q].row.renewalOf])
      BY <1>3, <2>5, <3>1 DEF FInv, Held
    <3>3. contract[request[q].row.renewalOf].status # "ABSENT"
      BY <3>2 DEF Live, ContractStatus
    <3> QED
      BY <2>1, <2>5, <3>1, <3>2, <3>3 DEF ReadsFollow
  <2> QED
    BY <2>3, <2>4, <2>5 DEF ReadsFollow
<1> QED
  BY <1>4, <1>5, <1>6 DEF FInv, DatesOnce

LEMMA FollowsStep == TInv /\ TInv' /\ FInv /\ [Next]_vars => FInv'
<1> SUFFICES ASSUME TInv, TInv', FInv, [Next]_vars PROVE FInv'
  OBVIOUS
<1>0. /\ contract \in Table
      /\ request \in [Requests -> RequestState]
      /\ Reads
      /\ \A r \in Requests : request[r].row \in ContractRow
  BY DEF TInv, TypeOK, Table, RequestState
<1>00. Idle.locked = {} /\ Idle.pc = "idle" /\ Idle.start = None /\ Idle.end = None
  BY DEF Idle
<1>1. CASE UNCHANGED vars
  BY <1>1 DEF vars, FInv, OriginsExist, Held, Apart, DatesOnce, RowsFollow, ReadsFollow
<1>2. ASSUME NEW r \in Requests, NEW c \in Contracts, NEW row \in NewRows, CreateRead(r, c, row) \/ ImportRead(r, c, row)
      PROVE  FInv'
  <2> DEFINE n == [Idle EXCEPT !.pc = "insert", !.id = c, !.row = row]
  <2>1. request' = [request EXCEPT ![r] = n] /\ contract' = contract /\ UNCHANGED scenario
    BY <1>2 DEF CreateRead, ImportRead, RowRead
  <2>2. n.pc = "insert" /\ n.row = row /\ n.locked = {}
    BY DEF Idle
  <2>3. row.renewalOf # None => Live(contract[row.renewalOf])
    BY DEF NewRows, Exists, ExistsIn, Live
  <2>4. DatesOnce /\ row.renewalOf # None => row.start > contract[row.renewalOf].end
    BY <1>2 DEF CreateRead, ImportRead, RowRead, Begin, Follows, DatesOnce
  <2>5. row.renewalOf # None => contract[row.renewalOf].status # "ABSENT"
    BY <2>3 DEF Live, ContractStatus
  <2> HIDE DEF n
  <2> QED
    BY <2>1, <2>2, <2>4, <2>5, ReadFollows
<1>3. ASSUME NEW r \in Requests, InsertCommit(r) PROVE FInv'
  <2> DEFINE q == request[r]
             added == [contract EXCEPT ![q.id] = q.row]
  <2>1. /\ q.id \in Contracts /\ q.row \in ContractRow /\ q.row.renewalOf \in Contracts \cup {None}
        /\ Live(q.row) /\ q.pc = "insert" /\ contract[q.id] = Absent /\ added \in Table
        /\ q.row.renewalOf # None => Live(contract[q.row.renewalOf])
        /\ contract' = Renewed(added, q.row.renewalOf)
        /\ added[q.id] = q.row /\ \A x \in Contracts \ {q.id} : added[x] = contract[x]
    BY <1>0, <1>3 DEF InsertCommit, Reads, ContractRow, Table, Exists, ExistsIn, Live
  <2>2. contract[q.id].status = "ABSENT" /\ ~Live(contract[q.id]) /\ q.row.renewalOf # q.id
    BY <2>1 DEF Absent, Live, ContractStatus, ContractRow
  <2>3. \A x \in Contracts :
          /\ contract'[x].status = IF x = q.row.renewalOf THEN "Terminated" ELSE added[x].status
          /\ contract'[x].start = added[x].start
          /\ contract'[x].end = added[x].end
          /\ contract'[x].renewalOf = added[x].renewalOf
    <3>1. added \in Table /\ q.row.renewalOf \in Contracts \cup {None}
      BY <2>1
    <3> HIDE DEF added, q
    <3> QED
      BY <2>1, <3>1, RenewedIs
  <2>4. "Terminated" \in ContractStatus /\ "ABSENT" \notin ContractStatus
    BY DEF ContractStatus
  <2> HIDE DEF added
  <2>5. \A x \in Contracts \ {q.id} : /\ Live(contract'[x]) <=> Live(contract[x])
                                      /\ contract[x].status # "ABSENT" => contract'[x].status # "ABSENT"
                                      /\ contract'[x].start = contract[x].start
                                      /\ contract'[x].end = contract[x].end
                                      /\ contract'[x].renewalOf = contract[x].renewalOf
    BY <2>1, <2>3, <2>4 DEF Live
  <2>6. /\ contract'[q.id].start = q.row.start /\ contract'[q.id].renewalOf = q.row.renewalOf
    BY <2>1, <2>2, <2>3
  <2>7. request' = [request EXCEPT ![r] = Idle] /\ UNCHANGED scenario
    BY <1>3 DEF InsertCommit
  <2> HIDE DEF q
  <2>8. \A x \in Contracts : contract[x].renewalOf \in Contracts \cup {None}
    BY <1>0 DEF Table, ContractRow
  <2>9. OriginsExist'
    BY <2>1, <2>2, <2>5, <2>6, <2>8 DEF FInv, OriginsExist
  <2>10. ASSUME DatesOnce PROVE RowsFollow'
    <3>1. q.row.renewalOf # None => q.row.start > contract[q.row.renewalOf].end
      BY <2>1, <2>10 DEF FInv, ReadsFollow, q
    <3>2. RowsFollow /\ OriginsExist
      BY <2>10 DEF FInv
    <3> QED
      BY <2>1, <2>2, <2>5, <2>6, <2>8, <3>1, <3>2 DEF RowsFollow, OriginsExist
  <2> QED
    BY <2>1, <2>2, <2>5, <2>7, <2>9, <2>10, CommitFollows
<1>4. ASSUME NEW r \in Requests, NEW c \in Contracts, NEW status, NEW customer, NEW start \in Optional("dates", Days),
             NEW end \in Optional("dates", Days), NEW renewalOf,
             UpdateRead(r, c, status, customer, start, end, renewalOf)
      PROVE  FInv'
  <2> DEFINE pc == IF renewalOf # None THEN "updateOrigin" ELSE "updateOthers"
             row == [contract[c] EXCEPT !.status = Given(status, @), !.customer = Given(customer, @),
                                        !.start = Given(start, @), !.renewalOf = renewalOf]
             n == [Idle EXCEPT !.pc = pc, !.id = c, !.start = start, !.end = end, !.row = row,
                               !.old = contract[c].renewalOf]
  <2>1. request' = [request EXCEPT ![r] = n] /\ contract' = contract /\ UNCHANGED scenario
    BY <1>4 DEF UpdateRead
  <2>2. row.renewalOf = renewalOf /\ row.start = Given(start, contract[c].start)
    BY <1>0 DEF Table, ContractRow
  <2> HIDE DEF row
  <2>3. n.pc = pc /\ n.id = c /\ n.row = row /\ n.locked = {} /\ n.start = start /\ n.end = end
    BY DEF Idle
  <2>4. contract[c].status # "ABSENT"
    BY <1>4 DEF UpdateRead, Exists, ExistsIn, ContractStatus
  <2>5. DatesOnce => start = None /\ end = None /\ row.start = contract[c].start
    BY <2>2 DEF DatesOnce, Optional, Given
  <2> HIDE DEF n
  <2> QED
    BY <2>1, <2>2, <2>3, <2>4, <2>5, ReadFollows
<1>5. ASSUME NEW r \in Requests, UpdateReadOrigin(r) PROVE FInv'
  <2> DEFINE q == request[r]
             n == [q EXCEPT !.pc = "updateOthers", !.locked = {q.row.renewalOf}]
  <2>1. request' = [request EXCEPT ![r] = n] /\ contract' = contract /\ UNCHANGED scenario
    BY <1>5 DEF UpdateReadOrigin
  <2>2. /\ n.pc = "updateOthers" /\ n.id = q.id /\ n.row = q.row /\ n.locked = {q.row.renewalOf}
        /\ n.start = q.start /\ n.end = q.end
    BY <1>0 DEF RequestState
  <2>3. /\ q.pc = "updateOrigin" /\ Live(contract[q.row.renewalOf])
        /\ \A p \in Requests \ {r} : q.row.renewalOf \notin request[p].locked
        /\ q.row.start > contract[q.row.renewalOf].end
    BY <1>5 DEF UpdateReadOrigin, Exists, ExistsIn, Live, Locked, Follows
  <2> HIDE DEF n
  <2>4. DatesOnce => /\ q.start = None /\ q.end = None /\ contract[q.id].status # "ABSENT"
                     /\ Live(contract[q.id]) => q.row.start = contract[q.id].start
    BY <2>3 DEF FInv, ReadsFollow
  <2>5. /\ \A p \in Requests \ {r} : request[p].locked \cap n.locked = {}
        /\ n.row.renewalOf # None => Live(contract[n.row.renewalOf]) /\ n.row.renewalOf \in n.locked
    BY <2>2, <2>3
  <2>6. DatesOnce => /\ n.start = None /\ n.end = None /\ contract[n.id].status # "ABSENT"
                     /\ Live(contract[n.id]) => n.row.start = contract[n.id].start
                     /\ n.row.renewalOf # None => n.row.start > contract[n.row.renewalOf].end
    BY <2>2, <2>3, <2>4
  <2>7. n.pc \notin {"insert", "remove"}
    BY <2>2
  <2> HIDE DEF q
  <2> QED
    BY <2>1, <2>5, <2>6, <2>7, ReadFollows
<1>6. ASSUME NEW r \in Requests, UpdateReadOthers(r) PROVE FInv'
  <2> DEFINE q == request[r]
             reopen == q.old # None /\ q.old # q.row.renewalOf /\ ~Others(q.old, q.id)
             n == [q EXCEPT !.pc = "update", !.reopen = reopen]
  <2>1. request' = [request EXCEPT ![r] = n] /\ contract' = contract /\ UNCHANGED scenario
        /\ q.pc = "updateOthers"
    BY <1>6 DEF UpdateReadOthers
  <2> HIDE DEF reopen
  <2>2. /\ n.pc = "update" /\ n.id = q.id /\ n.row = q.row /\ n.locked = q.locked
        /\ n.start = q.start /\ n.end = q.end
    BY <1>0 DEF RequestState
  <2> HIDE DEF n
  <2>3. /\ q.row.renewalOf # None => Live(contract[q.row.renewalOf]) /\ q.row.renewalOf \in q.locked
        /\ \A p \in Requests \ {r} : request[p].locked \cap q.locked = {}
    BY <2>1 DEF FInv, Held, Apart
  <2>4. DatesOnce => /\ q.start = None /\ q.end = None /\ contract[q.id].status # "ABSENT"
                     /\ Live(contract[q.id]) => q.row.start = contract[q.id].start
                     /\ q.row.renewalOf # None => q.row.start > contract[q.row.renewalOf].end
    BY <2>1 DEF FInv, ReadsFollow
  <2>5. /\ \A p \in Requests \ {r} : request[p].locked \cap n.locked = {}
        /\ n.row.renewalOf # None => Live(contract[n.row.renewalOf]) /\ n.row.renewalOf \in n.locked
    BY <2>2, <2>3
  <2>6. DatesOnce => /\ n.start = None /\ n.end = None /\ contract[n.id].status # "ABSENT"
                     /\ Live(contract[n.id]) => n.row.start = contract[n.id].start
                     /\ n.row.renewalOf # None => n.row.start > contract[n.row.renewalOf].end
    BY <2>2, <2>3, <2>4
  <2>7. n.pc \notin {"insert", "remove"}
    BY <2>2
  <2> HIDE DEF q
  <2> QED
    BY <2>1, <2>5, <2>6, <2>7, ReadFollows
<1>7. ASSUME NEW r \in Requests, UpdateCommit(r) PROVE FInv'
  <2> DEFINE q == request[r]
             origin == q.row.renewalOf
  <2>1. /\ request' = [request EXCEPT ![r] = Idle] /\ UNCHANGED scenario
        /\ q.pc = "update" /\ q.id \in Contracts /\ Live(contract[q.id])
        /\ origin \in Contracts \cup {None}
    BY <1>0, <1>7 DEF UpdateCommit, Reads, ContractRow, Exists, ExistsIn, Live
  <2>2. /\ Live(contract'[q.id])
        /\ contract'[q.id].renewalOf = origin
        /\ contract'[q.id].start = Given(q.start, contract[q.id].start)
        /\ contract'[q.id].end = Given(q.end, contract[q.id].end)
        /\ \A x \in Contracts \ {q.id} :
             /\ Live(contract[x]) \/ x = origin => Live(contract'[x])
             /\ Live(contract'[x]) => Live(contract[x]) \/ x = origin
             /\ contract'[x].status = "ABSENT" => contract[x].status = "ABSENT"
             /\ contract'[x].start = contract[x].start
             /\ contract'[x].end = contract[x].end
             /\ contract'[x].renewalOf = contract[x].renewalOf
    BY <1>7, UpdateIs
  <2>3. origin # None => Live(contract[origin])
    BY <2>1 DEF FInv, Held
  <2>4. \A x \in Contracts : Live(contract'[x]) <=> Live(contract[x])
    BY <2>1, <2>2, <2>3
  <2>5. \A x \in Contracts : contract[x].status # "ABSENT" => contract'[x].status # "ABSENT"
    BY <2>1, <2>2 DEF Live, ContractStatus
  <2>6. DatesOnce => /\ q.start = None /\ q.end = None
                     /\ q.row.start = contract[q.id].start
                     /\ origin # None => q.row.start > contract[origin].end
    BY <2>1 DEF FInv, ReadsFollow
  <2>7. DatesOnce => \A x \in Contracts : contract'[x].start = contract[x].start /\ contract'[x].end = contract[x].end
    BY <2>2, <2>6 DEF Given
  <2> HIDE DEF q, origin
  <2>8. \A x \in Contracts : contract[x].renewalOf \in Contracts \cup {None}
    BY <1>0 DEF Table, ContractRow
  <2>9. OriginsExist'
    BY <2>1, <2>2, <2>3, <2>4, <2>8 DEF FInv, OriginsExist
  <2>10. ASSUME DatesOnce PROVE RowsFollow'
    BY <2>1, <2>2, <2>4, <2>6, <2>7, <2>8, <2>10 DEF FInv, RowsFollow
  <2> QED
    BY <2>1, <2>4, <2>5, <2>7, <2>9, <2>10, CommitFollows
<1>8. ASSUME NEW r \in Requests, NEW c \in Contracts, RemoveRead(r, c) PROVE FInv'
  <2> DEFINE n == [Idle EXCEPT !.pc = "removeDelete", !.id = c, !.old = contract[c].renewalOf]
  <2>1. n.pc = "removeDelete" /\ n.locked = {}
    BY DEF Idle
  <2>2. request' = [request EXCEPT ![r] = n] /\ contract' = contract /\ UNCHANGED scenario
    BY <1>8 DEF RemoveRead
  <2> HIDE DEF n
  <2> QED
    BY <2>1, <2>2, ReadFollows
<1>9. ASSUME NEW r \in Requests, RemoveDelete(r) PROVE FInv'
  <2> DEFINE q == request[r]
             touched == {q.id} \cup RenewalsOf(q.id)
             reopen == q.old # None /\ ~Others(q.old, q.id)
             n == [q EXCEPT !.pc = "remove", !.locked = touched, !.reopen = reopen]
  <2>1. request' = [request EXCEPT ![r] = n] /\ contract' = contract /\ UNCHANGED scenario
    BY <1>9 DEF RemoveDelete
  <2>2. q.id \in touched /\ \A p \in Requests \ {r} : request[p].locked \cap touched = {}
    BY <1>9 DEF RemoveDelete, Locked
  <2> HIDE DEF reopen, touched
  <2>3. n.pc = "remove" /\ n.id = q.id /\ n.locked = touched
    BY <1>0 DEF RequestState
  <2> HIDE DEF n
  <2> QED
    BY <2>1, <2>2, <2>3, ReadFollows
<1>10. ASSUME NEW r \in Requests, RemoveCommit(r) PROVE FInv'
  <2> DEFINE c == request[r].id
  <2>1. /\ request' = [request EXCEPT ![r] = Idle] /\ UNCHANGED scenario
        /\ c \in Contracts /\ c \in request[r].locked
    BY <1>0, <1>10 DEF RemoveCommit, Reads, FInv, Held
  <2>2. /\ contract'[c].status = "REMOVED"
        /\ \A x \in Contracts \ {c} :
             /\ Live(contract[x]) <=> Live(contract'[x])
             /\ contract'[x].status = "ABSENT" => contract[x].status = "ABSENT"
             /\ contract'[x].start = contract[x].start
             /\ contract'[x].end = contract[x].end
             /\ contract'[x].renewalOf = IF contract[x].renewalOf = c THEN None ELSE contract[x].renewalOf
    BY <1>10, RemoveIs
  <2>3. ~Live(contract'[c])
    BY <2>2 DEF Live, ContractStatus
  <2>4. \A x \in Contracts : contract[x].status # "ABSENT" => contract'[x].status # "ABSENT"
    BY <2>2
  <2> HIDE DEF c
  <2>5. \A x \in Contracts : contract[x].renewalOf \in Contracts \cup {None}
    BY <1>0 DEF Table, ContractRow
  <2>6. OriginsExist'
    BY <2>1, <2>2, <2>3, <2>5 DEF FInv, OriginsExist
  <2>7. ASSUME DatesOnce PROVE RowsFollow'
    BY <2>1, <2>2, <2>3, <2>5, <2>7 DEF FInv, RowsFollow, OriginsExist
  <2> QED
    BY <2>1, <2>2, <2>3, <2>4, <2>6, <2>7, CommitFollows
<1>11. ASSUME NEW r \in Requests, NEW c \in Contracts, NEW customer, AssignRead(r, c, customer) PROVE FInv'
  <2> DEFINE row == [contract[c] EXCEPT !.customer = customer]
             n == [Idle EXCEPT !.pc = "assignOverlaps", !.id = c, !.row = row]
  <2>1. n.pc = "assignOverlaps" /\ n.locked = {}
    BY DEF Idle
  <2>2. request' = [request EXCEPT ![r] = n] /\ contract' = contract /\ UNCHANGED scenario
    BY <1>11 DEF AssignRead
  <2> HIDE DEF n
  <2> QED
    BY <2>1, <2>2, ReadFollows
<1>12. ASSUME NEW r \in Requests, AssignReadOverlaps(r) PROVE FInv'
  <2> DEFINE n == [request[r] EXCEPT !.pc = "setCustomer"]
  <2>1. n.pc = "setCustomer" /\ n.locked = request[r].locked
    BY <1>0 DEF RequestState
  <2>2. request' = [request EXCEPT ![r] = n] /\ contract' = contract /\ UNCHANGED scenario
    BY <1>12 DEF AssignReadOverlaps
  <2>3. \A p \in Requests \ {r} : request[p].locked \cap request[r].locked = {}
    BY DEF FInv, Apart
  <2> HIDE DEF n
  <2> QED
    BY <2>1, <2>2, <2>3, ReadFollows
<1>13. ASSUME NEW r \in Requests, NEW c \in Contracts, NEW customer, UnassignRead(r, c, customer) PROVE FInv'
  <2> DEFINE n == [Idle EXCEPT !.pc = "setCustomer", !.id = c]
  <2>1. n.pc = "setCustomer" /\ n.locked = {}
    BY DEF Idle
  <2>2. request' = [request EXCEPT ![r] = n] /\ contract' = contract /\ UNCHANGED scenario
    BY <1>13 DEF UnassignRead
  <2> HIDE DEF n
  <2> QED
    BY <2>1, <2>2, ReadFollows
<1>14. ASSUME NEW r \in Requests, SetCustomer(r) PROVE FInv'
  <2>1. /\ request' = [request EXCEPT ![r] = Idle] /\ UNCHANGED scenario
        /\ contract' = [contract EXCEPT ![request[r].id].customer = request[r].row.customer]
    BY <1>14 DEF SetCustomer
  <2>2. \A x \in Contracts : /\ contract'[x].status = contract[x].status
                             /\ contract'[x].start = contract[x].start
                             /\ contract'[x].end = contract[x].end
                             /\ contract'[x].renewalOf = contract[x].renewalOf
                             /\ contract[x].renewalOf \in Contracts \cup {None}
    BY <1>0, <2>1 DEF Table, ContractRow
  <2>3. OriginsExist' /\ (DatesOnce => RowsFollow')
    BY <2>2 DEF FInv, OriginsExist, RowsFollow, Live
  <2> QED
    BY <2>1, <2>2, <2>3, CommitFollows DEF Live
<1>15. ASSUME NEW r \in Requests, Abort(r) PROVE FInv'
  <2>1. request' = [request EXCEPT ![r] = Idle] /\ UNCHANGED <<contract, scenario>>
    BY <1>15 DEF Abort
  <2>2. OriginsExist' /\ (DatesOnce => RowsFollow')
    BY <2>1 DEF FInv, OriginsExist, RowsFollow
  <2> QED
    BY <2>1, <2>2, CommitFollows
<1> QED
  BY <1>1, <1>2, <1>3, <1>4, <1>5, <1>6, <1>7, <1>8, <1>9, <1>10, <1>11, <1>12, <1>13, <1>14, <1>15
     DEF Next, Insert, Update, Remove, Assign

LEMMA FollowsInvariant == Spec => []FInv
<1>1. Init => FInv
  BY DEF Init, FInv, OriginsExist, Held, Apart, RowsFollow, ReadsFollow, Absent, Idle, Live, ContractStatus
<1> QED
  BY <1>1, FollowsStep, TypeInvariant, PTL DEF Spec

\* However requests interleave, a renewal names a contract that is there, and
\* starts after that one has ended where dates are entered once.
THEOREM RenewalFollowsCorrect == Spec => []RenewalFollows
<1>1. TInv /\ FInv => RenewalFollows
  BY ExistsIsLive DEF FInv, OriginsExist, RowsFollow, DatesOnce, RenewalFollows, Exists, TInv, TypeOK, ContractRow
<1> QED
  BY <1>1, FollowsInvariant, TypeInvariant, PTL

-----------------------------------------------------------------------------
(* One request at a time: what it has read still holds when it writes.      *)

StatusesFixed == "status" \notin scenario.edits
CustomersFixed == scenario.edits \cap {"customer", "dates"} = {}

\* Only requests the scenario names are served.
Named == \A r \in Requests : request[r].pc # "idle" => r \in scenario.requests

\* What the request q has read.
Now(q) ==
    /\ q.pc = "insert" /\ CustomersFixed => q.row.customer = None
    /\ q.pc \in {"updateOrigin", "updateOthers", "update", "removeDelete", "remove"} =>
           q.old = contract[q.id].renewalOf
    /\ q.pc \in {"updateOrigin", "updateOthers", "update"} =>
           /\ StatusesFixed => q.row.status = contract[q.id].status
           /\ CustomersFixed => /\ q.row.customer = contract[q.id].customer
                                /\ q.start = None /\ q.end = None
    /\ q.pc \in {"update", "remove"} /\ q.reopen => RenewalsOf(q.old) \subseteq {q.id}
    /\ q.pc = "update" /\ q.reopen => q.old # q.row.renewalOf
    /\ q.pc = "assignOverlaps" => /\ q.row.start = contract[q.id].start
                                  /\ q.row.end = contract[q.id].end
    /\ q.pc = "setCustomer" /\ q.row.customer # None =>
           Overlaps(q.id, q.row.customer, contract[q.id].start, contract[q.id].end) = {}

ReadsNow == \A r \in Requests : Now(request[r])

\* A request that is not being served has read nothing.
LEMMA IdleNow == \A q : q.pc = "idle" => Now(q)
BY DEF Now

LEMMA NamedStep == TypeOK /\ Named /\ [Next]_vars => Named'
<1> SUFFICES ASSUME TypeOK, Named, [Next]_vars PROVE Named'
  OBVIOUS
<1>1. ASSUME NEW r \in Requests, r \in scenario.requests, NEW n,
             request' = [request EXCEPT ![r] = n], UNCHANGED scenario
      PROVE  Named'
  BY <1>1 DEF Named, TypeOK
<1>2. CASE UNCHANGED vars
  BY <1>2 DEF vars, Named
<1>3. ASSUME NEW r \in Requests, Insert(r) \/ Update(r) \/ Remove(r) \/ Assign(r) \/ Abort(r)
      PROVE  Named'
  <2>1. r \in scenario.requests
    BY <1>3 DEF Named, Insert, CreateRead, ImportRead, RowRead, InsertCommit, Update, UpdateRead,
       UpdateReadOrigin, UpdateReadOthers, UpdateCommit, Remove, RemoveRead, RemoveDelete,
       RemoveCommit, Assign, AssignRead, UnassignRead, AssignReadOverlaps, SetCustomer, Abort, Begin
  <2>2. /\ \A q \in Requests \ {r} : request'[q] = request[q]
        /\ UNCHANGED scenario
    BY <1>3 DEF TypeOK, Insert, CreateRead, ImportRead, RowRead, InsertCommit, Update, UpdateRead,
       UpdateReadOrigin, UpdateReadOthers, UpdateCommit, Remove, RemoveRead, RemoveDelete,
       RemoveCommit, Assign, AssignRead, UnassignRead, AssignReadOverlaps, SetCustomer, Abort
  <2> QED
    BY <2>1, <2>2 DEF Named
<1> QED
  BY <1>2, <1>3 DEF Next

\* Served alone, a request finds the contracts as it read them.
LEMMA ReadsNowStep == OneAtATime /\ TInv /\ Named /\ ReadsNow /\ [Next]_vars => ReadsNow'
<1> SUFFICES ASSUME OneAtATime, TInv, Named, ReadsNow, [Next]_vars PROVE ReadsNow'
  OBVIOUS
<1>0. /\ contract \in Table
      /\ request \in [Requests -> RequestState]
      /\ \A r \in Requests : request[r].row \in ContractRow
  BY DEF TInv, TypeOK, Table, RequestState
<1>a. ASSUME NEW r \in Requests, r \in scenario.requests, NEW n, Now(n)',
             request' = [request EXCEPT ![r] = n]
      PROVE  ReadsNow'
  <2>1. \A q \in Requests \ {r} : request[q].pc = "idle"
    BY <1>a DEF Named, OneAtATime
  <2>2. \A q \in Requests : request'[q] = IF q = r THEN n ELSE request[q]
    BY <1>0, <1>a
  <2>3. \A q : q.pc = "idle" => Now(q)'
    BY DEF Now
  <2> QED
    BY <1>a, <2>1, <2>2, <2>3 DEF ReadsNow
<1>b. Now(Idle)'
  BY DEF Now, Idle
<1>c. \A r \in Requests : request[r].pc # "idle" => r \in scenario.requests
  BY DEF Named
<1>1. CASE UNCHANGED vars
  BY <1>1 DEF vars, ReadsNow, Now, StatusesFixed, CustomersFixed, RenewalsOf, Overlaps, Exists
<1>2. ASSUME NEW r \in Requests, request[r].pc # "idle", request' = [request EXCEPT ![r] = Idle]
      PROVE  ReadsNow'
  BY <1>2, <1>a, <1>b, <1>c
<1>3. ASSUME NEW r \in Requests, NEW c \in Contracts, NEW row \in NewRows,
             CreateRead(r, c, row) \/ ImportRead(r, c, row)
      PROVE  ReadsNow'
  <2>0. PICK n : n = [Idle EXCEPT !.pc = "insert", !.id = c, !.row = row]
    OBVIOUS
  <2>1. /\ request' = [request EXCEPT ![r] = n] /\ r \in scenario.requests
        /\ n.pc = "insert" /\ n.row = row /\ UNCHANGED scenario
    BY <1>3, <2>0 DEF CreateRead, ImportRead, RowRead, Begin, Idle
  <2>2. CustomersFixed => row.customer = None
    BY DEF CustomersFixed, NewRows, Optional
  <2>3. Now(n)'
    BY <2>1, <2>2 DEF Now, CustomersFixed
  <2> QED
    BY <1>a, <2>1, <2>3
<1>4. ASSUME NEW r \in Requests, NEW c \in Contracts, NEW status \in Optional("status", scenario.statuses),
             NEW customer \in Optional("customer", Customers), NEW start \in Optional("dates", Days),
             NEW end \in Optional("dates", Days), NEW renewalOf \in Optional("renewal", Contracts),
             UpdateRead(r, c, status, customer, start, end, renewalOf)
      PROVE  ReadsNow'
  <2> DEFINE pc == IF renewalOf # None THEN "updateOrigin" ELSE "updateOthers"
             row == [contract[c] EXCEPT !.status = Given(status, @), !.customer = Given(customer, @),
                                        !.start = Given(start, @), !.renewalOf = renewalOf]
  <2>0. PICK n : n = [Idle EXCEPT !.pc = pc, !.id = c, !.start = start, !.end = end, !.row = row,
                     !.old = contract[c].renewalOf]
    OBVIOUS
  <2>1. /\ request' = [request EXCEPT ![r] = n] /\ contract' = contract /\ UNCHANGED scenario
        /\ r \in scenario.requests
    BY <1>4, <2>0 DEF UpdateRead, Begin
  <2>2. /\ row.status = Given(status, contract[c].status)
        /\ row.customer = Given(customer, contract[c].customer)
    BY <1>0 DEF Table, ContractRow
  <2> HIDE DEF row
  <2>3. /\ n.pc \in {"updateOrigin", "updateOthers"} /\ n.id = c /\ n.row = row
        /\ n.start = start /\ n.end = end /\ n.old = contract[c].renewalOf
    BY <2>0 DEF Idle
  <2>4. /\ StatusesFixed => row.status = contract[c].status
        /\ CustomersFixed => row.customer = contract[c].customer /\ start = None /\ end = None
    BY <2>2 DEF StatusesFixed, CustomersFixed, Optional, Given
  <2>5. Now(n)'
    BY <2>1, <2>3, <2>4 DEF Now, StatusesFixed, CustomersFixed
  <2> QED
    BY <1>a, <2>1, <2>5
<1>5. ASSUME NEW r \in Requests, UpdateReadOrigin(r)
      PROVE  ReadsNow'
  <2> DEFINE q == request[r]
  <2>0. PICK n : n = [q EXCEPT !.pc = "updateOthers", !.locked = {q.row.renewalOf}]
    OBVIOUS
  <2>1. /\ request' = [request EXCEPT ![r] = n] /\ contract' = contract /\ UNCHANGED scenario
        /\ q.pc = "updateOrigin"
    BY <1>5, <2>0 DEF UpdateReadOrigin
  <2>2. /\ n.pc = "updateOthers" /\ n.id = q.id /\ n.row = q.row /\ n.old = q.old
        /\ n.start = q.start /\ n.end = q.end
    BY <1>0, <2>0 DEF RequestState
  <2>3. Now(q) /\ q.pc # "idle"
    BY <2>1 DEF ReadsNow
  <2> HIDE DEF q
  <2>4. Now(n)'
    BY <2>1, <2>2, <2>3 DEF Now, StatusesFixed, CustomersFixed
  <2> QED
    BY <1>a, <1>c, <2>1, <2>3, <2>4 DEF q
<1>6. ASSUME NEW r \in Requests, UpdateReadOthers(r)
      PROVE  ReadsNow'
  <2> DEFINE q == request[r]
             reopen == q.old # None /\ q.old # q.row.renewalOf /\ ~Others(q.old, q.id)
  <2>0. PICK n : n = [q EXCEPT !.pc = "update", !.reopen = reopen]
    OBVIOUS
  <2>1. /\ request' = [request EXCEPT ![r] = n] /\ contract' = contract /\ UNCHANGED scenario
        /\ q.pc = "updateOthers"
    BY <1>6, <2>0 DEF UpdateReadOthers
  <2>2. /\ n.pc = "update" /\ n.id = q.id /\ n.row = q.row /\ n.old = q.old
        /\ n.start = q.start /\ n.end = q.end /\ n.reopen = reopen
    BY <1>0, <2>0 DEF RequestState
  <2>3. Now(q) /\ q.pc # "idle"
    BY <2>1 DEF ReadsNow
  <2>4. reopen => RenewalsOf(q.old) \subseteq {q.id} /\ q.old # q.row.renewalOf
    BY DEF Others
  <2> HIDE DEF q, reopen
  <2>5. Now(n)'
    BY <2>1, <2>2, <2>3, <2>4 DEF Now, StatusesFixed, CustomersFixed, RenewalsOf, Exists
  <2> QED
    BY <1>a, <1>c, <2>1, <2>3, <2>5 DEF q
<1>7. ASSUME NEW r \in Requests, NEW c \in Contracts, RemoveRead(r, c)
      PROVE  ReadsNow'
  <2>0. PICK n : n = [Idle EXCEPT !.pc = "removeDelete", !.id = c, !.old = contract[c].renewalOf]
    OBVIOUS
  <2>1. /\ request' = [request EXCEPT ![r] = n] /\ contract' = contract /\ r \in scenario.requests
        /\ n.pc = "removeDelete" /\ n.id = c /\ n.old = contract[c].renewalOf
    BY <1>7, <2>0 DEF RemoveRead, Begin, Idle
  <2>2. Now(n)'
    BY <2>1 DEF Now
  <2> QED
    BY <1>a, <2>1, <2>2
<1>8. ASSUME NEW r \in Requests, RemoveDelete(r)
      PROVE  ReadsNow'
  <2> DEFINE q == request[r]
             touched == {q.id} \cup RenewalsOf(q.id)
             reopen == q.old # None /\ ~Others(q.old, q.id)
  <2>0. PICK n : n = [q EXCEPT !.pc = "remove", !.locked = touched, !.reopen = reopen]
    OBVIOUS
  <2>1. request' = [request EXCEPT ![r] = n] /\ contract' = contract /\ q.pc = "removeDelete"
    BY <1>8, <2>0 DEF RemoveDelete
  <2>2. n.pc = "remove" /\ n.id = q.id /\ n.old = q.old /\ n.reopen = reopen
    BY <1>0, <2>0 DEF RequestState
  <2>3. Now(q) /\ q.pc # "idle"
    BY <2>1 DEF ReadsNow
  <2>4. reopen => RenewalsOf(q.old) \subseteq {q.id}
    BY DEF Others
  <2> HIDE DEF q, reopen
  <2>5. Now(n)'
    BY <2>1, <2>2, <2>3, <2>4 DEF Now, RenewalsOf, Exists
  <2> QED
    BY <1>a, <1>c, <2>1, <2>3, <2>5 DEF q
<1>9. ASSUME NEW r \in Requests, NEW c \in Contracts, NEW customer, AssignRead(r, c, customer)
      PROVE  ReadsNow'
  <2> DEFINE row == [contract[c] EXCEPT !.customer = customer]
  <2>0. PICK n : n = [Idle EXCEPT !.pc = "assignOverlaps", !.id = c, !.row = row]
    OBVIOUS
  <2>1. /\ request' = [request EXCEPT ![r] = n] /\ contract' = contract /\ r \in scenario.requests
        /\ n.pc = "assignOverlaps" /\ n.id = c /\ n.row = row
    BY <1>9, <2>0 DEF AssignRead, Begin, Idle
  <2>2. row.start = contract[c].start /\ row.end = contract[c].end
    BY <1>0 DEF Table, ContractRow
  <2> HIDE DEF row
  <2>3. Now(n)'
    BY <2>1, <2>2 DEF Now
  <2> QED
    BY <1>a, <2>1, <2>3
<1>10. ASSUME NEW r \in Requests, AssignReadOverlaps(r)
       PROVE  ReadsNow'
  <2> DEFINE q == request[r]
  <2>0. PICK n : n = [q EXCEPT !.pc = "setCustomer"]
    OBVIOUS
  <2>1. /\ request' = [request EXCEPT ![r] = n] /\ contract' = contract /\ q.pc = "assignOverlaps"
        /\ Overlaps(q.id, q.row.customer, q.row.start, q.row.end) = {}
    BY <1>10, <2>0 DEF AssignReadOverlaps
  <2>2. n.pc = "setCustomer" /\ n.id = q.id /\ n.row = q.row
    BY <1>0, <2>0 DEF RequestState
  <2>3. Now(q) /\ q.pc # "idle"
    BY <2>1 DEF ReadsNow
  <2> HIDE DEF q
  <2>4. Now(n)'
    BY <2>1, <2>2, <2>3 DEF Now, Overlaps, Exists
  <2> QED
    BY <1>a, <1>c, <2>1, <2>3, <2>4 DEF q
<1>11. ASSUME NEW r \in Requests, NEW c \in Contracts, NEW customer, UnassignRead(r, c, customer)
       PROVE  ReadsNow'
  <2>0. PICK n : n = [Idle EXCEPT !.pc = "setCustomer", !.id = c]
    OBVIOUS
  <2>1. /\ request' = [request EXCEPT ![r] = n] /\ r \in scenario.requests
        /\ n.pc = "setCustomer" /\ n.row.customer = None
    BY <1>11, <2>0 DEF UnassignRead, Begin, Idle, Absent
  <2>2. Now(n)'
    BY <2>1 DEF Now
  <2> QED
    BY <1>a, <2>1, <2>2
<1>12. ASSUME NEW r \in Requests,
              InsertCommit(r) \/ UpdateCommit(r) \/ RemoveCommit(r) \/ SetCustomer(r) \/ Abort(r)
       PROVE  ReadsNow'
  BY <1>2, <1>12 DEF InsertCommit, UpdateCommit, RemoveCommit, SetCustomer, Abort
<1> QED
  BY <1>1, <1>3, <1>4, <1>5, <1>6, <1>7, <1>8, <1>9, <1>10, <1>11, <1>12
     DEF Next, Insert, Update, Remove, Assign

\* What clients do is chosen at the start.
LEMMA ScenarioStays == [Next]_vars => UNCHANGED scenario
BY DEF Next, Insert, CreateRead, ImportRead, RowRead, InsertCommit, Update, UpdateRead,
   UpdateReadOrigin, UpdateReadOthers, UpdateCommit, Remove, RemoveRead, RemoveDelete, RemoveCommit,
   Assign, AssignRead, UnassignRead, AssignReadOverlaps, SetCustomer, Abort, vars

SInv == TInv /\ FInv /\ Named /\ (OneAtATime => ReadsNow)

LEMMA SerialInvariant == Spec => []SInv
<1>1. Init => Named /\ (OneAtATime => ReadsNow)
  BY DEF Init, Named, ReadsNow, Now, Idle
<1>2. TInv /\ Named /\ (OneAtATime => ReadsNow) /\ [Next]_vars
         => Named' /\ (OneAtATime' => ReadsNow')
  BY ScenarioStays, NamedStep, ReadsNowStep DEF TInv, OneAtATime
<1> QED
  BY <1>1, <1>2, TypeInvariant, FollowsInvariant, PTL DEF Spec, SInv

\* A step that is no commit leaves the contracts alone.
LEMMA Commits ==
    ASSUME [Next]_vars
    PROVE  \/ contract' = contract
           \/ \E r \in Requests : InsertCommit(r) \/ UpdateCommit(r) \/ RemoveCommit(r) \/ SetCustomer(r)
BY DEF Next, Insert, CreateRead, ImportRead, RowRead, Update, UpdateRead, UpdateReadOrigin,
   UpdateReadOthers, Remove, RemoveRead, RemoveDelete, Assign, AssignRead, UnassignRead,
   AssignReadOverlaps, Abort, vars

\* The table InsertCommit leaves: a new contract, and its origin terminated.
LEMMA InsertIs ==
    ASSUME TInv, NEW r \in Requests, InsertCommit(r)
    PROVE  LET q == request[r] IN
           /\ q.id \in Contracts /\ ~Live(contract[q.id])
           /\ contract'[q.id].customer = q.row.customer
           /\ contract'[q.id].renewalOf = q.row.renewalOf
           /\ \A x \in Contracts :
                contract'[x].status = "Active" =>
                    /\ x # q.row.renewalOf
                    /\ x = q.id \/ contract[x].status = "Active"
           /\ \A x \in Contracts \ {q.id} :
                /\ Live(contract'[x]) <=> Live(contract[x])
                /\ contract'[x].customer = contract[x].customer
                /\ contract'[x].start = contract[x].start
                /\ contract'[x].end = contract[x].end
                /\ contract'[x].renewalOf = contract[x].renewalOf
<1> DEFINE q == request[r]
           added == [contract EXCEPT ![q.id] = q.row]
<1>0. contract \in Table /\ request \in [Requests -> RequestState] /\ Reads
  BY DEF TInv, TypeOK, Table
<1>1. /\ q.id \in Contracts /\ q.row \in ContractRow /\ q.row.renewalOf \in Contracts \cup {None}
      /\ contract[q.id] = Absent /\ added \in Table
      /\ q.row.renewalOf # None => Live(contract[q.row.renewalOf])
      /\ contract' = Renewed(added, q.row.renewalOf)
      /\ added[q.id] = q.row /\ \A x \in Contracts \ {q.id} : added[x] = contract[x]
  BY <1>0 DEF InsertCommit, Reads, RequestState, ContractRow, Table, Exists, ExistsIn, Live
<1>2. ~Live(contract[q.id]) /\ q.row.renewalOf # q.id
  BY <1>1 DEF Absent, Live, ContractStatus, ContractRow
<1> HIDE DEF added, q
<1>3. \A x \in Contracts :
         /\ contract'[x].status = IF x = q.row.renewalOf THEN "Terminated" ELSE added[x].status
         /\ contract'[x].customer = added[x].customer
         /\ contract'[x].start = added[x].start
         /\ contract'[x].end = added[x].end
         /\ contract'[x].renewalOf = added[x].renewalOf
  BY <1>1, RenewedIs
<1>4. "Terminated" \in ContractStatus
  BY DEF ContractStatus
<1> QED
  BY <1>1, <1>2, <1>3, <1>4 DEF Live, q

-----------------------------------------------------------------------------
(* A contract that has been renewed is out of use.                          *)

RenewedInactive ==
    \A c, d \in Contracts :
        contract[c].status = "Active" /\ Live(contract[d]) => contract[d].renewalOf # c

LEMMA InactiveStep ==
    OneAtATime /\ StatusesFixed /\ SInv /\ RenewedInactive /\ [Next]_vars => RenewedInactive'
<1> SUFFICES ASSUME OneAtATime, StatusesFixed, SInv, RenewedInactive, [Next]_vars,
                    NEW c \in Contracts, NEW d \in Contracts,
                    contract'[c].status = "Active", Live(contract'[d]), contract'[d].renewalOf = c
             PROVE  FALSE
  BY DEF RenewedInactive
<1>0. TInv /\ FInv /\ ReadsNow /\ contract \in Table /\ None \notin Contracts
  BY NoneAssumption DEF SInv, TInv, TypeOK, Table
<1>1. contract[c].status = "Active" /\ Live(contract[d]) /\ contract[d].renewalOf = c => FALSE
  BY DEF RenewedInactive
<1>2. ASSUME NEW r \in Requests, InsertCommit(r)
      PROVE  FALSE
  <2> DEFINE q == request[r]
  <2>1. /\ q.id \in Contracts /\ ~Live(contract[q.id])
        /\ contract'[q.id].renewalOf = q.row.renewalOf
        /\ c # q.row.renewalOf /\ (c = q.id \/ contract[c].status = "Active")
        /\ d # q.id => Live(contract[d]) /\ contract[d].renewalOf = c
    BY <1>0, <1>2, InsertIs
  <2> HIDE DEF q
  <2>2. d # q.id
    BY <2>1
  <2>3. c # q.id
    BY <1>0, <2>1, <2>2 DEF FInv, OriginsExist
  <2> QED
    BY <1>1, <2>1, <2>2, <2>3
<1>3. ASSUME NEW r \in Requests, UpdateCommit(r)
      PROVE  FALSE
  <2> DEFINE q == request[r]
             origin == q.row.renewalOf
  <2>1. /\ q.id \in Contracts /\ q.pc = "update" /\ Now(q)
        /\ origin # None => Live(contract[origin])
    BY <1>0, <1>3 DEF UpdateCommit, TInv, Reads, ReadsNow, FInv, Held
  <2>2. /\ contract'[q.id].renewalOf = origin
        /\ contract'[q.id].status = "Active" => q.row.status = "Active" /\ origin # q.id
        /\ c # q.id => (q.reopen /\ c = q.old) \/ (contract[c].status = "Active" /\ c # origin)
        /\ d # q.id => /\ Live(contract[d]) \/ d = origin
                       /\ contract[d].renewalOf = c
    BY <1>0, <1>3, UpdateIs
  <2>3. /\ q.row.status = contract[q.id].status
        /\ q.reopen => q.old # origin /\ RenewalsOf(q.old) \subseteq {q.id}
    BY <2>1 DEF Now
  <2> HIDE DEF q, origin
  <2>4. d # q.id
    BY <2>2, <2>3
  <2>5. Live(contract[d]) /\ contract[d].renewalOf = c
    BY <1>0, <2>1, <2>2, <2>4
  <2>6. c # q.id
    BY <1>1, <2>2, <2>3, <2>5
  <2>7. d \in RenewalsOf(c)
    BY <2>5 DEF RenewalsOf, Exists, ExistsIn, Live
  <2> QED
    BY <1>1, <2>2, <2>3, <2>4, <2>5, <2>6, <2>7
<1>4. ASSUME NEW r \in Requests, RemoveCommit(r)
      PROVE  FALSE
  <2> DEFINE q == request[r]
  <2>1. q.id \in Contracts /\ q.pc = "remove" /\ Now(q)
    BY <1>0, <1>4 DEF RemoveCommit, TInv, Reads, ReadsNow
  <2>2. /\ contract'[q.id].status = "REMOVED"
        /\ c # q.id => contract[c].status = "Active" \/ (q.reopen /\ c = q.old)
        /\ d # q.id => /\ Live(contract[d])
                       /\ c = IF contract[d].renewalOf = q.id THEN None ELSE contract[d].renewalOf
    BY <1>0, <1>4, RemoveIs
  <2>3. q.reopen => RenewalsOf(q.old) \subseteq {q.id}
    BY <2>1 DEF Now
  <2> HIDE DEF q
  <2>4. c # q.id /\ d # q.id
    BY <2>2 DEF Live, ContractStatus
  <2>5. Live(contract[d]) /\ contract[d].renewalOf = c
    BY <1>0, <2>2, <2>4
  <2>6. d \in RenewalsOf(c)
    BY <2>5 DEF RenewalsOf, Exists, ExistsIn, Live
  <2> QED
    BY <1>1, <2>2, <2>3, <2>4, <2>5, <2>6
<1>5. ASSUME NEW r \in Requests, SetCustomer(r)
      PROVE  FALSE
  <2>1. \A x \in Contracts : /\ contract'[x].status = contract[x].status
                             /\ contract'[x].renewalOf = contract[x].renewalOf
    BY <1>0, <1>5 DEF SetCustomer, Table, ContractRow
  <2> QED
    BY <1>1, <2>1 DEF Live
<1>6. CASE contract' = contract
  BY <1>1, <1>6
<1> QED
  BY <1>2, <1>3, <1>4, <1>5, <1>6, Commits

\* Where statuses are not edited by hand and requests are served one at a time, no
\* contract that has been renewed is active: the report neither counts nor lists it, and
\* no TERM order is filed under it.
THEOREM RenewedIsNotReportedCorrect == Spec => []RenewedIsNotReported
<1> DEFINE Inactive == OneAtATime /\ StatusesFixed => RenewedInactive
<1>1. Init => Inactive
  BY DEF Init, RenewedInactive, Absent
<1>2. SInv /\ Inactive /\ [Next]_vars => Inactive'
  BY ScenarioStays, InactiveStep DEF OneAtATime, StatusesFixed
<1>3. SInv /\ Inactive => RenewedIsNotReported
  BY DEF RenewedIsNotReported, StatusesFixed, RenewedInactive, Expiring, Expired, ReportRows,
     ValidContracts, RenewalsOf, Exists, ExistsIn, Live
<1> HIDE DEF Inactive
<1> QED
  BY <1>1, <1>2, <1>3, SerialInvariant, PTL DEF Spec

-----------------------------------------------------------------------------
(* Assigned contracts do not overlap.                                       *)

LEMMA OverlapStep ==
    OneAtATime /\ CustomersFixed /\ SInv /\ NoOverlap /\ [Next]_vars => NoOverlap'
<1> SUFFICES ASSUME OneAtATime, CustomersFixed, SInv, NoOverlap, [Next]_vars,
                    NEW c \in Contracts, NEW d \in Contracts, c # d,
                    Live(contract'[c]), Live(contract'[d]),
                    contract'[c].customer = contract'[d].customer, contract'[c].customer # None,
                    NEW day \in Days,
                    contract'[c].start <= day, day <= contract'[c].end,
                    contract'[d].start <= day, day <= contract'[d].end
             PROVE  FALSE
  BY DEF NoOverlap, On, Exists, ExistsIn, Live
<1>0. TInv /\ FInv /\ ReadsNow /\ contract \in Table
  BY DEF SInv, TInv, TypeOK, Table
<1>1. ASSUME \A x \in {c, d} : /\ Live(contract[x]) /\ contract'[x].customer = contract[x].customer
                               /\ contract'[x].start = contract[x].start
                               /\ contract'[x].end = contract[x].end
      PROVE  FALSE
  BY <1>1 DEF NoOverlap, CustomersFixed, On, Exists, ExistsIn, Live
<1>2. ASSUME NEW r \in Requests, InsertCommit(r)
      PROVE  FALSE
  <2>1. request[r].row.customer = None
    BY <1>0, <1>2 DEF InsertCommit, ReadsNow, Now
  <2>2. c # request[r].id /\ d # request[r].id
    BY <1>0, <1>2, <2>1, InsertIs
  <2> QED
    BY <1>0, <1>1, <1>2, <2>2, InsertIs
<1>3. ASSUME NEW r \in Requests, UpdateCommit(r)
      PROVE  FALSE
  <2> DEFINE q == request[r]
  <2>1. /\ q.id \in Contracts /\ q.pc = "update" /\ Now(q) /\ Live(contract[q.id])
        /\ q.row.renewalOf # None => Live(contract[q.row.renewalOf])
    BY <1>0, <1>3 DEF UpdateCommit, TInv, Reads, ReadsNow, FInv, Held, Exists, ExistsIn, Live
  <2>2. q.row.customer = contract[q.id].customer /\ q.start = None /\ q.end = None
    BY <2>1 DEF Now
  <2>3. /\ contract'[q.id].customer = q.row.customer
        /\ contract'[q.id].start = Given(q.start, contract[q.id].start)
        /\ contract'[q.id].end = Given(q.end, contract[q.id].end)
        /\ \A x \in {c, d} \ {q.id} :
             /\ Live(contract[x]) \/ x = q.row.renewalOf
             /\ contract'[x].customer = contract[x].customer
             /\ contract'[x].start = contract[x].start
             /\ contract'[x].end = contract[x].end
    BY <1>0, <1>3, UpdateIs
  <2> HIDE DEF q
  <2>4. None \notin Contracts
    BY NoneAssumption
  <2> QED
    BY <1>1, <2>1, <2>2, <2>3, <2>4 DEF Given
<1>4. ASSUME NEW r \in Requests, RemoveCommit(r)
      PROVE  FALSE
  <2>1. c # request[r].id /\ d # request[r].id
    BY <1>0, <1>4, RemoveIs DEF Live, ContractStatus
  <2> QED
    BY <1>0, <1>1, <1>4, <2>1, RemoveIs
<1>5. ASSUME NEW r \in Requests, SetCustomer(r)
      PROVE  FALSE
  <2> DEFINE q == request[r]
  <2>1. /\ q.id \in Contracts /\ q.pc = "setCustomer" /\ Now(q)
    BY <1>0, <1>5 DEF SetCustomer, TInv, Reads, ReadsNow
  <2>2. /\ \A x \in Contracts : /\ contract'[x].status = contract[x].status
                                /\ contract'[x].start = contract[x].start
                                /\ contract'[x].end = contract[x].end
        /\ \A x \in Contracts \ {q.id} : contract'[x].customer = contract[x].customer
        /\ contract'[q.id].customer = q.row.customer
    BY <1>0, <1>5, <2>1 DEF SetCustomer, Table, ContractRow
  <2>3. \A x \in Contracts : contract[x].start \in Int /\ contract[x].end \in Int
    BY <1>0 DEF Table, ContractRow
  <2>4. day \in Int
    BY DEF Days
  <2>5. q.row.customer # None =>
           Overlaps(q.id, q.row.customer, contract[q.id].start, contract[q.id].end) = {}
    BY <2>1 DEF Now
  <2> HIDE DEF q
  <2>6. ASSUME NEW x \in {c, d}, NEW y \in {c, d}, x = q.id, y # x
        PROVE  FALSE
    <3>1. y \in Overlaps(q.id, q.row.customer, contract[q.id].start, contract[q.id].end)
      BY <2>1, <2>2, <2>3, <2>4, <2>6 DEF Overlaps, Exists, ExistsIn, Live
    <3>2. q.row.customer # None
      BY <2>2, <2>6
    <3> QED
      BY <2>5, <3>1, <3>2
  <2>7. c # q.id /\ d # q.id
    BY <2>6
  <2> QED
    BY <1>1, <2>2, <2>7 DEF Live
<1>6. CASE contract' = contract
  BY <1>1, <1>6
<1> QED
  BY <1>2, <1>3, <1>4, <1>5, <1>6, Commits

\* A customer who gets contracts by assignment only, one at a time, never has two on the
\* same day, whatever is created, renewed, imported, unassigned and removed besides.
THEOREM NoOverlapCorrect == Spec => []NoOverlap
<1>1. Init => NoOverlap
  BY DEF Init, NoOverlap, Exists, ExistsIn, Absent, ContractStatus
<1>2. SInv /\ NoOverlap /\ [Next]_vars => NoOverlap'
  <2> SUFFICES ASSUME SInv, NoOverlap, [Next]_vars PROVE NoOverlap'
    OBVIOUS
  <2>1. CASE OneAtATime /\ CustomersFixed
    BY <2>1, OverlapStep
  <2>2. CASE ~(OneAtATime /\ CustomersFixed)
    BY <2>2, ScenarioStays DEF NoOverlap, OneAtATime, CustomersFixed
  <2> QED
    BY <2>1, <2>2
<1> QED
  BY <1>1, <1>2, SerialInvariant, PTL DEF Spec
=============================================================================
