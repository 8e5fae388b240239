-------------------- MODULE SettlementAllocation_proofs --------------------
(***************************************************************************)
(* Proofs about SettlementAllocation, for any numbers of settlements, bank *)
(* transactions and requests: types, the status of a settlement, the locks *)
(* of confirmTransaction, and the ledger that confirmations implement.     *)
(***************************************************************************)
EXTENDS SettlementAllocation, SumTheorems, TLAPS

USE MaxAmountAssumption, NoneAssumption

-----------------------------------------------------------------------------
\* A request that is not being served is a request state.
LEMMA IdleType == Idle \in RequestState
  BY DEF Idle, RequestState, NoItems, Pcs, BankTxnMatchStatus

\* The empty tables have the types of TypeOK.
LEMMA TypeInit == Init => TypeOK
<1> SUFFICES ASSUME Init PROVE TypeOK
  OBVIOUS
<1>1. settlement \in [Settlements -> SettlementRow]
  BY DEF Init, SettlementRow
<1>2. bankTxn \in [BankTxns -> BankTxnRow]
  BY DEF Init, BankTxnRow, BankTxnDirection
<1>3. allocated \in [BankTxns \X Settlements -> 0 .. MaxAmount]
  BY DEF Init
<1>4. request \in [Requests -> RequestState]
  BY IdleType DEF Init
<1>5. paidByBatch \subseteq BankTxns
  BY DEF Init
<1> QED
  BY <1>1, <1>2, <1>3, <1>4, <1>5 DEF TypeOK

\* An increment keeps the shape of a settlement row and only its total.
LEMMA IncrementedType ==
  ASSUME NEW row \in SettlementRow, NEW amount \in 0 .. MaxAmount
  PROVE  /\ Incremented(row, amount) \in SettlementRow
         /\ Incremented(row, amount).amountSettled = row.amountSettled + amount
         /\ Incremented(row, amount).amountTotal = row.amountTotal
         /\ Incremented(row, amount).status \in {"OPEN", "PARTIAL", "SETTLED"}
<1> DEFINE nextSettled == row.amountSettled + amount
           status == IF nextSettled >= row.amountTotal THEN "SETTLED"
                     ELSE IF nextSettled > 0 THEN "PARTIAL" ELSE "OPEN"
<1>1. nextSettled \in Nat
  BY DEF SettlementRow
<1>2. status \in {"OPEN", "PARTIAL", "SETTLED"}
  OBVIOUS
<1>3. Incremented(row, amount) = [row EXCEPT !.amountSettled = nextSettled, !.status = status]
  BY DEF Incremented
<1> HIDE DEF nextSettled, status
<1>4. Incremented(row, amount) \in SettlementRow
  BY <1>1, <1>2, <1>3 DEF SettlementRow, SettlementStatus
<1>5. Incremented(row, amount).amountSettled = nextSettled
  BY <1>3 DEF SettlementRow
<1>6. Incremented(row, amount).amountTotal = row.amountTotal
  BY <1>3 DEF SettlementRow
<1>7. Incremented(row, amount).status = status
  BY <1>3 DEF SettlementRow
<1> QED
  BY <1>2, <1>4, <1>5, <1>6, <1>7 DEF nextSettled

\* ... and its status follows from its amounts, when the amount is not nothing.
LEMMA IncrementedStatus ==
  ASSUME NEW row \in SettlementRow, NEW amount \in 0 .. MaxAmount, amount > 0
  PROVE  LET next == Incremented(row, amount) IN
           /\ next.status = "SETTLED" <=> next.amountSettled >= next.amountTotal
           /\ next.status = "OPEN" <=> next.amountSettled = 0
<1> DEFINE nextSettled == row.amountSettled + amount
           status == IF nextSettled >= row.amountTotal THEN "SETTLED"
                     ELSE IF nextSettled > 0 THEN "PARTIAL" ELSE "OPEN"
<1>1. nextSettled \in Nat /\ nextSettled > 0 /\ row.amountTotal \in Nat
  BY DEF SettlementRow
<1>2. Incremented(row, amount) = [row EXCEPT !.amountSettled = nextSettled, !.status = status]
  BY DEF Incremented
<1>3. Incremented(row, amount).status = status
  BY <1>2 DEF SettlementRow
<1> QED
  BY <1>1, <1>3, IncrementedType

\* Every step of every handler keeps the types.
LEMMA TypeStep == TypeOK /\ RequestOK /\ [Next]_vars => TypeOK'
<1> SUFFICES ASSUME TypeOK, RequestOK, [Next]_vars PROVE TypeOK'
  OBVIOUS
<1> USE DEF TypeOK
<1>1. ASSUME NEW s \in Settlements, NEW total \in Amounts, CreateSettlement(s, total)
      PROVE  TypeOK'
  BY <1>1 DEF CreateSettlement, SettlementRow, SettlementStatus, Amounts
<1>2. ASSUME NEW t \in BankTxns, NEW d \in BankTxnDirection, NEW amount \in Amounts,
             ImportTxn(t, d, amount)
      PROVE  TypeOK'
  BY <1>2 DEF ImportTxn, BankTxnRow, BankTxnMatchStatus, Amounts
<1>3. ASSUME NEW r \in Requests, Abort(r) PROVE TypeOK'
  BY <1>3, IdleType DEF Abort
<1>4. ASSUME NEW r \in Requests, NEW s \in Settlements, NEW t \in BankTxns,
             NEW amount \in Amounts, AllocateReadSettlement(r, s, t, amount)
      PROVE  TypeOK'
  <2>1. [NoItems EXCEPT ![s] = amount] \in [Settlements -> 0 .. MaxAmount]
    BY DEF NoItems, Amounts
  <2>2. settlement[s].amountSettled \in Nat
    BY DEF SettlementRow
  <2>3. request'[r] \in RequestState
    BY <1>4, <2>1, <2>2, IdleType DEF AllocateReadSettlement, RequestState, Pcs
  <2> QED
    BY <1>4, <2>3 DEF AllocateReadSettlement
<1>5. ASSUME NEW r \in Requests, AllocateReadTxn(r) PROVE TypeOK'
  <2> DEFINE match == MatchStatusFor(
                 TxnAllocated(request[r].txn) + request[r].items[request[r].cur],
                 bankTxn[request[r].txn].amount)
             row == [request[r] EXCEPT !.pc = "allocateWrite", !.nextMatch = match]
  <2>1. match \in BankTxnMatchStatus
    BY DEF MatchStatusFor, BankTxnMatchStatus
  <2>2. row \in RequestState
    BY <2>1 DEF RequestState, Pcs
  <2>3. request' = [request EXCEPT ![r] = row]
    BY <1>5 DEF AllocateReadTxn, RequestState
  <2> QED
    BY <1>5, <2>2, <2>3 DEF AllocateReadTxn
<1>6. ASSUME NEW r \in Requests, AllocateWrite(r) PROVE TypeOK'
  <2> DEFINE q == request[r]
  <2>1. /\ q.cur \in Settlements
        /\ q.txn \in BankTxns
        /\ q.items[q.cur] \in 0 .. MaxAmount
        /\ q.settledRead \in Nat
        /\ q.nextMatch \in BankTxnMatchStatus
    BY <1>6 DEF RequestOK, RequestState, AllocateWrite
  <2>2. allocated' \in [BankTxns \X Settlements -> 0 .. MaxAmount]
    BY <1>6, <2>1 DEF AllocateWrite
  <2>3. settlement' \in [Settlements -> SettlementRow]
    BY <1>6, <2>1 DEF AllocateWrite, SettlementRow, SettlementStatus
  <2>4. bankTxn' \in [BankTxns -> BankTxnRow]
    BY <1>6, <2>1 DEF AllocateWrite, BankTxnRow
  <2> QED
    BY <1>6, <2>2, <2>3, <2>4, IdleType DEF AllocateWrite
<1>7. ASSUME NEW r \in Requests, NEW t \in BankTxns,
             NEW items \in [Settlements -> 0 .. MaxAmount], ConfirmRead(r, t, items)
      PROVE  TypeOK'
  BY <1>7, IdleType DEF ConfirmRead, Confirmable, RequestState, Pcs
<1>8. ASSUME NEW r \in Requests, NEW s \in Settlements, ConfirmCheckItem(r, s)
      PROVE  TypeOK'
  <2>1. request' = [request EXCEPT ![r] = [request[r] EXCEPT !.pc = "confirmItem", !.cur = s]]
    BY <1>8 DEF ConfirmCheckItem, RequestState
  <2>2. [request[r] EXCEPT !.pc = "confirmItem", !.cur = s] \in RequestState
    BY DEF RequestState, Pcs
  <2> QED
    BY <1>8, <2>1, <2>2 DEF ConfirmCheckItem, Payable
<1>9. ASSUME NEW r \in Requests, ConfirmApplyItem(r) PROVE TypeOK'
  BY <1>9 DEF ConfirmApplyItem, RequestState, RequestOK, Pcs
<1>10. ASSUME NEW r \in Requests, ConfirmCommit(r) PROVE TypeOK'
  <2> DEFINE q == request[r]
  <2>1. q.txn \in BankTxns /\ q.items \in [Settlements -> 0 .. MaxAmount]
    BY <1>10 DEF RequestOK, RequestState, ConfirmCommit
  <2>2. allocated' \in [BankTxns \X Settlements -> 0 .. MaxAmount]
    BY <1>10, <2>1 DEF ConfirmCommit
  <2>3. \A s \in Settlements : Incremented(settlement[s], q.items[s]) \in SettlementRow
    BY <2>1, IncrementedType
  <2>4. settlement' \in [Settlements -> SettlementRow]
    BY <1>10, <2>1, <2>3 DEF ConfirmCommit
  <2>5. bankTxn' \in [BankTxns -> BankTxnRow]
    BY <1>10, <2>1 DEF ConfirmCommit, BankTxnRow, BankTxnMatchStatus, MatchStatusFor
  <2> QED
    BY <1>10, <2>2, <2>4, <2>5, IdleType DEF ConfirmCommit
<1>11. ASSUME NEW r \in Requests, NEW s \in Settlements, VoidRead(r, s) PROVE TypeOK'
  BY <1>11, IdleType DEF VoidRead, RequestState, Pcs
<1>12. ASSUME NEW r \in Requests, VoidWrite(r) PROVE TypeOK'
  <2>1. request[r].cur \in Settlements
    BY <1>12 DEF RequestOK, VoidWrite
  <2>2. settlement' \in [Settlements -> SettlementRow]
    BY <1>12, <2>1 DEF VoidWrite, SettlementRow, SettlementStatus
  <2> QED
    BY <1>12, <2>2, IdleType DEF VoidWrite
<1>13. ASSUME NEW r \in Requests, NEW ids \in (SUBSET BankTxns) \ {{}}, RemoveRead(r, ids)
       PROVE  TypeOK'
  BY <1>13, IdleType DEF RemoveRead, RequestState, Pcs
<1>14. ASSUME NEW r \in Requests, RemoveDelete(r) PROVE TypeOK'
  <2>1. \A t \in BankTxns : [bankTxn[t] EXCEPT !.matchStatus = "DELETED"] \in BankTxnRow
    BY DEF BankTxnRow
  <2>2. bankTxn' \in [BankTxns -> BankTxnRow]
    BY <1>14, <2>1 DEF RemoveDelete
  <2>3. allocated' \in [BankTxns \X Settlements -> 0 .. MaxAmount]
    BY <1>14 DEF RemoveDelete
  <2> QED
    BY <1>14, <2>2, <2>3, IdleType DEF RemoveDelete
<1>16. ASSUME NEW r \in Requests, NEW t \in BankTxns, MatchItemRead(r, t)
       PROVE  TypeOK'
  BY <1>16, IdleType DEF MatchItemRead, RequestState, Pcs
<1>17. ASSUME NEW r \in Requests, MatchItemWrite(r) PROVE TypeOK'
  <2>1. request[r].txn \in BankTxns
    BY <1>17 DEF RequestOK, MatchItemWrite
  <2>2. bankTxn' \in [BankTxns -> BankTxnRow]
    BY <1>17, <2>1 DEF MatchItemWrite, BankTxnRow, BankTxnMatchStatus
  <2> QED
    BY <1>17, <2>1, <2>2, IdleType DEF MatchItemWrite
<1>15. CASE UNCHANGED vars
  BY <1>15 DEF vars
<1> QED
  BY <1>1, <1>2, <1>3, <1>4, <1>5, <1>6, <1>7, <1>8, <1>9, <1>10, <1>11, <1>12, <1>13,
     <1>14, <1>15, <1>16, <1>17 DEF Next, Allocate, ConfirmTransaction, Void, Remove, MatchItem
-----------------------------------------------------------------------------
StillExist == \A x \in Settlements : SettlementExists(x) => SettlementExists(x)'

\* No handler takes a settlement away.
LEMMA ExistsStable ==
  TypeOK /\ RequestOK /\ [Next]_vars
    => \A x \in Settlements : SettlementExists(x) => SettlementExists(x)'
<1> SUFFICES ASSUME TypeOK, RequestOK, [Next]_vars PROVE StillExist
  BY DEF StillExist
<1> USE DEF StillExist, TypeOK, RequestOK, SettlementExists, SettlementRow, RequestState
<1>1. ASSUME NEW s \in Settlements, NEW total \in Amounts, CreateSettlement(s, total)
      PROVE  StillExist
  BY <1>1 DEF CreateSettlement
<1>2. ASSUME NEW t \in BankTxns, NEW d \in BankTxnDirection, NEW amount \in Amounts,
             ImportTxn(t, d, amount)
      PROVE  StillExist
  BY <1>2 DEF ImportTxn
<1>3. ASSUME NEW r \in Requests, Abort(r)
      PROVE  StillExist
  BY <1>3 DEF Abort
<1>4. ASSUME NEW r \in Requests, NEW s \in Settlements, NEW t \in BankTxns,
             NEW amount \in Amounts, AllocateReadSettlement(r, s, t, amount)
      PROVE  StillExist
  BY <1>4 DEF AllocateReadSettlement
<1>5. ASSUME NEW r \in Requests, AllocateReadTxn(r)
      PROVE  StillExist
  BY <1>5 DEF AllocateReadTxn
<1>6. ASSUME NEW r \in Requests, AllocateWrite(r)
      PROVE  StillExist
  BY <1>6 DEF AllocateWrite
<1>7. ASSUME NEW r \in Requests, NEW t \in BankTxns,
             NEW items \in [Settlements -> 0 .. MaxAmount], ConfirmRead(r, t, items)
      PROVE  StillExist
  BY <1>7 DEF ConfirmRead
<1>8. ASSUME NEW r \in Requests, NEW s \in Settlements, ConfirmCheckItem(r, s)
      PROVE  StillExist
  BY <1>8 DEF ConfirmCheckItem
<1>9. ASSUME NEW r \in Requests, ConfirmApplyItem(r)
      PROVE  StillExist
  BY <1>9 DEF ConfirmApplyItem
<1>10. ASSUME NEW r \in Requests, ConfirmCommit(r)
      PROVE  StillExist
  <2>1. request[r].items \in [Settlements -> 0 .. MaxAmount]
    OBVIOUS
  <2>2. \A s \in Settlements :
           Incremented(settlement[s], request[r].items[s]).status \in {"OPEN", "PARTIAL", "SETTLED"}
    BY <2>1, IncrementedType DEF SettlementRow
  <2> QED
    BY <1>10, <2>2 DEF ConfirmCommit
<1>11. ASSUME NEW r \in Requests, NEW s \in Settlements, VoidRead(r, s)
      PROVE  StillExist
  BY <1>11 DEF VoidRead
<1>12. ASSUME NEW r \in Requests, VoidWrite(r)
      PROVE  StillExist
  BY <1>12 DEF VoidWrite
<1>13. ASSUME NEW r \in Requests, NEW ids \in (SUBSET BankTxns) \ {{}}, RemoveRead(r, ids)
      PROVE  StillExist
  BY <1>13 DEF RemoveRead
<1>14. ASSUME NEW r \in Requests, RemoveDelete(r)
      PROVE  StillExist
  BY <1>14 DEF RemoveDelete
<1>16. ASSUME NEW r \in Requests, NEW t \in BankTxns, MatchItemRead(r, t)
       PROVE  StillExist
  BY <1>16 DEF MatchItemRead
<1>17. ASSUME NEW r \in Requests, MatchItemWrite(r)
       PROVE  StillExist
  BY <1>17 DEF MatchItemWrite
<1>15. CASE UNCHANGED vars
  BY <1>15 DEF vars
<1> QED
  BY <1>1, <1>2, <1>3, <1>4, <1>5, <1>6, <1>7,
     <1>8, <1>9, <1>10, <1>11, <1>12, <1>13, <1>14, <1>15, <1>16, <1>17
  DEF Next, Allocate, ConfirmTransaction, Void, Remove, MatchItem

\* A request keeps working on rows that exist.
LEMMA RequestStep == TypeOK /\ RequestOK /\ [Next]_vars => RequestOK'
<1> SUFFICES ASSUME TypeOK, RequestOK, [Next]_vars PROVE RequestOK'
  OBVIOUS
<1> USE DEF TypeOK, RequestOK, RequestState, Idle
<1>1. ASSUME NEW s \in Settlements, NEW total \in Amounts, CreateSettlement(s, total)
      PROVE  RequestOK'
  BY <1>1, ExistsStable DEF CreateSettlement
<1>2. ASSUME NEW t \in BankTxns, NEW d \in BankTxnDirection, NEW amount \in Amounts,
             ImportTxn(t, d, amount)
      PROVE  RequestOK'
  BY <1>2, ExistsStable DEF ImportTxn
<1>3. ASSUME NEW r \in Requests, Abort(r)
      PROVE  RequestOK'
  BY <1>3, ExistsStable DEF Abort
<1>4. ASSUME NEW r \in Requests, NEW s \in Settlements, NEW t \in BankTxns,
             NEW amount \in Amounts, AllocateReadSettlement(r, s, t, amount)
      PROVE  RequestOK'
  <2> DEFINE row == [Idle EXCEPT !.pc = "allocateTxn", !.txn = t, !.cur = s,
                                 !.items = [NoItems EXCEPT ![s] = amount],
                                 !.settledRead = settlement[s].amountSettled]
  <2>1. row.items[s] = amount /\ amount > 0
    BY DEF NoItems, Amounts
  <2>2. request' = [request EXCEPT ![r] = row]
    BY <1>4 DEF AllocateReadSettlement
  <2>3. SettlementExists(s)'
    BY <1>4, ExistsStable DEF AllocateReadSettlement, SettlementExists
  <2> QED
    BY <1>4, <2>1, <2>2, <2>3, ExistsStable
<1>5. ASSUME NEW r \in Requests, AllocateReadTxn(r)
      PROVE  RequestOK'
  <2> DEFINE match == MatchStatusFor(
                 TxnAllocated(request[r].txn) + request[r].items[request[r].cur],
                 bankTxn[request[r].txn].amount)
             row == [request[r] EXCEPT !.pc = "allocateWrite", !.nextMatch = match]
  <2>1. match \in {"MANUAL_MATCHED", "PARTIAL_MATCHED"}
    BY DEF MatchStatusFor
  <2>2. request' = [request EXCEPT ![r] = row]
    BY <1>5 DEF AllocateReadTxn
  <2>3. request[r].pc = "allocateTxn"
    BY <1>5 DEF AllocateReadTxn
  <2> HIDE DEF match
  <2> QED
    BY <1>5, <2>1, <2>2, <2>3, ExistsStable
<1>6. ASSUME NEW r \in Requests, AllocateWrite(r)
      PROVE  RequestOK'
  BY <1>6, ExistsStable DEF AllocateWrite
<1>7. ASSUME NEW r \in Requests, NEW t \in BankTxns,
             NEW items \in [Settlements -> 0 .. MaxAmount], ConfirmRead(r, t, items)
      PROVE  RequestOK'
  BY <1>7, ExistsStable DEF ConfirmRead
<1>8. ASSUME NEW r \in Requests, NEW s \in Settlements, ConfirmCheckItem(r, s)
      PROVE  RequestOK'
  <2> DEFINE row == [request[r] EXCEPT !.pc = "confirmItem", !.cur = s]
  <2>1. request' = [request EXCEPT ![r] = row]
    BY <1>8 DEF ConfirmCheckItem
  <2>2. /\ request[r].pc = "confirm"
        /\ request[r].items[s] > 0
        /\ SettlementExists(s)
    BY <1>8 DEF ConfirmCheckItem, Payable, SettlementExists
  <2> QED
    BY <1>8, <2>1, <2>2, ExistsStable
<1>9. ASSUME NEW r \in Requests, ConfirmApplyItem(r)
      PROVE  RequestOK'
  BY <1>9, ExistsStable DEF ConfirmApplyItem
<1>10. ASSUME NEW r \in Requests, ConfirmCommit(r)
      PROVE  RequestOK'
  BY <1>10, ExistsStable DEF ConfirmCommit
<1>11. ASSUME NEW r \in Requests, NEW s \in Settlements, VoidRead(r, s)
      PROVE  RequestOK'
  BY <1>11, ExistsStable DEF VoidRead
<1>12. ASSUME NEW r \in Requests, VoidWrite(r)
      PROVE  RequestOK'
  BY <1>12, ExistsStable DEF VoidWrite
<1>13. ASSUME NEW r \in Requests, NEW ids \in (SUBSET BankTxns) \ {{}}, RemoveRead(r, ids)
      PROVE  RequestOK'
  BY <1>13, ExistsStable DEF RemoveRead
<1>14. ASSUME NEW r \in Requests, RemoveDelete(r)
      PROVE  RequestOK'
  BY <1>14, ExistsStable DEF RemoveDelete
<1>16. ASSUME NEW r \in Requests, NEW t \in BankTxns, MatchItemRead(r, t)
       PROVE  RequestOK'
  BY <1>16, ExistsStable DEF MatchItemRead
<1>17. ASSUME NEW r \in Requests, MatchItemWrite(r)
       PROVE  RequestOK'
  BY <1>17, ExistsStable DEF MatchItemWrite
<1>15. CASE UNCHANGED vars
  BY <1>15, ExistsStable DEF vars
<1> QED
  BY <1>1, <1>2, <1>3, <1>4, <1>5, <1>6, <1>7,
     <1>8, <1>9, <1>10, <1>11, <1>12, <1>13, <1>14, <1>15, <1>16, <1>17
  DEF Next, Allocate, ConfirmTransaction, Void, Remove, MatchItem

\* Two open confirmations never hold the same settlement, nor a payment that is there.
LEMMA LocksStep == TypeOK /\ RequestOK /\ LocksOK /\ [Next]_vars => LocksOK'
<1> SUFFICES ASSUME TypeOK, RequestOK, LocksOK, [Next]_vars PROVE LocksOK'
  OBVIOUS
<1> USE DEF TypeOK, RequestOK, LocksOK, RequestState, Idle
<1>1. ASSUME NEW s \in Settlements, NEW total \in Amounts, CreateSettlement(s, total)
      PROVE  LocksOK'
  BY <1>1, ExistsStable DEF CreateSettlement
<1>2. ASSUME NEW t \in BankTxns, NEW d \in BankTxnDirection, NEW amount \in Amounts,
             ImportTxn(t, d, amount)
      PROVE  LocksOK'
  BY <1>2, ExistsStable DEF ImportTxn
<1>3. ASSUME NEW r \in Requests, Abort(r)
      PROVE  LocksOK'
  BY <1>3, ExistsStable DEF Abort
<1>4. ASSUME NEW r \in Requests, NEW s \in Settlements, NEW t \in BankTxns,
             NEW amount \in Amounts, AllocateReadSettlement(r, s, t, amount)
      PROVE  LocksOK'
  BY <1>4, ExistsStable DEF AllocateReadSettlement
<1>5. ASSUME NEW r \in Requests, AllocateReadTxn(r)
      PROVE  LocksOK'
  BY <1>5, ExistsStable DEF AllocateReadTxn
<1>6. ASSUME NEW r \in Requests, AllocateWrite(r)
      PROVE  LocksOK'
  <2> DEFINE t == request[r].txn
             s == request[r].cur
  <2>1. request[r].written = {} /\ t \in BankTxns /\ s \in Settlements
    BY <1>6 DEF AllocateWrite
  <2>2. \A q \in Requests : s \notin request[q].written
    BY <1>6, <2>1 DEF AllocateWrite, SettlementLocked
  <2>3. request' = [request EXCEPT ![r] = Idle]
    BY <1>6 DEF AllocateWrite
  <2>4. \A q \in Requests : request'[q].written # {} => request'[q] = request[q]
    BY <2>3
  <2>5. allocated' = [allocated EXCEPT ![<<t, s>>] = request[r].items[s]]
    BY <1>6 DEF AllocateWrite
  <2>6. \A q \in Requests : \A z \in request[q].written :
            allocated'[<<request[q].txn, z>>] = allocated[<<request[q].txn, z>>]
    BY <2>1, <2>2, <2>5
  <2> QED
    BY <2>3, <2>4, <2>6, ExistsStable
<1>7. ASSUME NEW r \in Requests, NEW t \in BankTxns,
             NEW items \in [Settlements -> 0 .. MaxAmount], ConfirmRead(r, t, items)
      PROVE  LocksOK'
  BY <1>7, ExistsStable DEF ConfirmRead
<1>8. ASSUME NEW r \in Requests, NEW s \in Settlements, ConfirmCheckItem(r, s)
      PROVE  LocksOK'
  BY <1>8, ExistsStable DEF ConfirmCheckItem
<1>9. ASSUME NEW r \in Requests, ConfirmApplyItem(r)
      PROVE  LocksOK'
  BY <1>9, ExistsStable DEF ConfirmApplyItem
<1>10. ASSUME NEW r \in Requests, ConfirmCommit(r)
      PROVE  LocksOK'
  BY <1>10, ExistsStable DEF ConfirmCommit
<1>11. ASSUME NEW r \in Requests, NEW s \in Settlements, VoidRead(r, s)
      PROVE  LocksOK'
  BY <1>11, ExistsStable DEF VoidRead
<1>12. ASSUME NEW r \in Requests, VoidWrite(r)
      PROVE  LocksOK'
  BY <1>12, ExistsStable DEF VoidWrite
<1>13. ASSUME NEW r \in Requests, NEW ids \in (SUBSET BankTxns) \ {{}}, RemoveRead(r, ids)
      PROVE  LocksOK'
  BY <1>13, ExistsStable DEF RemoveRead
<1>14. ASSUME NEW r \in Requests, RemoveDelete(r)
      PROVE  LocksOK'
  BY <1>14, ExistsStable DEF RemoveDelete
<1>16. ASSUME NEW r \in Requests, NEW t \in BankTxns, MatchItemRead(r, t)
       PROVE  LocksOK'
  BY <1>16, ExistsStable DEF MatchItemRead
<1>17. ASSUME NEW r \in Requests, MatchItemWrite(r)
       PROVE  LocksOK'
  BY <1>17, ExistsStable DEF MatchItemWrite
<1>15. CASE UNCHANGED vars
  BY <1>15, ExistsStable DEF vars
<1> QED
  BY <1>1, <1>2, <1>3, <1>4, <1>5, <1>6, <1>7,
     <1>8, <1>9, <1>10, <1>11, <1>12, <1>13, <1>14, <1>15, <1>16, <1>17
  DEF Next, Allocate, ConfirmTransaction, Void, Remove, MatchItem

\* A settlement is only paid once it exists.
LEMMA AbsentStep == TypeOK /\ RequestOK /\ LocksOK /\ AbsentUnpaid /\ [Next]_vars => AbsentUnpaid'
<1> SUFFICES ASSUME TypeOK, RequestOK, LocksOK, AbsentUnpaid, [Next]_vars PROVE AbsentUnpaid'
  OBVIOUS
<1> USE DEF TypeOK, RequestOK, LocksOK, AbsentUnpaid, RequestState, SettlementRow, SettlementExists
<1>1. ASSUME NEW s \in Settlements, NEW total \in Amounts, CreateSettlement(s, total)
      PROVE  AbsentUnpaid'
  BY <1>1 DEF CreateSettlement
<1>2. ASSUME NEW t \in BankTxns, NEW d \in BankTxnDirection, NEW amount \in Amounts,
             ImportTxn(t, d, amount)
      PROVE  AbsentUnpaid'
  BY <1>2 DEF ImportTxn
<1>3. ASSUME NEW r \in Requests, Abort(r)
      PROVE  AbsentUnpaid'
  BY <1>3 DEF Abort
<1>4. ASSUME NEW r \in Requests, NEW s \in Settlements, NEW t \in BankTxns,
             NEW amount \in Amounts, AllocateReadSettlement(r, s, t, amount)
      PROVE  AbsentUnpaid'
  BY <1>4 DEF AllocateReadSettlement
<1>5. ASSUME NEW r \in Requests, AllocateReadTxn(r)
      PROVE  AbsentUnpaid'
  BY <1>5 DEF AllocateReadTxn
<1>6. ASSUME NEW r \in Requests, AllocateWrite(r)
      PROVE  AbsentUnpaid'
  BY <1>6 DEF AllocateWrite
<1>7. ASSUME NEW r \in Requests, NEW t \in BankTxns,
             NEW items \in [Settlements -> 0 .. MaxAmount], ConfirmRead(r, t, items)
      PROVE  AbsentUnpaid'
  BY <1>7 DEF ConfirmRead
<1>8. ASSUME NEW r \in Requests, NEW s \in Settlements, ConfirmCheckItem(r, s)
      PROVE  AbsentUnpaid'
  BY <1>8 DEF ConfirmCheckItem
<1>9. ASSUME NEW r \in Requests, ConfirmApplyItem(r)
      PROVE  AbsentUnpaid'
  BY <1>9 DEF ConfirmApplyItem
<1>10. ASSUME NEW r \in Requests, ConfirmCommit(r)
      PROVE  AbsentUnpaid'
  <2>1. \A s \in Settlements : s \in request[r].written => SettlementExists(s)
    OBVIOUS
  <2>2. \A s \in Settlements : ~SettlementExists(s) => settlement'[s] = settlement[s]
    BY <1>10, <2>1 DEF ConfirmCommit
  <2>3. \A s \in Settlements : SettlementExists(s) => SettlementExists(s)'
    BY ExistsStable
  <2> QED
    BY <2>2, <2>3
<1>11. ASSUME NEW r \in Requests, NEW s \in Settlements, VoidRead(r, s)
      PROVE  AbsentUnpaid'
  BY <1>11 DEF VoidRead
<1>12. ASSUME NEW r \in Requests, VoidWrite(r)
      PROVE  AbsentUnpaid'
  BY <1>12 DEF VoidWrite
<1>13. ASSUME NEW r \in Requests, NEW ids \in (SUBSET BankTxns) \ {{}}, RemoveRead(r, ids)
      PROVE  AbsentUnpaid'
  BY <1>13 DEF RemoveRead
<1>14. ASSUME NEW r \in Requests, RemoveDelete(r)
      PROVE  AbsentUnpaid'
  BY <1>14 DEF RemoveDelete
<1>16. ASSUME NEW r \in Requests, NEW t \in BankTxns, MatchItemRead(r, t)
       PROVE  AbsentUnpaid'
  BY <1>16 DEF MatchItemRead
<1>17. ASSUME NEW r \in Requests, MatchItemWrite(r)
       PROVE  AbsentUnpaid'
  BY <1>17 DEF MatchItemWrite
<1>15. CASE UNCHANGED vars
  BY <1>15 DEF vars
<1> QED
  BY <1>1, <1>2, <1>3, <1>4, <1>5, <1>6, <1>7,
     <1>8, <1>9, <1>10, <1>11, <1>12, <1>13, <1>14, <1>15, <1>16, <1>17
  DEF Next, Allocate, ConfirmTransaction, Void, Remove, MatchItem

\* Each write of a status agrees with the amounts written beside it.
LEMMA StatusStep == TypeOK /\ RequestOK /\ StatusAgrees /\ [Next]_vars => StatusAgrees'
<1> SUFFICES ASSUME TypeOK, RequestOK, StatusAgrees, [Next]_vars PROVE StatusAgrees'
  OBVIOUS
<1> USE DEF TypeOK, RequestOK, StatusAgrees, RequestState, SettlementRow, SettlementExists
<1>1. ASSUME NEW s \in Settlements, NEW total \in Amounts, CreateSettlement(s, total)
      PROVE  StatusAgrees'
  <2>1. total > 0 /\ total \in Nat
    BY DEF Amounts
  <2>2. \A z \in Settlements \ {s} : settlement'[z] = settlement[z]
    BY <1>1 DEF CreateSettlement
  <2>3. settlement'[s] = [status |-> "OPEN", amountTotal |-> total, amountSettled |-> 0]
    BY <1>1 DEF CreateSettlement
  <2> QED
    BY <2>1, <2>2, <2>3
<1>2. ASSUME NEW t \in BankTxns, NEW d \in BankTxnDirection, NEW amount \in Amounts,
             ImportTxn(t, d, amount)
      PROVE  StatusAgrees'
  BY <1>2 DEF ImportTxn
<1>3. ASSUME NEW r \in Requests, Abort(r)
      PROVE  StatusAgrees'
  BY <1>3 DEF Abort
<1>4. ASSUME NEW r \in Requests, NEW s \in Settlements, NEW t \in BankTxns,
             NEW amount \in Amounts, AllocateReadSettlement(r, s, t, amount)
      PROVE  StatusAgrees'
  BY <1>4 DEF AllocateReadSettlement
<1>5. ASSUME NEW r \in Requests, AllocateReadTxn(r)
      PROVE  StatusAgrees'
  BY <1>5 DEF AllocateReadTxn
<1>6. ASSUME NEW r \in Requests, AllocateWrite(r)
      PROVE  StatusAgrees'
  BY <1>6 DEF AllocateWrite
<1>7. ASSUME NEW r \in Requests, NEW t \in BankTxns,
             NEW items \in [Settlements -> 0 .. MaxAmount], ConfirmRead(r, t, items)
      PROVE  StatusAgrees'
  BY <1>7 DEF ConfirmRead
<1>8. ASSUME NEW r \in Requests, NEW s \in Settlements, ConfirmCheckItem(r, s)
      PROVE  StatusAgrees'
  BY <1>8 DEF ConfirmCheckItem
<1>9. ASSUME NEW r \in Requests, ConfirmApplyItem(r)
      PROVE  StatusAgrees'
  BY <1>9 DEF ConfirmApplyItem
<1>10. ASSUME NEW r \in Requests, ConfirmCommit(r)
      PROVE  StatusAgrees'
  <2> DEFINE items == request[r].items
             written == request[r].written
  <2>1. items \in [Settlements -> 0 .. MaxAmount]
    OBVIOUS
  <2>2. ASSUME NEW s \in Settlements, s \in written
        PROVE  LET row == settlement'[s] IN
                 /\ row.status = "SETTLED" <=> row.amountSettled >= row.amountTotal
                 /\ row.status = "OPEN" <=> row.amountSettled = 0
    <3>1. settlement'[s] = Incremented(settlement[s], items[s]) /\ items[s] > 0
      BY <1>10, <2>2 DEF ConfirmCommit
    <3> QED
      BY <3>1, <2>1, IncrementedStatus
  <2>3. \A s \in Settlements \ written : settlement'[s] = settlement[s]
    BY <1>10 DEF ConfirmCommit
  <2> QED
    BY <2>2, <2>3
<1>11. ASSUME NEW r \in Requests, NEW s \in Settlements, VoidRead(r, s)
      PROVE  StatusAgrees'
  BY <1>11 DEF VoidRead
<1>12. ASSUME NEW r \in Requests, VoidWrite(r)
      PROVE  StatusAgrees'
  BY <1>12 DEF VoidWrite
<1>13. ASSUME NEW r \in Requests, NEW ids \in (SUBSET BankTxns) \ {{}}, RemoveRead(r, ids)
      PROVE  StatusAgrees'
  BY <1>13 DEF RemoveRead
<1>14. ASSUME NEW r \in Requests, RemoveDelete(r)
      PROVE  StatusAgrees'
  BY <1>14 DEF RemoveDelete
<1>16. ASSUME NEW r \in Requests, NEW t \in BankTxns, MatchItemRead(r, t)
       PROVE  StatusAgrees'
  BY <1>16 DEF MatchItemRead
<1>17. ASSUME NEW r \in Requests, MatchItemWrite(r)
       PROVE  StatusAgrees'
  BY <1>17 DEF MatchItemWrite
<1>15. CASE UNCHANGED vars
  BY <1>15 DEF vars
<1> QED
  BY <1>1, <1>2, <1>3, <1>4, <1>5, <1>6, <1>7,
     <1>8, <1>9, <1>10, <1>11, <1>12, <1>13, <1>14, <1>15, <1>16, <1>17
  DEF Next, Allocate, ConfirmTransaction, Void, Remove, MatchItem

\* Each payment marks its bank transaction, and only unpaid ones are unmarked.
LEMMA MatchStep == TypeOK /\ RequestOK /\ AllocatedTxnIsMatched /\ [Next]_vars => AllocatedTxnIsMatched'
<1> SUFFICES ASSUME TypeOK, RequestOK, AllocatedTxnIsMatched, [Next]_vars PROVE AllocatedTxnIsMatched'
  OBVIOUS
<1> USE DEF TypeOK, RequestOK, AllocatedTxnIsMatched, RequestState, BankTxnRow
<1>1. ASSUME NEW s \in Settlements, NEW total \in Amounts, CreateSettlement(s, total)
      PROVE  AllocatedTxnIsMatched'
  BY <1>1 DEF CreateSettlement
<1>2. ASSUME NEW t \in BankTxns, NEW d \in BankTxnDirection, NEW amount \in Amounts,
             ImportTxn(t, d, amount)
      PROVE  AllocatedTxnIsMatched'
  BY <1>2 DEF ImportTxn
<1>3. ASSUME NEW r \in Requests, Abort(r)
      PROVE  AllocatedTxnIsMatched'
  BY <1>3 DEF Abort
<1>4. ASSUME NEW r \in Requests, NEW s \in Settlements, NEW t \in BankTxns,
             NEW amount \in Amounts, AllocateReadSettlement(r, s, t, amount)
      PROVE  AllocatedTxnIsMatched'
  BY <1>4 DEF AllocateReadSettlement
<1>5. ASSUME NEW r \in Requests, AllocateReadTxn(r)
      PROVE  AllocatedTxnIsMatched'
  BY <1>5 DEF AllocateReadTxn
<1>6. ASSUME NEW r \in Requests, AllocateWrite(r)
      PROVE  AllocatedTxnIsMatched'
  BY <1>6 DEF AllocateWrite
<1>7. ASSUME NEW r \in Requests, NEW t \in BankTxns,
             NEW items \in [Settlements -> 0 .. MaxAmount], ConfirmRead(r, t, items)
      PROVE  AllocatedTxnIsMatched'
  BY <1>7 DEF ConfirmRead
<1>8. ASSUME NEW r \in Requests, NEW s \in Settlements, ConfirmCheckItem(r, s)
      PROVE  AllocatedTxnIsMatched'
  BY <1>8 DEF ConfirmCheckItem
<1>9. ASSUME NEW r \in Requests, ConfirmApplyItem(r)
      PROVE  AllocatedTxnIsMatched'
  BY <1>9 DEF ConfirmApplyItem
<1>10. ASSUME NEW r \in Requests, ConfirmCommit(r)
      PROVE  AllocatedTxnIsMatched'
  <2> DEFINE t == request[r].txn
             match == MatchStatusFor(ItemsTotal(request[r].items), bankTxn[t].amount)
  <2>1. match \in {"MANUAL_MATCHED", "PARTIAL_MATCHED"} /\ t \in BankTxns
    BY <1>10 DEF MatchStatusFor, ConfirmCommit
  <2>2. bankTxn' = [bankTxn EXCEPT ![t].matchStatus = match, ![t].isConfirmed = TRUE]
    BY <1>10 DEF ConfirmCommit
  <2> HIDE DEF match
  <2>3. bankTxn'[t].matchStatus = match
    BY <2>1, <2>2
  <2>4. \A u \in BankTxns \ {t} :
           /\ bankTxn'[u] = bankTxn[u]
           /\ \A s \in Settlements : allocated'[<<u, s>>] = allocated[<<u, s>>]
    BY <1>10, <2>2 DEF ConfirmCommit
  <2> QED
    BY <2>1, <2>3, <2>4
<1>11. ASSUME NEW r \in Requests, NEW s \in Settlements, VoidRead(r, s)
      PROVE  AllocatedTxnIsMatched'
  BY <1>11 DEF VoidRead
<1>12. ASSUME NEW r \in Requests, VoidWrite(r)
      PROVE  AllocatedTxnIsMatched'
  BY <1>12 DEF VoidWrite
<1>13. ASSUME NEW r \in Requests, NEW ids \in (SUBSET BankTxns) \ {{}}, RemoveRead(r, ids)
      PROVE  AllocatedTxnIsMatched'
  BY <1>13 DEF RemoveRead
<1>14. ASSUME NEW r \in Requests, RemoveDelete(r)
      PROVE  AllocatedTxnIsMatched'
  BY <1>14 DEF RemoveDelete
<1>16. ASSUME NEW r \in Requests, NEW t \in BankTxns, MatchItemRead(r, t)
       PROVE  AllocatedTxnIsMatched'
  BY <1>16 DEF MatchItemRead
<1>17. ASSUME NEW r \in Requests, MatchItemWrite(r)
       PROVE  AllocatedTxnIsMatched'
  BY <1>17 DEF MatchItemWrite
<1>15. CASE UNCHANGED vars
  BY <1>15 DEF vars
<1> QED
  BY <1>1, <1>2, <1>3, <1>4, <1>5, <1>6, <1>7,
     <1>8, <1>9, <1>10, <1>11, <1>12, <1>13, <1>14, <1>15, <1>16, <1>17
  DEF Next, Allocate, ConfirmTransaction, Void, Remove, MatchItem
-----------------------------------------------------------------------------
\* The invariant holds of the empty tables.
LEMMA InvInit == Init => IInv
<1> SUFFICES ASSUME Init PROVE IInv
  OBVIOUS
<1>1. TypeOK
  BY TypeInit
<1>2. RequestOK /\ LocksOK
  BY DEF Init, Idle, RequestOK, LocksOK
<1>3. AbsentUnpaid /\ StatusAgrees
  BY DEF Init, AbsentUnpaid, StatusAgrees
<1>4. AllocatedTxnIsMatched
  BY DEF Init, AllocatedTxnIsMatched
<1> QED
  BY <1>1, <1>2, <1>3, <1>4 DEF IInv

\* The invariant is inductive.
LEMMA InvStep == IInv /\ [Next]_vars => IInv'
  BY TypeStep, RequestStep, LocksStep, AbsentStep, StatusStep, MatchStep DEF IInv

\* The invariant holds in every reachable state.
LEMMA Invariance == Spec => []IInv
  BY InvInit, InvStep, PTL DEF Spec

\* Whatever the interleaving of the requests, the tables keep their shape.
THEOREM TypeCorrect == Spec => []TypeOK
<1>1. IInv => TypeOK
  BY DEF IInv
<1> QED
  BY <1>1, Invariance, PTL

\* The status of a settlement always follows from its amounts, for any number
\* of concurrent allocate, confirmTransaction, void and remove requests.
THEOREM StatusCorrect == Spec => []StatusAgrees
<1>1. IInv => StatusAgrees
  BY DEF IInv
<1> QED
  BY <1>1, Invariance, PTL

\* A bank transaction that pays something never looks unmatched.
THEOREM MatchCorrect == Spec => []AllocatedTxnIsMatched
<1>1. IInv => AllocatedTxnIsMatched
  BY DEF IInv
<1> QED
  BY <1>1, Invariance, PTL

\* While a confirmation is open nobody else updates the settlements it has
\* updated, and its payments are not on the books yet.
THEOREM LockingCorrect == Spec => []LocksOK
<1>1. IInv => LocksOK
  BY DEF IInv
<1> QED
  BY <1>1, Invariance, PTL

-----------------------------------------------------------------------------
(* Confirmations alone implement the ledger: where clients neither call      *)
(* allocate, whose write is absolute, nor remove, which deletes payments.    *)

OnlyConfirms == "allocate" \notin Operations /\ "remove" \notin Operations

NoOtherPayment ==
    \A r \in Requests : request[r].pc \notin {"allocateTxn", "allocateWrite", "removeDelete"}

settledTotals == [s \in Settlements |-> settlement[s].amountSettled]

\* Where clients only confirm and void, no request allocates or removes.
LEMMA NoOtherStep == OnlyConfirms /\ TypeOK /\ NoOtherPayment /\ [Next]_vars => NoOtherPayment'
<1> SUFFICES ASSUME OnlyConfirms, TypeOK, NoOtherPayment, [Next]_vars PROVE NoOtherPayment'
  OBVIOUS
<1> USE DEF TypeOK, NoOtherPayment, RequestState, Idle, OnlyConfirms, Begin
<1>1. ASSUME NEW s \in Settlements, NEW total \in Amounts, CreateSettlement(s, total)
      PROVE  NoOtherPayment'
  BY <1>1 DEF CreateSettlement
<1>2. ASSUME NEW t \in BankTxns, NEW d \in BankTxnDirection, NEW amount \in Amounts,
             ImportTxn(t, d, amount)
      PROVE  NoOtherPayment'
  BY <1>2 DEF ImportTxn
<1>3. ASSUME NEW r \in Requests, Abort(r)
      PROVE  NoOtherPayment'
  BY <1>3 DEF Abort
<1>4. ASSUME NEW r \in Requests, NEW s \in Settlements, NEW t \in BankTxns,
             NEW amount \in Amounts, AllocateReadSettlement(r, s, t, amount)
      PROVE  NoOtherPayment'
  BY <1>4 DEF AllocateReadSettlement
<1>5. ASSUME NEW r \in Requests, AllocateReadTxn(r)
      PROVE  NoOtherPayment'
  BY <1>5 DEF AllocateReadTxn
<1>6. ASSUME NEW r \in Requests, AllocateWrite(r)
      PROVE  NoOtherPayment'
  BY <1>6 DEF AllocateWrite
<1>7. ASSUME NEW r \in Requests, NEW t \in BankTxns,
             NEW items \in [Settlements -> 0 .. MaxAmount], ConfirmRead(r, t, items)
      PROVE  NoOtherPayment'
  BY <1>7 DEF ConfirmRead
<1>8. ASSUME NEW r \in Requests, NEW s \in Settlements, ConfirmCheckItem(r, s)
      PROVE  NoOtherPayment'
  BY <1>8 DEF ConfirmCheckItem
<1>9. ASSUME NEW r \in Requests, ConfirmApplyItem(r)
      PROVE  NoOtherPayment'
  BY <1>9 DEF ConfirmApplyItem
<1>10. ASSUME NEW r \in Requests, ConfirmCommit(r)
      PROVE  NoOtherPayment'
  BY <1>10 DEF ConfirmCommit
<1>11. ASSUME NEW r \in Requests, NEW s \in Settlements, VoidRead(r, s)
      PROVE  NoOtherPayment'
  BY <1>11 DEF VoidRead
<1>12. ASSUME NEW r \in Requests, VoidWrite(r)
      PROVE  NoOtherPayment'
  BY <1>12 DEF VoidWrite
<1>13. ASSUME NEW r \in Requests, NEW ids \in (SUBSET BankTxns) \ {{}}, RemoveRead(r, ids)
      PROVE  NoOtherPayment'
  BY <1>13 DEF RemoveRead
<1>14. ASSUME NEW r \in Requests, RemoveDelete(r)
      PROVE  NoOtherPayment'
  BY <1>14 DEF RemoveDelete
<1>16. ASSUME NEW r \in Requests, NEW t \in BankTxns, MatchItemRead(r, t)
       PROVE  NoOtherPayment'
  BY <1>16 DEF MatchItemRead
<1>17. ASSUME NEW r \in Requests, MatchItemWrite(r)
       PROVE  NoOtherPayment'
  BY <1>17 DEF MatchItemWrite
<1>15. CASE UNCHANGED vars
  BY <1>15 DEF vars
<1> QED
  BY <1>1, <1>2, <1>3, <1>4, <1>5, <1>6, <1>7,
     <1>8, <1>9, <1>10, <1>11, <1>12, <1>13, <1>14, <1>15, <1>16, <1>17
  DEF Next, Allocate, ConfirmTransaction, Void, Remove, MatchItem

\* A commit of confirmTransaction is one payment of the ledger.
LEMMA CommitPays ==
  ASSUME IInv, NEW r \in Requests, ConfirmCommit(r)
  PROVE  Ledger!Next
<1> USE DEF IInv
<1>1. /\ request[r].txn \in BankTxns
      /\ request[r].items \in [Settlements -> 0 .. MaxAmount]
  BY DEF RequestOK, TypeOK, RequestState, ConfirmCommit
<1>t. PICK t \in BankTxns : t = request[r].txn
  BY <1>1
<1>i. PICK items \in [Settlements -> 0 .. MaxAmount] : items = request[r].items
  BY <1>1
<1>2. request[r].written = {s \in Settlements : items[s] > 0}
  BY <1>i DEF ConfirmCommit
<1>3. \A s \in Settlements : items[s] > 0 => allocated[<<t, s>>] = 0
  BY <1>2, <1>t DEF LocksOK
<1>4. allocated' = [p \in BankTxns \X Settlements |->
                      IF p[1] = t /\ items[p[2]] > 0 THEN items[p[2]] ELSE allocated[p]]
  BY <1>2, <1>t, <1>i DEF ConfirmCommit
<1>5. settledTotals' = [s \in Settlements |-> settledTotals[s] + items[s]]
  <2>1. ASSUME NEW s \in Settlements, items[s] > 0
        PROVE  settlement'[s].amountSettled = settlement[s].amountSettled + items[s]
    <3>1. settlement'[s] = Incremented(settlement[s], items[s])
      BY <1>2, <1>i, <2>1 DEF ConfirmCommit
    <3> QED
      BY <3>1, IncrementedType DEF TypeOK
  <2>2. ASSUME NEW s \in Settlements, ~(items[s] > 0)
        PROVE  settlement'[s].amountSettled = settlement[s].amountSettled + items[s]
    <3>1. settlement'[s] = settlement[s] /\ items[s] = 0
      BY <1>2, <1>i, <2>2 DEF ConfirmCommit
    <3> QED
      BY <3>1 DEF TypeOK, SettlementRow
  <2>3. \A s \in Settlements :
           settlement'[s].amountSettled = settlement[s].amountSettled + items[s]
    BY <2>1, <2>2
  <2> QED
    BY <2>3 DEF settledTotals
<1>6. Ledger!Pay(t, items)
  BY <1>3, <1>4, <1>5 DEF Ledger!Pay, settledTotals
<1> QED
  BY <1>6 DEF Ledger!Next

\* Empty tables are an empty ledger.
LEMMA LedgerInit == Init => Ledger!Init
  BY DEF Init, Ledger!Init

\* A step of any handler is a payment of the ledger or leaves it alone.
LEMMA LedgerStep ==
  OnlyConfirms /\ IInv /\ NoOtherPayment /\ [Next]_vars
      => [Ledger!Next]_<<allocated, settledTotals>>
<1> SUFFICES ASSUME OnlyConfirms, IInv, NoOtherPayment, [Next]_vars
             PROVE  [Ledger!Next]_<<allocated, settledTotals>>
  OBVIOUS
<1> USE DEF IInv
<1>1. ASSUME NEW s \in Settlements, NEW total \in Amounts, CreateSettlement(s, total)
      PROVE  [Ledger!Next]_<<allocated, settledTotals>>
  <2>1. settlement'[s].amountSettled = settlement[s].amountSettled
    BY <1>1 DEF CreateSettlement, AbsentUnpaid, TypeOK, SettlementRow
  <2>2. \A z \in Settlements \ {s} : settlement'[z] = settlement[z]
    BY <1>1 DEF CreateSettlement, TypeOK
  <2> QED
    BY <1>1, <2>1, <2>2 DEF CreateSettlement, settledTotals
<1>2. ASSUME NEW t \in BankTxns, NEW d \in BankTxnDirection, NEW amount \in Amounts,
             ImportTxn(t, d, amount)
      PROVE  [Ledger!Next]_<<allocated, settledTotals>>
  BY <1>2 DEF ImportTxn, settledTotals
<1>3. ASSUME NEW r \in Requests, Abort(r)
      PROVE  [Ledger!Next]_<<allocated, settledTotals>>
  BY <1>3 DEF Abort, settledTotals
<1>4. ASSUME NEW r \in Requests, NEW s \in Settlements, NEW t \in BankTxns,
             NEW amount \in Amounts, AllocateReadSettlement(r, s, t, amount)
      PROVE  [Ledger!Next]_<<allocated, settledTotals>>
  BY <1>4 DEF AllocateReadSettlement, Begin, OnlyConfirms
<1>5. ASSUME NEW r \in Requests, AllocateReadTxn(r)
      PROVE  [Ledger!Next]_<<allocated, settledTotals>>
  BY <1>5 DEF AllocateReadTxn, NoOtherPayment
<1>6. ASSUME NEW r \in Requests, AllocateWrite(r)
      PROVE  [Ledger!Next]_<<allocated, settledTotals>>
  BY <1>6 DEF AllocateWrite, NoOtherPayment
<1>7. ASSUME NEW r \in Requests, NEW t \in BankTxns,
             NEW items \in [Settlements -> 0 .. MaxAmount], ConfirmRead(r, t, items)
      PROVE  [Ledger!Next]_<<allocated, settledTotals>>
  BY <1>7 DEF ConfirmRead, settledTotals
<1>8. ASSUME NEW r \in Requests, NEW s \in Settlements, ConfirmCheckItem(r, s)
      PROVE  [Ledger!Next]_<<allocated, settledTotals>>
  BY <1>8 DEF ConfirmCheckItem, settledTotals
<1>9. ASSUME NEW r \in Requests, ConfirmApplyItem(r)
      PROVE  [Ledger!Next]_<<allocated, settledTotals>>
  BY <1>9 DEF ConfirmApplyItem, settledTotals
<1>10. ASSUME NEW r \in Requests, ConfirmCommit(r)
      PROVE  [Ledger!Next]_<<allocated, settledTotals>>
  BY <1>10, CommitPays
<1>11. ASSUME NEW r \in Requests, NEW s \in Settlements, VoidRead(r, s)
      PROVE  [Ledger!Next]_<<allocated, settledTotals>>
  BY <1>11 DEF VoidRead, settledTotals
<1>12. ASSUME NEW r \in Requests, VoidWrite(r)
      PROVE  [Ledger!Next]_<<allocated, settledTotals>>
  <2>1. \A z \in Settlements : settlement'[z].amountSettled = settlement[z].amountSettled
    BY <1>12 DEF VoidWrite, TypeOK, SettlementRow
  <2> QED
    BY <1>12, <2>1 DEF VoidWrite, settledTotals
<1>13. ASSUME NEW r \in Requests, NEW ids \in (SUBSET BankTxns) \ {{}}, RemoveRead(r, ids)
      PROVE  [Ledger!Next]_<<allocated, settledTotals>>
  BY <1>13 DEF RemoveRead, Begin, OnlyConfirms
<1>14. ASSUME NEW r \in Requests, RemoveDelete(r)
      PROVE  [Ledger!Next]_<<allocated, settledTotals>>
  BY <1>14 DEF RemoveDelete, NoOtherPayment
<1>16. ASSUME NEW r \in Requests, NEW t \in BankTxns, MatchItemRead(r, t)
       PROVE  [Ledger!Next]_<<allocated, settledTotals>>
  BY <1>16 DEF MatchItemRead, settledTotals
<1>17. ASSUME NEW r \in Requests, MatchItemWrite(r)
       PROVE  [Ledger!Next]_<<allocated, settledTotals>>
  <2>1. \A z \in Settlements : settlement'[z].amountSettled = settlement[z].amountSettled
    BY <1>17 DEF MatchItemWrite, TypeOK, SettlementRow
  <2> QED
    BY <1>17, <2>1 DEF MatchItemWrite, settledTotals
<1>15. CASE UNCHANGED vars
  BY <1>15 DEF vars, settledTotals
<1> QED
  BY <1>1, <1>2, <1>3, <1>4, <1>5, <1>6, <1>7,
     <1>8, <1>9, <1>10, <1>11, <1>12, <1>13, <1>14, <1>15, <1>16, <1>17 DEF Next, Allocate, ConfirmTransaction, Void, Remove, MatchItem

\* Where payments are made by confirmTransaction only, every interleaving of
\* requests is a sequence of whole payments of the ledger.
THEOREM LedgerCorrect == OnlyConfirms /\ Spec => LedgerSpec
<1> SUFFICES ASSUME OnlyConfirms PROVE Spec => LedgerSpec
  OBVIOUS
<1>1. Init => NoOtherPayment
  BY DEF Init, Idle, NoOtherPayment
<1>2. IInv /\ NoOtherPayment /\ [Next]_vars => NoOtherPayment'
  BY NoOtherStep DEF IInv
<1>3. IInv /\ NoOtherPayment /\ [Next]_vars
         => [Ledger!Next]_<<allocated, [s \in Settlements |-> settlement[s].amountSettled]>>
  BY LedgerStep DEF settledTotals
<1> QED
  BY <1>1, <1>2, <1>3, Invariance, LedgerInit, PTL DEF Spec, LedgerSpec, Ledger!Spec
-----------------------------------------------------------------------------
(* Served one at a time, the checks of allocate and confirmTransaction keep *)
(* the total of a settlement.                                               *)

\* Served alone, a request finds the amounts it read unchanged when it writes.
LEMMA AmountsStep == OneRequest /\ IInv /\ AmountsCurrent /\ [Next]_vars => AmountsCurrent'
<1> SUFFICES ASSUME OneRequest, IInv, AmountsCurrent, [Next]_vars PROVE AmountsCurrent'
  OBVIOUS
<1> USE DEF IInv, TypeOK, RequestOK, LocksOK, AmountsCurrent, OneRequest, RequestState, SettlementRow, Idle
<1>1. ASSUME NEW s \in Settlements, NEW total \in Amounts, CreateSettlement(s, total)
      PROVE  AmountsCurrent'
  BY <1>1, ExistsStable DEF CreateSettlement
<1>2. ASSUME NEW t \in BankTxns, NEW d \in BankTxnDirection, NEW amount \in Amounts,
             ImportTxn(t, d, amount)
      PROVE  AmountsCurrent'
  BY <1>2, ExistsStable DEF ImportTxn
<1>3. ASSUME NEW r \in Requests, Abort(r)
      PROVE  AmountsCurrent'
  BY <1>3, ExistsStable DEF Abort
<1>4. ASSUME NEW r \in Requests, NEW s \in Settlements, NEW t \in BankTxns,
             NEW amount \in Amounts, AllocateReadSettlement(r, s, t, amount)
      PROVE  AmountsCurrent'
  BY <1>4, ExistsStable DEF AllocateReadSettlement
<1>5. ASSUME NEW r \in Requests, AllocateReadTxn(r)
      PROVE  AmountsCurrent'
  <2> DEFINE s == request[r].cur
             match == MatchStatusFor(TxnAllocated(request[r].txn) + request[r].items[s],
                                     bankTxn[request[r].txn].amount)
             row == [request[r] EXCEPT !.pc = "allocateWrite", !.nextMatch = match]
  <2>1. request' = [request EXCEPT ![r] = row] /\ UNCHANGED settlement
    BY <1>5 DEF AllocateReadTxn
  <2>2. request[r].settledRead + request[r].items[s] <= settlement[s].amountTotal
    <3>1. request[r].pc = "allocateTxn" /\ s \in Settlements
      BY <1>5 DEF AllocateReadTxn
    <3>2. request[r].items[s] <= settlement[s].amountTotal - request[r].settledRead
      BY <1>5 DEF AllocateReadTxn, FitsSettlement
    <3>3. /\ request[r].items[s] \in Int
          /\ request[r].settledRead \in Int
          /\ settlement[s].amountTotal \in Int
      BY <3>1
    <3> QED
      BY <3>2, <3>3
  <2>3. request[r].written = {}
    BY <1>5 DEF AllocateReadTxn
  <2>4. request[r].pc = "allocateTxn" /\ request[r].settledRead = settlement[s].amountSettled
    BY <1>5 DEF AllocateReadTxn
  <2> HIDE DEF match
  <2>5. /\ request'[r].pc = "allocateWrite" /\ request'[r].cur = s
        /\ request'[r].settledRead = request[r].settledRead
        /\ request'[r].items = request[r].items /\ request'[r].written = {}
    BY <2>1, <2>3
  <2> QED
    BY <2>1, <2>2, <2>4, <2>5
<1>6. ASSUME NEW r \in Requests, AllocateWrite(r)
      PROVE  AmountsCurrent'
  BY <1>6, ExistsStable DEF AllocateWrite
<1>7. ASSUME NEW r \in Requests, NEW t \in BankTxns,
             NEW items \in [Settlements -> 0 .. MaxAmount], ConfirmRead(r, t, items)
      PROVE  AmountsCurrent'
  BY <1>7, ExistsStable DEF ConfirmRead
<1>8. ASSUME NEW r \in Requests, NEW s \in Settlements, ConfirmCheckItem(r, s)
      PROVE  AmountsCurrent'
  <2> DEFINE row == [request[r] EXCEPT !.pc = "confirmItem", !.cur = s]
  <2>1. request' = [request EXCEPT ![r] = row] /\ UNCHANGED settlement
    BY <1>8 DEF ConfirmCheckItem
  <2>2. settlement[s].amountSettled + request[r].items[s] <= settlement[s].amountTotal
    BY <1>8 DEF ConfirmCheckItem, Payable, FitsSettlement
  <2> QED
    BY <2>1, <2>2
<1>9. ASSUME NEW r \in Requests, ConfirmApplyItem(r)
      PROVE  AmountsCurrent'
  BY <1>9, ExistsStable DEF ConfirmApplyItem
<1>10. ASSUME NEW r \in Requests, ConfirmCommit(r)
      PROVE  AmountsCurrent'
  BY <1>10, ExistsStable DEF ConfirmCommit
<1>11. ASSUME NEW r \in Requests, NEW s \in Settlements, VoidRead(r, s)
      PROVE  AmountsCurrent'
  BY <1>11, ExistsStable DEF VoidRead
<1>12. ASSUME NEW r \in Requests, VoidWrite(r)
      PROVE  AmountsCurrent'
  BY <1>12, ExistsStable DEF VoidWrite
<1>13. ASSUME NEW r \in Requests, NEW ids \in (SUBSET BankTxns) \ {{}}, RemoveRead(r, ids)
      PROVE  AmountsCurrent'
  BY <1>13, ExistsStable DEF RemoveRead
<1>14. ASSUME NEW r \in Requests, RemoveDelete(r)
      PROVE  AmountsCurrent'
  BY <1>14, ExistsStable DEF RemoveDelete
<1>16. ASSUME NEW r \in Requests, NEW t \in BankTxns, MatchItemRead(r, t)
       PROVE  AmountsCurrent'
  BY <1>16, ExistsStable DEF MatchItemRead
<1>17. ASSUME NEW r \in Requests, MatchItemWrite(r)
       PROVE  AmountsCurrent'
  BY <1>17, ExistsStable DEF MatchItemWrite
<1>15. CASE UNCHANGED vars
  BY <1>15 DEF vars
<1> QED
  BY <1>1, <1>2, <1>3, <1>4, <1>5, <1>6, <1>7,
     <1>8, <1>9, <1>10, <1>11, <1>12, <1>13, <1>14, <1>15, <1>16, <1>17
  DEF Next, Allocate, ConfirmTransaction, Void, Remove, MatchItem

\* A payment that fitted what was read fits what is there.
LEMMA OverStep == OneRequest /\ IInv /\ AmountsCurrent /\ NeverOverSettled /\ [Next]_vars => NeverOverSettled'
<1> SUFFICES ASSUME OneRequest, IInv, AmountsCurrent, NeverOverSettled, [Next]_vars PROVE NeverOverSettled'
  OBVIOUS
<1> USE DEF IInv, TypeOK, RequestOK, LocksOK, AmountsCurrent, NeverOverSettled, RequestState, SettlementRow
<1>1. ASSUME NEW s \in Settlements, NEW total \in Amounts, CreateSettlement(s, total)
      PROVE  NeverOverSettled'
  <2>1. settlement'[s].amountSettled = 0 /\ settlement'[s].amountTotal = total
    BY <1>1 DEF CreateSettlement
  <2>2. \A z \in Settlements \ {s} : settlement'[z] = settlement[z]
    BY <1>1 DEF CreateSettlement
  <2> QED
    BY <2>1, <2>2 DEF Amounts
<1>2. ASSUME NEW t \in BankTxns, NEW d \in BankTxnDirection, NEW amount \in Amounts,
             ImportTxn(t, d, amount)
      PROVE  NeverOverSettled'
  BY <1>2 DEF ImportTxn
<1>3. ASSUME NEW r \in Requests, Abort(r)
      PROVE  NeverOverSettled'
  BY <1>3 DEF Abort
<1>4. ASSUME NEW r \in Requests, NEW s \in Settlements, NEW t \in BankTxns,
             NEW amount \in Amounts, AllocateReadSettlement(r, s, t, amount)
      PROVE  NeverOverSettled'
  BY <1>4 DEF AllocateReadSettlement
<1>5. ASSUME NEW r \in Requests, AllocateReadTxn(r)
      PROVE  NeverOverSettled'
  BY <1>5 DEF AllocateReadTxn
<1>6. ASSUME NEW r \in Requests, AllocateWrite(r)
      PROVE  NeverOverSettled'
  BY <1>6 DEF AllocateWrite
<1>7. ASSUME NEW r \in Requests, NEW t \in BankTxns,
             NEW items \in [Settlements -> 0 .. MaxAmount], ConfirmRead(r, t, items)
      PROVE  NeverOverSettled'
  BY <1>7 DEF ConfirmRead
<1>8. ASSUME NEW r \in Requests, NEW s \in Settlements, ConfirmCheckItem(r, s)
      PROVE  NeverOverSettled'
  BY <1>8 DEF ConfirmCheckItem
<1>9. ASSUME NEW r \in Requests, ConfirmApplyItem(r)
      PROVE  NeverOverSettled'
  BY <1>9 DEF ConfirmApplyItem
<1>10. ASSUME NEW r \in Requests, ConfirmCommit(r)
      PROVE  NeverOverSettled'
  <2>1. \A s \in Settlements \ request[r].written : settlement'[s] = settlement[s]
    BY <1>10 DEF ConfirmCommit
  <2>2. ASSUME NEW s \in request[r].written
        PROVE  settlement'[s].amountSettled <= settlement'[s].amountTotal
    <3>1. s \in Settlements /\ request[r].items[s] \in 0 .. MaxAmount
      OBVIOUS
    <3>2. settlement'[s] = Incremented(settlement[s], request[r].items[s])
      BY <1>10, <3>1 DEF ConfirmCommit
    <3>3. /\ settlement'[s].amountSettled = settlement[s].amountSettled + request[r].items[s]
          /\ settlement'[s].amountTotal = settlement[s].amountTotal
      BY <3>1, <3>2, IncrementedType DEF SettlementRow
    <3>4. settlement[s].amountSettled + request[r].items[s] <= settlement[s].amountTotal
      OBVIOUS
    <3> QED
      BY <3>3, <3>4
  <2> QED
    BY <2>1, <2>2
<1>11. ASSUME NEW r \in Requests, NEW s \in Settlements, VoidRead(r, s)
      PROVE  NeverOverSettled'
  BY <1>11 DEF VoidRead
<1>12. ASSUME NEW r \in Requests, VoidWrite(r)
      PROVE  NeverOverSettled'
  BY <1>12 DEF VoidWrite
<1>13. ASSUME NEW r \in Requests, NEW ids \in (SUBSET BankTxns) \ {{}}, RemoveRead(r, ids)
      PROVE  NeverOverSettled'
  BY <1>13 DEF RemoveRead
<1>14. ASSUME NEW r \in Requests, RemoveDelete(r)
      PROVE  NeverOverSettled'
  BY <1>14 DEF RemoveDelete
<1>16. ASSUME NEW r \in Requests, NEW t \in BankTxns, MatchItemRead(r, t)
       PROVE  NeverOverSettled'
  BY <1>16 DEF MatchItemRead
<1>17. ASSUME NEW r \in Requests, MatchItemWrite(r)
       PROVE  NeverOverSettled'
  BY <1>17 DEF MatchItemWrite
<1>15. CASE UNCHANGED vars
  BY <1>15 DEF vars
<1> QED
  BY <1>1, <1>2, <1>3, <1>4, <1>5, <1>6, <1>7,
     <1>8, <1>9, <1>10, <1>11, <1>12, <1>13, <1>14, <1>15, <1>16, <1>17
  DEF Next, Allocate, ConfirmTransaction, Void, Remove, MatchItem

\* Where the server handles one request at a time no settlement is ever paid
\* more than its total, whichever of allocate and confirmTransaction pays.
THEOREM SerialNeverOverSettled == OneRequest /\ Spec => []NeverOverSettled
<1> SUFFICES ASSUME OneRequest PROVE Spec => []NeverOverSettled
  OBVIOUS
<1>1. Init => AmountsCurrent /\ NeverOverSettled
  BY DEF Init, Idle, AmountsCurrent, NeverOverSettled
<1>2. IInv /\ AmountsCurrent /\ NeverOverSettled /\ [Next]_vars
         => AmountsCurrent' /\ NeverOverSettled'
  BY AmountsStep, OverStep
<1> QED
  BY <1>1, <1>2, Invariance, PTL DEF Spec

-----------------------------------------------------------------------------
(* What the allocations add up to, and how a payment moves it.             *)

TotalsOK ==
    /\ \A t \in BankTxns : TxnAllocated(t) \in Nat
    /\ \A s \in Settlements : SettlementAllocated(s) \in Nat

\* Totals of allocations are natural numbers.
LEMMA TotalsType == TypeOK => TotalsOK
<1> SUFFICES ASSUME TypeOK PROVE TotalsOK
  OBVIOUS
<1>1. ASSUME NEW t \in BankTxns PROVE TxnAllocated(t) \in Nat
  <2> DEFINE f == [s \in Settlements |-> allocated[<<t, s>>]]
  <2>1. \A s \in Settlements : f[s] \in Nat
    BY DEF TypeOK
  <2> HIDE DEF f
  <2>2. SumFunctionOnSet(f, Settlements) \in Nat
    BY <2>1, SumNat, FiniteAssumption
  <2> QED
    BY <2>2 DEF TxnAllocated, f
<1>2. ASSUME NEW s \in Settlements PROVE SettlementAllocated(s) \in Nat
  <2> DEFINE f == [t \in BankTxns |-> allocated[<<t, s>>]]
  <2>1. \A t \in BankTxns : f[t] \in Nat
    BY DEF TypeOK
  <2> HIDE DEF f
  <2>2. SumFunctionOnSet(f, BankTxns) \in Nat
    BY <2>1, SumNat, FiniteAssumption
  <2> QED
    BY <2>2 DEF SettlementAllocated, f
<1> QED
  BY <1>1, <1>2 DEF TotalsOK

\* ... also after a step.
LEMMA TotalsTypeNext == TypeOK' => TotalsOK'
  BY TotalsType, PTL

\* Allocations that stay as they are for a bank transaction leave its total as it is.
LEMMA TxnTotalSame ==
  ASSUME NEW t \in BankTxns, \A s \in Settlements : allocated'[<<t, s>>] = allocated[<<t, s>>]
  PROVE  TxnAllocated(t)' = TxnAllocated(t)
<1> DEFINE f == [s \in Settlements |-> allocated[<<t, s>>]]
           g == [s \in Settlements |-> allocated'[<<t, s>>]]
<1>1. f = g
  OBVIOUS
<1>2. TxnAllocated(t) = SumFunctionOnSet(f, Settlements)
  BY DEF TxnAllocated
<1>3. TxnAllocated(t)' = SumFunctionOnSet(g, Settlements)
  BY DEF TxnAllocated
<1> QED
  BY <1>1, <1>2, <1>3

\* ... and those of a settlement its total.
LEMMA SettlementTotalSame ==
  ASSUME NEW s \in Settlements, \A t \in BankTxns : allocated'[<<t, s>>] = allocated[<<t, s>>]
  PROVE  SettlementAllocated(s)' = SettlementAllocated(s)
<1> DEFINE f == [t \in BankTxns |-> allocated[<<t, s>>]]
           g == [t \in BankTxns |-> allocated'[<<t, s>>]]
<1>1. f = g
  OBVIOUS
<1>2. SettlementAllocated(s) = SumFunctionOnSet(f, BankTxns)
  BY DEF SettlementAllocated
<1>3. SettlementAllocated(s)' = SumFunctionOnSet(g, BankTxns)
  BY DEF SettlementAllocated
<1> QED
  BY <1>1, <1>2, <1>3

\* A new allocation adds its amount to the total of its bank transaction.
LEMMA TxnTotalAdds ==
  ASSUME TypeOK, TypeOK', NEW t \in BankTxns, NEW s \in Settlements,
         \A z \in Settlements \ {s} : allocated'[<<t, z>>] = allocated[<<t, z>>],
         allocated[<<t, s>>] = 0
  PROVE  TxnAllocated(t)' = TxnAllocated(t) + allocated'[<<t, s>>]
<1> DEFINE f == [z \in Settlements |-> allocated[<<t, z>>]]
           g == [z \in Settlements |-> allocated'[<<t, z>>]]
<1>1. \A z \in Settlements : f[z] \in Int /\ g[z] \in Int
  BY DEF TypeOK
<1>2. \A z \in Settlements \ {s} : g[z] = f[z]
  OBVIOUS
<1>3. f[s] = 0 /\ g[s] = allocated'[<<t, s>>] /\ g[s] \in Int
  BY <1>1
<1>4. /\ TxnAllocated(t) = SumFunctionOnSet(f, Settlements)
      /\ TxnAllocated(t)' = SumFunctionOnSet(g, Settlements)
  BY DEF TxnAllocated
<1> HIDE DEF f, g
<1>5. SumFunctionOnSet(g, Settlements) = SumFunctionOnSet(f, Settlements) - f[s] + g[s]
  BY <1>1, <1>2, SumUpdate, FiniteAssumption
<1> QED
  BY <1>3, <1>4, <1>5, TotalsType DEF TotalsOK

\* ... and to that of its settlement.
LEMMA SettlementTotalAdds ==
  ASSUME TypeOK, TypeOK', NEW t \in BankTxns, NEW s \in Settlements,
         \A z \in BankTxns \ {t} : allocated'[<<z, s>>] = allocated[<<z, s>>],
         allocated[<<t, s>>] = 0
  PROVE  SettlementAllocated(s)' = SettlementAllocated(s) + allocated'[<<t, s>>]
<1> DEFINE f == [z \in BankTxns |-> allocated[<<z, s>>]]
           g == [z \in BankTxns |-> allocated'[<<z, s>>]]
<1>1. \A z \in BankTxns : f[z] \in Int /\ g[z] \in Int
  BY DEF TypeOK
<1>2. \A z \in BankTxns \ {t} : g[z] = f[z]
  OBVIOUS
<1>3. f[t] = 0 /\ g[t] = allocated'[<<t, s>>] /\ g[t] \in Int
  BY <1>1
<1>4. /\ SettlementAllocated(s) = SumFunctionOnSet(f, BankTxns)
      /\ SettlementAllocated(s)' = SumFunctionOnSet(g, BankTxns)
  BY DEF SettlementAllocated
<1> HIDE DEF f, g
<1>5. SumFunctionOnSet(g, BankTxns) = SumFunctionOnSet(f, BankTxns) - f[t] + g[t]
  <2>1. IsFiniteSet(BankTxns)
    BY FiniteAssumption
  <2> QED
    BY <1>1, <1>2, <2>1, SumUpdate
<1> QED
  BY <1>3, <1>4, <1>5, TotalsType DEF TotalsOK

\* What is not allocated adds up to nothing.
LEMMA UnallocatedTotal ==
  ASSUME NEW s \in Settlements, Unallocated(s)
  PROVE  SettlementAllocated(s) = 0
<1> DEFINE f == [t \in BankTxns |-> allocated[<<t, s>>]]
<1>1. \A t \in BankTxns : f[t] = 0
  BY DEF Unallocated
<1>2. SettlementAllocated(s) = SumFunctionOnSet(f, BankTxns)
  BY DEF SettlementAllocated
<1> HIDE DEF f
<1> QED
  BY <1>1, <1>2, SumZero, FiniteAssumption

\* Allocations that are no less than the items add up to no less.
LEMMA TxnTotalCovers ==
  ASSUME TypeOK', NEW t \in BankTxns, NEW items \in [Settlements -> 0 .. MaxAmount],
         \A s \in Settlements : items[s] <= allocated'[<<t, s>>]
  PROVE  ItemsTotal(items) <= TxnAllocated(t)'
<1> DEFINE f == [s \in Settlements |-> allocated'[<<t, s>>]]
<1>1. \A s \in Settlements : items[s] \in Int /\ f[s] \in Int /\ items[s] <= f[s]
  BY DEF TypeOK
<1>2. TxnAllocated(t)' = SumFunctionOnSet(f, Settlements)
  BY DEF TxnAllocated
<1> HIDE DEF f
<1>3. SumFunctionOnSet(items, Settlements) <= SumFunctionOnSet(f, Settlements)
  BY <1>1, SumMonotone, FiniteAssumption
<1> QED
  BY <1>2, <1>3 DEF ItemsTotal

\* One item is all there is to pay.
LEMMA OneItemTotal ==
  ASSUME NEW s \in Settlements, NEW amount \in Nat
  PROVE  ItemsTotal([NoItems EXCEPT ![s] = amount]) = amount
<1> DEFINE g == [NoItems EXCEPT ![s] = amount]
<1>1. \A z \in Settlements : NoItems[z] = 0
  BY DEF NoItems
<1>2. SumFunctionOnSet(NoItems, Settlements) = 0
  BY <1>1, SumZero, FiniteAssumption
<1>3. g[s] = amount /\ \A z \in Settlements \ {s} : g[z] = NoItems[z]
  BY DEF NoItems
<1> HIDE DEF g
<1>4. \A z \in Settlements : NoItems[z] \in Int /\ g[z] \in Int
  BY <1>1, <1>3
<1>5. SumFunctionOnSet(g, Settlements) = SumFunctionOnSet(NoItems, Settlements) - NoItems[s] + g[s]
  BY <1>3, <1>4, SumUpdate, FiniteAssumption
<1>6. SumFunctionOnSet(g, Settlements) = amount
  BY <1>1, <1>2, <1>3, <1>5
<1> QED
  BY <1>6 DEF ItemsTotal, g

\* One allocation: what allocate writes.
LEMMA AllocateAllocates ==
  ASSUME IInv, NEW r \in Requests, AllocateWrite(r)
  PROVE  /\ request[r].txn \in BankTxns
         /\ request[r].cur \in Settlements
         /\ allocated[<<request[r].txn, request[r].cur>>] = 0
         /\ allocated'[<<request[r].txn, request[r].cur>>] = request[r].items[request[r].cur]
         /\ \A t \in BankTxns, s \in Settlements :
               t # request[r].txn \/ s # request[r].cur => allocated'[<<t, s>>] = allocated[<<t, s>>]
<1>1. request[r].txn \in BankTxns /\ request[r].cur \in Settlements
  BY DEF IInv, RequestOK, AllocateWrite
<1>2. allocated[<<request[r].txn, request[r].cur>>] = 0
  BY DEF AllocateWrite, NoAllocationYet
<1>3. allocated' = [allocated EXCEPT ![<<request[r].txn, request[r].cur>>]
                                        = request[r].items[request[r].cur]]
  BY DEF AllocateWrite
<1> QED
  BY <1>1, <1>2, <1>3 DEF IInv, TypeOK

\* All items of a confirmation: what its commit writes.
LEMMA CommitAllocates ==
  ASSUME IInv, NEW r \in Requests, ConfirmCommit(r)
  PROVE  /\ request[r].txn \in BankTxns
         /\ request[r].items \in [Settlements -> 0 .. MaxAmount]
         /\ \A s \in Settlements : s \in request[r].written <=> request[r].items[s] > 0
         /\ \A s \in request[r].written :
               /\ allocated[<<request[r].txn, s>>] = 0
               /\ allocated'[<<request[r].txn, s>>] = request[r].items[s]
         /\ \A t \in BankTxns, s \in Settlements :
               t # request[r].txn \/ s \notin request[r].written
                  => allocated'[<<t, s>>] = allocated[<<t, s>>]
<1>1. /\ request[r].txn \in BankTxns
      /\ request[r].items \in [Settlements -> 0 .. MaxAmount]
      /\ request[r].written \subseteq Settlements
  BY DEF IInv, RequestOK, TypeOK, RequestState, ConfirmCommit
<1>2. \A s \in Settlements : s \in request[r].written <=> request[r].items[s] > 0
  BY DEF ConfirmCommit
<1>3. \A s \in request[r].written : allocated[<<request[r].txn, s>>] = 0
  BY DEF IInv, LocksOK
<1>4. allocated' = [p \in BankTxns \X Settlements |->
                      IF p[1] = request[r].txn /\ p[2] \in request[r].written
                      THEN request[r].items[p[2]] ELSE allocated[p]]
  BY DEF ConfirmCommit
<1> QED
  BY <1>1, <1>2, <1>3, <1>4

\* The total of a bank transaction only grows, until it is deleted.
LEMMA TxnTotalGrows ==
  ASSUME IInv, [Next]_vars, NEW t \in BankTxns,
         \A r \in Requests : RemoveDelete(r) => t \notin request[r].ids
  PROVE  TxnAllocated(t) <= TxnAllocated(t)'
<1> DEFINE f == [s \in Settlements |-> allocated[<<t, s>>]]
           g == [s \in Settlements |-> allocated'[<<t, s>>]]
<1>1. TypeOK'
  BY TypeStep DEF IInv
<1>2. \A s \in Settlements : allocated[<<t, s>>] <= allocated'[<<t, s>>]
  <2>1. ASSUME NEW s \in Settlements, NEW total \in Amounts, CreateSettlement(s, total)
        PROVE  \A z \in Settlements : allocated[<<t, z>>] <= allocated'[<<t, z>>]
    BY <2>1 DEF CreateSettlement, IInv, TypeOK
  <2>2. ASSUME NEW tt \in BankTxns, NEW d \in BankTxnDirection, NEW amount \in Amounts,
               ImportTxn(tt, d, amount)
        PROVE  \A z \in Settlements : allocated[<<t, z>>] <= allocated'[<<t, z>>]
    BY <2>2 DEF ImportTxn, IInv, TypeOK
  <2>3. ASSUME NEW r \in Requests, Abort(r)
        PROVE  \A z \in Settlements : allocated[<<t, z>>] <= allocated'[<<t, z>>]
    BY <2>3 DEF Abort, IInv, TypeOK
  <2>4. ASSUME NEW r \in Requests, NEW s \in Settlements, NEW tt \in BankTxns,
               NEW amount \in Amounts, AllocateReadSettlement(r, s, tt, amount)
        PROVE  \A z \in Settlements : allocated[<<t, z>>] <= allocated'[<<t, z>>]
    BY <2>4 DEF AllocateReadSettlement, IInv, TypeOK
  <2>5. ASSUME NEW r \in Requests, AllocateReadTxn(r)
        PROVE  \A z \in Settlements : allocated[<<t, z>>] <= allocated'[<<t, z>>]
    BY <2>5 DEF AllocateReadTxn, IInv, TypeOK
  <2>6. ASSUME NEW r \in Requests, AllocateWrite(r)
        PROVE  \A z \in Settlements : allocated[<<t, z>>] <= allocated'[<<t, z>>]
    <3> TAKE z \in Settlements
    <3>1. allocated[<<t, z>>] \in Nat /\ allocated'[<<t, z>>] \in Nat
      BY <1>1 DEF IInv, TypeOK
    <3>2. CASE t = request[r].txn /\ z = request[r].cur
      <4>1. allocated[<<request[r].txn, request[r].cur>>] = 0
        BY <2>6, AllocateAllocates
      <4>2. allocated[<<t, z>>] = 0
        BY <4>1, <3>2
      <4> QED
        BY <3>1, <4>2
    <3>3. CASE ~(t = request[r].txn /\ z = request[r].cur)
      <4>1. t # request[r].txn \/ z # request[r].cur
        BY <3>3
      <4>2. allocated'[<<t, z>>] = allocated[<<t, z>>]
        BY <2>6, <4>1, AllocateAllocates
      <4> QED
        BY <3>1, <4>2
    <3> QED
      BY <3>2, <3>3
  <2>7. ASSUME NEW r \in Requests, NEW tt \in BankTxns,
               NEW items \in [Settlements -> 0 .. MaxAmount], ConfirmRead(r, tt, items)
        PROVE  \A z \in Settlements : allocated[<<t, z>>] <= allocated'[<<t, z>>]
    BY <2>7 DEF ConfirmRead, IInv, TypeOK
  <2>8. ASSUME NEW r \in Requests, NEW s \in Settlements, ConfirmCheckItem(r, s)
        PROVE  \A z \in Settlements : allocated[<<t, z>>] <= allocated'[<<t, z>>]
    BY <2>8 DEF ConfirmCheckItem, IInv, TypeOK
  <2>9. ASSUME NEW r \in Requests, ConfirmApplyItem(r)
        PROVE  \A z \in Settlements : allocated[<<t, z>>] <= allocated'[<<t, z>>]
    BY <2>9 DEF ConfirmApplyItem, IInv, TypeOK
  <2>10. ASSUME NEW r \in Requests, ConfirmCommit(r)
        PROVE  \A z \in Settlements : allocated[<<t, z>>] <= allocated'[<<t, z>>]
    BY <2>10, <1>1, CommitAllocates DEF IInv, TypeOK
  <2>11. ASSUME NEW r \in Requests, NEW s \in Settlements, VoidRead(r, s)
        PROVE  \A z \in Settlements : allocated[<<t, z>>] <= allocated'[<<t, z>>]
    BY <2>11 DEF VoidRead, IInv, TypeOK
  <2>12. ASSUME NEW r \in Requests, VoidWrite(r)
        PROVE  \A z \in Settlements : allocated[<<t, z>>] <= allocated'[<<t, z>>]
    BY <2>12 DEF VoidWrite, IInv, TypeOK
  <2>13. ASSUME NEW r \in Requests, NEW ids \in (SUBSET BankTxns) \ {{}}, RemoveRead(r, ids)
        PROVE  \A z \in Settlements : allocated[<<t, z>>] <= allocated'[<<t, z>>]
    BY <2>13 DEF RemoveRead, IInv, TypeOK
  <2>14. ASSUME NEW r \in Requests, RemoveDelete(r)
        PROVE  \A z \in Settlements : allocated[<<t, z>>] <= allocated'[<<t, z>>]
    <3>1. t \notin request[r].ids
      BY <2>14
    <3>2. \A z \in Settlements : allocated'[<<t, z>>] = allocated[<<t, z>>]
      BY <2>14, <3>1 DEF RemoveDelete
    <3> QED
      BY <3>2 DEF IInv, TypeOK
  <2>16. ASSUME NEW r \in Requests, NEW tt \in BankTxns, MatchItemRead(r, tt)
         PROVE  \A z \in Settlements : allocated[<<t, z>>] <= allocated'[<<t, z>>]
    BY <2>16 DEF MatchItemRead, IInv, TypeOK
  <2>17. ASSUME NEW r \in Requests, MatchItemWrite(r)
         PROVE  \A z \in Settlements : allocated[<<t, z>>] <= allocated'[<<t, z>>]
    BY <2>17 DEF MatchItemWrite, IInv, TypeOK
  <2>15. CASE UNCHANGED vars
    BY <2>15 DEF vars, IInv, TypeOK
  <2> QED
    BY <2>1, <2>2, <2>3, <2>4, <2>5, <2>6, <2>7,
       <2>8, <2>9, <2>10, <2>11, <2>12, <2>13, <2>14, <2>15, <2>16, <2>17
    DEF Next, Allocate, ConfirmTransaction, Void, Remove, MatchItem
  
<1>3. \A s \in Settlements : f[s] \in Int /\ g[s] \in Int /\ f[s] <= g[s]
  BY <1>1, <1>2 DEF IInv, TypeOK
<1>4. /\ TxnAllocated(t) = SumFunctionOnSet(f, Settlements)
      /\ TxnAllocated(t)' = SumFunctionOnSet(g, Settlements)
  BY DEF TxnAllocated
<1> HIDE DEF f, g
<1>5. SumFunctionOnSet(f, Settlements) <= SumFunctionOnSet(g, Settlements)
  BY <1>3, SumMonotone, FiniteAssumption
<1> QED
  BY <1>4, <1>5

\* A bank transaction that is there keeps its amount; one that was never there has not been deleted.
LEMMA TxnStable ==
  ASSUME IInv, [Next]_vars, NEW u \in BankTxns, bankTxn[u].matchStatus # "ABSENT"
  PROVE  /\ bankTxn'[u].matchStatus # "ABSENT"
         /\ bankTxn'[u].amount = bankTxn[u].amount
<1> USE DEF IInv, TypeOK, RequestOK, BankTxnRow, MatchStatusFor
<1>1. ASSUME NEW s \in Settlements, NEW total \in Amounts, CreateSettlement(s, total)
      PROVE  bankTxn'[u].matchStatus # "ABSENT" /\ bankTxn'[u].amount = bankTxn[u].amount
  BY <1>1 DEF CreateSettlement
<1>2. ASSUME NEW t \in BankTxns, NEW d \in BankTxnDirection, NEW amount \in Amounts,
             ImportTxn(t, d, amount)
      PROVE  bankTxn'[u].matchStatus # "ABSENT" /\ bankTxn'[u].amount = bankTxn[u].amount
  BY <1>2 DEF ImportTxn
<1>3. ASSUME NEW r \in Requests, Abort(r)
      PROVE  bankTxn'[u].matchStatus # "ABSENT" /\ bankTxn'[u].amount = bankTxn[u].amount
  BY <1>3 DEF Abort
<1>4. ASSUME NEW r \in Requests, NEW s \in Settlements, NEW t \in BankTxns,
             NEW amount \in Amounts, AllocateReadSettlement(r, s, t, amount)
      PROVE  bankTxn'[u].matchStatus # "ABSENT" /\ bankTxn'[u].amount = bankTxn[u].amount
  BY <1>4 DEF AllocateReadSettlement
<1>5. ASSUME NEW r \in Requests, AllocateReadTxn(r)
      PROVE  bankTxn'[u].matchStatus # "ABSENT" /\ bankTxn'[u].amount = bankTxn[u].amount
  BY <1>5 DEF AllocateReadTxn
<1>6. ASSUME NEW r \in Requests, AllocateWrite(r)
      PROVE  bankTxn'[u].matchStatus # "ABSENT" /\ bankTxn'[u].amount = bankTxn[u].amount
  BY <1>6 DEF AllocateWrite
<1>7. ASSUME NEW r \in Requests, NEW t \in BankTxns,
             NEW items \in [Settlements -> 0 .. MaxAmount], ConfirmRead(r, t, items)
      PROVE  bankTxn'[u].matchStatus # "ABSENT" /\ bankTxn'[u].amount = bankTxn[u].amount
  BY <1>7 DEF ConfirmRead
<1>8. ASSUME NEW r \in Requests, NEW s \in Settlements, ConfirmCheckItem(r, s)
      PROVE  bankTxn'[u].matchStatus # "ABSENT" /\ bankTxn'[u].amount = bankTxn[u].amount
  BY <1>8 DEF ConfirmCheckItem
<1>9. ASSUME NEW r \in Requests, ConfirmApplyItem(r)
      PROVE  bankTxn'[u].matchStatus # "ABSENT" /\ bankTxn'[u].amount = bankTxn[u].amount
  BY <1>9 DEF ConfirmApplyItem
<1>10. ASSUME NEW r \in Requests, ConfirmCommit(r)
      PROVE  bankTxn'[u].matchStatus # "ABSENT" /\ bankTxn'[u].amount = bankTxn[u].amount
  BY <1>10 DEF ConfirmCommit
<1>11. ASSUME NEW r \in Requests, NEW s \in Settlements, VoidRead(r, s)
      PROVE  bankTxn'[u].matchStatus # "ABSENT" /\ bankTxn'[u].amount = bankTxn[u].amount
  BY <1>11 DEF VoidRead
<1>12. ASSUME NEW r \in Requests, VoidWrite(r)
      PROVE  bankTxn'[u].matchStatus # "ABSENT" /\ bankTxn'[u].amount = bankTxn[u].amount
  BY <1>12 DEF VoidWrite
<1>13. ASSUME NEW r \in Requests, NEW ids \in (SUBSET BankTxns) \ {{}}, RemoveRead(r, ids)
      PROVE  bankTxn'[u].matchStatus # "ABSENT" /\ bankTxn'[u].amount = bankTxn[u].amount
  BY <1>13 DEF RemoveRead
<1>14. ASSUME NEW r \in Requests, RemoveDelete(r)
      PROVE  bankTxn'[u].matchStatus # "ABSENT" /\ bankTxn'[u].amount = bankTxn[u].amount
  BY <1>14 DEF RemoveDelete
<1>16. ASSUME NEW r \in Requests, NEW t \in BankTxns, MatchItemRead(r, t)
       PROVE  bankTxn'[u].matchStatus # "ABSENT" /\ bankTxn'[u].amount = bankTxn[u].amount
  BY <1>16 DEF MatchItemRead
<1>17. ASSUME NEW r \in Requests, MatchItemWrite(r)
       PROVE  bankTxn'[u].matchStatus # "ABSENT" /\ bankTxn'[u].amount = bankTxn[u].amount
  BY <1>17 DEF MatchItemWrite
<1>15. CASE UNCHANGED vars
  BY <1>15 DEF vars
<1> QED
  BY <1>1, <1>2, <1>3, <1>4, <1>5, <1>6, <1>7,
     <1>8, <1>9, <1>10, <1>11, <1>12, <1>13, <1>14, <1>15, <1>16, <1>17
  DEF Next, Allocate, ConfirmTransaction, Void, Remove, MatchItem

\* The bank transaction of a confirmation that has paid an item stays until it commits.
LEMMA ReferencesStep ==
  IInv /\ ConfirmReferences /\ [Next]_vars => ConfirmReferences'
<1> SUFFICES ASSUME IInv, ConfirmReferences, [Next]_vars PROVE ConfirmReferences'
  OBVIOUS
<1> USE DEF IInv, TypeOK, RequestOK, RequestState, Idle, ConfirmReferences, TxnExists, BankTxnRow
<1>1. ASSUME NEW s \in Settlements, NEW total \in Amounts, CreateSettlement(s, total)
      PROVE  ConfirmReferences'
  BY <1>1 DEF CreateSettlement
<1>2. ASSUME NEW t \in BankTxns, NEW d \in BankTxnDirection, NEW amount \in Amounts,
             ImportTxn(t, d, amount)
      PROVE  ConfirmReferences'
  BY <1>2 DEF ImportTxn
<1>3. ASSUME NEW r \in Requests, Abort(r)
      PROVE  ConfirmReferences'
  BY <1>3 DEF Abort
<1>4. ASSUME NEW r \in Requests, NEW s \in Settlements, NEW t \in BankTxns,
             NEW amount \in Amounts, AllocateReadSettlement(r, s, t, amount)
      PROVE  ConfirmReferences'
  BY <1>4 DEF AllocateReadSettlement
<1>5. ASSUME NEW r \in Requests, AllocateReadTxn(r)
      PROVE  ConfirmReferences'
  BY <1>5 DEF AllocateReadTxn
<1>6. ASSUME NEW r \in Requests, AllocateWrite(r)
      PROVE  ConfirmReferences'
  BY <1>6 DEF AllocateWrite
<1>7. ASSUME NEW r \in Requests, NEW t \in BankTxns,
             NEW items \in [Settlements -> 0 .. MaxAmount], ConfirmRead(r, t, items)
      PROVE  ConfirmReferences'
  <2>1. ItemsTotal(items) > 0
    BY <1>7 DEF ConfirmRead, Confirmable
  <2>2. \E s \in Settlements : items[s] > 0
    <3> SUFFICES ASSUME \A s \in Settlements : items[s] = 0 PROVE FALSE
      OBVIOUS
    <3>1. SumFunctionOnSet(items, Settlements) = 0
      BY SumZero, FiniteAssumption
    <3> QED
      BY <2>1, <3>1 DEF ItemsTotal
  <2> QED
    BY <1>7, <2>2 DEF ConfirmRead
<1>8. ASSUME NEW r \in Requests, NEW s \in Settlements, ConfirmCheckItem(r, s)
      PROVE  ConfirmReferences'
  BY <1>8 DEF ConfirmCheckItem
<1>9. ASSUME NEW r \in Requests, ConfirmApplyItem(r)
      PROVE  ConfirmReferences'
  BY <1>9 DEF ConfirmApplyItem
<1>10. ASSUME NEW r \in Requests, ConfirmCommit(r)
      PROVE  ConfirmReferences'
  <2>1. request' = [request EXCEPT ![r] = Idle]
    BY <1>10 DEF ConfirmCommit
  <2>2. \A t \in BankTxns : TxnExists(t) => TxnExists(t)'
    BY <1>10 DEF ConfirmCommit, MatchStatusFor
  <2> QED
    BY <2>1, <2>2
<1>11. ASSUME NEW r \in Requests, NEW s \in Settlements, VoidRead(r, s)
      PROVE  ConfirmReferences'
  BY <1>11 DEF VoidRead
<1>12. ASSUME NEW r \in Requests, VoidWrite(r)
      PROVE  ConfirmReferences'
  BY <1>12 DEF VoidWrite
<1>13. ASSUME NEW r \in Requests, NEW ids \in (SUBSET BankTxns) \ {{}}, RemoveRead(r, ids)
      PROVE  ConfirmReferences'
  BY <1>13 DEF RemoveRead
<1>14. ASSUME NEW r \in Requests, RemoveDelete(r)
      PROVE  ConfirmReferences'
  <2>1. request' = [request EXCEPT ![r] = Idle]
    BY <1>14 DEF RemoveDelete
  <2>2. ASSUME NEW q \in Requests \ {r}, request[q].pc \in {"confirm", "confirmItem"},
               request[q].written # {}
        PROVE  TxnExists(request[q].txn)'
    <3>1. request[q].txn \in BankTxns /\ TxnExists(request[q].txn)
      BY <2>2
    <3>2. request[q].txn \notin request[r].ids
      BY <1>14, <2>2 DEF RemoveDelete, TxnReferenced
    <3>3. bankTxn'[request[q].txn] = bankTxn[request[q].txn]
      BY <1>14, <3>1, <3>2 DEF RemoveDelete
    <3> QED
      BY <2>1, <2>2, <3>1, <3>3
  <2> QED
    BY <2>1, <2>2
<1>16. ASSUME NEW r \in Requests, NEW t \in BankTxns, MatchItemRead(r, t)
       PROVE  ConfirmReferences'
  BY <1>16 DEF MatchItemRead
<1>17. ASSUME NEW r \in Requests, MatchItemWrite(r)
       PROVE  ConfirmReferences'
  BY <1>17 DEF MatchItemWrite
<1>15. CASE UNCHANGED vars
  BY <1>15 DEF vars
<1> QED
  BY <1>1, <1>2, <1>3, <1>4, <1>5, <1>6, <1>7,
     <1>8, <1>9, <1>10, <1>11, <1>12, <1>13, <1>14, <1>15, <1>16, <1>17
  DEF Next, Allocate, ConfirmTransaction, Void, Remove, MatchItem

\* A deleted bank transaction stays deleted.
LEMMA DeletedStays ==
  ASSUME IInv, ConfirmReferences, [Next]_vars, NEW u \in BankTxns,
         bankTxn[u].matchStatus = "DELETED"
  PROVE  bankTxn'[u].matchStatus = "DELETED"
<1> USE DEF IInv, TypeOK, RequestOK, BankTxnRow
<1>1. ASSUME NEW s \in Settlements, NEW total \in Amounts, CreateSettlement(s, total)
      PROVE  bankTxn'[u].matchStatus = "DELETED"
  BY <1>1 DEF CreateSettlement
<1>2. ASSUME NEW t \in BankTxns, NEW d \in BankTxnDirection, NEW amount \in Amounts,
             ImportTxn(t, d, amount)
      PROVE  bankTxn'[u].matchStatus = "DELETED"
  BY <1>2 DEF ImportTxn
<1>3. ASSUME NEW r \in Requests, Abort(r)
      PROVE  bankTxn'[u].matchStatus = "DELETED"
  BY <1>3 DEF Abort
<1>4. ASSUME NEW r \in Requests, NEW s \in Settlements, NEW t \in BankTxns,
             NEW amount \in Amounts, AllocateReadSettlement(r, s, t, amount)
      PROVE  bankTxn'[u].matchStatus = "DELETED"
  BY <1>4 DEF AllocateReadSettlement
<1>5. ASSUME NEW r \in Requests, AllocateReadTxn(r)
      PROVE  bankTxn'[u].matchStatus = "DELETED"
  BY <1>5 DEF AllocateReadTxn
<1>6. ASSUME NEW r \in Requests, AllocateWrite(r)
      PROVE  bankTxn'[u].matchStatus = "DELETED"
  BY <1>6 DEF AllocateWrite, TxnExists
<1>7. ASSUME NEW r \in Requests, NEW t \in BankTxns,
             NEW items \in [Settlements -> 0 .. MaxAmount], ConfirmRead(r, t, items)
      PROVE  bankTxn'[u].matchStatus = "DELETED"
  BY <1>7 DEF ConfirmRead
<1>8. ASSUME NEW r \in Requests, NEW s \in Settlements, ConfirmCheckItem(r, s)
      PROVE  bankTxn'[u].matchStatus = "DELETED"
  BY <1>8 DEF ConfirmCheckItem
<1>9. ASSUME NEW r \in Requests, ConfirmApplyItem(r)
      PROVE  bankTxn'[u].matchStatus = "DELETED"
  BY <1>9 DEF ConfirmApplyItem
<1>10. ASSUME NEW r \in Requests, ConfirmCommit(r)
      PROVE  bankTxn'[u].matchStatus = "DELETED"
  <2>1. TxnExists(request[r].txn)
    <3>1. \E s \in Settlements : request[r].items[s] > 0
      BY <1>10 DEF ConfirmCommit, ConfirmReferences
    <3>2. request[r].written # {}
      BY <1>10, <3>1 DEF ConfirmCommit
    <3> QED
      BY <1>10, <3>2 DEF ConfirmCommit, ConfirmReferences
  <2> QED
    BY <1>10, <2>1 DEF ConfirmCommit, TxnExists
<1>11. ASSUME NEW r \in Requests, NEW s \in Settlements, VoidRead(r, s)
      PROVE  bankTxn'[u].matchStatus = "DELETED"
  BY <1>11 DEF VoidRead
<1>12. ASSUME NEW r \in Requests, VoidWrite(r)
      PROVE  bankTxn'[u].matchStatus = "DELETED"
  BY <1>12 DEF VoidWrite
<1>13. ASSUME NEW r \in Requests, NEW ids \in (SUBSET BankTxns) \ {{}}, RemoveRead(r, ids)
      PROVE  bankTxn'[u].matchStatus = "DELETED"
  BY <1>13 DEF RemoveRead
<1>14. ASSUME NEW r \in Requests, RemoveDelete(r)
      PROVE  bankTxn'[u].matchStatus = "DELETED"
  BY <1>14 DEF RemoveDelete
<1>16. ASSUME NEW r \in Requests, NEW t \in BankTxns, MatchItemRead(r, t)
       PROVE  bankTxn'[u].matchStatus = "DELETED"
  BY <1>16 DEF MatchItemRead
<1>17. ASSUME NEW r \in Requests, MatchItemWrite(r)
       PROVE  bankTxn'[u].matchStatus = "DELETED"
  BY <1>17 DEF MatchItemWrite, TxnExists
<1>15. CASE UNCHANGED vars
  BY <1>15 DEF vars
<1> QED
  BY <1>1, <1>2, <1>3, <1>4, <1>5, <1>6, <1>7,
     <1>8, <1>9, <1>10, <1>11, <1>12, <1>13, <1>14, <1>15, <1>16, <1>17
  DEF Next, Allocate, ConfirmTransaction, Void, Remove, MatchItem

\* A bank transaction that is not deleted by a step is in none of the deletions it takes.
LEMMA NotRemoved ==
  ASSUME IInv, NEW u \in BankTxns, bankTxn'[u].matchStatus # "DELETED"
  PROVE  \A r \in Requests : RemoveDelete(r) => u \notin request[r].ids
  BY DEF RemoveDelete, IInv, TypeOK, BankTxnRow

\* A request that is to write an allocation was to write it before, or has just read.
LEMMA AllocateWriteReached ==
  ASSUME IInv, [Next]_vars, NEW q \in Requests, request'[q].pc = "allocateWrite"
  PROVE  request'[q] = request[q] \/ AllocateReadTxn(q)
<1> USE DEF IInv, TypeOK, RequestState, Idle
<1>1. ASSUME NEW s \in Settlements, NEW total \in Amounts, CreateSettlement(s, total)
      PROVE  request'[q] = request[q] \/ AllocateReadTxn(q)
  BY <1>1 DEF CreateSettlement
<1>2. ASSUME NEW t \in BankTxns, NEW d \in BankTxnDirection, NEW amount \in Amounts,
             ImportTxn(t, d, amount)
      PROVE  request'[q] = request[q] \/ AllocateReadTxn(q)
  BY <1>2 DEF ImportTxn
<1>3. ASSUME NEW r \in Requests, Abort(r)
      PROVE  request'[q] = request[q] \/ AllocateReadTxn(q)
  BY <1>3 DEF Abort
<1>4. ASSUME NEW r \in Requests, NEW s \in Settlements, NEW t \in BankTxns,
             NEW amount \in Amounts, AllocateReadSettlement(r, s, t, amount)
      PROVE  request'[q] = request[q] \/ AllocateReadTxn(q)
  BY <1>4 DEF AllocateReadSettlement
<1>5. ASSUME NEW r \in Requests, AllocateReadTxn(r)
      PROVE  request'[q] = request[q] \/ AllocateReadTxn(q)
  BY <1>5 DEF AllocateReadTxn
<1>6. ASSUME NEW r \in Requests, AllocateWrite(r)
      PROVE  request'[q] = request[q] \/ AllocateReadTxn(q)
  BY <1>6 DEF AllocateWrite
<1>7. ASSUME NEW r \in Requests, NEW t \in BankTxns,
             NEW items \in [Settlements -> 0 .. MaxAmount], ConfirmRead(r, t, items)
      PROVE  request'[q] = request[q] \/ AllocateReadTxn(q)
  BY <1>7 DEF ConfirmRead
<1>8. ASSUME NEW r \in Requests, NEW s \in Settlements, ConfirmCheckItem(r, s)
      PROVE  request'[q] = request[q] \/ AllocateReadTxn(q)
  BY <1>8 DEF ConfirmCheckItem
<1>9. ASSUME NEW r \in Requests, ConfirmApplyItem(r)
      PROVE  request'[q] = request[q] \/ AllocateReadTxn(q)
  BY <1>9 DEF ConfirmApplyItem
<1>10. ASSUME NEW r \in Requests, ConfirmCommit(r)
      PROVE  request'[q] = request[q] \/ AllocateReadTxn(q)
  BY <1>10 DEF ConfirmCommit
<1>11. ASSUME NEW r \in Requests, NEW s \in Settlements, VoidRead(r, s)
      PROVE  request'[q] = request[q] \/ AllocateReadTxn(q)
  BY <1>11 DEF VoidRead
<1>12. ASSUME NEW r \in Requests, VoidWrite(r)
      PROVE  request'[q] = request[q] \/ AllocateReadTxn(q)
  BY <1>12 DEF VoidWrite
<1>13. ASSUME NEW r \in Requests, NEW ids \in (SUBSET BankTxns) \ {{}}, RemoveRead(r, ids)
      PROVE  request'[q] = request[q] \/ AllocateReadTxn(q)
  BY <1>13 DEF RemoveRead
<1>14. ASSUME NEW r \in Requests, RemoveDelete(r)
      PROVE  request'[q] = request[q] \/ AllocateReadTxn(q)
  BY <1>14 DEF RemoveDelete
<1>16. ASSUME NEW r \in Requests, NEW t \in BankTxns, MatchItemRead(r, t)
       PROVE  request'[q] = request[q] \/ AllocateReadTxn(q)
  BY <1>16 DEF MatchItemRead
<1>17. ASSUME NEW r \in Requests, MatchItemWrite(r)
       PROVE  request'[q] = request[q] \/ AllocateReadTxn(q)
  BY <1>17 DEF MatchItemWrite
<1>15. CASE UNCHANGED vars
  BY <1>15 DEF vars
<1> QED
  BY <1>1, <1>2, <1>3, <1>4, <1>5, <1>6, <1>7,
     <1>8, <1>9, <1>10, <1>11, <1>12, <1>13, <1>14, <1>15, <1>16, <1>17
  DEF Next, Allocate, ConfirmTransaction, Void, Remove, MatchItem

\* What one request is to write as spent.
MatchReadOf(q) ==
    /\ bankTxn[request[q].txn].matchStatus # "ABSENT"
    /\ request[q].nextMatch = "MANUAL_MATCHED" /\ bankTxn[request[q].txn].matchStatus # "DELETED" =>
           bankTxn[request[q].txn].amount
               <= TxnAllocated(request[q].txn) + request[q].items[request[q].cur]

\* What allocate is to write as spent is still spent with its amount.
LEMMA MatchReadStep ==
  IInv /\ ConfirmReferences /\ MatchReadFunded /\ [Next]_vars => MatchReadFunded'
<1> SUFFICES ASSUME IInv, ConfirmReferences, MatchReadFunded, [Next]_vars,
                    NEW q \in Requests, request'[q].pc = "allocateWrite"
             PROVE  MatchReadOf(q)'
  BY DEF MatchReadFunded, MatchReadOf
<1>1. TotalsOK /\ TotalsOK'
  BY TotalsType, TotalsTypeNext, TypeStep DEF IInv
<1>2. /\ request[q].pc \in {"allocateTxn", "allocateWrite"}
      /\ request'[q].txn = request[q].txn
      /\ request'[q].items = request[q].items
      /\ request'[q].cur = request[q].cur
  <2>1. request'[q] = request[q] \/ AllocateReadTxn(q)
    BY AllocateWriteReached
  <2>2. CASE request'[q] = request[q]
    BY <2>2
  <2>3. CASE AllocateReadTxn(q)
    BY <2>3 DEF AllocateReadTxn, IInv, TypeOK, RequestState
  <2> QED
    BY <2>1, <2>2, <2>3
<1>3. PICK t \in BankTxns : t = request[q].txn
  BY <1>2 DEF IInv, RequestOK
<1>4. PICK amount \in Nat : amount = request[q].items[request[q].cur]
  BY <1>2 DEF IInv, RequestOK, TypeOK, RequestState
<1>5. bankTxn[t].amount \in Nat
  BY DEF IInv, TypeOK, BankTxnRow
<1>6. /\ bankTxn'[t].matchStatus # "ABSENT"
      /\ request'[q].nextMatch = "MANUAL_MATCHED" /\ bankTxn'[t].matchStatus # "DELETED"
           => bankTxn'[t].amount <= TxnAllocated(t)' + amount
  <2>1. CASE request'[q] = request[q]
    <3>1. /\ bankTxn[t].matchStatus # "ABSENT"
          /\ request[q].nextMatch = "MANUAL_MATCHED" /\ bankTxn[t].matchStatus # "DELETED"
               => bankTxn[t].amount <= TxnAllocated(t) + amount
      BY <1>3, <1>4, <2>1 DEF MatchReadFunded
    <3>2. bankTxn'[t].matchStatus # "ABSENT" /\ bankTxn'[t].amount = bankTxn[t].amount
      BY <3>1, TxnStable
    <3>3. ASSUME bankTxn'[t].matchStatus # "DELETED"
          PROVE  bankTxn[t].matchStatus # "DELETED" /\ TxnAllocated(t) <= TxnAllocated(t)'
      <4>1. bankTxn[t].matchStatus # "DELETED"
        BY <3>3, DeletedStays
      <4>2. \A r \in Requests : RemoveDelete(r) => t \notin request[r].ids
        BY <3>3, NotRemoved
      <4> QED
        BY <4>1, <4>2, TxnTotalGrows
    <3>4. TxnAllocated(t) \in Nat /\ TxnAllocated(t)' \in Nat
      BY <1>1 DEF TotalsOK
    <3> QED
      BY <1>5, <2>1, <3>1, <3>2, <3>3, <3>4
  <2>2. CASE AllocateReadTxn(q)
    <3>1. TxnExists(t) /\ UNCHANGED <<settlement, bankTxn, allocated>>
      BY <1>3, <2>2 DEF AllocateReadTxn
    <3>2. request'[q].nextMatch = MatchStatusFor(TxnAllocated(t) + amount, bankTxn[t].amount)
      BY <1>3, <1>4, <2>2 DEF AllocateReadTxn, IInv, TypeOK, RequestState
    <3>3. TxnAllocated(t)' = TxnAllocated(t)
      BY <3>1, TxnTotalSame
    <3>4. TxnAllocated(t) \in Nat
      BY <1>1 DEF TotalsOK
    <3>5. request'[q].nextMatch = "MANUAL_MATCHED" => bankTxn[t].amount <= TxnAllocated(t) + amount
      BY <1>5, <3>2, <3>4 DEF MatchStatusFor
    <3> QED
      BY <3>1, <3>3, <3>5 DEF TxnExists
  <2> QED
    BY <2>1, <2>2, AllocateWriteReached
<1> QED
  BY <1>2, <1>3, <1>4, <1>6 DEF MatchReadOf

\* What an item of a payment batch has taken is remembered.
LEMMA BatchKept ==
  ASSUME [Next]_vars
  PROVE  paidByBatch \subseteq paidByBatch'
BY DEF Next, vars, CreateSettlement, ImportTxn, Allocate, AllocateReadSettlement, AllocateReadTxn,
       AllocateWrite, ConfirmTransaction, ConfirmRead, ConfirmCheckItem, ConfirmApplyItem,
       ConfirmCommit, Void, VoidRead, VoidWrite, Remove, RemoveRead, RemoveDelete, MatchItem,
       MatchItemRead, MatchItemWrite, Abort

\* A bank transaction that a step marks as fully matched has then been spent, unless the step
\* matched it to an item of a payment batch.
LEMMA FullMatchStep ==
  IInv /\ ConfirmReferences /\ MatchReadFunded /\ FullMatchIsFunded /\ [Next]_vars
    => FullMatchIsFunded'
<1> SUFFICES ASSUME IInv, ConfirmReferences, MatchReadFunded, FullMatchIsFunded, [Next]_vars
             PROVE  FullMatchIsFunded'
  OBVIOUS
<1>1. TypeOK /\ TypeOK' /\ TotalsOK /\ TotalsOK'
  BY TotalsType, TotalsTypeNext, TypeStep DEF IInv
<1> SUFFICES ASSUME NEW t \in BankTxns, t \notin paidByBatch',
                    bankTxn'[t].matchStatus = "MANUAL_MATCHED"
             PROVE  bankTxn'[t].amount <= TxnAllocated(t)'
  BY <1>1 DEF FullMatchIsFunded, TotalsOK, TypeOK, BankTxnRow
<1>2. /\ bankTxn[t].amount \in Nat /\ bankTxn'[t].amount \in Nat
      /\ TxnAllocated(t) \in Nat /\ TxnAllocated(t)' \in Nat
  BY <1>1 DEF TypeOK, BankTxnRow, TotalsOK
<1>3. CASE bankTxn'[t] = bankTxn[t]
  <2>1. TxnAllocated(t) <= TxnAllocated(t)'
    <3>1. \A r \in Requests : RemoveDelete(r) => t \notin request[r].ids
      BY NotRemoved
    <3> QED
      BY <3>1, TxnTotalGrows
  <2>2. t \notin paidByBatch
    BY BatchKept
  <2>3. bankTxn[t].amount <= TxnAllocated(t)
    BY <1>2, <1>3, <2>2 DEF FullMatchIsFunded
  <2> QED
    BY <1>2, <1>3, <2>1, <2>3
<1>4. ASSUME NEW r \in Requests, AllocateWrite(r), request[r].txn = t
      PROVE  bankTxn'[t].amount <= TxnAllocated(t)'
  <2>1. PICK s \in Settlements : s = request[r].cur
    BY <1>4, AllocateAllocates
  <2>2. PICK amount \in Nat : amount = request[r].items[s]
    BY <2>1 DEF IInv, TypeOK, RequestState
  <2>3. /\ allocated[<<t, s>>] = 0
        /\ allocated'[<<t, s>>] = amount
        /\ \A z \in Settlements \ {s} : allocated'[<<t, z>>] = allocated[<<t, z>>]
    BY <1>4, <2>1, <2>2, AllocateAllocates
  <2>4. TxnAllocated(t)' = TxnAllocated(t) + amount
    BY <1>1, <2>3, TxnTotalAdds
  <2>5. bankTxn'[t] = [bankTxn[t] EXCEPT !.matchStatus = request[r].nextMatch]
    BY <1>4 DEF AllocateWrite, IInv, TypeOK
  <2>6. bankTxn'[t].amount = bankTxn[t].amount /\ request[r].nextMatch = "MANUAL_MATCHED"
    BY <2>5 DEF IInv, TypeOK, BankTxnRow
  <2>7. bankTxn[t].matchStatus # "DELETED"
    BY <1>4 DEF AllocateWrite, TxnExists
  <2>8. bankTxn[t].amount <= TxnAllocated(t) + amount
    BY <1>4, <2>1, <2>2, <2>6, <2>7 DEF MatchReadFunded, AllocateWrite
  <2> QED
    BY <2>4, <2>6, <2>8
<1>5. ASSUME NEW r \in Requests, ConfirmCommit(r), request[r].txn = t
      PROVE  bankTxn'[t].amount <= TxnAllocated(t)'
  <2>1. PICK items \in [Settlements -> 0 .. MaxAmount] : items = request[r].items
    BY <1>5, CommitAllocates
  <2>2. ASSUME NEW s \in Settlements PROVE items[s] <= allocated'[<<t, s>>]
    <3>1. items[s] \in Nat /\ allocated'[<<t, s>>] \in Nat
      BY <1>1 DEF TypeOK
    <3>2. items[s] > 0 => allocated'[<<t, s>>] = items[s]
      BY <1>5, <2>1, CommitAllocates
    <3> QED
      BY <3>1, <3>2
  <2>3. ItemsTotal(items) <= TxnAllocated(t)'
    BY <1>1, <2>2, TxnTotalCovers
  <2>4. bankTxn' = [bankTxn EXCEPT ![t].matchStatus = MatchStatusFor(ItemsTotal(items),
                                                                     bankTxn[t].amount),
                                   ![t].isConfirmed = TRUE]
    BY <1>5, <2>1 DEF ConfirmCommit
  <2>5. /\ bankTxn'[t].amount = bankTxn[t].amount
        /\ MatchStatusFor(ItemsTotal(items), bankTxn[t].amount) = "MANUAL_MATCHED"
    BY <2>4 DEF IInv, TypeOK, BankTxnRow
  <2>6. ItemsTotal(items) \in Nat
    BY SumNat, FiniteAssumption DEF ItemsTotal
  <2>7. bankTxn[t].amount <= ItemsTotal(items)
    BY <1>2, <2>5, <2>6 DEF MatchStatusFor
  <2> QED
    BY <1>2, <2>3, <2>5, <2>6, <2>7
<1>6. \/ bankTxn'[t] = bankTxn[t]
      \/ \E r \in Requests : request[r].txn = t /\ (AllocateWrite(r) \/ ConfirmCommit(r))
  <2>1. ASSUME NEW s \in Settlements, NEW total \in Amounts, CreateSettlement(s, total)
        PROVE  \/ bankTxn'[t] = bankTxn[t]
               \/ \E z \in Requests : request[z].txn = t /\ (AllocateWrite(z) \/ ConfirmCommit(z))
    BY <2>1 DEF CreateSettlement
  <2>2. ASSUME NEW tt \in BankTxns, NEW d \in BankTxnDirection, NEW amount \in Amounts,
               ImportTxn(tt, d, amount)
        PROVE  \/ bankTxn'[t] = bankTxn[t]
               \/ \E z \in Requests : request[z].txn = t /\ (AllocateWrite(z) \/ ConfirmCommit(z))
    BY <2>2 DEF ImportTxn
  <2>3. ASSUME NEW r \in Requests, Abort(r)
        PROVE  \/ bankTxn'[t] = bankTxn[t]
               \/ \E z \in Requests : request[z].txn = t /\ (AllocateWrite(z) \/ ConfirmCommit(z))
    BY <2>3 DEF Abort
  <2>4. ASSUME NEW r \in Requests, NEW s \in Settlements, NEW tt \in BankTxns,
               NEW amount \in Amounts, AllocateReadSettlement(r, s, tt, amount)
        PROVE  \/ bankTxn'[t] = bankTxn[t]
               \/ \E z \in Requests : request[z].txn = t /\ (AllocateWrite(z) \/ ConfirmCommit(z))
    BY <2>4 DEF AllocateReadSettlement
  <2>5. ASSUME NEW r \in Requests, AllocateReadTxn(r)
        PROVE  \/ bankTxn'[t] = bankTxn[t]
               \/ \E z \in Requests : request[z].txn = t /\ (AllocateWrite(z) \/ ConfirmCommit(z))
    BY <2>5 DEF AllocateReadTxn
  <2>6. ASSUME NEW r \in Requests, AllocateWrite(r)
        PROVE  \/ bankTxn'[t] = bankTxn[t]
               \/ \E z \in Requests : request[z].txn = t /\ (AllocateWrite(z) \/ ConfirmCommit(z))
    <3>1. bankTxn'[t] = bankTxn[t] \/ request[r].txn = t
      BY <2>6 DEF AllocateWrite, IInv, TypeOK
    <3> QED
      BY <2>6, <3>1
  <2>7. ASSUME NEW r \in Requests, NEW tt \in BankTxns,
               NEW items \in [Settlements -> 0 .. MaxAmount], ConfirmRead(r, tt, items)
        PROVE  \/ bankTxn'[t] = bankTxn[t]
               \/ \E z \in Requests : request[z].txn = t /\ (AllocateWrite(z) \/ ConfirmCommit(z))
    BY <2>7 DEF ConfirmRead
  <2>8. ASSUME NEW r \in Requests, NEW s \in Settlements, ConfirmCheckItem(r, s)
        PROVE  \/ bankTxn'[t] = bankTxn[t]
               \/ \E z \in Requests : request[z].txn = t /\ (AllocateWrite(z) \/ ConfirmCommit(z))
    BY <2>8 DEF ConfirmCheckItem
  <2>9. ASSUME NEW r \in Requests, ConfirmApplyItem(r)
        PROVE  \/ bankTxn'[t] = bankTxn[t]
               \/ \E z \in Requests : request[z].txn = t /\ (AllocateWrite(z) \/ ConfirmCommit(z))
    BY <2>9 DEF ConfirmApplyItem
  <2>10. ASSUME NEW r \in Requests, ConfirmCommit(r)
        PROVE  \/ bankTxn'[t] = bankTxn[t]
               \/ \E z \in Requests : request[z].txn = t /\ (AllocateWrite(z) \/ ConfirmCommit(z))
    <3>1. bankTxn'[t] = bankTxn[t] \/ request[r].txn = t
      BY <2>10 DEF ConfirmCommit, IInv, TypeOK
    <3> QED
      BY <2>10, <3>1
  <2>11. ASSUME NEW r \in Requests, NEW s \in Settlements, VoidRead(r, s)
        PROVE  \/ bankTxn'[t] = bankTxn[t]
               \/ \E z \in Requests : request[z].txn = t /\ (AllocateWrite(z) \/ ConfirmCommit(z))
    BY <2>11 DEF VoidRead
  <2>12. ASSUME NEW r \in Requests, VoidWrite(r)
        PROVE  \/ bankTxn'[t] = bankTxn[t]
               \/ \E z \in Requests : request[z].txn = t /\ (AllocateWrite(z) \/ ConfirmCommit(z))
    BY <2>12 DEF VoidWrite
  <2>13. ASSUME NEW r \in Requests, NEW ids \in (SUBSET BankTxns) \ {{}}, RemoveRead(r, ids)
        PROVE  \/ bankTxn'[t] = bankTxn[t]
               \/ \E z \in Requests : request[z].txn = t /\ (AllocateWrite(z) \/ ConfirmCommit(z))
    BY <2>13 DEF RemoveRead
  <2>14. ASSUME NEW r \in Requests, RemoveDelete(r)
        PROVE  \/ bankTxn'[t] = bankTxn[t]
               \/ \E z \in Requests : request[z].txn = t /\ (AllocateWrite(z) \/ ConfirmCommit(z))
    BY <2>14 DEF RemoveDelete
  <2>16. ASSUME NEW r \in Requests, NEW tt \in BankTxns, MatchItemRead(r, tt)
         PROVE  \/ bankTxn'[t] = bankTxn[t]
                \/ \E z \in Requests : request[z].txn = t /\ (AllocateWrite(z) \/ ConfirmCommit(z))
    BY <2>16 DEF MatchItemRead
  <2>17. ASSUME NEW r \in Requests, MatchItemWrite(r)
         PROVE  \/ bankTxn'[t] = bankTxn[t]
                \/ \E z \in Requests : request[z].txn = t /\ (AllocateWrite(z) \/ ConfirmCommit(z))
    BY <2>17, <1>1 DEF MatchItemWrite, TypeOK
  <2>15. CASE UNCHANGED vars
    BY <2>15 DEF vars
  <2> QED
    BY <2>1, <2>2, <2>3, <2>4, <2>5, <2>6, <2>7,
       <2>8, <2>9, <2>10, <2>11, <2>12, <2>13, <2>14, <2>15, <2>16, <2>17
    DEF Next, Allocate, ConfirmTransaction, Void, Remove, MatchItem
<1> QED
  BY <1>3, <1>4, <1>5, <1>6

\* However allocations, confirmations, batch items and deletions interleave, a bank transaction
\* marked as fully matched, that no item of a payment batch has taken, has been spent.
THEOREM FullMatchCorrect == Spec => []FullMatchIsFunded
<1>1. Init => ConfirmReferences /\ MatchReadFunded /\ FullMatchIsFunded
  BY DEF Init, Idle, ConfirmReferences, MatchReadFunded, FullMatchIsFunded
<1>2. IInv /\ ConfirmReferences /\ MatchReadFunded /\ FullMatchIsFunded /\ [Next]_vars
         => ConfirmReferences' /\ MatchReadFunded' /\ FullMatchIsFunded'
  BY ReferencesStep, MatchReadStep, FullMatchStep
<1> QED
  BY <1>1, <1>2, Invariance, PTL DEF Spec

-----------------------------------------------------------------------------
(* Served one at a time, the running totals are those of the rows.         *)

\* Served alone, a request finds the rows still as it checked them.
LEMMA ChecksStep == OneRequest /\ IInv /\ ChecksCurrent /\ [Next]_vars => ChecksCurrent'
<1> SUFFICES ASSUME OneRequest, IInv, ChecksCurrent, [Next]_vars PROVE ChecksCurrent'
  OBVIOUS
<1> USE DEF IInv, TypeOK, RequestOK, ChecksCurrent, OneRequest, RequestState, Idle, Unallocated, Removable
<1>1. ASSUME NEW s \in Settlements, NEW total \in Amounts, CreateSettlement(s, total)
      PROVE  ChecksCurrent'
  BY <1>1 DEF CreateSettlement
<1>2. ASSUME NEW t \in BankTxns, NEW d \in BankTxnDirection, NEW amount \in Amounts,
             ImportTxn(t, d, amount)
      PROVE  ChecksCurrent'
  <2>1. ASSUME NEW u \in BankTxns, Removable(u) PROVE Removable(u)'
    BY <1>2, <2>1 DEF ImportTxn
  <2> QED
    BY <1>2, <2>1 DEF ImportTxn
<1>3. ASSUME NEW r \in Requests, Abort(r)
      PROVE  ChecksCurrent'
  BY <1>3 DEF Abort
<1>4. ASSUME NEW r \in Requests, NEW s \in Settlements, NEW t \in BankTxns,
             NEW amount \in Amounts, AllocateReadSettlement(r, s, t, amount)
      PROVE  ChecksCurrent'
  BY <1>4 DEF AllocateReadSettlement
<1>5. ASSUME NEW r \in Requests, AllocateReadTxn(r)
      PROVE  ChecksCurrent'
  BY <1>5 DEF AllocateReadTxn
<1>6. ASSUME NEW r \in Requests, AllocateWrite(r)
      PROVE  ChecksCurrent'
  BY <1>6 DEF AllocateWrite
<1>7. ASSUME NEW r \in Requests, NEW t \in BankTxns,
             NEW items \in [Settlements -> 0 .. MaxAmount], ConfirmRead(r, t, items)
      PROVE  ChecksCurrent'
  BY <1>7 DEF ConfirmRead
<1>8. ASSUME NEW r \in Requests, NEW s \in Settlements, ConfirmCheckItem(r, s)
      PROVE  ChecksCurrent'
  BY <1>8 DEF ConfirmCheckItem
<1>9. ASSUME NEW r \in Requests, ConfirmApplyItem(r)
      PROVE  ChecksCurrent'
  BY <1>9 DEF ConfirmApplyItem
<1>10. ASSUME NEW r \in Requests, ConfirmCommit(r)
      PROVE  ChecksCurrent'
  BY <1>10 DEF ConfirmCommit
<1>11. ASSUME NEW r \in Requests, NEW s \in Settlements, VoidRead(r, s)
      PROVE  ChecksCurrent'
  BY <1>11 DEF VoidRead
<1>12. ASSUME NEW r \in Requests, VoidWrite(r)
      PROVE  ChecksCurrent'
  BY <1>12 DEF VoidWrite
<1>13. ASSUME NEW r \in Requests, NEW ids \in (SUBSET BankTxns) \ {{}}, RemoveRead(r, ids)
      PROVE  ChecksCurrent'
  BY <1>13 DEF RemoveRead, Removable
<1>14. ASSUME NEW r \in Requests, RemoveDelete(r)
      PROVE  ChecksCurrent'
  BY <1>14 DEF RemoveDelete
<1>16. ASSUME NEW r \in Requests, NEW t \in BankTxns, MatchItemRead(r, t)
       PROVE  ChecksCurrent'
  BY <1>16 DEF MatchItemRead
<1>17. ASSUME NEW r \in Requests, MatchItemWrite(r)
       PROVE  ChecksCurrent'
  BY <1>17 DEF MatchItemWrite
<1>15. CASE UNCHANGED vars
  BY <1>15 DEF vars
<1> QED
  BY <1>1, <1>2, <1>3, <1>4, <1>5, <1>6, <1>7,
     <1>8, <1>9, <1>10, <1>11, <1>12, <1>13, <1>14, <1>15, <1>16, <1>17
  DEF Next, Allocate, ConfirmTransaction, Void, Remove, MatchItem

\* A step that leaves settled totals and allocations alone leaves them in agreement.
LEMMA SettledSame ==
  ASSUME SettledIsAllocated, NEW s \in Settlements,
         settlement'[s].amountSettled = settlement[s].amountSettled,
         settlement'[s].status = "VOID" => settlement'[s].amountSettled = 0,
         \A t \in BankTxns : allocated'[<<t, s>>] = allocated[<<t, s>>]
  PROVE  /\ settlement'[s].amountSettled = SettlementAllocated(s)'
         /\ settlement'[s].status = "VOID" => settlement'[s].amountSettled = 0
  BY SettlementTotalSame DEF SettledIsAllocated

\* What a payment adds to a settlement is what it allocates; nothing else changes either.
LEMMA SettledStep ==
  OneRequest /\ IInv /\ ReadsCurrent /\ SettledIsAllocated /\ [Next]_vars => SettledIsAllocated'
<1> SUFFICES ASSUME OneRequest, IInv, ReadsCurrent, SettledIsAllocated, [Next]_vars
             PROVE  SettledIsAllocated'
  OBVIOUS
<1>0. TypeOK /\ TypeOK' /\ TotalsOK
  BY TotalsType, TypeStep DEF IInv
<1>x. SUFFICES ASSUME NEW z \in Settlements
               PROVE  /\ settlement'[z].amountSettled = SettlementAllocated(z)'
                      /\ settlement'[z].status = "VOID" => settlement'[z].amountSettled = 0
  BY DEF SettledIsAllocated
<1> DEFINE Goal == /\ settlement'[z].amountSettled = SettlementAllocated(z)'
                   /\ settlement'[z].status = "VOID" => settlement'[z].amountSettled = 0
<1>s. ASSUME settlement'[z] = settlement[z],
             \A u \in BankTxns : allocated'[<<u, z>>] = allocated[<<u, z>>]
      PROVE  Goal
  BY <1>s, SettledSame DEF SettledIsAllocated
<1> HIDE DEF Goal
<1>1. ASSUME NEW s \in Settlements, NEW total \in Amounts, CreateSettlement(s, total)
      PROVE  Goal
  <2>1. CASE z = s
    <3>1. settlement'[z].amountSettled = 0 /\ settlement'[z].status = "OPEN"
      BY <1>1, <2>1, <1>0 DEF CreateSettlement, TypeOK
    <3>2. settlement[z].amountSettled = 0
      BY <1>1, <2>1 DEF CreateSettlement, IInv, AbsentUnpaid
    <3>3. \A u \in BankTxns : allocated'[<<u, z>>] = allocated[<<u, z>>]
      BY <1>1 DEF CreateSettlement
    <3> QED
      BY <3>1, <3>2, <3>3, SettledSame DEF Goal
  <2>2. CASE z # s
    BY <1>1, <2>2, <1>s, <1>0 DEF CreateSettlement, TypeOK
  <2> QED
    BY <2>1, <2>2
<1>2. ASSUME NEW t \in BankTxns, NEW d \in BankTxnDirection, NEW amount \in Amounts,
             ImportTxn(t, d, amount)
      PROVE  Goal
  BY <1>2, <1>s DEF ImportTxn
<1>3. ASSUME NEW r \in Requests, Abort(r)
      PROVE  Goal
  BY <1>3, <1>s DEF Abort
<1>4. ASSUME NEW r \in Requests, NEW s \in Settlements, NEW t \in BankTxns,
             NEW amount \in Amounts, AllocateReadSettlement(r, s, t, amount)
      PROVE  Goal
  BY <1>4, <1>s DEF AllocateReadSettlement
<1>5. ASSUME NEW r \in Requests, AllocateReadTxn(r)
      PROVE  Goal
  BY <1>5, <1>s DEF AllocateReadTxn
<1>6. ASSUME NEW r \in Requests, AllocateWrite(r)
      PROVE  Goal
  <2>1. PICK t \in BankTxns, s \in Settlements : t = request[r].txn /\ s = request[r].cur
    BY <1>6, AllocateAllocates
  <2>2. PICK amount \in Nat : amount = request[r].items[s]
    BY <2>1, <1>0 DEF TypeOK, RequestState
  <2>3. settlement' = [settlement EXCEPT
                          ![s].amountSettled = request[r].settledRead + amount,
                          ![s].status = IF request[r].settledRead + amount >= settlement[s].amountTotal
                                        THEN "SETTLED" ELSE "PARTIAL"]
    BY <1>6, <2>1, <2>2 DEF AllocateWrite
  <2>4. CASE z = s
    <3>1. /\ settlement'[z].amountSettled = request[r].settledRead + amount
          /\ settlement'[z].status # "VOID"
      BY <2>3, <2>4, <1>0 DEF TypeOK, SettlementRow
    <3>2. request[r].settledRead = settlement[z].amountSettled
      BY <1>6, <2>1, <2>4 DEF AllocateWrite, ReadsCurrent, AmountsCurrent
    <3>3. /\ allocated[<<t, z>>] = 0
          /\ allocated'[<<t, z>>] = amount
          /\ \A u \in BankTxns \ {t} : allocated'[<<u, z>>] = allocated[<<u, z>>]
      BY <1>6, <2>1, <2>2, <2>4, AllocateAllocates
    <3>4. SettlementAllocated(z)' = SettlementAllocated(z) + amount
      BY <1>0, <3>3, SettlementTotalAdds
    <3> QED
      BY <3>1, <3>2, <3>4 DEF Goal, SettledIsAllocated
  <2>5. CASE z # s
    <3>1. settlement'[z] = settlement[z]
      BY <2>3, <2>5, <1>0 DEF TypeOK
    <3>2. \A u \in BankTxns : allocated'[<<u, z>>] = allocated[<<u, z>>]
      BY <1>6, <2>1, <2>5, AllocateAllocates
    <3> QED
      BY <3>1, <3>2, <1>s
  <2> QED
    BY <2>4, <2>5
<1>7. ASSUME NEW r \in Requests, NEW t \in BankTxns,
             NEW items \in [Settlements -> 0 .. MaxAmount], ConfirmRead(r, t, items)
      PROVE  Goal
  BY <1>7, <1>s DEF ConfirmRead
<1>8. ASSUME NEW r \in Requests, NEW s \in Settlements, ConfirmCheckItem(r, s)
      PROVE  Goal
  BY <1>8, <1>s DEF ConfirmCheckItem
<1>9. ASSUME NEW r \in Requests, ConfirmApplyItem(r)
      PROVE  Goal
  BY <1>9, <1>s DEF ConfirmApplyItem
<1>10. ASSUME NEW r \in Requests, ConfirmCommit(r)
      PROVE  Goal
  <2>1. PICK t \in BankTxns : t = request[r].txn
    BY <1>10, CommitAllocates
  <2>2. PICK amount \in 0 .. MaxAmount : amount = request[r].items[z]
    BY <1>0 DEF TypeOK, RequestState
  <2>3. CASE z \in request[r].written
    <3>1. settlement'[z] = Incremented(settlement[z], amount)
      BY <1>10, <2>2, <2>3 DEF ConfirmCommit
    <3>2. /\ settlement'[z].amountSettled = settlement[z].amountSettled + amount
          /\ settlement'[z].status # "VOID"
      BY <3>1, <1>0, IncrementedType DEF TypeOK
    <3>3. /\ allocated[<<t, z>>] = 0
          /\ allocated'[<<t, z>>] = amount
      BY <1>10, <2>1, <2>2, <2>3, CommitAllocates
    <3>4. \A u \in BankTxns \ {t} : allocated'[<<u, z>>] = allocated[<<u, z>>]
      BY <1>10, <2>1, CommitAllocates
    <3>5. SettlementAllocated(z)' = SettlementAllocated(z) + amount
      BY <1>0, <3>3, <3>4, SettlementTotalAdds
    <3> QED
      BY <3>2, <3>5 DEF Goal, SettledIsAllocated
  <2>4. CASE z \notin request[r].written
    <3>1. settlement'[z] = settlement[z]
      BY <1>10, <2>4 DEF ConfirmCommit
    <3>2. \A u \in BankTxns : allocated'[<<u, z>>] = allocated[<<u, z>>]
      BY <1>10, <2>4, CommitAllocates
    <3> QED
      BY <3>1, <3>2, <1>s
  <2> QED
    BY <2>3, <2>4
<1>11. ASSUME NEW r \in Requests, NEW s \in Settlements, VoidRead(r, s)
      PROVE  Goal
  BY <1>11, <1>s DEF VoidRead
<1>12. ASSUME NEW r \in Requests, VoidWrite(r)
      PROVE  Goal
  <2>1. \A u \in BankTxns : allocated'[<<u, z>>] = allocated[<<u, z>>]
    BY <1>12 DEF VoidWrite
  <2>2. CASE z = request[r].cur
    <3>1. settlement'[z].amountSettled = settlement[z].amountSettled
      BY <1>12, <2>2, <1>0 DEF VoidWrite, TypeOK, SettlementRow
    <3>2. Unallocated(z)
      BY <1>12, <2>2 DEF VoidWrite, ReadsCurrent, ChecksCurrent
    <3>3. settlement[z].amountSettled = 0
      BY <3>2, UnallocatedTotal DEF SettledIsAllocated
    <3> QED
      BY <2>1, <3>1, <3>3, SettledSame DEF Goal
  <2>3. CASE z # request[r].cur
    BY <1>12, <2>1, <2>3, <1>0, <1>s DEF VoidWrite, TypeOK
  <2> QED
    BY <2>2, <2>3
<1>13. ASSUME NEW r \in Requests, NEW ids \in (SUBSET BankTxns) \ {{}}, RemoveRead(r, ids)
      PROVE  Goal
  BY <1>13, <1>s DEF RemoveRead
<1>14. ASSUME NEW r \in Requests, RemoveDelete(r)
      PROVE  Goal
  <2>1. \A u \in request[r].ids : allocated[<<u, z>>] = 0
    BY <1>14 DEF RemoveDelete, ReadsCurrent, ChecksCurrent, Removable
  <2>2. \A u \in BankTxns : allocated'[<<u, z>>] = allocated[<<u, z>>]
    BY <1>14, <2>1 DEF RemoveDelete
  <2>3. settlement'[z] = settlement[z]
    BY <1>14 DEF RemoveDelete
  <2> QED
    BY <2>2, <2>3, <1>s
<1>16. ASSUME NEW r \in Requests, NEW t \in BankTxns, MatchItemRead(r, t)
       PROVE  Goal
  BY <1>16, <1>s DEF MatchItemRead
<1>17. ASSUME NEW r \in Requests, MatchItemWrite(r)
       PROVE  Goal
  BY <1>17, <1>s DEF MatchItemWrite
<1>15. CASE UNCHANGED vars
  <2>1. settlement'[z] = settlement[z] /\ \A u \in BankTxns : allocated'[<<u, z>>] = allocated[<<u, z>>]
    BY <1>15 DEF vars
  <2> QED
    BY <2>1, <1>s DEF Goal
<1> QED
  BY <1>1, <1>2, <1>3, <1>4, <1>5, <1>6, <1>7,
     <1>8, <1>9, <1>10, <1>11, <1>12, <1>13, <1>14, <1>15, <1>16, <1>17
  DEF Next, Allocate, ConfirmTransaction, Void, Remove, MatchItem, Goal

\* Served alone, a request finds what it read unchanged when it writes.
LEMMA ReadsInvariance == OneRequest /\ Spec => []ReadsCurrent
<1> SUFFICES ASSUME OneRequest PROVE Spec => []ReadsCurrent
  OBVIOUS
<1>1. Init => ReadsCurrent
  BY DEF Init, Idle, ReadsCurrent, AmountsCurrent, ChecksCurrent
<1>2. IInv /\ ReadsCurrent /\ [Next]_vars => ReadsCurrent'
  BY AmountsStep, ChecksStep DEF ReadsCurrent
<1> QED
  BY <1>1, <1>2, Invariance, PTL DEF Spec

\* Where the server handles one request at a time, what a settlement says has been paid is what
\* its allocations add up to, for any number of settlements and bank transactions.
THEOREM SerialSettledIsAllocated == OneRequest /\ Spec => []SettledIsAllocated
<1> SUFFICES ASSUME OneRequest PROVE Spec => []SettledIsAllocated
  OBVIOUS
<1>1. ASSUME Init PROVE SettledIsAllocated
  <2>1. \A s \in Settlements : settlement[s].amountSettled = 0 /\ Unallocated(s)
    BY <1>1 DEF Init, Unallocated
  <2> QED
    BY <2>1, UnallocatedTotal DEF SettledIsAllocated
<1>2. IInv /\ ReadsCurrent /\ SettledIsAllocated /\ [Next]_vars => SettledIsAllocated'
  BY SettledStep
<1> QED
  BY <1>1, <1>2, Invariance, ReadsInvariance, PTL DEF Spec

\* A payment that follows a suggestion passes the checks, whatever has been paid so far.
LEMMA SuggestionFits ==
  ASSUME TypeOK, SettledIsAllocated
  PROVE  SuggestionIsAccepted
<1>1. SUFFICES ASSUME NEW t \in BankTxns, NEW s \in Settlements, TxnExists(t),
                      bankTxn[t].direction = "OUT", ~bankTxn[t].isConfirmed,
                      s \in Suggested(t), SuggestedAmount(t, s) > 0
               PROVE  /\ Confirmable(t, [NoItems EXCEPT ![s] = SuggestedAmount(t, s)])
                      /\ Payable(s, SuggestedAmount(t, s))
                      /\ TxnAllocated(t) + SuggestedAmount(t, s) <= bankTxn[t].amount
                      /\ SettlementAllocated(s) + SuggestedAmount(t, s) <= settlement[s].amountTotal
  BY DEF SuggestionIsAccepted
<1> DEFINE a == bankTxn[t].amount - TxnAllocated(t)
           b == settlement[s].amountTotal - settlement[s].amountSettled
           amount == SuggestedAmount(t, s)
<1>2. /\ bankTxn[t].amount \in Nat /\ TxnAllocated(t) \in Nat
      /\ settlement[s].amountTotal \in Nat /\ settlement[s].amountSettled \in Nat
  BY TotalsType DEF TotalsOK, TypeOK, BankTxnRow, SettlementRow
<1>3. a \in Int /\ b \in Int
  BY <1>2
<1>4. amount = Min({a, b})
  BY DEF SuggestedAmount
<1> HIDE DEF a, b, amount
<1>5. amount \in {a, b} /\ amount <= a /\ amount <= b
  <2>1. \E x \in {a, b} : \A y \in {a, b} : x <= y
    BY <1>3
  <2>2. amount \in {a, b} /\ \A y \in {a, b} : amount <= y
    BY <1>4, <2>1, Zenon DEF Min
  <2> QED
    BY <2>2
<1>6. amount \in Nat /\ amount > 0
  BY <1>1, <1>3, <1>5 DEF amount
<1>7. ItemsTotal([NoItems EXCEPT ![s] = amount]) = amount
  BY <1>6, OneItemTotal
<1>8. amount <= bankTxn[t].amount /\ TxnAllocated(t) + amount <= bankTxn[t].amount
  BY <1>2, <1>5, <1>6 DEF a
<1>9. /\ bankTxn[t].direction = "OUT"
      /\ settlement[s].status \in {"OPEN", "PARTIAL"}
  BY <1>1 DEF Suggested
<1>10. Confirmable(t, [NoItems EXCEPT ![s] = amount])
  BY <1>1, <1>6, <1>7, <1>8, <1>9 DEF Confirmable
<1>11. Payable(s, amount)
  BY <1>5, <1>9 DEF Payable, FitsSettlement, b
<1>12. SettlementAllocated(s) + amount <= settlement[s].amountTotal
  BY <1>2, <1>5, <1>6 DEF SettledIsAllocated, b
<1> QED
  BY <1>8, <1>10, <1>11, <1>12 DEF amount

\* Where the server handles one request at a time, every suggestion of getMatchSuggestions for
\* an outgoing transaction is one that confirmTransaction takes and that the two rows can bear.
THEOREM SerialSuggestionIsAccepted == OneRequest /\ Spec => []SuggestionIsAccepted
<1>1. TypeOK /\ SettledIsAllocated => SuggestionIsAccepted
  BY SuggestionFits
<1> QED
  BY <1>1, TypeCorrect, SerialSettledIsAllocated, PTL

-----------------------------------------------------------------------------
(* Confirmed bank transactions.                                            *)

\* No handler unconfirms or deletes a confirmed bank transaction.
LEMMA ConfirmedKept ==
  ASSUME OneRequest, IInv, ReadsCurrent, ConfirmedExists, [Next]_vars, NEW u \in BankTxns,
         bankTxn[u].isConfirmed
  PROVE  bankTxn'[u].isConfirmed /\ bankTxn'[u].matchStatus \notin {"ABSENT", "DELETED"}
<1> USE DEF IInv, TypeOK, RequestOK, ConfirmedExists, TxnExists, BankTxnRow, MatchStatusFor
<1>1. ASSUME NEW s \in Settlements, NEW total \in Amounts, CreateSettlement(s, total)
      PROVE  bankTxn'[u].isConfirmed /\ bankTxn'[u].matchStatus \notin {"ABSENT", "DELETED"}
  BY <1>1 DEF CreateSettlement
<1>2. ASSUME NEW t \in BankTxns, NEW d \in BankTxnDirection, NEW amount \in Amounts,
             ImportTxn(t, d, amount)
      PROVE  bankTxn'[u].isConfirmed /\ bankTxn'[u].matchStatus \notin {"ABSENT", "DELETED"}
  BY <1>2 DEF ImportTxn
<1>3. ASSUME NEW r \in Requests, Abort(r)
      PROVE  bankTxn'[u].isConfirmed /\ bankTxn'[u].matchStatus \notin {"ABSENT", "DELETED"}
  BY <1>3 DEF Abort
<1>4. ASSUME NEW r \in Requests, NEW s \in Settlements, NEW t \in BankTxns,
             NEW amount \in Amounts, AllocateReadSettlement(r, s, t, amount)
      PROVE  bankTxn'[u].isConfirmed /\ bankTxn'[u].matchStatus \notin {"ABSENT", "DELETED"}
  BY <1>4 DEF AllocateReadSettlement
<1>5. ASSUME NEW r \in Requests, AllocateReadTxn(r)
      PROVE  bankTxn'[u].isConfirmed /\ bankTxn'[u].matchStatus \notin {"ABSENT", "DELETED"}
  BY <1>5 DEF AllocateReadTxn
<1>6. ASSUME NEW r \in Requests, AllocateWrite(r)
      PROVE  bankTxn'[u].isConfirmed /\ bankTxn'[u].matchStatus \notin {"ABSENT", "DELETED"}
  BY <1>6 DEF AllocateWrite
<1>7. ASSUME NEW r \in Requests, NEW t \in BankTxns,
             NEW items \in [Settlements -> 0 .. MaxAmount], ConfirmRead(r, t, items)
      PROVE  bankTxn'[u].isConfirmed /\ bankTxn'[u].matchStatus \notin {"ABSENT", "DELETED"}
  BY <1>7 DEF ConfirmRead
<1>8. ASSUME NEW r \in Requests, NEW s \in Settlements, ConfirmCheckItem(r, s)
      PROVE  bankTxn'[u].isConfirmed /\ bankTxn'[u].matchStatus \notin {"ABSENT", "DELETED"}
  BY <1>8 DEF ConfirmCheckItem
<1>9. ASSUME NEW r \in Requests, ConfirmApplyItem(r)
      PROVE  bankTxn'[u].isConfirmed /\ bankTxn'[u].matchStatus \notin {"ABSENT", "DELETED"}
  BY <1>9 DEF ConfirmApplyItem
<1>10. ASSUME NEW r \in Requests, ConfirmCommit(r)
      PROVE  bankTxn'[u].isConfirmed /\ bankTxn'[u].matchStatus \notin {"ABSENT", "DELETED"}
  BY <1>10 DEF ConfirmCommit
<1>11. ASSUME NEW r \in Requests, NEW s \in Settlements, VoidRead(r, s)
      PROVE  bankTxn'[u].isConfirmed /\ bankTxn'[u].matchStatus \notin {"ABSENT", "DELETED"}
  BY <1>11 DEF VoidRead
<1>12. ASSUME NEW r \in Requests, VoidWrite(r)
      PROVE  bankTxn'[u].isConfirmed /\ bankTxn'[u].matchStatus \notin {"ABSENT", "DELETED"}
  BY <1>12 DEF VoidWrite
<1>13. ASSUME NEW r \in Requests, NEW ids \in (SUBSET BankTxns) \ {{}}, RemoveRead(r, ids)
      PROVE  bankTxn'[u].isConfirmed /\ bankTxn'[u].matchStatus \notin {"ABSENT", "DELETED"}
  BY <1>13 DEF RemoveRead
<1>14. ASSUME NEW r \in Requests, RemoveDelete(r)
      PROVE  bankTxn'[u].isConfirmed /\ bankTxn'[u].matchStatus \notin {"ABSENT", "DELETED"}
  <2>1. u \notin request[r].ids
    BY <1>14 DEF RemoveDelete, ReadsCurrent, ChecksCurrent, Removable
  <2> QED
    BY <1>14, <2>1 DEF RemoveDelete
<1>16. ASSUME NEW r \in Requests, NEW t \in BankTxns, MatchItemRead(r, t)
       PROVE  bankTxn'[u].isConfirmed /\ bankTxn'[u].matchStatus \notin {"ABSENT", "DELETED"}
  BY <1>16 DEF MatchItemRead
<1>17. ASSUME NEW r \in Requests, MatchItemWrite(r)
       PROVE  bankTxn'[u].isConfirmed /\ bankTxn'[u].matchStatus \notin {"ABSENT", "DELETED"}
  BY <1>17 DEF MatchItemWrite
<1>15. CASE UNCHANGED vars
  BY <1>15 DEF vars
<1> QED
  BY <1>1, <1>2, <1>3, <1>4, <1>5, <1>6, <1>7,
     <1>8, <1>9, <1>10, <1>11, <1>12, <1>13, <1>14, <1>15, <1>16, <1>17
  DEF Next, Allocate, ConfirmTransaction, Void, Remove, MatchItem

\* Only a bank transaction that is there is confirmed.
LEMMA ConfirmedStep ==
  OneRequest /\ IInv /\ ReadsCurrent /\ ConfirmedExists /\ [Next]_vars => ConfirmedExists'
<1> SUFFICES ASSUME OneRequest, IInv, ReadsCurrent, ConfirmedExists, [Next]_vars,
                    NEW u \in BankTxns, bankTxn'[u].isConfirmed
             PROVE  bankTxn'[u].matchStatus \notin {"ABSENT", "DELETED"}
  BY DEF ConfirmedExists, TxnExists
<1>0. CASE bankTxn[u].isConfirmed
  BY <1>0, ConfirmedKept
<1> SUFFICES ASSUME ~bankTxn[u].isConfirmed
             PROVE  bankTxn'[u].matchStatus \notin {"ABSENT", "DELETED"}
  BY <1>0
<1> USE DEF IInv, TypeOK, RequestOK, BankTxnRow, MatchStatusFor
<1>1. ASSUME NEW s \in Settlements, NEW total \in Amounts, CreateSettlement(s, total)
      PROVE  bankTxn'[u].matchStatus \notin {"ABSENT", "DELETED"}
  BY <1>1 DEF CreateSettlement
<1>2. ASSUME NEW t \in BankTxns, NEW d \in BankTxnDirection, NEW amount \in Amounts,
             ImportTxn(t, d, amount)
      PROVE  bankTxn'[u].matchStatus \notin {"ABSENT", "DELETED"}
  BY <1>2 DEF ImportTxn
<1>3. ASSUME NEW r \in Requests, Abort(r)
      PROVE  bankTxn'[u].matchStatus \notin {"ABSENT", "DELETED"}
  BY <1>3 DEF Abort
<1>4. ASSUME NEW r \in Requests, NEW s \in Settlements, NEW t \in BankTxns,
             NEW amount \in Amounts, AllocateReadSettlement(r, s, t, amount)
      PROVE  bankTxn'[u].matchStatus \notin {"ABSENT", "DELETED"}
  BY <1>4 DEF AllocateReadSettlement
<1>5. ASSUME NEW r \in Requests, AllocateReadTxn(r)
      PROVE  bankTxn'[u].matchStatus \notin {"ABSENT", "DELETED"}
  BY <1>5 DEF AllocateReadTxn
<1>6. ASSUME NEW r \in Requests, AllocateWrite(r)
      PROVE  bankTxn'[u].matchStatus \notin {"ABSENT", "DELETED"}
  BY <1>6 DEF AllocateWrite
<1>7. ASSUME NEW r \in Requests, NEW t \in BankTxns,
             NEW items \in [Settlements -> 0 .. MaxAmount], ConfirmRead(r, t, items)
      PROVE  bankTxn'[u].matchStatus \notin {"ABSENT", "DELETED"}
  BY <1>7 DEF ConfirmRead
<1>8. ASSUME NEW r \in Requests, NEW s \in Settlements, ConfirmCheckItem(r, s)
      PROVE  bankTxn'[u].matchStatus \notin {"ABSENT", "DELETED"}
  BY <1>8 DEF ConfirmCheckItem
<1>9. ASSUME NEW r \in Requests, ConfirmApplyItem(r)
      PROVE  bankTxn'[u].matchStatus \notin {"ABSENT", "DELETED"}
  BY <1>9 DEF ConfirmApplyItem
<1>10. ASSUME NEW r \in Requests, ConfirmCommit(r)
      PROVE  bankTxn'[u].matchStatus \notin {"ABSENT", "DELETED"}
  BY <1>10 DEF ConfirmCommit
<1>11. ASSUME NEW r \in Requests, NEW s \in Settlements, VoidRead(r, s)
      PROVE  bankTxn'[u].matchStatus \notin {"ABSENT", "DELETED"}
  BY <1>11 DEF VoidRead
<1>12. ASSUME NEW r \in Requests, VoidWrite(r)
      PROVE  bankTxn'[u].matchStatus \notin {"ABSENT", "DELETED"}
  BY <1>12 DEF VoidWrite
<1>13. ASSUME NEW r \in Requests, NEW ids \in (SUBSET BankTxns) \ {{}}, RemoveRead(r, ids)
      PROVE  bankTxn'[u].matchStatus \notin {"ABSENT", "DELETED"}
  BY <1>13 DEF RemoveRead
<1>14. ASSUME NEW r \in Requests, RemoveDelete(r)
      PROVE  bankTxn'[u].matchStatus \notin {"ABSENT", "DELETED"}
  BY <1>14 DEF RemoveDelete
<1>16. ASSUME NEW r \in Requests, NEW t \in BankTxns, MatchItemRead(r, t)
       PROVE  bankTxn'[u].matchStatus \notin {"ABSENT", "DELETED"}
  BY <1>16 DEF MatchItemRead
<1>17. ASSUME NEW r \in Requests, MatchItemWrite(r)
       PROVE  bankTxn'[u].matchStatus \notin {"ABSENT", "DELETED"}
  BY <1>17 DEF MatchItemWrite
<1>15. CASE UNCHANGED vars
  BY <1>15 DEF vars
<1> QED
  BY <1>1, <1>2, <1>3, <1>4, <1>5, <1>6, <1>7,
     <1>8, <1>9, <1>10, <1>11, <1>12, <1>13, <1>14, <1>15, <1>16, <1>17
  DEF Next, Allocate, ConfirmTransaction, Void, Remove, MatchItem

\* Where the server handles one request at a time, a confirmed bank transaction is there for good.
THEOREM SerialConfirmedIsFinal == OneRequest /\ Spec => ConfirmedIsFinal
<1> SUFFICES ASSUME OneRequest PROVE Spec => ConfirmedIsFinal
  OBVIOUS
<1>1. Init => ConfirmedExists
  BY DEF Init, ConfirmedExists
<1>2. IInv /\ ReadsCurrent /\ ConfirmedExists /\ [Next]_vars => ConfirmedExists'
  BY ConfirmedStep
<1>3. IInv /\ ReadsCurrent /\ ConfirmedExists /\ [Next]_vars
         => [\A t \in BankTxns : bankTxn[t].isConfirmed =>
                /\ bankTxn'[t].isConfirmed
                /\ bankTxn'[t].matchStatus # "DELETED"]_vars
  BY ConfirmedKept
<1> QED
  BY <1>1, <1>2, <1>3, Invariance, ReadsInvariance, PTL DEF Spec, ConfirmedIsFinal

-----------------------------------------------------------------------------
(* Served one at a time, every handler keeps the ledger.                   *)

\* What allocate writes is a payment of one item.
LEMMA AllocatePays ==
  ASSUME IInv, ReadsCurrent, NEW r \in Requests, AllocateWrite(r)
  PROVE  Ledger!Next
<1> USE DEF IInv
<1>1. PICK t \in BankTxns, s \in Settlements : t = request[r].txn /\ s = request[r].cur
  BY AllocateAllocates
<1>2. PICK amount \in 0 .. MaxAmount : amount = request[r].items[s]
  BY <1>1 DEF TypeOK, RequestState
<1> DEFINE items == [z \in Settlements |-> IF z = s THEN amount ELSE 0]
<1>3. items \in [Settlements -> 0 .. MaxAmount]
  OBVIOUS
<1>4. amount > 0 /\ request[r].settledRead = settlement[s].amountSettled
  BY <1>1, <1>2 DEF AllocateWrite, RequestOK, ReadsCurrent, AmountsCurrent
<1>5. allocated[<<t, s>>] = 0 /\ allocated' = [allocated EXCEPT ![<<t, s>>] = amount]
  BY <1>1, <1>2, AllocateAllocates DEF AllocateWrite
<1>6. allocated' = [p \in BankTxns \X Settlements |->
                      IF p[1] = t /\ items[p[2]] > 0 THEN items[p[2]] ELSE allocated[p]]
  <2>1. \A p \in BankTxns \X Settlements : (p[1] = t /\ p[2] = s) <=> p = <<t, s>>
    OBVIOUS
  <2>2. \A p \in BankTxns \X Settlements : (p[1] = t /\ items[p[2]] > 0) <=> p = <<t, s>>
    BY <1>4, <2>1
  <2> HIDE DEF items
  <2>3. \A p \in BankTxns \X Settlements :
           allocated'[p] = IF p = <<t, s>> THEN amount ELSE allocated[p]
    BY <1>5 DEF TypeOK
  <2>4. \A p \in BankTxns \X Settlements :
           allocated'[p] = IF p[1] = t /\ items[p[2]] > 0 THEN items[p[2]] ELSE allocated[p]
    BY <2>1, <2>2, <2>3 DEF items
  <2>5. allocated' = [p \in BankTxns \X Settlements |-> allocated'[p]]
    BY <1>5 DEF TypeOK
  <2> QED
    BY <2>4, <2>5
<1>7. \A z \in Settlements : items[z] > 0 => allocated[<<t, z>>] = 0
  BY <1>5
<1>8. settledTotals' = [z \in Settlements |-> settledTotals[z] + items[z]]
  <2>1. \A z \in Settlements :
           settlement'[z].amountSettled = settlement[z].amountSettled + items[z]
    BY <1>1, <1>2, <1>4 DEF AllocateWrite, TypeOK, SettlementRow
  <2> QED
    BY <2>1 DEF settledTotals
<1> HIDE DEF items
<1>9. Ledger!Pay(t, items)
  BY <1>6, <1>7, <1>8 DEF Ledger!Pay, settledTotals
<1> QED
  BY <1>3, <1>9 DEF Ledger!Next

\* Served alone, a step of any handler is a payment of the ledger or leaves it alone.
LEMMA SerialLedgerStep ==
  OneRequest /\ IInv /\ ReadsCurrent /\ [Next]_vars => [Ledger!Next]_<<allocated, settledTotals>>
<1> SUFFICES ASSUME OneRequest, IInv, ReadsCurrent, [Next]_vars
             PROVE  [Ledger!Next]_<<allocated, settledTotals>>
  OBVIOUS
<1> USE DEF IInv
<1>1. ASSUME NEW s \in Settlements, NEW total \in Amounts, CreateSettlement(s, total)
      PROVE  [Ledger!Next]_<<allocated, settledTotals>>
  <2>1. settlement[s].amountSettled = 0 /\ settlement'[s].amountSettled = 0
    BY <1>1 DEF CreateSettlement, AbsentUnpaid, TypeOK
  <2>2. \A x \in Settlements \ {s} : settlement'[x] = settlement[x]
    BY <1>1 DEF CreateSettlement, TypeOK
  <2> QED
    BY <1>1, <2>1, <2>2 DEF CreateSettlement, settledTotals
<1>2. ASSUME NEW t \in BankTxns, NEW d \in BankTxnDirection, NEW amount \in Amounts,
             ImportTxn(t, d, amount)
      PROVE  [Ledger!Next]_<<allocated, settledTotals>>
  BY <1>2 DEF ImportTxn, settledTotals
<1>3. ASSUME NEW r \in Requests, Abort(r)
      PROVE  [Ledger!Next]_<<allocated, settledTotals>>
  BY <1>3 DEF Abort, settledTotals
<1>4. ASSUME NEW r \in Requests, NEW s \in Settlements, NEW t \in BankTxns,
             NEW amount \in Amounts, AllocateReadSettlement(r, s, t, amount)
      PROVE  [Ledger!Next]_<<allocated, settledTotals>>
  BY <1>4 DEF AllocateReadSettlement, settledTotals
<1>5. ASSUME NEW r \in Requests, AllocateReadTxn(r)
      PROVE  [Ledger!Next]_<<allocated, settledTotals>>
  BY <1>5 DEF AllocateReadTxn, settledTotals
<1>6. ASSUME NEW r \in Requests, AllocateWrite(r)
      PROVE  [Ledger!Next]_<<allocated, settledTotals>>
  BY <1>6, AllocatePays
<1>7. ASSUME NEW r \in Requests, NEW t \in BankTxns,
             NEW items \in [Settlements -> 0 .. MaxAmount], ConfirmRead(r, t, items)
      PROVE  [Ledger!Next]_<<allocated, settledTotals>>
  BY <1>7 DEF ConfirmRead, settledTotals
<1>8. ASSUME NEW r \in Requests, NEW s \in Settlements, ConfirmCheckItem(r, s)
      PROVE  [Ledger!Next]_<<allocated, settledTotals>>
  BY <1>8 DEF ConfirmCheckItem, settledTotals
<1>9. ASSUME NEW r \in Requests, ConfirmApplyItem(r)
      PROVE  [Ledger!Next]_<<allocated, settledTotals>>
  BY <1>9 DEF ConfirmApplyItem, settledTotals
<1>10. ASSUME NEW r \in Requests, ConfirmCommit(r)
      PROVE  [Ledger!Next]_<<allocated, settledTotals>>
  BY <1>10, CommitPays
<1>11. ASSUME NEW r \in Requests, NEW s \in Settlements, VoidRead(r, s)
      PROVE  [Ledger!Next]_<<allocated, settledTotals>>
  BY <1>11 DEF VoidRead, settledTotals
<1>12. ASSUME NEW r \in Requests, VoidWrite(r)
      PROVE  [Ledger!Next]_<<allocated, settledTotals>>
  <2>1. \A x \in Settlements : settlement'[x].amountSettled = settlement[x].amountSettled
    BY <1>12 DEF VoidWrite, TypeOK, SettlementRow
  <2> QED
    BY <1>12, <2>1 DEF VoidWrite, settledTotals
<1>13. ASSUME NEW r \in Requests, NEW ids \in (SUBSET BankTxns) \ {{}}, RemoveRead(r, ids)
      PROVE  [Ledger!Next]_<<allocated, settledTotals>>
  BY <1>13 DEF RemoveRead, settledTotals
<1>14. ASSUME NEW r \in Requests, RemoveDelete(r)
      PROVE  [Ledger!Next]_<<allocated, settledTotals>>
  <2>1. \A u \in request[r].ids, s \in Settlements : allocated[<<u, s>>] = 0
    BY <1>14 DEF RemoveDelete, ReadsCurrent, ChecksCurrent, Removable
  <2>2. \A p \in BankTxns \X Settlements : allocated'[p] = allocated[p]
    BY <1>14, <2>1 DEF RemoveDelete
  <2>3. allocated' = allocated
    BY <1>14, <2>2 DEF RemoveDelete, TypeOK
  <2> QED
    BY <1>14, <2>3 DEF RemoveDelete, settledTotals
<1>16. ASSUME NEW r \in Requests, NEW t \in BankTxns, MatchItemRead(r, t)
       PROVE  [Ledger!Next]_<<allocated, settledTotals>>
  BY <1>16 DEF MatchItemRead, settledTotals
<1>17. ASSUME NEW r \in Requests, MatchItemWrite(r)
       PROVE  [Ledger!Next]_<<allocated, settledTotals>>
  <2>1. \A x \in Settlements : settlement'[x].amountSettled = settlement[x].amountSettled
    BY <1>17 DEF MatchItemWrite, TypeOK, SettlementRow
  <2> QED
    BY <1>17, <2>1 DEF MatchItemWrite, settledTotals
<1>15. CASE UNCHANGED vars
  BY <1>15 DEF vars, settledTotals
<1> QED
  BY <1>1, <1>2, <1>3, <1>4, <1>5, <1>6, <1>7,
     <1>8, <1>9, <1>10, <1>11, <1>12, <1>13, <1>14, <1>15, <1>16, <1>17
  DEF Next, Allocate, ConfirmTransaction, Void, Remove, MatchItem

\* Where the server handles one request at a time, all its handlers together, confirmations, single
\* allocations, voids and deletions, implement the ledger.
THEOREM SerialLedgerCorrect == OneRequest /\ Spec => LedgerSpec
<1> SUFFICES ASSUME OneRequest PROVE Spec => LedgerSpec
  OBVIOUS
<1>1. IInv /\ ReadsCurrent /\ [Next]_vars => [Ledger!Next]_<<allocated, settledTotals>>
  BY SerialLedgerStep
<1> QED
  BY <1>1, LedgerInit, Invariance, ReadsInvariance, PTL DEF Spec, LedgerSpec, Ledger!Spec, settledTotals
-----------------------------------------------------------------------------
(* Served one at a time, and paid in one way only, no bank transaction is  *)
(* overdrawn.                                                              *)

\* A bank transaction that pays nothing has a total of nothing.
LEMMA UnpaidTotal ==
  ASSUME NEW t \in BankTxns, \A s \in Settlements : allocated[<<t, s>>] = 0
  PROVE  TxnAllocated(t) = 0
<1> DEFINE f == [s \in Settlements |-> allocated[<<t, s>>]]
<1>1. \A s \in Settlements : f[s] = 0
  OBVIOUS
<1>2. TxnAllocated(t) = SumFunctionOnSet(f, Settlements)
  BY DEF TxnAllocated
<1> HIDE DEF f
<1> QED
  BY <1>1, <1>2, SumZero, FiniteAssumption

\* ... and so has one that is not there yet.
LEMMA AbsentTotal ==
  ASSUME IInv, NEW t \in BankTxns, bankTxn[t].matchStatus = "ABSENT"
  PROVE  TxnAllocated(t) = 0
<1>1. \A s \in Settlements : allocated[<<t, s>>] \in 0 .. MaxAmount /\ ~(allocated[<<t, s>>] > 0)
  BY DEF IInv, TypeOK, AllocatedTxnIsMatched
<1> QED
  BY <1>1, UnpaidTotal

\* A confirmation of a bank transaction that has paid nothing makes its total that of the items.
LEMMA CommitTotal ==
  ASSUME IInv, TypeOK', NEW r \in Requests, ConfirmCommit(r), NEW t \in BankTxns, t = request[r].txn,
         \A s \in Settlements : allocated[<<t, s>>] = 0
  PROVE  TxnAllocated(t)' = ItemsTotal(request[r].items)
<1> DEFINE g == [s \in Settlements |-> allocated'[<<t, s>>]]
<1>1. PICK items \in [Settlements -> 0 .. MaxAmount] : items = request[r].items
  BY CommitAllocates
<1>2. ASSUME NEW s \in Settlements PROVE allocated'[<<t, s>>] = items[s]
  <2>1. CASE s \in request[r].written
    BY <1>1, <2>1, CommitAllocates
  <2>2. CASE s \notin request[r].written
    <3>1. allocated'[<<t, s>>] = 0
      BY <2>2, CommitAllocates
    <3>2. items[s] \in 0 .. MaxAmount /\ ~(items[s] > 0)
      BY <1>1, <2>2, CommitAllocates
    <3> QED
      BY <3>1, <3>2
  <2> QED
    BY <2>1, <2>2
<1>3. g = items
  BY <1>2
<1>4. TxnAllocated(t)' = SumFunctionOnSet(g, Settlements)
  BY DEF TxnAllocated
<1> QED
  BY <1>1, <1>3, <1>4 DEF ItemsTotal

\* A step that leaves bank transactions and allocations alone leaves what a request found alone.
LEMMA LeftSame ==
  ASSUME IInv, FundsCurrent, TxnNotOverAllocated, bankTxn' = bankTxn, allocated' = allocated
  PROVE  /\ UnpaidUntilConfirmed'
         /\ TxnNotOverAllocated'
         /\ \A r \in Requests : request'[r] = request[r] => TxnHasLeft(request[r])'
<1>1. \A t \in BankTxns : TxnAllocated(t)' = TxnAllocated(t)
  BY TxnTotalSame
<1>2. UnpaidUntilConfirmed' /\ TxnNotOverAllocated'
  BY <1>1 DEF FundsCurrent, UnpaidUntilConfirmed, TxnNotOverAllocated
<1>3. ASSUME NEW r \in Requests, request'[r] = request[r]
      PROVE  TxnHasLeft(request[r])'
  <2>1. TxnHasLeft(request[r])
    BY DEF FundsCurrent
  <2>2. request[r].pc = "allocateWrite" =>
            TxnAllocated(request[r].txn)' = TxnAllocated(request[r].txn)
    BY <1>1, <1>3 DEF IInv, RequestOK
  <2> QED
    BY <1>3, <2>1, <2>2 DEF TxnHasLeft, ItemsTotal
<1> QED
  BY <1>2, <1>3

\* A step that ends the request leaves nothing that was found.
LEMMA LeftIdle ==
  ASSUME TypeOK, NEW r \in Requests, request' = [request EXCEPT ![r] = Idle]
  PROVE  TxnHasLeft(request[r])'
  BY DEF TypeOK, TxnHasLeft, Idle

\* What a payment was checked against is what it takes from.
LEMMA FundsStep ==
  OneRequest /\ OneWayToPay /\ IInv /\ ReadsCurrent /\ FundsCurrent /\ TxnNotOverAllocated /\ [Next]_vars
    => FundsCurrent' /\ TxnNotOverAllocated'
<1> SUFFICES ASSUME OneRequest, OneWayToPay, IInv, ReadsCurrent, FundsCurrent, TxnNotOverAllocated,
                    [Next]_vars
             PROVE  FundsCurrent' /\ TxnNotOverAllocated'
  OBVIOUS
<1> DEFINE Kept == UnpaidUntilConfirmed' /\ TxnNotOverAllocated'
           Left(r) == TxnHasLeft(request[r])'
<1>0. TypeOK /\ TypeOK' /\ TotalsOK /\ TotalsOK'
  BY TotalsType, TotalsTypeNext, TypeStep DEF IInv
<1>a. /\ UnpaidUntilConfirmed
      /\ \A r \in Requests : TxnHasLeft(request[r])
      /\ \A q, r \in Requests : q = r
  BY DEF FundsCurrent, OneRequest
<1>n. /\ \A t \in BankTxns : bankTxn[t].amount \in Nat /\ TxnAllocated(t) \in Nat
      /\ \A t \in BankTxns, s \in Settlements : allocated[<<t, s>>] \in Nat
  BY <1>0 DEF TotalsOK, TypeOK, BankTxnRow
<1>s. ASSUME bankTxn' = bankTxn, allocated' = allocated
      PROVE  Kept /\ \A r \in Requests : request'[r] = request[r] => Left(r)
  BY <1>s, LeftSame
<1>i. ASSUME NEW r \in Requests, request' = [request EXCEPT ![r] = Idle]
      PROVE  \A q \in Requests : Left(q)
  BY <1>0, <1>a, <1>i, LeftIdle
<1> HIDE DEF Kept, Left
<1> SUFFICES Kept /\ \A r \in Requests : Left(r)
  BY DEF Kept, Left, FundsCurrent
<1>1. ASSUME NEW s \in Settlements, NEW total \in Amounts, CreateSettlement(s, total)
      PROVE  Kept /\ \A r \in Requests : Left(r)
  BY <1>1, <1>s DEF CreateSettlement
<1>2. ASSUME NEW t \in BankTxns, NEW d \in BankTxnDirection, NEW amount \in Amounts,
             ImportTxn(t, d, amount)
      PROVE  Kept /\ \A r \in Requests : Left(r)
  <2>1. /\ bankTxn[t].matchStatus = "ABSENT"
        /\ bankTxn'[t].amount = amount
        /\ \A u \in BankTxns \ {t} : bankTxn'[u] = bankTxn[u]
        /\ allocated' = allocated /\ request' = request
    BY <1>2, <1>0 DEF ImportTxn, TypeOK
  <2>2. \A u \in BankTxns : TxnAllocated(u)' = TxnAllocated(u)
    BY <2>1, TxnTotalSame
  <2>3. TxnAllocated(t) = 0 /\ amount \in Nat /\ amount >= 0
    BY <2>1, AbsentTotal DEF Amounts
  <2>4. \A s \in Settlements : allocated[<<t, s>>] = 0
    BY <2>1, <1>n DEF IInv, AllocatedTxnIsMatched
  <2>5. UnpaidUntilConfirmed'
    BY <1>a, <2>1, <2>4 DEF UnpaidUntilConfirmed
  <2>6. TxnNotOverAllocated'
    BY <2>1, <2>2, <2>3 DEF TxnNotOverAllocated
  <2>7. ASSUME NEW r \in Requests PROVE Left(r)
    <3>1. request'[r] = request[r] /\ TxnHasLeft(request[r])
      BY <1>a, <2>1
    <3>2. request[r].pc \in {"allocateWrite", "confirm", "confirmItem"} =>
              /\ request[r].txn \in BankTxns
              /\ bankTxn[request[r].txn].matchStatus # "ABSENT"
      BY <3>1 DEF IInv, RequestOK, TxnHasLeft
    <3>3. request[r].pc \in {"allocateWrite", "confirm", "confirmItem"} =>
              /\ bankTxn'[request[r].txn] = bankTxn[request[r].txn]
              /\ TxnAllocated(request[r].txn)' = TxnAllocated(request[r].txn)
      BY <2>1, <2>2, <3>2
    <3> QED
      BY <3>1, <3>2, <3>3 DEF Left, TxnHasLeft, ItemsTotal
  <2> QED
    BY <2>5, <2>6, <2>7 DEF Kept
<1>3. ASSUME NEW r \in Requests, Abort(r)
      PROVE  Kept /\ \A q \in Requests : Left(q)
  BY <1>3, <1>s, <1>i DEF Abort
<1>4. ASSUME NEW r \in Requests, NEW s \in Settlements, NEW t \in BankTxns,
             NEW amount \in Amounts, AllocateReadSettlement(r, s, t, amount)
      PROVE  Kept /\ \A q \in Requests : Left(q)
  <2>1. Kept
    BY <1>4, <1>s DEF AllocateReadSettlement
  <2>2. request'[r].pc = "allocateTxn" /\ "allocate" \in Operations
    BY <1>4, <1>0 DEF AllocateReadSettlement, Begin, TypeOK, Idle
  <2>3. Left(r)
    BY <2>2 DEF Left, TxnHasLeft
  <2> QED
    BY <1>a, <2>1, <2>3
<1>5. ASSUME NEW r \in Requests, AllocateReadTxn(r)
      PROVE  Kept /\ \A q \in Requests : Left(q)
  <2>1. PICK t \in BankTxns, s \in Settlements : t = request[r].txn /\ s = request[r].cur
    BY <1>5 DEF AllocateReadTxn, IInv, RequestOK
  <2>2. PICK amount \in Nat : amount = request[r].items[s]
    BY <2>1, <1>0 DEF TypeOK, RequestState
  <2>3. /\ "allocate" \in Operations
        /\ TxnExists(t)
        /\ amount <= bankTxn[t].amount - TxnAllocated(t)
        /\ bankTxn' = bankTxn /\ allocated' = allocated
    BY <1>5, <1>a, <2>1, <2>2 DEF AllocateReadTxn, TxnHasLeft
  <2>4. /\ request'[r].pc = "allocateWrite" /\ request'[r].txn = t
        /\ request'[r].cur = s /\ request'[r].items[s] = amount
    BY <1>5, <1>0, <2>1, <2>2 DEF AllocateReadTxn, TypeOK, RequestState
  <2>5. TxnAllocated(t)' = TxnAllocated(t)
    BY <2>3, TxnTotalSame
  <2>6. TxnAllocated(t) + amount <= bankTxn[t].amount
    BY <1>n, <2>3
  <2>7. Left(r)
    BY <2>3, <2>4, <2>5, <2>6 DEF Left, TxnHasLeft, TxnExists
  <2> QED
    BY <1>a, <1>s, <2>3, <2>7
<1>6. ASSUME NEW r \in Requests, AllocateWrite(r)
      PROVE  Kept /\ \A q \in Requests : Left(q)
  <2>1. PICK t \in BankTxns, s \in Settlements : t = request[r].txn /\ s = request[r].cur
    BY <1>6, AllocateAllocates
  <2>2. PICK amount \in Nat : amount = request[r].items[s]
    BY <2>1, <1>0 DEF TypeOK, RequestState
  <2>3. /\ "allocate" \in Operations
        /\ TxnAllocated(t) + amount <= bankTxn[t].amount
    BY <1>6, <1>a, <2>1, <2>2 DEF AllocateWrite, TxnHasLeft
  <2>4. /\ allocated[<<t, s>>] = 0
        /\ allocated'[<<t, s>>] = amount
        /\ \A z \in Settlements \ {s} : allocated'[<<t, z>>] = allocated[<<t, z>>]
        /\ \A u \in BankTxns \ {t}, z \in Settlements : allocated'[<<u, z>>] = allocated[<<u, z>>]
    BY <1>6, <2>1, <2>2, AllocateAllocates
  <2>5. TxnAllocated(t)' = TxnAllocated(t) + amount
    BY <1>0, <2>4, TxnTotalAdds
  <2>6. \A u \in BankTxns \ {t} : TxnAllocated(u)' = TxnAllocated(u)
    BY <2>4, TxnTotalSame
  <2>7. \A u \in BankTxns : bankTxn'[u].amount = bankTxn[u].amount
    BY <1>6, <1>0, <2>1 DEF AllocateWrite, TypeOK, BankTxnRow
  <2>8. Kept
    BY <2>3, <2>5, <2>6, <2>7 DEF Kept, UnpaidUntilConfirmed, TxnNotOverAllocated
  <2> QED
    BY <1>6, <1>i, <2>8 DEF AllocateWrite
<1>7. ASSUME NEW r \in Requests, NEW t \in BankTxns,
             NEW items \in [Settlements -> 0 .. MaxAmount], ConfirmRead(r, t, items)
      PROVE  Kept /\ \A q \in Requests : Left(q)
  <2>1. Kept
    BY <1>7, <1>s DEF ConfirmRead
  <2>2. /\ "confirm" \in Operations
        /\ TxnExists(t) /\ ~bankTxn[t].isConfirmed
        /\ ItemsTotal(items) <= bankTxn[t].amount
        /\ bankTxn' = bankTxn
    BY <1>7 DEF ConfirmRead, Begin, Confirmable
  <2>3. request'[r].pc = "confirm" /\ request'[r].txn = t /\ request'[r].items = items
    BY <1>7, <1>0 DEF ConfirmRead, TypeOK, Idle
  <2>4. Left(r)
    BY <2>2, <2>3 DEF Left, TxnHasLeft, TxnExists, ItemsTotal
  <2> QED
    BY <1>a, <2>1, <2>4
<1>8. ASSUME NEW r \in Requests, NEW s \in Settlements, ConfirmCheckItem(r, s)
      PROVE  Kept /\ \A q \in Requests : Left(q)
  <2>1. Kept /\ bankTxn' = bankTxn
    BY <1>8, <1>s DEF ConfirmCheckItem
  <2>2. /\ request[r].pc = "confirm" /\ request'[r].pc = "confirmItem"
        /\ request'[r].txn = request[r].txn /\ request'[r].items = request[r].items
    BY <1>8, <1>0 DEF ConfirmCheckItem, TypeOK, RequestState
  <2>3. Left(r)
    BY <1>a, <2>1, <2>2 DEF Left, TxnHasLeft, ItemsTotal
  <2> QED
    BY <1>a, <2>1, <2>3
<1>9. ASSUME NEW r \in Requests, ConfirmApplyItem(r)
      PROVE  Kept /\ \A q \in Requests : Left(q)
  <2>1. Kept /\ bankTxn' = bankTxn
    BY <1>9, <1>s DEF ConfirmApplyItem
  <2>2. /\ request[r].pc = "confirmItem" /\ request'[r].pc = "confirm"
        /\ request'[r].txn = request[r].txn /\ request'[r].items = request[r].items
    BY <1>9, <1>0 DEF ConfirmApplyItem, TypeOK, RequestState
  <2>3. Left(r)
    BY <1>a, <2>1, <2>2 DEF Left, TxnHasLeft, ItemsTotal
  <2> QED
    BY <1>a, <2>1, <2>3
<1>10. ASSUME NEW r \in Requests, ConfirmCommit(r)
      PROVE  Kept /\ \A q \in Requests : Left(q)
  <2>1. PICK t \in BankTxns : t = request[r].txn
    BY <1>10, CommitAllocates
  <2>2. /\ "allocate" \notin Operations
        /\ ~bankTxn[t].isConfirmed
        /\ ItemsTotal(request[r].items) <= bankTxn[t].amount
    BY <1>10, <1>a, <2>1 DEF ConfirmCommit, TxnHasLeft, OneWayToPay
  <2>3. \A s \in Settlements : allocated[<<t, s>>] = 0
    BY <1>a, <2>2 DEF UnpaidUntilConfirmed
  <2>4. TxnAllocated(t)' = ItemsTotal(request[r].items)
    BY <1>10, <1>0, <2>1, <2>3, CommitTotal
  <2>5. \A u \in BankTxns \ {t}, s \in Settlements : allocated'[<<u, s>>] = allocated[<<u, s>>]
    BY <1>10, <2>1, CommitAllocates
  <2>6. \A u \in BankTxns \ {t} : TxnAllocated(u)' = TxnAllocated(u)
    BY <2>5, TxnTotalSame
  <2>7. /\ bankTxn'[t].amount = bankTxn[t].amount /\ bankTxn'[t].isConfirmed
        /\ \A u \in BankTxns \ {t} : bankTxn'[u] = bankTxn[u]
    BY <1>10, <1>0, <2>1 DEF ConfirmCommit, TypeOK, BankTxnRow
  <2>8. TxnNotOverAllocated'
    BY <2>2, <2>4, <2>6, <2>7 DEF TxnNotOverAllocated
  <2>9. UnpaidUntilConfirmed'
    BY <1>a, <2>5, <2>7 DEF UnpaidUntilConfirmed
  <2> QED
    BY <1>10, <1>i, <2>8, <2>9 DEF ConfirmCommit, Kept
<1>11. ASSUME NEW r \in Requests, NEW s \in Settlements, VoidRead(r, s)
      PROVE  Kept /\ \A q \in Requests : Left(q)
  <2>1. request'[r].pc = "voidWrite"
    BY <1>11, <1>0 DEF VoidRead, TypeOK, Idle
  <2>2. Left(r)
    BY <2>1 DEF Left, TxnHasLeft
  <2> QED
    BY <1>11, <1>a, <1>s, <2>2 DEF VoidRead
<1>12. ASSUME NEW r \in Requests, VoidWrite(r)
      PROVE  Kept /\ \A q \in Requests : Left(q)
  BY <1>12, <1>s, <1>i DEF VoidWrite
<1>13. ASSUME NEW r \in Requests, NEW ids \in (SUBSET BankTxns) \ {{}}, RemoveRead(r, ids)
      PROVE  Kept /\ \A q \in Requests : Left(q)
  <2>1. request'[r].pc = "removeDelete"
    BY <1>13, <1>0 DEF RemoveRead, TypeOK, Idle
  <2>2. Left(r)
    BY <2>1 DEF Left, TxnHasLeft
  <2> QED
    BY <1>13, <1>a, <1>s, <2>2 DEF RemoveRead
<1>14. ASSUME NEW r \in Requests, RemoveDelete(r)
      PROVE  Kept /\ \A q \in Requests : Left(q)
  <2>1. \A t \in request[r].ids, s \in Settlements : allocated[<<t, s>>] = 0
    BY <1>14, <1>0 DEF RemoveDelete, ReadsCurrent, ChecksCurrent, Removable, TypeOK, RequestState
  <2>2. \A t \in BankTxns, s \in Settlements : allocated'[<<t, s>>] = allocated[<<t, s>>]
    BY <1>14, <2>1 DEF RemoveDelete
  <2>3. \A t \in BankTxns : TxnAllocated(t)' = TxnAllocated(t)
    BY <2>2, TxnTotalSame
  <2>4. \A t \in BankTxns : /\ bankTxn'[t].amount = bankTxn[t].amount
                            /\ bankTxn'[t].isConfirmed = bankTxn[t].isConfirmed
    BY <1>14, <1>0 DEF RemoveDelete, TypeOK, BankTxnRow
  <2>5. Kept
    BY <1>a, <2>2, <2>3, <2>4 DEF Kept, UnpaidUntilConfirmed, TxnNotOverAllocated
  <2> QED
    BY <1>14, <1>i, <2>5 DEF RemoveDelete
<1>16. ASSUME NEW r \in Requests, NEW t \in BankTxns, MatchItemRead(r, t)
       PROVE  Kept /\ \A q \in Requests : Left(q)
  <2>1. request'[r].pc = "matchItem"
    BY <1>16, <1>0 DEF MatchItemRead, TypeOK, Idle
  <2>2. Left(r)
    BY <2>1 DEF Left, TxnHasLeft
  <2> QED
    BY <1>16, <1>a, <1>s, <2>2 DEF MatchItemRead
<1>17. ASSUME NEW r \in Requests, MatchItemWrite(r)
       PROVE  Kept /\ \A q \in Requests : Left(q)
  <2>1. PICK t \in BankTxns : t = request[r].txn
    BY <1>17 DEF MatchItemWrite, IInv, RequestOK
  <2>2. /\ bankTxn'[t].amount = bankTxn[t].amount /\ bankTxn'[t].isConfirmed
        /\ \A u \in BankTxns \ {t} : bankTxn'[u] = bankTxn[u]
        /\ allocated' = allocated
    BY <1>17, <1>0, <2>1 DEF MatchItemWrite, TypeOK, BankTxnRow
  <2>3. \A u \in BankTxns : TxnAllocated(u)' = TxnAllocated(u)
    BY <2>2, TxnTotalSame
  <2>4. TxnNotOverAllocated'
    BY <2>2, <2>3 DEF TxnNotOverAllocated
  <2>5. UnpaidUntilConfirmed'
    BY <1>a, <2>2 DEF UnpaidUntilConfirmed
  <2> QED
    BY <1>17, <1>i, <2>4, <2>5 DEF MatchItemWrite, Kept
<1>15. CASE UNCHANGED vars
  BY <1>15, <1>s DEF vars
<1> QED
  BY <1>1, <1>2, <1>3, <1>4, <1>5, <1>6, <1>7,
     <1>8, <1>9, <1>10, <1>11, <1>12, <1>13, <1>14, <1>15, <1>16, <1>17
  DEF Next, Allocate, ConfirmTransaction, Void, Remove, MatchItem

\* Where the server handles one request at a time and clients pay by allocate only, or by
\* confirmTransaction only, no bank transaction pays more than its amount, whatever is voided and
\* removed between.  Neither premise can be dropped: two calls that overlap overdraw it either way
\* (settlement_overdraw), and one confirmation after one allocation does.
THEOREM SerialTxnNotOverAllocated == OneRequest /\ OneWayToPay /\ Spec => []TxnNotOverAllocated
<1> SUFFICES ASSUME OneRequest, OneWayToPay PROVE Spec => []TxnNotOverAllocated
  OBVIOUS
<1>1. ASSUME Init PROVE FundsCurrent /\ TxnNotOverAllocated
  <2>1. \A t \in BankTxns : bankTxn[t].amount = 0 /\ \A s \in Settlements : allocated[<<t, s>>] = 0
    BY <1>1 DEF Init
  <2>2. \A r \in Requests : TxnHasLeft(request[r])
    BY <1>1 DEF Init, Idle, TxnHasLeft
  <2> QED
    BY <2>1, <2>2, UnpaidTotal DEF FundsCurrent, UnpaidUntilConfirmed, TxnNotOverAllocated
<1>2. IInv /\ ReadsCurrent /\ FundsCurrent /\ TxnNotOverAllocated /\ [Next]_vars
         => FundsCurrent' /\ TxnNotOverAllocated'
  BY FundsStep
<1> QED
  BY <1>1, <1>2, Invariance, ReadsInvariance, PTL DEF Spec

=============================================================================
