------------------------- MODULE StockPosting_proofs -------------------------
(***************************************************************************)
(* Proofs about StockPosting, for any numbers of orders, places, receipts, *)
(* invoices and requests.  However requests interleave: types; that no     *)
(* balance ever goes negative, although every check is made on a balance   *)
(* read earlier; that physical stock is pending plus posted stock while no *)
(* receipt is voided; and that the views of PurchaseOrders agree.  Served  *)
(* one at a time: that balances are the sums of the stock card and of the  *)
(* documents, that invoices in force are one to an order and the voided    *)
(* ones unpaid, and that cancelled orders have no stock.                   *)
(***************************************************************************)
EXTENDS PurchaseOrders, SumTheorems, TLAPS

USE MaxQtyAssumption, OrdersAssumption, NoneAssumption

-----------------------------------------------------------------------------
\* A request that is not being served is a request state.
LEMMA IdleType == Idle \in RequestState
  BY DEF Idle, RequestState, Pcs, NoQtys, Qtys, QtyRow, ReceiptStatus, OrderStatus

\* Quantities add up to quantities, field by field.
LEMMA PlusType ==
  ASSUME NEW b \in QtyRow, NEW d \in QtyRow
  PROVE  /\ Plus(b, d) \in QtyRow
         /\ Plus(b, d).physical = b.physical + d.physical
         /\ Plus(b, d).pending = b.pending + d.pending
         /\ Plus(b, d).posted = b.posted + d.posted
  BY DEF Plus, Qtys, QtyRow

\* What a receipt adds: as much physical as pending stock.
LEMMA ReceivedType ==
  ASSUME NEW n \in Int
  PROVE  /\ ReceivedDelta(n) \in QtyRow
         /\ ReceivedDelta(n).physical = n
         /\ ReceivedDelta(n).pending = n
         /\ ReceivedDelta(n).posted = 0
  BY DEF ReceivedDelta, Qtys, QtyRow

\* What an invoice line moves: pending stock to posted stock, or back.
LEMMA LineType ==
  ASSUME NEW sign \in {1, -1}, NEW n \in 0 .. MaxQty
  PROVE  /\ LineDelta(sign, n) \in QtyRow
         /\ LineDelta(sign, n).physical = 0
         /\ LineDelta(sign, n).pending = -(sign * n)
         /\ LineDelta(sign, n).posted = sign * n
<1>1. sign * n \in Int
  BY MaxQtyAssumption
<1>2. LineDelta(sign, n) = Qtys(0, -(sign * n), sign * n)
  BY DEF LineDelta, PostedDelta
<1> QED
  BY <1>1, <1>2 DEF Qtys, QtyRow

\* What is left of a balance when a receipt is taken back.
LEMMA VoidedType ==
  ASSUME NEW b \in QtyRow, NEW n \in Int
  PROVE  /\ VoidedBalance(b, n) \in QtyRow
         /\ VoidedBalance(b, n).physical = b.physical - n
         /\ VoidedBalance(b, n).pending = b.pending - n
<1>1. -n \in Int
  OBVIOUS
<1> QED
  BY <1>1, PlusType, ReceivedType DEF VoidedBalance, QtyRow

\* What is taken back is a quantity.
LEMMA UndoneType ==
  ASSUME NEW seen, NEW n \in 0 .. MaxQty
  PROVE  UndoneQty(seen, n) \in 0 .. MaxQty
  BY DEF UndoneQty

\* A request that moves on keeps its shape.
LEMMA PcType ==
  ASSUME NEW q \in RequestState, NEW pc \in Pcs
  PROVE  [q EXCEPT !.pc = pc] \in RequestState
  BY DEF RequestState

\* A status that was read is one an order or a receipt may have.
LEMMA SeenType ==
  ASSUME NEW q \in RequestState, NEW pc \in Pcs, NEW seen \in OrderStatus \cup ReceiptStatus
  PROVE  [q EXCEPT !.pc = pc, !.seen = seen] \in RequestState
  BY DEF RequestState

\* Reading a receipt leaves a well-formed request.
LEMMA ReadType ==
  ASSUME NEW q \in RequestState, NEW pc \in Pcs, NEW b \in QtyRow
  PROVE  /\ [q EXCEPT !.pc = pc, !.read = b] \in RequestState
         /\ \A p \in Places : [q EXCEPT !.pc = pc, !.place = p, !.read = b] \in RequestState
  BY DEF RequestState

\* The initial tables have the types of TypeOK.
LEMMA TypeInit == Init => TypeOK
<1> SUFFICES ASSUME Init PROVE TypeOK
  OBVIOUS
<1>1. order \in [Orders -> OrderRow]
  BY DEF Init, NewOrder, OrderRow, OrderStatus
<1>2. receipt \in [Receipts -> ReceiptRow]
  BY DEF Init, ReceiptRow, ReceiptStatus
<1>3. invoice \in [Invoices -> InvoiceRow]
  BY DEF Init, InvoiceRow, InvoiceStatus
<1>4. balance \in [Places -> QtyRow] /\ ledger \in [Places -> QtyRow]
  BY DEF Init, NoQtys, Qtys, QtyRow
<1>5. request \in [Requests -> RequestState]
  BY IdleType DEF Init
<1> QED
  BY <1>1, <1>2, <1>3, <1>4, <1>5 DEF TypeOK

\* Receiving stock keeps types; only the balance of the place grows.
LEMMA ReceiveType ==
  ASSUME TypeOK, NEW r \in Requests, NEW o \in Orders, NEW p \in Places, NEW qty \in 0 .. MaxQty,
         NEW next \in OrderStatus, Receive(r, o, p, qty, next)
  PROVE  /\ order' \in [Orders -> OrderRow]
         /\ balance' \in [Places -> QtyRow]
         /\ ledger' \in [Places -> QtyRow]
         /\ request' \in [Requests -> RequestState]
<1> USE DEF TypeOK, Receive
<1>1. Plus(balance[p], ReceivedDelta(qty)) \in QtyRow /\ Plus(ledger[p], ReceivedDelta(qty)) \in QtyRow
  BY PlusType, ReceivedType
<1>2. balance' \in [Places -> QtyRow] /\ ledger' \in [Places -> QtyRow]
  BY <1>1 DEF Incremented
<1>3. order' \in [Orders -> OrderRow]
  <2> DEFINE row == [order[o] EXCEPT !.withdrawn = order[o].withdrawn + qty, !.status = next]
  <2>1. order[o] \in OrderRow /\ order[o].withdrawn + qty \in Int
    BY DEF OrderRow
  <2>2. row \in OrderRow
    BY <2>1 DEF OrderRow
  <2>3. order' = [order EXCEPT ![o] = row]
    BY <2>1 DEF OrderRow
  <2> QED
    BY <2>2, <2>3
<1>4. request' \in [Requests -> RequestState]
  BY IdleType
<1> QED
  BY <1>2, <1>3, <1>4

\* Every step of every handler keeps the types.
LEMMA TypeStep == TypeOK /\ RequestOK /\ ReceiptsPlaced /\ [Next]_vars => TypeOK'
<1> SUFFICES ASSUME TypeOK, RequestOK, ReceiptsPlaced, [Next]_vars PROVE TypeOK'
  OBVIOUS
<1> USE DEF TypeOK
<1>1. ASSUME NEW r \in Requests, NEW o \in Orders, NEW p \in Places, NEW qty \in Quantities,
             AutoReceiptRead(r, o, p, qty)
      PROVE  TypeOK'
  <2>0. qty \in 0 .. MaxQty /\ order[o].status \in OrderStatus
    BY DEF OrderRow, Quantities
  <2>1. [Idle EXCEPT !.pc = "autoReceipt", !.order = o, !.place = p, !.qty = qty,
                     !.seen = order[o].status] \in RequestState
    BY <2>0, IdleType DEF RequestState, Pcs
  <2> QED
    BY <1>1, <2>1 DEF AutoReceiptRead
<1>2. ASSUME NEW r \in Requests, NEW x \in Receipts, AutoReceiptCommit(r, x) PROVE TypeOK'
  <2> DEFINE q == request[r]
             next == IF q.seen = "APPROVED" THEN "IN_PROGRESS" ELSE order[q.order].status
  <2>1. q.order \in Orders /\ q.place \in Places /\ q.qty \in 0 .. MaxQty
    BY <1>2 DEF AutoReceiptCommit, RequestOK, RequestState
  <2>2. next \in OrderStatus
    BY <2>1 DEF OrderRow, OrderStatus
  <2>3. Receive(r, q.order, q.place, q.qty, next)
    BY <1>2 DEF AutoReceiptCommit
  <2>4. receipt' \in [Receipts -> ReceiptRow]
    BY <1>2, <2>1 DEF AutoReceiptCommit, ReceiptRow, ReceiptStatus
  <2>5. invoice' = invoice
    BY <1>2 DEF AutoReceiptCommit
  <2> HIDE DEF q, next
  <2> QED
    BY <2>1, <2>2, <2>3, <2>4, <2>5, ReceiveType
<1>3. ASSUME NEW r \in Requests, NEW x \in Receipts, NEW o \in Orders, NEW p \in Places,
             NEW qty \in Quantities, TermReceiptCreate(r, x, o, p, qty)
      PROVE  TypeOK'
  BY <1>3 DEF TermReceiptCreate, ReceiptRow, ReceiptStatus, Quantities
<1>4. ASSUME NEW r \in Requests, NEW x \in Receipts, NEW p \in Places,
             NEW qty \in Quantities, UpdateReceiptRead(r, x, p, qty)
      PROVE  TypeOK'
  <2>0. qty \in 0 .. MaxQty
    BY DEF Quantities
  <2>1. [Idle EXCEPT !.pc = "updateReceipt", !.receipt = x, !.place = p, !.qty = qty] \in RequestState
    BY <2>0, IdleType DEF RequestState, Pcs
  <2> QED
    BY <1>4, <2>1 DEF UpdateReceiptRead
<1>5. ASSUME NEW r \in Requests, UpdateReceiptWrite(r) PROVE TypeOK'
  <2>1. /\ request[r].receipt \in Receipts /\ request[r].place \in Places
        /\ request[r].qty \in 0 .. MaxQty
    BY <1>5 DEF UpdateReceiptWrite, RequestOK, RequestState
  <2> QED
    BY <1>5, <2>1, IdleType DEF UpdateReceiptWrite, ReceiptRow
<1>6. ASSUME NEW r \in Requests, NEW op, NEW pc \in Pcs, NEW x \in Receipts, NEW statuses,
             ReceiptRead(r, op, pc, x, statuses)
      PROVE  TypeOK'
  <2>1. [Idle EXCEPT !.pc = pc, !.receipt = x, !.order = receipt[x].order,
                     !.place = receipt[x].place, !.qty = receipt[x].qty,
                     !.seen = receipt[x].status] \in RequestState
    BY IdleType DEF RequestState, ReceiptRow
  <2> QED
    BY <1>6, <2>1 DEF ReceiptRead
<1>7. ASSUME NEW r \in Requests, ConfirmReceiptReadOrder(r) PROVE TypeOK'
  <2> DEFINE q == request[r]
  <2>1. q.order \in Orders
    BY <1>7 DEF ConfirmReceiptReadOrder, RequestOK
  <2>2. [q EXCEPT !.pc = "confirmReceiptWrite", !.seen = order[q.order].status] \in RequestState
    <3>1. order[q.order].status \in OrderStatus
      BY <2>1 DEF OrderRow
    <3> QED
      BY <3>1, SeenType DEF Pcs
  <2>3. request' = [request EXCEPT ![r] = [q EXCEPT !.pc = "confirmReceiptWrite",
                                                    !.seen = order[q.order].status]]
    BY <1>7 DEF ConfirmReceiptReadOrder, RequestState
  <2> QED
    BY <1>7, <2>2, <2>3 DEF ConfirmReceiptReadOrder
<1>8. ASSUME NEW r \in Requests, ConfirmReceiptCommit(r) PROVE TypeOK'
  <2> DEFINE q == request[r]
             next == IF q.seen = "APPROVED" THEN "IN_PROGRESS" ELSE order[q.order].status
  <2>1. q.order \in Orders /\ q.place \in Places /\ q.qty \in 0 .. MaxQty /\ q.receipt \in Receipts
    BY <1>8 DEF ConfirmReceiptCommit, RequestOK, RequestState
  <2>2. next \in OrderStatus
    BY <2>1 DEF OrderRow, OrderStatus
  <2>3. Receive(r, q.order, q.place, q.qty, next)
    BY <1>8 DEF ConfirmReceiptCommit
  <2>4. receipt' \in [Receipts -> ReceiptRow]
    BY <1>8, <2>1 DEF ConfirmReceiptCommit, ReceiptRow, ReceiptStatus
  <2>5. invoice' = invoice
    BY <1>8 DEF ConfirmReceiptCommit
  <2> HIDE DEF q, next
  <2> QED
    BY <2>1, <2>2, <2>3, <2>4, <2>5, ReceiveType
<1>9. ASSUME NEW r \in Requests, VoidReceiptReadBalance(r) PROVE TypeOK'
  <2> DEFINE q == request[r]
  <2>1. q.place \in Places
    BY <1>9 DEF VoidReceiptReadBalance, RequestOK
  <2>2. [q EXCEPT !.pc = "voidReceiptWrite", !.read = balance[q.place]] \in RequestState
    BY <2>1, ReadType DEF Pcs
  <2>3. request' = [request EXCEPT ![r] = [q EXCEPT !.pc = "voidReceiptWrite",
                                                    !.read = balance[q.place]]]
    BY <1>9 DEF VoidReceiptReadBalance, RequestState
  <2> QED
    BY <1>9, <2>2, <2>3 DEF VoidReceiptReadBalance
<1>10. ASSUME NEW r \in Requests, VoidReceiptCommit(r) PROVE TypeOK'
  <2> DEFINE q == request[r]
             undone == UndoneQty(q.seen, q.qty)
             next == VoidedBalance(q.read, undone)
  <2>1. /\ q.order \in Orders /\ q.place \in Places /\ q.receipt \in Receipts
        /\ q.qty \in 0 .. MaxQty /\ q.read \in QtyRow
    BY <1>10 DEF VoidReceiptCommit, RequestOK, RequestState
  <2>2. undone \in 0 .. MaxQty
    BY <2>1, UndoneType
  <2>3. next \in QtyRow /\ Plus(ledger[q.place], ReceivedDelta(-undone)) \in QtyRow
    <3>1. undone \in Int /\ -undone \in Int
      BY <2>2
    <3> HIDE DEF undone, q
    <3> QED
      BY <2>1, <3>1, VoidedType, PlusType, ReceivedType
  <2>4. \/ order' = order /\ balance' = balance /\ ledger' = ledger
        \/ /\ order' = [order EXCEPT ![q.order].withdrawn = @ - undone]
           /\ balance' = [balance EXCEPT ![q.place] =
                             Qtys(next.physical, next.pending, @.posted)]
           /\ ledger' = [ledger EXCEPT ![q.place] = Plus(@, ReceivedDelta(-undone))]
    BY <1>10 DEF VoidReceiptCommit
  <2>5. receipt' = [receipt EXCEPT ![q.receipt].status = "VOID"]
        /\ request' = [request EXCEPT ![r] = Idle] /\ invoice' = invoice
    BY <1>10 DEF VoidReceiptCommit
  <2> HIDE DEF q, undone, next
  <2>6. order' \in [Orders -> OrderRow]
    BY <2>1, <2>2, <2>4 DEF OrderRow
  <2>7. balance' \in [Places -> QtyRow] /\ ledger' \in [Places -> QtyRow]
    <3>1. Qtys(next.physical, next.pending, balance[q.place].posted) \in QtyRow
      BY <2>1, <2>3 DEF Qtys, QtyRow
    <3> QED
      BY <2>1, <2>3, <2>4, <3>1
  <2>8. receipt' \in [Receipts -> ReceiptRow] /\ request' \in [Requests -> RequestState]
    BY <2>1, <2>5, IdleType DEF ReceiptRow, ReceiptStatus
  <2> QED
    BY <2>5, <2>6, <2>7, <2>8
<1>11. ASSUME NEW r \in Requests, NEW i \in Invoices, NEW o \in Orders \cup {None},
              NEW items \in [Places -> 0 .. MaxQty], InvoiceCheck(r, i, o, items)
       PROVE  TypeOK'
  <2>1. [Idle EXCEPT !.pc = "invoice", !.invoice = i, !.order = o, !.items = items] \in RequestState
    BY IdleType DEF RequestState, Pcs
  <2> QED
    BY <1>11, <2>1 DEF InvoiceCheck
<1>12. ASSUME NEW r \in Requests, NEW i \in Invoices, VoidInvoiceCheck(r, i) PROVE TypeOK'
  <2>1. [Idle EXCEPT !.pc = "voidInvoiceMark", !.invoice = i, !.order = invoice[i].order,
                     !.sign = -1, !.items = invoice[i].items] \in RequestState
    BY IdleType DEF RequestState, Pcs, InvoiceRow
  <2> QED
    BY <1>12, <2>1 DEF VoidInvoiceCheck
<1>13. ASSUME NEW r \in Requests, VoidInvoiceMark(r) PROVE TypeOK'
  <2>1. [request[r] EXCEPT !.pc = "invoice"] \in RequestState
    BY PcType DEF Pcs
  <2>2. request' = [request EXCEPT ![r] = [request[r] EXCEPT !.pc = "invoice"]]
    BY <1>13 DEF VoidInvoiceMark, RequestState
  <2> QED
    BY <1>13, <2>1, <2>2 DEF VoidInvoiceMark
<1>14. ASSUME NEW r \in Requests, NEW p \in Places, LineRead(r, p) PROVE TypeOK'
  <2> DEFINE row == [request[r] EXCEPT !.pc = "invoiceLine", !.place = p, !.read = balance[p]]
  <2>1. row \in RequestState
    BY ReadType DEF Pcs
  <2>2. request' = [request EXCEPT ![r] = row]
    BY <1>14 DEF LineRead, RequestState
  <2> QED
    BY <1>14, <2>1, <2>2 DEF LineRead
<1>15. ASSUME NEW r \in Requests, LineWrite(r) PROVE TypeOK'
  <2> DEFINE q == request[r]
             next == Plus(q.read, LineDelta(q.sign, q.items[q.place]))
             after == [q.after EXCEPT ![q.place] = next]
             row == [q EXCEPT !.pc = "invoice", !.place = None, !.read = NoQtys,
                              !.written = @ \cup {q.place}, !.after = after]
  <2>1. /\ q.place \in Places /\ q.read \in QtyRow /\ q.sign \in {1, -1}
        /\ q.items[q.place] \in 0 .. MaxQty
    BY <1>15 DEF LineWrite, RequestOK, RequestState
  <2>2. next \in QtyRow
    BY <2>1, PlusType, LineType
  <2>3. NoQtys \in QtyRow
    BY DEF NoQtys, Qtys, QtyRow
  <2>4. request' = [request EXCEPT ![r] = row]
    BY <1>15 DEF LineWrite, RequestState
  <2>6. q \in RequestState
    OBVIOUS
  <2> HIDE DEF next, q
  <2>7. after \in [Places -> QtyRow] /\ q.written \cup {q.place} \in SUBSET Places
    BY <2>1, <2>2, <2>6 DEF RequestState
  <2> HIDE DEF after
  <2>5. row \in RequestState
    BY <2>3, <2>6, <2>7 DEF RequestState, Pcs
  <2>8. request' \in [Requests -> RequestState]
    <3> HIDE DEF row
    <3> QED
      BY <2>4, <2>5
  <2> QED
    BY <1>15, <2>8 DEF LineWrite
<1>16. ASSUME NEW r \in Requests, InvoiceCommit(r) PROVE TypeOK'
  <2> DEFINE q == request[r]
  <2>1. /\ q.invoice \in Invoices /\ q.sign \in {1, -1} /\ q.order \in Orders \cup {None}
        /\ q.items \in [Places -> 0 .. MaxQty] /\ q.after \in [Places -> QtyRow]
    BY <1>16 DEF InvoiceCommit, RequestOK, RequestState
  <2>2. invoice' \in [Invoices -> InvoiceRow]
    <3> DEFINE old == invoice[q.invoice]
               row == [old EXCEPT !.status = IF q.sign = 1 THEN "POSTED" ELSE "VOID",
                                  !.order = q.order, !.items = q.items]
    <3>1. old \in InvoiceRow
      BY <2>1
    <3>2. invoice' = [invoice EXCEPT ![q.invoice] = row]
      BY <1>16 DEF InvoiceCommit
    <3> HIDE DEF old, q
    <3>3. row \in InvoiceRow
      BY <2>1, <3>1 DEF InvoiceRow, InvoiceStatus
    <3> HIDE DEF row
    <3> QED
      BY <2>1, <3>2, <3>3
  <2>3. balance' \in [Places -> QtyRow]
    BY <1>16, <2>1 DEF InvoiceCommit
  <2>4. \A p \in Places : Plus(ledger[p], LineDelta(q.sign, q.items[p])) \in QtyRow
    BY <2>1, PlusType, LineType
  <2>5. ledger' \in [Places -> QtyRow]
    BY <1>16, <2>4 DEF InvoiceCommit
  <2> QED
    BY <1>16, <2>2, <2>3, <2>5, IdleType DEF InvoiceCommit
<1>17. ASSUME NEW r \in Requests, NEW i \in Invoices, PayInvoice(r, i) PROVE TypeOK'
  BY <1>17 DEF PayInvoice, InvoiceRow
<1>18. ASSUME NEW r \in Requests, NEW o \in Orders, CancelRead(r, o) PROVE TypeOK'
  <2>1. [Idle EXCEPT !.pc = "cancelOrder", !.order = o] \in RequestState
    BY IdleType DEF RequestState, Pcs
  <2> QED
    BY <1>18, <2>1 DEF CancelRead
<1>30. ASSUME NEW r \in Requests, NEW o \in Orders, ApproveRead(r, o) PROVE TypeOK'
  <2>1. [Idle EXCEPT !.pc = "approveOrder", !.order = o] \in RequestState
    BY IdleType DEF RequestState, Pcs
  <2> QED
    BY <1>30, <2>1 DEF ApproveRead
<1>19. ASSUME NEW r \in Requests, CancelWrite(r) PROVE TypeOK'
  <2>1. request[r].order \in Orders
    BY <1>19 DEF CancelWrite, RequestOK
  <2> QED
    BY <1>19, <2>1, IdleType DEF CancelWrite, OrderRow, OrderStatus
<1>31. ASSUME NEW r \in Requests, ApproveWrite(r) PROVE TypeOK'
  <2>1. request[r].order \in Orders
    BY <1>31 DEF ApproveWrite, RequestOK
  <2> QED
    BY <1>31, <2>1, IdleType DEF ApproveWrite, OrderRow, OrderStatus
<1>20. ASSUME NEW r \in Requests, Abort(r) PROVE TypeOK'
  BY <1>20, IdleType DEF Abort
<1>21. CASE UNCHANGED vars
  BY <1>21 DEF vars
<1>22. ASSUME NEW r \in Requests, NEW x \in Receipts, ConfirmReceiptRead(r, x) PROVE TypeOK'
  BY <1>6, <1>22 DEF ConfirmReceiptRead, Pcs
<1>23. ASSUME NEW r \in Requests, NEW x \in Receipts, VoidReceiptRead(r, x) PROVE TypeOK'
  BY <1>6, <1>23 DEF VoidReceiptRead, Pcs
<1> QED
  BY <1>1, <1>2, <1>3, <1>4, <1>5, <1>7, <1>8, <1>9, <1>10, <1>11, <1>12, <1>13, <1>14, <1>15,
     <1>16, <1>17, <1>18, <1>19, <1>20, <1>21, <1>22, <1>23, <1>30, <1>31
  DEF Next, AutoReceipt, TermReceipt, Invoice, Approve, Cancel


\* Requests in flight go on working on rows that exist.
LEMMA RequestStep == TypeOK /\ RequestOK /\ ReceiptsPlaced /\ [Next]_vars => RequestOK'
<1> SUFFICES ASSUME TypeOK, RequestOK, ReceiptsPlaced, [Next]_vars PROVE RequestOK'
  OBVIOUS
<1> DEFINE OK(q) ==
        /\ q.pc \in {"autoReceipt", "confirmReceipt", "confirmReceiptWrite", "voidReceipt",
                     "voidReceiptWrite"} => q.order \in Orders /\ q.place \in Places
        /\ q.pc \in {"updateReceipt", "confirmReceipt", "confirmReceiptWrite", "voidReceipt",
                     "voidReceiptWrite"} => q.receipt \in Receipts
        /\ q.pc \in {"invoice", "invoiceLine", "voidInvoiceMark"} => q.invoice \in Invoices
        /\ q.pc \in {"updateReceipt", "invoiceLine"} => q.place \in Places
        /\ q.pc \in {"approveOrder", "cancelOrder"} => q.order \in Orders
<1>a. \A r \in Requests : OK(request[r])
  BY DEF RequestOK
<1>b. SUFFICES \A r \in Requests : OK(request'[r])
  BY DEF RequestOK
<1>c. OK(Idle)
  BY DEF Idle
<1>d. request \in [Requests -> RequestState]
  BY DEF TypeOK
<1> HIDE DEF OK
<1>e. ASSUME NEW r \in Requests, NEW row, OK(row), request' = [request EXCEPT ![r] = row]
      PROVE  \A q \in Requests : OK(request'[q])
  BY <1>a, <1>d, <1>e
<1>1. ASSUME NEW r \in Requests, NEW o \in Orders, NEW p \in Places, NEW qty \in Quantities,
             AutoReceiptRead(r, o, p, qty)
      PROVE  \A q \in Requests : OK(request'[q])
  BY <1>1, <1>a, <1>c, <1>d, <1>e DEF AutoReceiptRead, OK, Idle
<1>2. ASSUME NEW r \in Requests, NEW x \in Receipts, AutoReceiptCommit(r, x)
      PROVE  \A q \in Requests : OK(request'[q])
  BY <1>2, <1>a, <1>c, <1>d, <1>e DEF AutoReceiptCommit, Receive, OK, Idle
<1>3. ASSUME NEW r \in Requests, NEW x \in Receipts, NEW o \in Orders, NEW p \in Places,
             NEW qty \in Quantities, TermReceiptCreate(r, x, o, p, qty)
      PROVE  \A q \in Requests : OK(request'[q])
  BY <1>3, <1>a, <1>c, <1>d, <1>e DEF TermReceiptCreate, OK, Idle
<1>4. ASSUME NEW r \in Requests, NEW x \in Receipts, NEW p \in Places,
             NEW qty \in Quantities, UpdateReceiptRead(r, x, p, qty)
      PROVE  \A q \in Requests : OK(request'[q])
  BY <1>4, <1>a, <1>c, <1>d, <1>e DEF UpdateReceiptRead, OK, Idle
<1>5. ASSUME NEW r \in Requests, UpdateReceiptWrite(r)
      PROVE  \A q \in Requests : OK(request'[q])
  BY <1>5, <1>a, <1>c, <1>d, <1>e DEF UpdateReceiptWrite, OK, Idle
<1>6. ASSUME NEW r \in Requests, NEW x \in Receipts, ConfirmReceiptRead(r, x)
      PROVE  \A q \in Requests : OK(request'[q])
  <2> DEFINE row == [Idle EXCEPT !.pc = "confirmReceipt", !.receipt = x,
                                 !.order = receipt[x].order, !.place = receipt[x].place,
                                 !.qty = receipt[x].qty, !.seen = receipt[x].status]
  <2>1. receipt[x].order \in Orders /\ receipt[x].place \in Places
    BY <1>6 DEF ConfirmReceiptRead, ReceiptRead, ReceiptsPlaced
  <2>2. OK(row)
    BY <2>1 DEF OK, Idle
  <2>3. request' = [request EXCEPT ![r] = row]
    BY <1>6 DEF ConfirmReceiptRead, ReceiptRead
  <2> HIDE DEF row
  <2> QED
    BY <1>e, <2>2, <2>3
<1>7. ASSUME NEW r \in Requests, ConfirmReceiptReadOrder(r)
      PROVE  \A q \in Requests : OK(request'[q])
  BY <1>7, <1>a, <1>c, <1>d, <1>e DEF ConfirmReceiptReadOrder, OK, Idle
<1>8. ASSUME NEW r \in Requests, ConfirmReceiptCommit(r)
      PROVE  \A q \in Requests : OK(request'[q])
  BY <1>8, <1>a, <1>c, <1>d, <1>e DEF ConfirmReceiptCommit, Receive, OK, Idle
<1>9. ASSUME NEW r \in Requests, NEW x \in Receipts, VoidReceiptRead(r, x)
      PROVE  \A q \in Requests : OK(request'[q])
  <2> DEFINE row == [Idle EXCEPT !.pc = "voidReceipt", !.receipt = x,
                                 !.order = receipt[x].order, !.place = receipt[x].place,
                                 !.qty = receipt[x].qty, !.seen = receipt[x].status]
  <2>1. receipt[x].order \in Orders /\ receipt[x].place \in Places
    BY <1>9 DEF VoidReceiptRead, ReceiptRead, ReceiptsPlaced
  <2>2. OK(row)
    BY <2>1 DEF OK, Idle
  <2>3. request' = [request EXCEPT ![r] = row]
    BY <1>9 DEF VoidReceiptRead, ReceiptRead
  <2> HIDE DEF row
  <2> QED
    BY <1>e, <2>2, <2>3
<1>10. ASSUME NEW r \in Requests, VoidReceiptReadBalance(r)
      PROVE  \A q \in Requests : OK(request'[q])
  BY <1>10, <1>a, <1>c, <1>d, <1>e DEF VoidReceiptReadBalance, OK, Idle
<1>11. ASSUME NEW r \in Requests, VoidReceiptCommit(r)
      PROVE  \A q \in Requests : OK(request'[q])
  BY <1>11, <1>a, <1>c, <1>d, <1>e DEF VoidReceiptCommit, OK, Idle
<1>12. ASSUME NEW r \in Requests, NEW i \in Invoices, NEW o \in Orders \cup {None},
             NEW items \in [Places -> 0 .. MaxQty], InvoiceCheck(r, i, o, items)
      PROVE  \A q \in Requests : OK(request'[q])
  BY <1>12, <1>a, <1>c, <1>d, <1>e DEF InvoiceCheck, OK, Idle
<1>13. ASSUME NEW r \in Requests, NEW i \in Invoices, VoidInvoiceCheck(r, i)
      PROVE  \A q \in Requests : OK(request'[q])
  BY <1>13, <1>a, <1>c, <1>d, <1>e DEF VoidInvoiceCheck, OK, Idle
<1>14. ASSUME NEW r \in Requests, VoidInvoiceMark(r)
      PROVE  \A q \in Requests : OK(request'[q])
  BY <1>14, <1>a, <1>c, <1>d, <1>e DEF VoidInvoiceMark, OK, Idle
<1>15. ASSUME NEW r \in Requests, NEW p \in Places, LineRead(r, p)
      PROVE  \A q \in Requests : OK(request'[q])
  BY <1>15, <1>a, <1>c, <1>d, <1>e DEF LineRead, OK, Idle
<1>16. ASSUME NEW r \in Requests, LineWrite(r)
      PROVE  \A q \in Requests : OK(request'[q])
  BY <1>16, <1>a, <1>c, <1>d, <1>e DEF LineWrite, OK, Idle
<1>17. ASSUME NEW r \in Requests, InvoiceCommit(r)
      PROVE  \A q \in Requests : OK(request'[q])
  BY <1>17, <1>a, <1>c, <1>d, <1>e DEF InvoiceCommit, OK, Idle
<1>18. ASSUME NEW r \in Requests, NEW i \in Invoices, PayInvoice(r, i)
      PROVE  \A q \in Requests : OK(request'[q])
  BY <1>18, <1>a, <1>c, <1>d, <1>e DEF PayInvoice, OK, Idle
<1>19. ASSUME NEW r \in Requests, NEW o \in Orders, CancelRead(r, o)
      PROVE  \A q \in Requests : OK(request'[q])
  BY <1>19, <1>a, <1>c, <1>d, <1>e DEF CancelRead, OK, Idle
<1>30. ASSUME NEW r \in Requests, NEW o \in Orders, ApproveRead(r, o)
      PROVE  \A q \in Requests : OK(request'[q])
  BY <1>30, <1>a, <1>c, <1>d, <1>e DEF ApproveRead, OK, Idle
<1>20. ASSUME NEW r \in Requests, CancelWrite(r)
      PROVE  \A q \in Requests : OK(request'[q])
  BY <1>20, <1>a, <1>c, <1>d, <1>e DEF CancelWrite, OK, Idle
<1>31. ASSUME NEW r \in Requests, ApproveWrite(r)
      PROVE  \A q \in Requests : OK(request'[q])
  BY <1>31, <1>a, <1>c, <1>d, <1>e DEF ApproveWrite, OK, Idle
<1>21. ASSUME NEW r \in Requests, Abort(r)
      PROVE  \A q \in Requests : OK(request'[q])
  BY <1>21, <1>a, <1>c, <1>d, <1>e DEF Abort, OK, Idle
<1>22. CASE UNCHANGED vars
  BY <1>22, <1>a DEF vars
<1> QED
  BY <1>1, <1>2, <1>3, <1>4, <1>5, <1>6, <1>7, <1>8, <1>9, <1>10, <1>11, <1>12, <1>13, <1>14, <1>15, <1>16, <1>17, <1>18, <1>19, <1>20, <1>21, <1>22, <1>30, <1>31
  DEF Next, AutoReceipt, TermReceipt, Invoice, Approve, Cancel


\* A receipt never loses its place.
LEMMA PlacedStep == TypeOK /\ RequestOK /\ ReceiptsPlaced /\ [Next]_vars => ReceiptsPlaced'
<1> SUFFICES ASSUME TypeOK, RequestOK, ReceiptsPlaced, [Next]_vars PROVE ReceiptsPlaced'
  OBVIOUS
<1> USE DEF ReceiptsPlaced
<1>0. receipt \in [Receipts -> ReceiptRow]
  BY DEF TypeOK
<1>1. ASSUME NEW r \in Requests, NEW o \in Orders, NEW p \in Places, NEW qty \in Quantities,
             AutoReceiptRead(r, o, p, qty)
      PROVE  ReceiptsPlaced'
  BY <1>1, <1>0 DEF AutoReceiptRead, ReceiptRow, RequestOK
<1>2. ASSUME NEW r \in Requests, NEW x \in Receipts, AutoReceiptCommit(r, x)
      PROVE  ReceiptsPlaced'
  BY <1>2, <1>0 DEF AutoReceiptCommit, Receive, ReceiptRow, RequestOK
<1>3. ASSUME NEW r \in Requests, NEW x \in Receipts, NEW o \in Orders, NEW p \in Places,
             NEW qty \in Quantities, TermReceiptCreate(r, x, o, p, qty)
      PROVE  ReceiptsPlaced'
  BY <1>3, <1>0 DEF TermReceiptCreate, ReceiptRow, RequestOK
<1>4. ASSUME NEW r \in Requests, NEW x \in Receipts, NEW p \in Places,
             NEW qty \in Quantities, UpdateReceiptRead(r, x, p, qty)
      PROVE  ReceiptsPlaced'
  BY <1>4, <1>0 DEF UpdateReceiptRead, ReceiptRow, RequestOK
<1>5. ASSUME NEW r \in Requests, UpdateReceiptWrite(r)
      PROVE  ReceiptsPlaced'
  BY <1>5, <1>0 DEF UpdateReceiptWrite, ReceiptRow, RequestOK
<1>6. ASSUME NEW r \in Requests, NEW x \in Receipts, ConfirmReceiptRead(r, x)
      PROVE  ReceiptsPlaced'
  BY <1>6, <1>0 DEF ConfirmReceiptRead, ReceiptRead, ReceiptRow, RequestOK
<1>7. ASSUME NEW r \in Requests, ConfirmReceiptReadOrder(r)
      PROVE  ReceiptsPlaced'
  BY <1>7, <1>0 DEF ConfirmReceiptReadOrder, ReceiptRow, RequestOK
<1>8. ASSUME NEW r \in Requests, ConfirmReceiptCommit(r)
      PROVE  ReceiptsPlaced'
  BY <1>8, <1>0 DEF ConfirmReceiptCommit, Receive, ReceiptRow, RequestOK
<1>9. ASSUME NEW r \in Requests, NEW x \in Receipts, VoidReceiptRead(r, x)
      PROVE  ReceiptsPlaced'
  BY <1>9, <1>0 DEF VoidReceiptRead, ReceiptRead, ReceiptRow, RequestOK
<1>10. ASSUME NEW r \in Requests, VoidReceiptReadBalance(r)
      PROVE  ReceiptsPlaced'
  BY <1>10, <1>0 DEF VoidReceiptReadBalance, ReceiptRow, RequestOK
<1>11. ASSUME NEW r \in Requests, VoidReceiptCommit(r)
      PROVE  ReceiptsPlaced'
  BY <1>11, <1>0 DEF VoidReceiptCommit, ReceiptRow, RequestOK
<1>12. ASSUME NEW r \in Requests, NEW i \in Invoices, NEW o \in Orders \cup {None},
             NEW items \in [Places -> 0 .. MaxQty], InvoiceCheck(r, i, o, items)
      PROVE  ReceiptsPlaced'
  BY <1>12, <1>0 DEF InvoiceCheck, ReceiptRow, RequestOK
<1>13. ASSUME NEW r \in Requests, NEW i \in Invoices, VoidInvoiceCheck(r, i)
      PROVE  ReceiptsPlaced'
  BY <1>13, <1>0 DEF VoidInvoiceCheck, ReceiptRow, RequestOK
<1>14. ASSUME NEW r \in Requests, VoidInvoiceMark(r)
      PROVE  ReceiptsPlaced'
  BY <1>14, <1>0 DEF VoidInvoiceMark, ReceiptRow, RequestOK
<1>15. ASSUME NEW r \in Requests, NEW p \in Places, LineRead(r, p)
      PROVE  ReceiptsPlaced'
  BY <1>15, <1>0 DEF LineRead, ReceiptRow, RequestOK
<1>16. ASSUME NEW r \in Requests, LineWrite(r)
      PROVE  ReceiptsPlaced'
  BY <1>16, <1>0 DEF LineWrite, ReceiptRow, RequestOK
<1>17. ASSUME NEW r \in Requests, InvoiceCommit(r)
      PROVE  ReceiptsPlaced'
  BY <1>17, <1>0 DEF InvoiceCommit, ReceiptRow, RequestOK
<1>18. ASSUME NEW r \in Requests, NEW i \in Invoices, PayInvoice(r, i)
      PROVE  ReceiptsPlaced'
  BY <1>18, <1>0 DEF PayInvoice, ReceiptRow, RequestOK
<1>19. ASSUME NEW r \in Requests, NEW o \in Orders, CancelRead(r, o)
      PROVE  ReceiptsPlaced'
  BY <1>19, <1>0 DEF CancelRead, ReceiptRow, RequestOK
<1>30. ASSUME NEW r \in Requests, NEW o \in Orders, ApproveRead(r, o)
      PROVE  ReceiptsPlaced'
  BY <1>30, <1>0 DEF ApproveRead, ReceiptRow, RequestOK
<1>20. ASSUME NEW r \in Requests, CancelWrite(r)
      PROVE  ReceiptsPlaced'
  BY <1>20, <1>0 DEF CancelWrite, ReceiptRow, RequestOK
<1>31. ASSUME NEW r \in Requests, ApproveWrite(r)
      PROVE  ReceiptsPlaced'
  BY <1>31, <1>0 DEF ApproveWrite, ReceiptRow, RequestOK
<1>21. ASSUME NEW r \in Requests, Abort(r)
      PROVE  ReceiptsPlaced'
  BY <1>21, <1>0 DEF Abort, ReceiptRow, RequestOK
<1>22. CASE UNCHANGED vars
  BY <1>22 DEF vars
<1> QED
  BY <1>1, <1>2, <1>3, <1>4, <1>5, <1>6, <1>7, <1>8, <1>9, <1>10, <1>11, <1>12, <1>13, <1>14, <1>15, <1>16, <1>17, <1>18, <1>19, <1>20, <1>21, <1>22, <1>30, <1>31
  DEF Next, AutoReceipt, TermReceipt, Invoice, Approve, Cancel

\* What a request is about to write was checked when it was computed.
LEMMA WritesStep ==
  TypeOK /\ RequestOK /\ WritesNonNegative /\ NeverNegative /\ [Next]_vars => WritesNonNegative'
<1> SUFFICES ASSUME TypeOK, RequestOK, WritesNonNegative, NeverNegative, [Next]_vars
             PROVE  WritesNonNegative'
  OBVIOUS
<1> DEFINE OK(q) ==
        /\ q.pc = "voidReceiptWrite" =>
               LET next == VoidedBalance(q.read, UndoneQty(q.seen, q.qty))
               IN  next.physical >= 0 /\ next.pending >= 0
        /\ q.pc = "invoiceLine" =>
               /\ q.read.physical >= 0
               /\ NonNegative(Plus(q.read, LineDelta(q.sign, q.items[q.place])))
        /\ \A p \in q.written : NonNegativeRow(q.after[p])
<1>a. \A r \in Requests : OK(request[r])
  BY DEF WritesNonNegative
<1>b. SUFFICES \A r \in Requests : OK(request'[r])
  BY DEF WritesNonNegative
<1>d. request \in [Requests -> RequestState]
  BY DEF TypeOK
<1> HIDE DEF OK
<1>e. ASSUME NEW r \in Requests, NEW row, OK(row), request' = [request EXCEPT ![r] = row]
      PROVE  \A q \in Requests : OK(request'[q])
  BY <1>a, <1>d, <1>e
<1>f. ASSUME NEW row, row.written = {}, row.pc \notin {"voidReceiptWrite", "invoiceLine"}
      PROVE  OK(row)
  BY <1>f DEF OK
<1>c. OK(Idle)
  BY <1>f DEF Idle
<1>1. ASSUME NEW r \in Requests, NEW o \in Orders, NEW p \in Places, NEW qty \in Quantities,
             AutoReceiptRead(r, o, p, qty)
      PROVE  \A q \in Requests : OK(request'[q])
  BY <1>1, <1>a, <1>c, <1>e, <1>f DEF AutoReceiptRead, Idle
<1>2. ASSUME NEW r \in Requests, NEW x \in Receipts, AutoReceiptCommit(r, x)
      PROVE  \A q \in Requests : OK(request'[q])
  BY <1>2, <1>a, <1>c, <1>e, <1>f DEF AutoReceiptCommit, Receive, Idle
<1>3. ASSUME NEW r \in Requests, NEW x \in Receipts, NEW o \in Orders, NEW p \in Places,
             NEW qty \in Quantities, TermReceiptCreate(r, x, o, p, qty)
      PROVE  \A q \in Requests : OK(request'[q])
  BY <1>3, <1>a, <1>c, <1>e, <1>f DEF TermReceiptCreate, Idle
<1>4. ASSUME NEW r \in Requests, NEW x \in Receipts, NEW p \in Places,
             NEW qty \in Quantities, UpdateReceiptRead(r, x, p, qty)
      PROVE  \A q \in Requests : OK(request'[q])
  BY <1>4, <1>a, <1>c, <1>e, <1>f DEF UpdateReceiptRead, Idle
<1>5. ASSUME NEW r \in Requests, UpdateReceiptWrite(r)
      PROVE  \A q \in Requests : OK(request'[q])
  BY <1>5, <1>a, <1>c, <1>e, <1>f DEF UpdateReceiptWrite, Idle
<1>6. ASSUME NEW r \in Requests, NEW x \in Receipts, ConfirmReceiptRead(r, x)
      PROVE  \A q \in Requests : OK(request'[q])
  BY <1>6, <1>a, <1>c, <1>e, <1>f DEF ConfirmReceiptRead, ReceiptRead, Idle
<1>7. ASSUME NEW r \in Requests, ConfirmReceiptReadOrder(r)
      PROVE  \A q \in Requests : OK(request'[q])
  <2> DEFINE q == request[r]
             row == [q EXCEPT !.pc = "confirmReceiptWrite", !.seen = order[q.order].status]
  <2>1. request' = [request EXCEPT ![r] = row]
    BY <1>7, <1>d DEF ConfirmReceiptReadOrder, RequestState
  <2>2. row.pc = "confirmReceiptWrite" /\ row.written = q.written /\ row.after = q.after
    BY <1>d DEF RequestState
  <2>3. OK(row)
    BY <1>a, <2>2 DEF OK
  <2> QED
    BY <1>e, <2>1, <2>3
<1>8. ASSUME NEW r \in Requests, ConfirmReceiptCommit(r)
      PROVE  \A q \in Requests : OK(request'[q])
  BY <1>8, <1>a, <1>c, <1>e, <1>f DEF ConfirmReceiptCommit, Receive, Idle
<1>9. ASSUME NEW r \in Requests, NEW x \in Receipts, VoidReceiptRead(r, x)
      PROVE  \A q \in Requests : OK(request'[q])
  BY <1>9, <1>a, <1>c, <1>e, <1>f DEF VoidReceiptRead, ReceiptRead, Idle
<1>10. ASSUME NEW r \in Requests, VoidReceiptReadBalance(r)
      PROVE  \A q \in Requests : OK(request'[q])
  <2> DEFINE q == request[r]
             row == [q EXCEPT !.pc = "voidReceiptWrite", !.read = balance[q.place]]
  <2>1. request' = [request EXCEPT ![r] = row]
    BY <1>10, <1>d DEF VoidReceiptReadBalance, RequestState
  <2>2. /\ VoidedBalance(balance[q.place], UndoneQty(q.seen, q.qty)).physical >= 0
        /\ VoidedBalance(balance[q.place], UndoneQty(q.seen, q.qty)).pending >= 0
    BY <1>10 DEF VoidReceiptReadBalance
  <2>3. /\ row.pc = "voidReceiptWrite" /\ row.read = balance[q.place] /\ row.seen = q.seen
        /\ row.qty = q.qty /\ row.written = q.written /\ row.after = q.after
    BY <1>d DEF RequestState
  <2> HIDE DEF row
  <2>4. OK(row)
    BY <1>a, <2>2, <2>3 DEF OK
  <2> QED
    BY <1>e, <2>1, <2>4
<1>11. ASSUME NEW r \in Requests, VoidReceiptCommit(r)
      PROVE  \A q \in Requests : OK(request'[q])
  BY <1>11, <1>a, <1>c, <1>e, <1>f DEF VoidReceiptCommit, Idle
<1>12. ASSUME NEW r \in Requests, NEW i \in Invoices, NEW o \in Orders \cup {None},
             NEW items \in [Places -> 0 .. MaxQty], InvoiceCheck(r, i, o, items)
      PROVE  \A q \in Requests : OK(request'[q])
  BY <1>12, <1>a, <1>c, <1>e, <1>f DEF InvoiceCheck, Idle
<1>13. ASSUME NEW r \in Requests, NEW i \in Invoices, VoidInvoiceCheck(r, i)
      PROVE  \A q \in Requests : OK(request'[q])
  BY <1>13, <1>a, <1>c, <1>e, <1>f DEF VoidInvoiceCheck, Idle
<1>14. ASSUME NEW r \in Requests, VoidInvoiceMark(r)
      PROVE  \A q \in Requests : OK(request'[q])
  <2> DEFINE row == [request[r] EXCEPT !.pc = "invoice"]
  <2>1. request' = [request EXCEPT ![r] = row]
    BY <1>14, <1>d DEF VoidInvoiceMark, RequestState
  <2>2. row.pc = "invoice" /\ row.written = request[r].written /\ row.after = request[r].after
    BY <1>d DEF RequestState
  <2>3. OK(row)
    BY <1>a, <2>2 DEF OK
  <2> QED
    BY <1>e, <2>1, <2>3
<1>15. ASSUME NEW r \in Requests, NEW p \in Places, LineRead(r, p)
      PROVE  \A q \in Requests : OK(request'[q])
  <2> DEFINE q == request[r]
             row == [q EXCEPT !.pc = "invoiceLine", !.place = p, !.read = balance[p]]
  <2>1. request' = [request EXCEPT ![r] = row]
    BY <1>15, <1>d DEF LineRead, RequestState
  <2>2. NonNegative(Plus(balance[p], LineDelta(q.sign, q.items[p]))) /\ balance[p].physical >= 0
    BY <1>15 DEF LineRead, NeverNegative
  <2>3. /\ row.pc = "invoiceLine" /\ row.read = balance[p] /\ row.sign = q.sign
        /\ row.items = q.items /\ row.place = p /\ row.written = q.written /\ row.after = q.after
    BY <1>d DEF RequestState
  <2> HIDE DEF row
  <2>4. OK(row)
    BY <1>a, <2>2, <2>3 DEF OK
  <2> QED
    BY <1>e, <2>1, <2>4
<1>16. ASSUME NEW r \in Requests, LineWrite(r)
      PROVE  \A q \in Requests : OK(request'[q])
  <2> DEFINE q == request[r]
             next == Plus(q.read, LineDelta(q.sign, q.items[q.place]))
             after == [q.after EXCEPT ![q.place] = next]
             row == [q EXCEPT !.pc = "invoice", !.place = None, !.read = NoQtys,
                              !.written = @ \cup {q.place}, !.after = after]
  <2>1. request' = [request EXCEPT ![r] = row]
    BY <1>16, <1>d DEF LineWrite, RequestState
  <2>2. q \in RequestState /\ q.pc = "invoiceLine" /\ q.place \in Places
    BY <1>16, <1>d DEF LineWrite, RequestOK
  <2>3. q.read.physical >= 0 /\ NonNegative(next)
    BY <1>a, <2>2 DEF OK
  <2>4. next.physical = q.read.physical
    BY <2>2, PlusType, LineType DEF RequestState, QtyRow
  <2>5. NonNegativeRow(next)
    BY <2>3, <2>4 DEF NonNegativeRow, NonNegative
  <2>6. \A p \in q.written : NonNegativeRow(q.after[p])
    BY <1>a DEF OK
  <2>7. /\ row.pc = "invoice" /\ row.written = q.written \cup {q.place} /\ row.after = after
    BY <2>2 DEF RequestState
  <2>8. q.after \in [Places -> QtyRow] /\ q.written \subseteq Places
    BY <2>2 DEF RequestState
  <2> HIDE DEF row, next, q
  <2>9. OK(row)
    BY <2>2, <2>5, <2>6, <2>7, <2>8 DEF OK
  <2> QED
    BY <1>e, <2>1, <2>9
<1>17. ASSUME NEW r \in Requests, InvoiceCommit(r)
      PROVE  \A q \in Requests : OK(request'[q])
  BY <1>17, <1>a, <1>c, <1>e, <1>f DEF InvoiceCommit, Idle
<1>18. ASSUME NEW r \in Requests, NEW i \in Invoices, PayInvoice(r, i)
      PROVE  \A q \in Requests : OK(request'[q])
  BY <1>18, <1>a, <1>c, <1>e, <1>f DEF PayInvoice, Idle
<1>19. ASSUME NEW r \in Requests, NEW o \in Orders, CancelRead(r, o)
      PROVE  \A q \in Requests : OK(request'[q])
  BY <1>19, <1>a, <1>c, <1>e, <1>f DEF CancelRead, Idle
<1>30. ASSUME NEW r \in Requests, NEW o \in Orders, ApproveRead(r, o)
      PROVE  \A q \in Requests : OK(request'[q])
  BY <1>30, <1>a, <1>c, <1>e, <1>f DEF ApproveRead, Idle
<1>20. ASSUME NEW r \in Requests, CancelWrite(r)
      PROVE  \A q \in Requests : OK(request'[q])
  BY <1>20, <1>a, <1>c, <1>e, <1>f DEF CancelWrite, Idle
<1>31. ASSUME NEW r \in Requests, ApproveWrite(r)
      PROVE  \A q \in Requests : OK(request'[q])
  BY <1>31, <1>a, <1>c, <1>e, <1>f DEF ApproveWrite, Idle
<1>21. ASSUME NEW r \in Requests, Abort(r)
      PROVE  \A q \in Requests : OK(request'[q])
  BY <1>21, <1>a, <1>c, <1>e, <1>f DEF Abort, Idle
<1>22. CASE UNCHANGED vars
  BY <1>22, <1>a DEF vars
<1> QED
  BY <1>1, <1>2, <1>3, <1>4, <1>5, <1>6, <1>7, <1>8, <1>9, <1>10, <1>11, <1>12, <1>13, <1>14, <1>15, <1>16, <1>17, <1>18, <1>19, <1>20, <1>21, <1>22, <1>30, <1>31
  DEF Next, AutoReceipt, TermReceipt, Invoice, Approve, Cancel


-----------------------------------------------------------------------------
(* The handlers that write balances are four; no other step touches one.    *)

BalanceStep(r) ==
    \/ \E x \in Receipts : AutoReceiptCommit(r, x)
    \/ ConfirmReceiptCommit(r)
    \/ VoidReceiptCommit(r)
    \/ InvoiceCommit(r)

\* Any other step leaves balances and stock card alone.
LEMMA BalanceSteps ==
  ASSUME [Next]_vars
  PROVE  \/ balance' = balance /\ ledger' = ledger
         \/ \E r \in Requests : BalanceStep(r)
<1>1. ASSUME NEW r \in Requests, AutoReceipt(r) \/ Approve(r) \/ Cancel(r) \/ Abort(r)
      PROVE  (balance' = balance /\ ledger' = ledger) \/ BalanceStep(r)
  BY <1>1 DEF AutoReceipt, AutoReceiptRead, Approve, ApproveRead, ApproveWrite, Cancel, CancelRead,
     CancelWrite, Abort, BalanceStep
<1>2. ASSUME NEW r \in Requests, TermReceipt(r)
      PROVE  (balance' = balance /\ ledger' = ledger) \/ BalanceStep(r)
  BY <1>2 DEF TermReceipt, TermReceiptCreate, UpdateReceiptRead, UpdateReceiptWrite,
     ConfirmReceiptRead, VoidReceiptRead, ReceiptRead, ConfirmReceiptReadOrder,
     VoidReceiptReadBalance, BalanceStep
<1>3. ASSUME NEW r \in Requests, Invoice(r)
      PROVE  (balance' = balance /\ ledger' = ledger) \/ BalanceStep(r)
  BY <1>3 DEF Invoice, InvoiceCheck, VoidInvoiceCheck, VoidInvoiceMark, LineRead, LineWrite,
     PayInvoice, BalanceStep
<1> QED
  BY <1>1, <1>2, <1>3 DEF Next, vars

\* Receiving stock adds the quantity to the balance and to the stock card.
LEMMA ReceiveBalance ==
  ASSUME TypeOK, NEW r \in Requests, NEW o, NEW p \in Places, NEW qty \in 0 .. MaxQty,
         NEW next, Receive(r, o, p, qty, next)
  PROVE  /\ balance' = [balance EXCEPT ![p] = Plus(balance[p], ReceivedDelta(qty))]
         /\ ledger' = [ledger EXCEPT ![p] = Plus(ledger[p], ReceivedDelta(qty))]
  BY DEF Receive, Incremented, TypeOK

\* The two ways of receiving stock, by the request that does it.
LEMMA ReceiptCommits ==
  ASSUME TypeOK, RequestOK, NEW r \in Requests,
         (\E x \in Receipts : AutoReceiptCommit(r, x)) \/ ConfirmReceiptCommit(r)
  PROVE  LET q == request[r] IN
         /\ q.place \in Places /\ q.qty \in 0 .. MaxQty
         /\ balance' = [balance EXCEPT ![q.place] = Plus(balance[q.place], ReceivedDelta(q.qty))]
         /\ ledger' = [ledger EXCEPT ![q.place] = Plus(ledger[q.place], ReceivedDelta(q.qty))]
<1> DEFINE q == request[r]
<1>1. q.place \in Places /\ q.qty \in 0 .. MaxQty
  BY DEF AutoReceiptCommit, ConfirmReceiptCommit, RequestOK, TypeOK, RequestState
<1>2. \E o, next : Receive(r, o, q.place, q.qty, next)
  BY DEF AutoReceiptCommit, ConfirmReceiptCommit
<1> HIDE DEF q
<1>3. /\ balance' = [balance EXCEPT ![q.place] = Plus(balance[q.place], ReceivedDelta(q.qty))]
      /\ ledger' = [ledger EXCEPT ![q.place] = Plus(ledger[q.place], ReceivedDelta(q.qty))]
  BY <1>1, <1>2, ReceiveBalance
<1> QED
  BY <1>1, <1>3 DEF q

\* A void writes the physical and pending quantities it has computed.
LEMMA VoidCommits ==
  ASSUME TypeOK, RequestOK, NEW r \in Requests, VoidReceiptCommit(r)
  PROVE  LET q == request[r]
             undone == UndoneQty(q.seen, q.qty)
             next == VoidedBalance(q.read, undone)
         IN  /\ q.place \in Places /\ q.read \in QtyRow /\ undone \in 0 .. MaxQty
             /\ \/ balance' = balance /\ ledger' = ledger
                \/ /\ balance' = [balance EXCEPT ![q.place] =
                                     Qtys(next.physical, next.pending, balance[q.place].posted)]
                   /\ ledger' = [ledger EXCEPT ![q.place] =
                                     Plus(ledger[q.place], ReceivedDelta(-undone))]
<1> DEFINE q == request[r]
           undone == UndoneQty(q.seen, q.qty)
           next == VoidedBalance(q.read, undone)
<1>1. q.place \in Places /\ q.read \in QtyRow /\ q.qty \in 0 .. MaxQty
  BY DEF VoidReceiptCommit, RequestOK, TypeOK, RequestState
<1>2. undone \in 0 .. MaxQty
  BY <1>1, UndoneType
<1>3. \/ balance' = balance /\ ledger' = ledger
      \/ /\ balance' = [balance EXCEPT ![q.place] =
                             Qtys(next.physical, next.pending, @.posted)]
         /\ ledger' = [ledger EXCEPT ![q.place] = Plus(@, ReceivedDelta(-undone))]
  BY DEF VoidReceiptCommit
<1>4. balance \in [Places -> QtyRow] /\ ledger \in [Places -> QtyRow]
  BY DEF TypeOK
<1> HIDE DEF q, undone, next
<1>5. [balance EXCEPT ![q.place] = Qtys(next.physical, next.pending, @.posted)]
        = [balance EXCEPT ![q.place] =
              Qtys(next.physical, next.pending, balance[q.place].posted)]
  BY <1>1, <1>4
<1>6. [ledger EXCEPT ![q.place] = Plus(@, ReceivedDelta(-undone))]
        = [ledger EXCEPT ![q.place] = Plus(ledger[q.place], ReceivedDelta(-undone))]
  BY <1>1, <1>4
<1> QED
  BY <1>1, <1>2, <1>3, <1>5, <1>6 DEF q, undone, next

\* No check on a stale balance lets it go below zero.
LEMMA NonNegativeStep ==
  TypeOK /\ RequestOK /\ WritesNonNegative /\ NeverNegative /\ [Next]_vars => NeverNegative'
<1> SUFFICES ASSUME TypeOK, RequestOK, WritesNonNegative, NeverNegative, [Next]_vars
             PROVE  \A p \in Places : NonNegativeRow(balance'[p])
  BY DEF NeverNegative, NonNegativeRow
<1>a. \A p \in Places : NonNegativeRow(balance[p]) /\ balance[p] \in QtyRow
  BY DEF NeverNegative, NonNegativeRow, TypeOK
<1>b. balance \in [Places -> QtyRow]
  BY DEF TypeOK
<1>1. CASE balance' = balance
  BY <1>1, <1>a
<1>2. ASSUME NEW r \in Requests,
             (\E x \in Receipts : AutoReceiptCommit(r, x)) \/ ConfirmReceiptCommit(r)
      PROVE  \A p \in Places : NonNegativeRow(balance'[p])
  <2> DEFINE q == request[r]
             next == Plus(balance[q.place], ReceivedDelta(q.qty))
  <2>1. /\ q.place \in Places /\ q.qty \in 0 .. MaxQty
        /\ balance' = [balance EXCEPT ![q.place] = next]
    BY <1>2, ReceiptCommits
  <2>2. NonNegativeRow(next)
    <3>1. q.qty \in Int /\ q.qty >= 0
      BY <2>1
    <3> HIDE DEF q
    <3> QED
      BY <1>a, <2>1, <3>1, PlusType, ReceivedType DEF NonNegativeRow, QtyRow
  <2> HIDE DEF q, next
  <2> QED
    BY <1>a, <1>b, <2>1, <2>2
<1>3. ASSUME NEW r \in Requests, VoidReceiptCommit(r)
      PROVE  \A p \in Places : NonNegativeRow(balance'[p])
  <2> DEFINE q == request[r]
             next == VoidedBalance(q.read, UndoneQty(q.seen, q.qty))
             row == Qtys(next.physical, next.pending, balance[q.place].posted)
  <2>1. /\ q.place \in Places
        /\ balance' = balance \/ balance' = [balance EXCEPT ![q.place] = row]
    BY <1>3, VoidCommits
  <2>2. next.physical >= 0 /\ next.pending >= 0
    BY <1>3 DEF WritesNonNegative, VoidReceiptCommit
  <2>3. NonNegativeRow(row)
    BY <1>a, <2>1, <2>2 DEF NonNegativeRow, Qtys
  <2> HIDE DEF q, next, row
  <2> QED
    BY <1>a, <1>b, <2>1, <2>3
<1>4. ASSUME NEW r \in Requests, InvoiceCommit(r)
      PROVE  \A p \in Places : NonNegativeRow(balance'[p])
  <2>1. balance' = [p \in Places |-> IF p \in request[r].written THEN request[r].after[p]
                                                                 ELSE balance[p]]
    BY <1>4 DEF InvoiceCommit
  <2>2. \A p \in request[r].written : NonNegativeRow(request[r].after[p])
    BY DEF WritesNonNegative
  <2> QED
    BY <1>a, <2>1, <2>2
<1> QED
  BY <1>1, <1>2, <1>3, <1>4, BalanceSteps DEF BalanceStep

-----------------------------------------------------------------------------
\* The invariant holds of the initial tables.
LEMMA InvInit == Init => IInv
<1> SUFFICES ASSUME Init PROVE IInv
  OBVIOUS
<1>1. TypeOK
  BY TypeInit
<1>2. RequestOK /\ WritesNonNegative
  BY DEF Init, Idle, RequestOK, WritesNonNegative
<1>3. ReceiptsPlaced /\ NeverNegative
  BY DEF Init, ReceiptsPlaced, NeverNegative, NoQtys, Qtys
<1> QED
  BY <1>1, <1>2, <1>3 DEF IInv

\* The invariant is inductive.
LEMMA InvStep == IInv /\ [Next]_vars => IInv'
  BY TypeStep, RequestStep, PlacedStep, WritesStep, NonNegativeStep DEF IInv

\* The invariant holds in every reachable state.
LEMMA Invariance == Spec => []IInv
  BY InvInit, InvStep, PTL DEF Spec

\* Rows and requests always have the shape the code gives them.
THEOREM TypeCorrect == Spec => []TypeOK
<1>1. IInv => TypeOK
  BY DEF IInv
<1> QED
  BY <1>1, Invariance, PTL

\* However requests interleave, applyDeltaAndAppendLedger, receipts and voids
\* never leave a negative quantity behind.
THEOREM NonNegativeCorrect == Spec => []NeverNegative
<1>1. IInv => NeverNegative
  BY DEF IInv
<1> QED
  BY <1>1, Invariance, PTL


-----------------------------------------------------------------------------
(* Without voids of receipts, physical stock stays pending plus posted.     *)

\* What a request reads and is about to write is split.
LEMMA WritesSplitStep ==
  NoReceiptVoid /\ TypeOK /\ RequestOK /\ WritesSplit /\ PhysicalIsSplit /\ [Next]_vars
    => WritesSplit'
<1> SUFFICES ASSUME NoReceiptVoid, TypeOK, RequestOK, WritesSplit, PhysicalIsSplit, [Next]_vars
             PROVE  WritesSplit'
  OBVIOUS
<1> DEFINE OK(q) ==
        /\ q.pc \notin {"voidReceipt", "voidReceiptWrite"}
        /\ q.pc = "invoiceLine" => Split(q.read)
        /\ \A p \in q.written : Split(q.after[p])
<1>a. \A r \in Requests : OK(request[r])
  BY DEF WritesSplit
<1>b. SUFFICES \A r \in Requests : OK(request'[r])
  BY DEF WritesSplit
<1>d. request \in [Requests -> RequestState]
  BY DEF TypeOK
<1> HIDE DEF OK
<1>e. ASSUME NEW r \in Requests, NEW row, OK(row), request' = [request EXCEPT ![r] = row]
      PROVE  \A q \in Requests : OK(request'[q])
  BY <1>a, <1>d, <1>e
<1>f. ASSUME NEW row, row.written = {},
             row.pc \notin {"voidReceipt", "voidReceiptWrite", "invoiceLine"}
      PROVE  OK(row)
  BY <1>f DEF OK
<1>c. OK(Idle)
  BY <1>f DEF Idle
<1>1. ASSUME NEW r \in Requests, NEW o \in Orders, NEW p \in Places, NEW qty \in Quantities,
             AutoReceiptRead(r, o, p, qty)
      PROVE  \A q \in Requests : OK(request'[q])
  BY <1>1, <1>a, <1>c, <1>e, <1>f DEF AutoReceiptRead, Idle
<1>2. ASSUME NEW r \in Requests, NEW x \in Receipts, AutoReceiptCommit(r, x)
      PROVE  \A q \in Requests : OK(request'[q])
  BY <1>2, <1>a, <1>c, <1>e, <1>f DEF AutoReceiptCommit, Receive, Idle
<1>3. ASSUME NEW r \in Requests, NEW x \in Receipts, NEW o \in Orders, NEW p \in Places,
             NEW qty \in Quantities, TermReceiptCreate(r, x, o, p, qty)
      PROVE  \A q \in Requests : OK(request'[q])
  BY <1>3, <1>a, <1>c, <1>e, <1>f DEF TermReceiptCreate, Idle
<1>4. ASSUME NEW r \in Requests, NEW x \in Receipts, NEW p \in Places,
             NEW qty \in Quantities, UpdateReceiptRead(r, x, p, qty)
      PROVE  \A q \in Requests : OK(request'[q])
  BY <1>4, <1>a, <1>c, <1>e, <1>f DEF UpdateReceiptRead, Idle
<1>5. ASSUME NEW r \in Requests, UpdateReceiptWrite(r)
      PROVE  \A q \in Requests : OK(request'[q])
  BY <1>5, <1>a, <1>c, <1>e, <1>f DEF UpdateReceiptWrite, Idle
<1>6. ASSUME NEW r \in Requests, NEW x \in Receipts, ConfirmReceiptRead(r, x)
      PROVE  \A q \in Requests : OK(request'[q])
  BY <1>6, <1>a, <1>c, <1>e, <1>f DEF ConfirmReceiptRead, ReceiptRead, Idle
<1>7. ASSUME NEW r \in Requests, ConfirmReceiptReadOrder(r)
      PROVE  \A q \in Requests : OK(request'[q])
  <2> DEFINE q == request[r]
             row == [q EXCEPT !.pc = "confirmReceiptWrite", !.seen = order[q.order].status]
  <2>1. request' = [request EXCEPT ![r] = row]
    BY <1>7, <1>d DEF ConfirmReceiptReadOrder, RequestState
  <2>2. row.pc = "confirmReceiptWrite" /\ row.written = q.written /\ row.after = q.after
    BY <1>d DEF RequestState
  <2>3. OK(row)
    BY <1>a, <2>2 DEF OK
  <2> QED
    BY <1>e, <2>1, <2>3
<1>8. ASSUME NEW r \in Requests, ConfirmReceiptCommit(r)
      PROVE  \A q \in Requests : OK(request'[q])
  BY <1>8, <1>a, <1>c, <1>e, <1>f DEF ConfirmReceiptCommit, Receive, Idle
<1>9. ASSUME NEW r \in Requests, NEW x \in Receipts, VoidReceiptRead(r, x)
      PROVE  \A q \in Requests : OK(request'[q])
  BY <1>9 DEF VoidReceiptRead, ReceiptRead, Begin, NoReceiptVoid
<1>10. ASSUME NEW r \in Requests, VoidReceiptReadBalance(r)
      PROVE  \A q \in Requests : OK(request'[q])
  BY <1>10, <1>a DEF VoidReceiptReadBalance, OK
<1>11. ASSUME NEW r \in Requests, VoidReceiptCommit(r)
      PROVE  \A q \in Requests : OK(request'[q])
  BY <1>11, <1>a, <1>c, <1>e, <1>f DEF VoidReceiptCommit, Idle
<1>12. ASSUME NEW r \in Requests, NEW i \in Invoices, NEW o \in Orders \cup {None},
             NEW items \in [Places -> 0 .. MaxQty], InvoiceCheck(r, i, o, items)
      PROVE  \A q \in Requests : OK(request'[q])
  BY <1>12, <1>a, <1>c, <1>e, <1>f DEF InvoiceCheck, Idle
<1>13. ASSUME NEW r \in Requests, NEW i \in Invoices, VoidInvoiceCheck(r, i)
      PROVE  \A q \in Requests : OK(request'[q])
  BY <1>13, <1>a, <1>c, <1>e, <1>f DEF VoidInvoiceCheck, Idle
<1>14. ASSUME NEW r \in Requests, VoidInvoiceMark(r)
      PROVE  \A q \in Requests : OK(request'[q])
  <2> DEFINE row == [request[r] EXCEPT !.pc = "invoice"]
  <2>1. request' = [request EXCEPT ![r] = row]
    BY <1>14, <1>d DEF VoidInvoiceMark, RequestState
  <2>2. row.pc = "invoice" /\ row.written = request[r].written /\ row.after = request[r].after
    BY <1>d DEF RequestState
  <2>3. OK(row)
    BY <1>a, <2>2 DEF OK
  <2> QED
    BY <1>e, <2>1, <2>3
<1>15. ASSUME NEW r \in Requests, NEW p \in Places, LineRead(r, p)
      PROVE  \A q \in Requests : OK(request'[q])
  <2> DEFINE q == request[r]
             row == [q EXCEPT !.pc = "invoiceLine", !.place = p, !.read = balance[p]]
  <2>1. request' = [request EXCEPT ![r] = row]
    BY <1>15, <1>d DEF LineRead, RequestState
  <2>2. Split(balance[p])
    BY DEF PhysicalIsSplit, Split
  <2>3. /\ row.pc = "invoiceLine" /\ row.read = balance[p]
        /\ row.written = q.written /\ row.after = q.after
    BY <1>d DEF RequestState
  <2> HIDE DEF row
  <2>4. OK(row)
    BY <1>a, <2>2, <2>3 DEF OK
  <2> QED
    BY <1>e, <2>1, <2>4
<1>16. ASSUME NEW r \in Requests, LineWrite(r)
      PROVE  \A q \in Requests : OK(request'[q])
  <2> DEFINE q == request[r]
             next == Plus(q.read, LineDelta(q.sign, q.items[q.place]))
             after == [q.after EXCEPT ![q.place] = next]
             row == [q EXCEPT !.pc = "invoice", !.place = None, !.read = NoQtys,
                              !.written = @ \cup {q.place}, !.after = after]
  <2>1. request' = [request EXCEPT ![r] = row]
    BY <1>16, <1>d DEF LineWrite, RequestState
  <2>2. q \in RequestState /\ q.pc = "invoiceLine" /\ q.place \in Places
    BY <1>16, <1>d DEF LineWrite, RequestOK
  <2>3. /\ q.read \in QtyRow /\ q.sign \in {1, -1} /\ q.items[q.place] \in 0 .. MaxQty
        /\ q.after \in [Places -> QtyRow] /\ q.written \subseteq Places
    BY <2>2 DEF RequestState
  <2>4. Split(q.read) /\ \A p \in q.written : Split(q.after[p])
    BY <1>a, <2>2 DEF OK
  <2>5. Split(next)
    <3> DEFINE moved == q.sign * q.items[q.place]
    <3>1. moved \in Int
      BY <2>3
    <3>2. /\ next.physical = q.read.physical + 0
          /\ next.pending = q.read.pending + -moved
          /\ next.posted = q.read.posted + moved
      BY <2>3, PlusType, LineType
    <3> HIDE DEF moved, next, q
    <3> QED
      BY <2>3, <2>4, <3>1, <3>2 DEF Split, QtyRow
  <2>6. /\ row.pc = "invoice" /\ row.written = q.written \cup {q.place} /\ row.after = after
    BY <2>2 DEF RequestState
  <2> HIDE DEF row, next, q
  <2>7. OK(row)
    BY <2>2, <2>3, <2>4, <2>5, <2>6 DEF OK
  <2> QED
    BY <1>e, <2>1, <2>7
<1>17. ASSUME NEW r \in Requests, InvoiceCommit(r)
      PROVE  \A q \in Requests : OK(request'[q])
  BY <1>17, <1>a, <1>c, <1>e, <1>f DEF InvoiceCommit, Idle
<1>18. ASSUME NEW r \in Requests, NEW i \in Invoices, PayInvoice(r, i)
      PROVE  \A q \in Requests : OK(request'[q])
  BY <1>18, <1>a, <1>c, <1>e, <1>f DEF PayInvoice, Idle
<1>19. ASSUME NEW r \in Requests, NEW o \in Orders, CancelRead(r, o)
      PROVE  \A q \in Requests : OK(request'[q])
  BY <1>19, <1>a, <1>c, <1>e, <1>f DEF CancelRead, Idle
<1>30. ASSUME NEW r \in Requests, NEW o \in Orders, ApproveRead(r, o)
      PROVE  \A q \in Requests : OK(request'[q])
  BY <1>30, <1>a, <1>c, <1>e, <1>f DEF ApproveRead, Idle
<1>20. ASSUME NEW r \in Requests, CancelWrite(r)
      PROVE  \A q \in Requests : OK(request'[q])
  BY <1>20, <1>a, <1>c, <1>e, <1>f DEF CancelWrite, Idle
<1>31. ASSUME NEW r \in Requests, ApproveWrite(r)
      PROVE  \A q \in Requests : OK(request'[q])
  BY <1>31, <1>a, <1>c, <1>e, <1>f DEF ApproveWrite, Idle
<1>21. ASSUME NEW r \in Requests, Abort(r)
      PROVE  \A q \in Requests : OK(request'[q])
  BY <1>21, <1>a, <1>c, <1>e, <1>f DEF Abort, Idle
<1>22. CASE UNCHANGED vars
  BY <1>22, <1>a DEF vars
<1> QED
  BY <1>1, <1>2, <1>3, <1>4, <1>5, <1>6, <1>7, <1>8, <1>9, <1>10, <1>11, <1>12, <1>13, <1>14, <1>15, <1>16, <1>17, <1>18, <1>19, <1>20, <1>21, <1>22, <1>30, <1>31
  DEF Next, AutoReceipt, TermReceipt, Invoice, Approve, Cancel

\* Each write of a balance keeps physical the sum of pending and posted.
LEMMA SplitStep ==
  TypeOK /\ RequestOK /\ WritesSplit /\ PhysicalIsSplit /\ [Next]_vars => PhysicalIsSplit'
<1> SUFFICES ASSUME TypeOK, RequestOK, WritesSplit, PhysicalIsSplit, [Next]_vars
             PROVE  \A p \in Places : Split(balance'[p])
  BY DEF PhysicalIsSplit, Split
<1>a. \A p \in Places : Split(balance[p]) /\ balance[p] \in QtyRow
  BY DEF PhysicalIsSplit, Split, TypeOK
<1>b. balance \in [Places -> QtyRow]
  BY DEF TypeOK
<1>1. CASE balance' = balance
  BY <1>1, <1>a
<1>2. ASSUME NEW r \in Requests,
             (\E x \in Receipts : AutoReceiptCommit(r, x)) \/ ConfirmReceiptCommit(r)
      PROVE  \A p \in Places : Split(balance'[p])
  <2> DEFINE q == request[r]
             next == Plus(balance[q.place], ReceivedDelta(q.qty))
  <2>1. /\ q.place \in Places /\ q.qty \in 0 .. MaxQty
        /\ balance' = [balance EXCEPT ![q.place] = next]
    BY <1>2, ReceiptCommits
  <2>2. Split(next)
    <3>1. q.qty \in Int
      BY <2>1
    <3> HIDE DEF q
    <3> QED
      BY <1>a, <2>1, <3>1, PlusType, ReceivedType DEF Split, QtyRow
  <2> HIDE DEF q, next
  <2> QED
    BY <1>a, <1>b, <2>1, <2>2
<1>3. ASSUME NEW r \in Requests, VoidReceiptCommit(r)
      PROVE  FALSE
  BY <1>3 DEF WritesSplit, VoidReceiptCommit
<1>4. ASSUME NEW r \in Requests, InvoiceCommit(r)
      PROVE  \A p \in Places : Split(balance'[p])
  <2>1. balance' = [p \in Places |-> IF p \in request[r].written THEN request[r].after[p]
                                                                 ELSE balance[p]]
    BY <1>4 DEF InvoiceCommit
  <2>2. \A p \in request[r].written : Split(request[r].after[p])
    BY DEF WritesSplit
  <2> QED
    BY <1>a, <2>1, <2>2
<1> QED
  BY <1>1, <1>2, <1>3, <1>4, BalanceSteps DEF BalanceStep

\* While no receipt is voided, physical stock is pending plus posted stock,
\* although invoices overwrite balances they read before other updates.
THEOREM SplitCorrect == NoReceiptVoid /\ Spec => []PhysicalIsSplit
<1> SUFFICES ASSUME NoReceiptVoid PROVE Spec => []PhysicalIsSplit
  OBVIOUS
<1>1. Init => WritesSplit /\ PhysicalIsSplit
  BY DEF Init, Idle, WritesSplit, PhysicalIsSplit, NoQtys, Qtys
<1>2. IInv /\ WritesSplit /\ PhysicalIsSplit /\ [Next]_vars => WritesSplit' /\ PhysicalIsSplit'
  BY WritesSplitStep, SplitStep DEF IInv
<1> QED
  BY <1>1, <1>2, Invariance, PTL DEF Spec


-----------------------------------------------------------------------------
(* Served one at a time, requests keep the balance equal to the stock card. *)

Current(q, b) ==
    /\ q.pc \in {"voidReceiptWrite", "invoiceLine"} => q.read = b[q.place]
    /\ \A p \in q.written : q.after[p] = Plus(b[p], LineDelta(q.sign, q.items[p]))

\* A request that has read or written no balance yet is current.
LEMMA FreshCurrent ==
  ASSUME NEW q, NEW b, q.written = {}, q.pc \notin {"voidReceiptWrite", "invoiceLine"}
  PROVE  Current(q, b)
  BY DEF Current

\* Served alone, a request finds the balances it read unchanged.
LEMMA CurrentStep ==
  OneRequest /\ TypeOK /\ RequestOK /\ ReadsCurrent /\ [Next]_vars => ReadsCurrent'
<1> SUFFICES ASSUME OneRequest, TypeOK, RequestOK, ReadsCurrent, [Next]_vars,
                    NEW r \in Requests
             PROVE  Current(request'[r], balance')
  BY DEF ReadsCurrent, Current
<1>a. \A q \in Requests : q = r
  BY DEF OneRequest
<1>b. Current(request[r], balance)
  BY DEF ReadsCurrent, Current
<1>c. Current(Idle, balance') /\ request \in [Requests -> RequestState]
  BY DEF Current, Idle, TypeOK
<1>d. ASSUME NEW row, request' = [request EXCEPT ![r] = row], Current(row, balance')
      PROVE  Current(request'[r], balance')
  <2>1. request'[r] = row
    BY <1>c, <1>d
  <2> QED
    BY <1>d, <2>1 DEF Current
<1>e. ASSUME NEW row, row.written = {}, row.pc \notin {"voidReceiptWrite", "invoiceLine"}
      PROVE  Current(row, balance')
  BY <1>e DEF Current
<1>1. ASSUME NEW o \in Orders, NEW p \in Places, NEW qty \in Quantities,
             AutoReceiptRead(r, o, p, qty)
      PROVE  Current(request'[r], balance')
  BY <1>1, <1>c, <1>d, <1>e DEF AutoReceiptRead, Idle
<1>2. ASSUME NEW x \in Receipts, AutoReceiptCommit(r, x)
      PROVE  Current(request'[r], balance')
  BY <1>2, <1>c, <1>d, <1>e DEF AutoReceiptCommit, Receive, Idle
<1>3. ASSUME NEW x \in Receipts, NEW o \in Orders, NEW p \in Places,
             NEW qty \in Quantities, TermReceiptCreate(r, x, o, p, qty)
      PROVE  Current(request'[r], balance')
  BY <1>3, <1>b DEF TermReceiptCreate, Current
<1>4. ASSUME NEW x \in Receipts, NEW p \in Places,
             NEW qty \in Quantities, UpdateReceiptRead(r, x, p, qty)
      PROVE  Current(request'[r], balance')
  BY <1>4, <1>c, <1>d, <1>e DEF UpdateReceiptRead, Idle
<1>5. ASSUME UpdateReceiptWrite(r)
      PROVE  Current(request'[r], balance')
  BY <1>5, <1>c, <1>d, <1>e DEF UpdateReceiptWrite, Idle
<1>6. ASSUME NEW x \in Receipts, ConfirmReceiptRead(r, x)
      PROVE  Current(request'[r], balance')
  BY <1>6, <1>c, <1>d, <1>e DEF ConfirmReceiptRead, ReceiptRead, Idle
<1>7. ASSUME ConfirmReceiptReadOrder(r)
      PROVE  Current(request'[r], balance')
  <2> DEFINE q == request[r]
             row == [q EXCEPT !.pc = "confirmReceiptWrite", !.seen = order[q.order].status]
  <2>1. request' = [request EXCEPT ![r] = row] /\ balance' = balance
    BY <1>7, <1>c DEF ConfirmReceiptReadOrder, RequestState
  <2>2. /\ row.pc = "confirmReceiptWrite" /\ row.written = q.written
        /\ row.after = q.after /\ row.sign = q.sign /\ row.items = q.items
    BY <1>c DEF RequestState
  <2> HIDE DEF row
  <2>3. Current(row, balance')
    BY <1>b, <2>1, <2>2 DEF Current
  <2> QED
    BY <1>d, <2>1, <2>3
<1>8. ASSUME ConfirmReceiptCommit(r)
      PROVE  Current(request'[r], balance')
  BY <1>8, <1>c, <1>d, <1>e DEF ConfirmReceiptCommit, Receive, Idle
<1>9. ASSUME NEW x \in Receipts, VoidReceiptRead(r, x)
      PROVE  Current(request'[r], balance')
  BY <1>9, <1>c, <1>d, <1>e DEF VoidReceiptRead, ReceiptRead, Idle
<1>10. ASSUME VoidReceiptReadBalance(r)
      PROVE  Current(request'[r], balance')
  <2> DEFINE q == request[r]
             row == [q EXCEPT !.pc = "voidReceiptWrite", !.read = balance[q.place]]
  <2>1. request' = [request EXCEPT ![r] = row] /\ balance' = balance
    BY <1>10, <1>c DEF VoidReceiptReadBalance, RequestState
  <2>2. /\ row.read = balance[q.place] /\ row.place = q.place /\ row.written = q.written
        /\ row.after = q.after /\ row.sign = q.sign /\ row.items = q.items
    BY <1>c DEF RequestState
  <2> HIDE DEF row
  <2>3. Current(row, balance')
    BY <1>b, <2>1, <2>2 DEF Current
  <2> QED
    BY <1>d, <2>1, <2>3
<1>11. ASSUME VoidReceiptCommit(r)
      PROVE  Current(request'[r], balance')
  BY <1>11, <1>c, <1>d, <1>e DEF VoidReceiptCommit, Idle
<1>12. ASSUME NEW i \in Invoices, NEW o \in Orders \cup {None},
             NEW items \in [Places -> 0 .. MaxQty], InvoiceCheck(r, i, o, items)
      PROVE  Current(request'[r], balance')
  BY <1>12, <1>c, <1>d, <1>e DEF InvoiceCheck, Idle
<1>13. ASSUME NEW i \in Invoices, VoidInvoiceCheck(r, i)
      PROVE  Current(request'[r], balance')
  BY <1>13, <1>c, <1>d, <1>e DEF VoidInvoiceCheck, Idle
<1>14. ASSUME VoidInvoiceMark(r)
      PROVE  Current(request'[r], balance')
  <2> DEFINE q == request[r]
             row == [q EXCEPT !.pc = "invoice"]
  <2>1. request' = [request EXCEPT ![r] = row] /\ balance' = balance
    BY <1>14, <1>c DEF VoidInvoiceMark, RequestState
  <2>2. /\ row.pc = "invoice" /\ row.written = q.written
        /\ row.after = q.after /\ row.sign = q.sign /\ row.items = q.items
    BY <1>c DEF RequestState
  <2> HIDE DEF row
  <2>3. Current(row, balance')
    BY <1>b, <2>1, <2>2 DEF Current
  <2> QED
    BY <1>d, <2>1, <2>3
<1>15. ASSUME NEW p \in Places, LineRead(r, p)
      PROVE  Current(request'[r], balance')
  <2> DEFINE q == request[r]
             row == [q EXCEPT !.pc = "invoiceLine", !.place = p, !.read = balance[p]]
  <2>1. request' = [request EXCEPT ![r] = row] /\ balance' = balance
    BY <1>15, <1>c DEF LineRead, RequestState
  <2>2. /\ row.read = balance[p] /\ row.place = p /\ row.written = q.written
        /\ row.after = q.after /\ row.sign = q.sign /\ row.items = q.items
    BY <1>c DEF RequestState
  <2> HIDE DEF row
  <2>3. Current(row, balance')
    BY <1>b, <2>1, <2>2 DEF Current
  <2> QED
    BY <1>d, <2>1, <2>3
<1>16. ASSUME LineWrite(r)
      PROVE  Current(request'[r], balance')
  <2> DEFINE q == request[r]
             next == Plus(q.read, LineDelta(q.sign, q.items[q.place]))
             after == [q.after EXCEPT ![q.place] = next]
             row == [q EXCEPT !.pc = "invoice", !.place = None, !.read = NoQtys,
                              !.written = @ \cup {q.place}, !.after = after]
  <2>1. request' = [request EXCEPT ![r] = row] /\ balance' = balance
    BY <1>16, <1>c DEF LineWrite, RequestState
  <2>2. q \in RequestState /\ q.pc = "invoiceLine" /\ q.place \in Places
    BY <1>16, <1>c DEF LineWrite, RequestOK
  <2>3. /\ row.pc = "invoice" /\ row.written = q.written \cup {q.place}
        /\ row.after = after /\ row.sign = q.sign /\ row.items = q.items
    BY <2>2 DEF RequestState
  <2>4. next = Plus(balance[q.place], LineDelta(q.sign, q.items[q.place]))
    BY <1>b, <2>2 DEF Current
  <2>5. q.after \in [Places -> QtyRow] /\ q.written \subseteq Places
    BY <2>2 DEF RequestState
  <2>6. \A p \in q.written : q.after[p] = Plus(balance[p], LineDelta(q.sign, q.items[p]))
    BY <1>b DEF Current
  <2> HIDE DEF row, next, q
  <2>7. \A p \in row.written : row.after[p] = Plus(balance[p], LineDelta(row.sign, row.items[p]))
    BY <2>2, <2>3, <2>4, <2>5, <2>6
  <2>8. Current(row, balance')
    BY <2>1, <2>3, <2>7 DEF Current
  <2> QED
    BY <1>d, <2>1, <2>8
<1>17. ASSUME InvoiceCommit(r)
      PROVE  Current(request'[r], balance')
  BY <1>17, <1>c, <1>d, <1>e DEF InvoiceCommit, Idle
<1>18. ASSUME NEW i \in Invoices, PayInvoice(r, i)
      PROVE  Current(request'[r], balance')
  BY <1>18, <1>b DEF PayInvoice, Current
<1>19. ASSUME NEW o \in Orders, CancelRead(r, o)
      PROVE  Current(request'[r], balance')
  BY <1>19, <1>c, <1>d, <1>e DEF CancelRead, Idle
<1>30. ASSUME NEW o \in Orders, ApproveRead(r, o)
      PROVE  Current(request'[r], balance')
  BY <1>30, <1>c, <1>d, <1>e DEF ApproveRead, Idle
<1>20. ASSUME CancelWrite(r)
      PROVE  Current(request'[r], balance')
  BY <1>20, <1>c, <1>d, <1>e DEF CancelWrite, Idle
<1>31. ASSUME ApproveWrite(r)
      PROVE  Current(request'[r], balance')
  BY <1>31, <1>c, <1>d, <1>e DEF ApproveWrite, Idle
<1>21. ASSUME Abort(r)
      PROVE  Current(request'[r], balance')
  BY <1>21, <1>c, <1>d, <1>e DEF Abort, Idle
<1>22. CASE UNCHANGED vars
  BY <1>22, <1>b DEF vars, Current
<1> QED
  BY <1>a, <1>1, <1>2, <1>3, <1>4, <1>5, <1>6, <1>7, <1>8, <1>9, <1>10, <1>11, <1>12, <1>13, <1>14, <1>15, <1>16, <1>17, <1>18, <1>19, <1>20, <1>21, <1>22, <1>30, <1>31
  DEF Next, AutoReceipt, TermReceipt, Invoice, Approve, Cancel

\* Every step moves the balance and the stock card by the same quantity.
LEMMA CardStep ==
  TypeOK /\ RequestOK /\ ReadsCurrent /\ BalanceIsLedger /\ [Next]_vars => BalanceIsLedger'
<1> SUFFICES ASSUME TypeOK, RequestOK, ReadsCurrent, BalanceIsLedger, [Next]_vars
             PROVE  balance' = ledger'
  BY DEF BalanceIsLedger
<1>a. balance = ledger /\ balance \in [Places -> QtyRow]
  BY DEF BalanceIsLedger, TypeOK
<1>1. ASSUME NEW r \in Requests,
             (\E x \in Receipts : AutoReceiptCommit(r, x)) \/ ConfirmReceiptCommit(r)
      PROVE  balance' = ledger'
  BY <1>1, <1>a, ReceiptCommits
<1>2. ASSUME NEW r \in Requests, VoidReceiptCommit(r)
      PROVE  balance' = ledger'
  <2> DEFINE q == request[r]
             undone == UndoneQty(q.seen, q.qty)
             next == VoidedBalance(q.read, undone)
  <2>1. /\ q.place \in Places /\ q.read \in QtyRow /\ undone \in 0 .. MaxQty
        /\ \/ balance' = balance /\ ledger' = ledger
           \/ /\ balance' = [balance EXCEPT ![q.place] =
                                Qtys(next.physical, next.pending, balance[q.place].posted)]
              /\ ledger' = [ledger EXCEPT ![q.place] =
                                Plus(ledger[q.place], ReceivedDelta(-undone))]
    BY <1>2, VoidCommits
  <2>2. q.read = balance[q.place]
    BY <1>2 DEF VoidReceiptCommit, ReadsCurrent
  <2>3. next = Plus(balance[q.place], ReceivedDelta(-undone))
    BY <2>2 DEF VoidedBalance
  <2> HIDE DEF q, undone
  <2>4. next.posted = balance[q.place].posted
    BY <1>a, <2>1, <2>3 DEF Plus, ReceivedDelta, Qtys, QtyRow
  <2>5. Qtys(next.physical, next.pending, balance[q.place].posted) = next
    BY <2>3, <2>4 DEF Plus, Qtys
  <2> HIDE DEF next
  <2> QED
    BY <1>a, <2>1, <2>3, <2>5
<1>3. ASSUME NEW r \in Requests, InvoiceCommit(r)
      PROVE  balance' = ledger'
  <2>1. \A p \in request[r].written :
            request[r].after[p] = Plus(balance[p], LineDelta(request[r].sign, request[r].items[p]))
    BY DEF ReadsCurrent
  <2> QED
    BY <1>3, <1>a, <2>1 DEF InvoiceCommit
<1>4. CASE balance' = balance /\ ledger' = ledger
  BY <1>4, <1>a
<1> QED
  BY <1>1, <1>2, <1>3, <1>4, BalanceSteps DEF BalanceStep

\* When the web process serves one request at a time, the balance is at every
\* moment the sum of the stock card, whatever calls are made.
THEOREM SerialBalanceIsLedger == OneRequest /\ Spec => []BalanceIsLedger
<1> SUFFICES ASSUME OneRequest PROVE Spec => []BalanceIsLedger
  OBVIOUS
<1>1. Init => ReadsCurrent /\ BalanceIsLedger
  BY DEF Init, Idle, ReadsCurrent, BalanceIsLedger
<1>2. IInv /\ ReadsCurrent /\ BalanceIsLedger /\ [Next]_vars
          => ReadsCurrent' /\ BalanceIsLedger'
  BY CurrentStep, CardStep DEF IInv
<1> QED
  BY <1>1, <1>2, Invariance, PTL DEF Spec

-----------------------------------------------------------------------------
(* What a request served alone has read of the documents still holds when   *)
(* it writes.                                                               *)

\* Of the receipt it edits, confirms or voids.
LEMMA ReceiptCurrentStep ==
  OneRequest /\ TypeOK /\ RequestOK /\ ReceiptsCurrent /\ [Next]_vars => ReceiptsCurrent'
<1> SUFFICES ASSUME OneRequest, TypeOK, RequestOK, ReceiptsCurrent, [Next]_vars,
                    NEW r \in Requests
             PROVE  ReceiptCurrent(request[r])'
  BY DEF ReceiptsCurrent
<1>a. \A q \in Requests : q = r
  BY DEF OneRequest
<1>b. ReceiptCurrent(request[r]) /\ request \in [Requests -> RequestState]
  BY DEF ReceiptsCurrent, TypeOK
<1>c. (request[r].pc = "idle")' => ReceiptCurrent(request[r])'
  BY DEF ReceiptCurrent
<1>1. ASSUME NEW o \in Orders, NEW p \in Places, NEW qty \in Quantities,
             AutoReceiptRead(r, o, p, qty)
      PROVE  ReceiptCurrent(request[r])'
  BY <1>1, <1>b, <1>c DEF AutoReceiptRead, ReceiptCurrent, Fits, Idle, RequestState, TypeOK
<1>2. ASSUME NEW x \in Receipts, AutoReceiptCommit(r, x)
      PROVE  ReceiptCurrent(request[r])'
  BY <1>2, <1>b, <1>c
  DEF AutoReceiptCommit, Receive, ReceiptCurrent, Fits, Idle, RequestState, TypeOK
<1>3. ASSUME NEW x \in Receipts, NEW o \in Orders, NEW p \in Places,
             NEW qty \in Quantities, TermReceiptCreate(r, x, o, p, qty)
      PROVE  ReceiptCurrent(request[r])'
  BY <1>3, <1>b, <1>c DEF TermReceiptCreate, ReceiptCurrent, Fits, Idle, RequestState, TypeOK
<1>4. ASSUME NEW x \in Receipts, NEW p \in Places,
             NEW qty \in Quantities, UpdateReceiptRead(r, x, p, qty)
      PROVE  ReceiptCurrent(request[r])'
  BY <1>4, <1>b, <1>c DEF UpdateReceiptRead, ReceiptCurrent, Fits, Idle, RequestState, TypeOK
<1>5. ASSUME UpdateReceiptWrite(r)
      PROVE  ReceiptCurrent(request[r])'
  BY <1>5, <1>b, <1>c DEF UpdateReceiptWrite, ReceiptCurrent, Fits, Idle, RequestState, TypeOK
<1>6. ASSUME NEW x \in Receipts, ConfirmReceiptRead(r, x)
      PROVE  ReceiptCurrent(request[r])'
  BY <1>6, <1>b, <1>c
  DEF ConfirmReceiptRead, ReceiptRead, ReceiptCurrent, Fits, Idle, RequestState, TypeOK
<1>7. ASSUME ConfirmReceiptReadOrder(r)
      PROVE  ReceiptCurrent(request[r])'
  BY <1>7, <1>b, <1>c DEF ConfirmReceiptReadOrder, ReceiptCurrent, Fits, Idle, RequestState, TypeOK
<1>8. ASSUME ConfirmReceiptCommit(r)
      PROVE  ReceiptCurrent(request[r])'
  BY <1>8, <1>b, <1>c
  DEF ConfirmReceiptCommit, Receive, ReceiptCurrent, Fits, Idle, RequestState, TypeOK
<1>9. ASSUME NEW x \in Receipts, VoidReceiptRead(r, x)
      PROVE  ReceiptCurrent(request[r])'
  BY <1>9, <1>b, <1>c
  DEF VoidReceiptRead, ReceiptRead, ReceiptCurrent, Fits, Idle, RequestState, TypeOK
<1>10. ASSUME VoidReceiptReadBalance(r)
      PROVE  ReceiptCurrent(request[r])'
  BY <1>10, <1>b, <1>c DEF VoidReceiptReadBalance, ReceiptCurrent, Fits, Idle, RequestState, TypeOK
<1>11. ASSUME VoidReceiptCommit(r)
      PROVE  ReceiptCurrent(request[r])'
  BY <1>11, <1>b, <1>c DEF VoidReceiptCommit, ReceiptCurrent, Fits, Idle, RequestState, TypeOK
<1>12. ASSUME NEW i \in Invoices, NEW o \in Orders \cup {None},
             NEW items \in [Places -> 0 .. MaxQty], InvoiceCheck(r, i, o, items)
      PROVE  ReceiptCurrent(request[r])'
  BY <1>12, <1>b, <1>c DEF InvoiceCheck, ReceiptCurrent, Fits, Idle, RequestState, TypeOK
<1>13. ASSUME NEW i \in Invoices, VoidInvoiceCheck(r, i)
      PROVE  ReceiptCurrent(request[r])'
  BY <1>13, <1>b, <1>c DEF VoidInvoiceCheck, ReceiptCurrent, Fits, Idle, RequestState, TypeOK
<1>14. ASSUME VoidInvoiceMark(r)
      PROVE  ReceiptCurrent(request[r])'
  BY <1>14, <1>b, <1>c DEF VoidInvoiceMark, ReceiptCurrent, Fits, Idle, RequestState, TypeOK
<1>15. ASSUME NEW p \in Places, LineRead(r, p)
      PROVE  ReceiptCurrent(request[r])'
  BY <1>15, <1>b, <1>c DEF LineRead, ReceiptCurrent, Fits, Idle, RequestState, TypeOK
<1>16. ASSUME LineWrite(r)
      PROVE  ReceiptCurrent(request[r])'
  BY <1>16, <1>b, <1>c DEF LineWrite, ReceiptCurrent, Fits, Idle, RequestState, TypeOK
<1>17. ASSUME InvoiceCommit(r)
      PROVE  ReceiptCurrent(request[r])'
  BY <1>17, <1>b, <1>c DEF InvoiceCommit, ReceiptCurrent, Fits, Idle, RequestState, TypeOK
<1>18. ASSUME NEW i \in Invoices, PayInvoice(r, i)
      PROVE  ReceiptCurrent(request[r])'
  BY <1>18, <1>b, <1>c DEF PayInvoice, ReceiptCurrent, Fits, Idle, RequestState, TypeOK
<1>19. ASSUME NEW o \in Orders, ApproveRead(r, o)
      PROVE  ReceiptCurrent(request[r])'
  BY <1>19, <1>b, <1>c DEF ApproveRead, ReceiptCurrent, Fits, Idle, RequestState, TypeOK
<1>20. ASSUME ApproveWrite(r)
      PROVE  ReceiptCurrent(request[r])'
  BY <1>20, <1>b, <1>c DEF ApproveWrite, ReceiptCurrent, Fits, Idle, RequestState, TypeOK
<1>21. ASSUME NEW o \in Orders, CancelRead(r, o)
      PROVE  ReceiptCurrent(request[r])'
  BY <1>21, <1>b, <1>c DEF CancelRead, ReceiptCurrent, Fits, Idle, RequestState, TypeOK
<1>22. ASSUME CancelWrite(r)
      PROVE  ReceiptCurrent(request[r])'
  BY <1>22, <1>b, <1>c DEF CancelWrite, ReceiptCurrent, Fits, Idle, RequestState, TypeOK
<1>23. ASSUME Abort(r)
      PROVE  ReceiptCurrent(request[r])'
  BY <1>23, <1>b, <1>c DEF Abort, ReceiptCurrent, Fits, Idle, RequestState, TypeOK
<1>24. CASE UNCHANGED vars
  BY <1>24, <1>b, <1>c DEF vars, ReceiptCurrent, Fits, Idle, RequestState, TypeOK
<1> QED
  BY <1>a, <1>1, <1>2, <1>3, <1>4, <1>5, <1>6, <1>7, <1>8, <1>9, <1>10, <1>11, <1>12,
     <1>13, <1>14, <1>15, <1>16, <1>17, <1>18, <1>19, <1>20, <1>21, <1>22, <1>23, <1>24
  DEF Next, AutoReceipt, TermReceipt, Invoice, Approve, Cancel

\* Of the invoice it creates or voids.
LEMMA InvoiceCurrentStep ==
  OneRequest /\ TypeOK /\ RequestOK /\ InvoicesCurrent /\ [Next]_vars => InvoicesCurrent'
<1> SUFFICES ASSUME OneRequest, TypeOK, RequestOK, InvoicesCurrent, [Next]_vars,
                    NEW r \in Requests
             PROVE  InvoiceCurrent(request[r])'
  BY DEF InvoicesCurrent
<1>a. \A q \in Requests : q = r
  BY DEF OneRequest
<1>b. InvoiceCurrent(request[r]) /\ request \in [Requests -> RequestState]
  BY DEF InvoicesCurrent, TypeOK
<1>c. (request[r].pc = "idle")' => InvoiceCurrent(request[r])'
  BY DEF InvoiceCurrent
<1>1. ASSUME NEW o \in Orders, NEW p \in Places, NEW qty \in Quantities,
             AutoReceiptRead(r, o, p, qty)
      PROVE  InvoiceCurrent(request[r])'
  BY <1>1, <1>b, <1>c
  DEF AutoReceiptRead, InvoiceCurrent, Unpaid, NoLiveInvoice, LiveInvoicesFor, Idle, RequestState, TypeOK
<1>2. ASSUME NEW x \in Receipts, AutoReceiptCommit(r, x)
      PROVE  InvoiceCurrent(request[r])'
  BY <1>2, <1>b, <1>c
  DEF AutoReceiptCommit, Receive, InvoiceCurrent, Unpaid, NoLiveInvoice, LiveInvoicesFor, Idle, RequestState, TypeOK
<1>3. ASSUME NEW x \in Receipts, NEW o \in Orders, NEW p \in Places,
             NEW qty \in Quantities, TermReceiptCreate(r, x, o, p, qty)
      PROVE  InvoiceCurrent(request[r])'
  BY <1>3, <1>b, <1>c
  DEF TermReceiptCreate, InvoiceCurrent, Unpaid, NoLiveInvoice, LiveInvoicesFor, Idle, RequestState, TypeOK
<1>4. ASSUME NEW x \in Receipts, NEW p \in Places,
             NEW qty \in Quantities, UpdateReceiptRead(r, x, p, qty)
      PROVE  InvoiceCurrent(request[r])'
  BY <1>4, <1>b, <1>c
  DEF UpdateReceiptRead, InvoiceCurrent, Unpaid, NoLiveInvoice, LiveInvoicesFor, Idle, RequestState, TypeOK
<1>5. ASSUME UpdateReceiptWrite(r)
      PROVE  InvoiceCurrent(request[r])'
  BY <1>5, <1>b, <1>c
  DEF UpdateReceiptWrite, InvoiceCurrent, Unpaid, NoLiveInvoice, LiveInvoicesFor, Idle, RequestState, TypeOK
<1>6. ASSUME NEW x \in Receipts, ConfirmReceiptRead(r, x)
      PROVE  InvoiceCurrent(request[r])'
  BY <1>6, <1>b, <1>c
  DEF ConfirmReceiptRead, ReceiptRead, InvoiceCurrent, Unpaid, NoLiveInvoice, LiveInvoicesFor, Idle, RequestState, TypeOK
<1>7. ASSUME ConfirmReceiptReadOrder(r)
      PROVE  InvoiceCurrent(request[r])'
  BY <1>7, <1>b, <1>c
  DEF ConfirmReceiptReadOrder, InvoiceCurrent, Unpaid, NoLiveInvoice, LiveInvoicesFor, Idle, RequestState, TypeOK
<1>8. ASSUME ConfirmReceiptCommit(r)
      PROVE  InvoiceCurrent(request[r])'
  BY <1>8, <1>b, <1>c
  DEF ConfirmReceiptCommit, Receive, InvoiceCurrent, Unpaid, NoLiveInvoice, LiveInvoicesFor, Idle, RequestState, TypeOK
<1>9. ASSUME NEW x \in Receipts, VoidReceiptRead(r, x)
      PROVE  InvoiceCurrent(request[r])'
  BY <1>9, <1>b, <1>c
  DEF VoidReceiptRead, ReceiptRead, InvoiceCurrent, Unpaid, NoLiveInvoice, LiveInvoicesFor, Idle, RequestState, TypeOK
<1>10. ASSUME VoidReceiptReadBalance(r)
      PROVE  InvoiceCurrent(request[r])'
  BY <1>10, <1>b, <1>c
  DEF VoidReceiptReadBalance, InvoiceCurrent, Unpaid, NoLiveInvoice, LiveInvoicesFor, Idle, RequestState, TypeOK
<1>11. ASSUME VoidReceiptCommit(r)
      PROVE  InvoiceCurrent(request[r])'
  BY <1>11, <1>b, <1>c
  DEF VoidReceiptCommit, InvoiceCurrent, Unpaid, NoLiveInvoice, LiveInvoicesFor, Idle, RequestState, TypeOK
<1>12. ASSUME NEW i \in Invoices, NEW o \in Orders \cup {None},
             NEW items \in [Places -> 0 .. MaxQty], InvoiceCheck(r, i, o, items)
      PROVE  InvoiceCurrent(request[r])'
  BY <1>12, <1>b, <1>c
  DEF InvoiceCheck, InvoiceCurrent, Unpaid, NoLiveInvoice, LiveInvoicesFor, Idle, RequestState, TypeOK
<1>13. ASSUME NEW i \in Invoices, VoidInvoiceCheck(r, i)
      PROVE  InvoiceCurrent(request[r])'
  BY <1>13, <1>b, <1>c
  DEF VoidInvoiceCheck, InvoiceCurrent, Unpaid, NoLiveInvoice, LiveInvoicesFor, Idle, RequestState, TypeOK
<1>14. ASSUME VoidInvoiceMark(r)
      PROVE  InvoiceCurrent(request[r])'
  BY <1>14, <1>b, <1>c
  DEF VoidInvoiceMark, InvoiceCurrent, Unpaid, NoLiveInvoice, LiveInvoicesFor, Idle, RequestState, TypeOK
<1>15. ASSUME NEW p \in Places, LineRead(r, p)
      PROVE  InvoiceCurrent(request[r])'
  BY <1>15, <1>b, <1>c
  DEF LineRead, InvoiceCurrent, Unpaid, NoLiveInvoice, LiveInvoicesFor, Idle, RequestState, TypeOK
<1>16. ASSUME LineWrite(r)
      PROVE  InvoiceCurrent(request[r])'
  BY <1>16, <1>b, <1>c
  DEF LineWrite, InvoiceCurrent, Unpaid, NoLiveInvoice, LiveInvoicesFor, Idle, RequestState, TypeOK
<1>17. ASSUME InvoiceCommit(r)
      PROVE  InvoiceCurrent(request[r])'
  BY <1>17, <1>b, <1>c
  DEF InvoiceCommit, InvoiceCurrent, Unpaid, NoLiveInvoice, LiveInvoicesFor, Idle, RequestState, TypeOK
<1>18. ASSUME NEW i \in Invoices, PayInvoice(r, i)
      PROVE  InvoiceCurrent(request[r])'
  BY <1>18, <1>c DEF PayInvoice, Begin
<1>19. ASSUME NEW o \in Orders, ApproveRead(r, o)
      PROVE  InvoiceCurrent(request[r])'
  BY <1>19, <1>b, <1>c
  DEF ApproveRead, InvoiceCurrent, Unpaid, NoLiveInvoice, LiveInvoicesFor, Idle, RequestState, TypeOK
<1>20. ASSUME ApproveWrite(r)
      PROVE  InvoiceCurrent(request[r])'
  BY <1>20, <1>b, <1>c
  DEF ApproveWrite, InvoiceCurrent, Unpaid, NoLiveInvoice, LiveInvoicesFor, Idle, RequestState, TypeOK
<1>21. ASSUME NEW o \in Orders, CancelRead(r, o)
      PROVE  InvoiceCurrent(request[r])'
  BY <1>21, <1>b, <1>c
  DEF CancelRead, InvoiceCurrent, Unpaid, NoLiveInvoice, LiveInvoicesFor, Idle, RequestState, TypeOK
<1>22. ASSUME CancelWrite(r)
      PROVE  InvoiceCurrent(request[r])'
  BY <1>22, <1>b, <1>c
  DEF CancelWrite, InvoiceCurrent, Unpaid, NoLiveInvoice, LiveInvoicesFor, Idle, RequestState, TypeOK
<1>23. ASSUME Abort(r)
      PROVE  InvoiceCurrent(request[r])'
  BY <1>23, <1>b, <1>c
  DEF Abort, InvoiceCurrent, Unpaid, NoLiveInvoice, LiveInvoicesFor, Idle, RequestState, TypeOK
<1>24. CASE UNCHANGED vars
  BY <1>24, <1>b, <1>c
  DEF vars, InvoiceCurrent, Unpaid, NoLiveInvoice, LiveInvoicesFor, Idle, RequestState, TypeOK
<1> QED
  BY <1>a, <1>1, <1>2, <1>3, <1>4, <1>5, <1>6, <1>7, <1>8, <1>9, <1>10, <1>11, <1>12,
     <1>13, <1>14, <1>15, <1>16, <1>17, <1>18, <1>19, <1>20, <1>21, <1>22, <1>23, <1>24
  DEF Next, AutoReceipt, TermReceipt, Invoice, Approve, Cancel

\* Of the order it receives for or cancels.
LEMMA OrderCurrentStep ==
  OneRequest /\ TypeOK /\ RequestOK /\ OrdersCurrent /\ [Next]_vars => OrdersCurrent'
<1> SUFFICES ASSUME OneRequest, TypeOK, RequestOK, OrdersCurrent, [Next]_vars,
                    NEW r \in Requests
             PROVE  OrderCurrent(request[r])'
  BY DEF OrdersCurrent
<1>a. \A q \in Requests : q = r
  BY DEF OneRequest
<1>b. OrderCurrent(request[r]) /\ request \in [Requests -> RequestState]
  BY DEF OrdersCurrent, TypeOK
<1>c. (request[r].pc = "idle")' => OrderCurrent(request[r])'
  BY DEF OrderCurrent
<1>1. ASSUME NEW o \in Orders, NEW p \in Places, NEW qty \in Quantities,
             AutoReceiptRead(r, o, p, qty)
      PROVE  OrderCurrent(request[r])'
  BY <1>1, <1>b, <1>c
  DEF AutoReceiptRead, OrderCurrent, Receivable, Cancellable, NothingConfirmed, ConfirmedFor, LiveInvoicesFor, Idle, RequestState, TypeOK
<1>2. ASSUME NEW x \in Receipts, AutoReceiptCommit(r, x)
      PROVE  OrderCurrent(request[r])'
  BY <1>2, <1>b, <1>c
  DEF AutoReceiptCommit, Receive, OrderCurrent, Receivable, Cancellable, NothingConfirmed, ConfirmedFor, LiveInvoicesFor, Idle, RequestState, TypeOK
<1>3. ASSUME NEW x \in Receipts, NEW o \in Orders, NEW p \in Places,
             NEW qty \in Quantities, TermReceiptCreate(r, x, o, p, qty)
      PROVE  OrderCurrent(request[r])'
  BY <1>3, <1>b, <1>c
  DEF TermReceiptCreate, OrderCurrent, Receivable, Cancellable, NothingConfirmed, ConfirmedFor, LiveInvoicesFor, Idle, RequestState, TypeOK
<1>4. ASSUME NEW x \in Receipts, NEW p \in Places,
             NEW qty \in Quantities, UpdateReceiptRead(r, x, p, qty)
      PROVE  OrderCurrent(request[r])'
  BY <1>4, <1>b, <1>c
  DEF UpdateReceiptRead, OrderCurrent, Receivable, Cancellable, NothingConfirmed, ConfirmedFor, LiveInvoicesFor, Idle, RequestState, TypeOK
<1>5. ASSUME UpdateReceiptWrite(r)
      PROVE  OrderCurrent(request[r])'
  BY <1>5, <1>b, <1>c
  DEF UpdateReceiptWrite, OrderCurrent, Receivable, Cancellable, NothingConfirmed, ConfirmedFor, LiveInvoicesFor, Idle, RequestState, TypeOK
<1>6. ASSUME NEW x \in Receipts, ConfirmReceiptRead(r, x)
      PROVE  OrderCurrent(request[r])'
  BY <1>6, <1>b, <1>c
  DEF ConfirmReceiptRead, ReceiptRead, OrderCurrent, Receivable, Cancellable, NothingConfirmed, ConfirmedFor, LiveInvoicesFor, Idle, RequestState, TypeOK
<1>7. ASSUME ConfirmReceiptReadOrder(r)
      PROVE  OrderCurrent(request[r])'
  BY <1>7, <1>b, <1>c
  DEF ConfirmReceiptReadOrder, OrderCurrent, Receivable, Cancellable, NothingConfirmed, ConfirmedFor, LiveInvoicesFor, Idle, RequestState, TypeOK
<1>8. ASSUME ConfirmReceiptCommit(r)
      PROVE  OrderCurrent(request[r])'
  BY <1>8, <1>b, <1>c
  DEF ConfirmReceiptCommit, Receive, OrderCurrent, Receivable, Cancellable, NothingConfirmed, ConfirmedFor, LiveInvoicesFor, Idle, RequestState, TypeOK
<1>9. ASSUME NEW x \in Receipts, VoidReceiptRead(r, x)
      PROVE  OrderCurrent(request[r])'
  BY <1>9, <1>b, <1>c
  DEF VoidReceiptRead, ReceiptRead, OrderCurrent, Receivable, Cancellable, NothingConfirmed, ConfirmedFor, LiveInvoicesFor, Idle, RequestState, TypeOK
<1>10. ASSUME VoidReceiptReadBalance(r)
      PROVE  OrderCurrent(request[r])'
  BY <1>10, <1>b, <1>c
  DEF VoidReceiptReadBalance, OrderCurrent, Receivable, Cancellable, NothingConfirmed, ConfirmedFor, LiveInvoicesFor, Idle, RequestState, TypeOK
<1>11. ASSUME VoidReceiptCommit(r)
      PROVE  OrderCurrent(request[r])'
  BY <1>11, <1>b, <1>c
  DEF VoidReceiptCommit, OrderCurrent, Receivable, Cancellable, NothingConfirmed, ConfirmedFor, LiveInvoicesFor, Idle, RequestState, TypeOK
<1>12. ASSUME NEW i \in Invoices, NEW o \in Orders \cup {None},
             NEW items \in [Places -> 0 .. MaxQty], InvoiceCheck(r, i, o, items)
      PROVE  OrderCurrent(request[r])'
  BY <1>12, <1>b, <1>c
  DEF InvoiceCheck, OrderCurrent, Receivable, Cancellable, NothingConfirmed, ConfirmedFor, LiveInvoicesFor, Idle, RequestState, TypeOK
<1>13. ASSUME NEW i \in Invoices, VoidInvoiceCheck(r, i)
      PROVE  OrderCurrent(request[r])'
  BY <1>13, <1>b, <1>c
  DEF VoidInvoiceCheck, OrderCurrent, Receivable, Cancellable, NothingConfirmed, ConfirmedFor, LiveInvoicesFor, Idle, RequestState, TypeOK
<1>14. ASSUME VoidInvoiceMark(r)
      PROVE  OrderCurrent(request[r])'
  BY <1>14, <1>b, <1>c
  DEF VoidInvoiceMark, OrderCurrent, Receivable, Cancellable, NothingConfirmed, ConfirmedFor, LiveInvoicesFor, Idle, RequestState, TypeOK
<1>15. ASSUME NEW p \in Places, LineRead(r, p)
      PROVE  OrderCurrent(request[r])'
  BY <1>15, <1>b, <1>c
  DEF LineRead, OrderCurrent, Receivable, Cancellable, NothingConfirmed, ConfirmedFor, LiveInvoicesFor, Idle, RequestState, TypeOK
<1>16. ASSUME LineWrite(r)
      PROVE  OrderCurrent(request[r])'
  BY <1>16, <1>b, <1>c
  DEF LineWrite, OrderCurrent, Receivable, Cancellable, NothingConfirmed, ConfirmedFor, LiveInvoicesFor, Idle, RequestState, TypeOK
<1>17. ASSUME InvoiceCommit(r)
      PROVE  OrderCurrent(request[r])'
  BY <1>17, <1>b, <1>c
  DEF InvoiceCommit, OrderCurrent, Receivable, Cancellable, NothingConfirmed, ConfirmedFor, LiveInvoicesFor, Idle, RequestState, TypeOK
<1>18. ASSUME NEW i \in Invoices, PayInvoice(r, i)
      PROVE  OrderCurrent(request[r])'
  BY <1>18, <1>c DEF PayInvoice, Begin
<1>19. ASSUME NEW o \in Orders, ApproveRead(r, o)
      PROVE  OrderCurrent(request[r])'
  BY <1>19, <1>b, <1>c
  DEF ApproveRead, OrderCurrent, Receivable, Cancellable, NothingConfirmed, ConfirmedFor, LiveInvoicesFor, Idle, RequestState, TypeOK
<1>20. ASSUME ApproveWrite(r)
      PROVE  OrderCurrent(request[r])'
  BY <1>20, <1>b, <1>c
  DEF ApproveWrite, OrderCurrent, Receivable, Cancellable, NothingConfirmed, ConfirmedFor, LiveInvoicesFor, Idle, RequestState, TypeOK
<1>21. ASSUME NEW o \in Orders, CancelRead(r, o)
      PROVE  OrderCurrent(request[r])'
  BY <1>21, <1>b, <1>c
  DEF CancelRead, OrderCurrent, Receivable, Cancellable, NothingConfirmed, ConfirmedFor, LiveInvoicesFor, Idle, RequestState, TypeOK
<1>22. ASSUME CancelWrite(r)
      PROVE  OrderCurrent(request[r])'
  BY <1>22, <1>b, <1>c
  DEF CancelWrite, OrderCurrent, Receivable, Cancellable, NothingConfirmed, ConfirmedFor, LiveInvoicesFor, Idle, RequestState, TypeOK
<1>23. ASSUME Abort(r)
      PROVE  OrderCurrent(request[r])'
  BY <1>23, <1>b, <1>c
  DEF Abort, OrderCurrent, Receivable, Cancellable, NothingConfirmed, ConfirmedFor, LiveInvoicesFor, Idle, RequestState, TypeOK
<1>24. CASE UNCHANGED vars
  BY <1>24, <1>b, <1>c
  DEF vars, OrderCurrent, Receivable, Cancellable, NothingConfirmed, ConfirmedFor, LiveInvoicesFor, Idle, RequestState, TypeOK
<1> QED
  BY <1>a, <1>1, <1>2, <1>3, <1>4, <1>5, <1>6, <1>7, <1>8, <1>9, <1>10, <1>11, <1>12,
     <1>13, <1>14, <1>15, <1>16, <1>17, <1>18, <1>19, <1>20, <1>21, <1>22, <1>23, <1>24
  DEF Next, AutoReceipt, TermReceipt, Invoice, Approve, Cancel


\* Served alone, a request works on balances and documents as it has read them.
LEMMA SerialStep ==
  OneRequest /\ IInv /\ ReadsCurrent /\ DocumentsCurrent /\ [Next]_vars
     => ReadsCurrent' /\ DocumentsCurrent'
BY CurrentStep, ReceiptCurrentStep, InvoiceCurrentStep, OrderCurrentStep
DEF IInv, DocumentsCurrent

LEMMA SerialInvariance == OneRequest /\ Spec => [](IInv /\ ReadsCurrent /\ DocumentsCurrent)
<1> SUFFICES ASSUME OneRequest PROVE Spec => [](IInv /\ ReadsCurrent /\ DocumentsCurrent)
  OBVIOUS
<1>1. Init => ReadsCurrent /\ DocumentsCurrent
  BY DEF Init, Idle, ReadsCurrent, DocumentsCurrent, ReceiptsCurrent, InvoicesCurrent,
     OrdersCurrent, ReceiptCurrent, InvoiceCurrent, OrderCurrent
<1>2. IInv /\ ReadsCurrent /\ DocumentsCurrent /\ [Next]_vars => ReadsCurrent' /\ DocumentsCurrent'
  BY SerialStep
<1> QED
  BY <1>1, <1>2, Invariance, PTL DEF Spec

-----------------------------------------------------------------------------
(* Stock is what the documents say.                                         *)

\* A step that touches the receipt x alone, by which the place p and the line of
\* the order o gain n.
Moves(x, p, o, n) ==
    /\ \A y \in Receipts \ {x} : receipt'[y] = receipt[y]
    /\ \A z \in Places :
           /\ balance'[z].physical = balance[z].physical + (IF z = p THEN n ELSE 0)
           /\ Brought(z)'[x] = Brought(z)[x] + (IF z = p THEN n ELSE 0)
    /\ \A z \in Orders :
           /\ order'[z].withdrawn = order[z].withdrawn + (IF z = o THEN n ELSE 0)
           /\ Drawn(z)'[x] = Drawn(z)[x] + (IF z = o THEN n ELSE 0)

\* The terms of the sums are numbers.
LEMMA TermTypes ==
  ASSUME TypeOK
  PROVE  /\ \A p \in Places, x \in Receipts : Brought(p)[x] \in Nat
         /\ \A o \in Orders, x \in Receipts : Drawn(o)[x] \in Nat
         /\ \A p \in Places, i \in Invoices : Billed(p)[i] \in Nat
  BY DEF TypeOK, ReceiptRow, InvoiceRow, Brought, Drawn, Billed

\* Such a step keeps the sums.
LEMMA MovesKeep ==
  ASSUME TypeOK, TypeOK', NEW x \in Receipts, NEW p, NEW o, NEW n \in Int, Moves(x, p, o, n),
         PhysicalIsReceived, WithdrawnIsReceived
  PROVE  PhysicalIsReceived' /\ WithdrawnIsReceived'
<1>1. ASSUME NEW z \in Places
      PROVE  balance'[z].physical = SumFunctionOnSet(Brought(z)', Receipts)
  <2>1. \A y \in Receipts \ {x} : Brought(z)'[y] = Brought(z)[y]
    BY DEF Moves, Brought
  <2>2. \A y \in Receipts : Brought(z)[y] \in Int /\ Brought(z)'[y] \in Int
    BY TermTypes DEF TypeOK, ReceiptRow, Brought
  <2>3. SumFunctionOnSet(Brought(z)', Receipts)
          = SumFunctionOnSet(Brought(z), Receipts) - Brought(z)[x] + Brought(z)'[x]
    <3>1. PICK f : f = Brought(z)
      OBVIOUS
    <3>2. PICK g : g = Brought(z)'
      OBVIOUS
    <3>3. /\ \A y \in Receipts : f[y] \in Int /\ g[y] \in Int
          /\ \A y \in Receipts \ {x} : g[y] = f[y]
      BY <2>1, <2>2, <3>1, <3>2
    <3>4. SumFunctionOnSet(g, Receipts) = SumFunctionOnSet(f, Receipts) - f[x] + g[x]
      BY <3>3, FiniteAssumption, SumUpdate
    <3> QED
      BY <3>1, <3>2, <3>4
  <2>4. SumFunctionOnSet(Brought(z), Receipts) = balance[z].physical /\ balance[z].physical \in Int
    BY DEF PhysicalIsReceived, TypeOK, QtyRow
  <2> QED
    BY <2>2, <2>3, <2>4 DEF Moves
<1>2. ASSUME NEW z \in Orders
      PROVE  order'[z].withdrawn = SumFunctionOnSet(Drawn(z)', Receipts)
  <2>1. \A y \in Receipts \ {x} : Drawn(z)'[y] = Drawn(z)[y]
    BY DEF Moves, Drawn, ConfirmedFor
  <2>2. \A y \in Receipts : Drawn(z)[y] \in Int /\ Drawn(z)'[y] \in Int
    BY TermTypes DEF TypeOK, ReceiptRow, Drawn, ConfirmedFor
  <2>3. SumFunctionOnSet(Drawn(z)', Receipts)
          = SumFunctionOnSet(Drawn(z), Receipts) - Drawn(z)[x] + Drawn(z)'[x]
    <3>1. PICK f : f = Drawn(z)
      OBVIOUS
    <3>2. PICK g : g = Drawn(z)'
      OBVIOUS
    <3>3. /\ \A y \in Receipts : f[y] \in Int /\ g[y] \in Int
          /\ \A y \in Receipts \ {x} : g[y] = f[y]
      BY <2>1, <2>2, <3>1, <3>2
    <3>4. SumFunctionOnSet(g, Receipts) = SumFunctionOnSet(f, Receipts) - f[x] + g[x]
      BY <3>3, FiniteAssumption, SumUpdate
    <3> QED
      BY <3>1, <3>2, <3>4
  <2>4. SumFunctionOnSet(Drawn(z), Receipts) = order[z].withdrawn /\ order[z].withdrawn \in Int
    BY DEF WithdrawnIsReceived, Received, TypeOK, OrderRow
  <2> QED
    BY <2>2, <2>3, <2>4 DEF Moves
<1> QED
  BY <1>1, <1>2 DEF PhysicalIsReceived, WithdrawnIsReceived, Received

\* A receipt that is confirmed brings its quantity.
LEMMA ReceiptMoves ==
  ASSUME TypeOK, RequestOK, ReceiptsCurrent, NEW r \in Requests, NEW x \in Receipts,
         AutoReceiptCommit(r, x) \/ (ConfirmReceiptCommit(r) /\ x = request[r].receipt)
  PROVE  Moves(x, request[r].place, request[r].order, request[r].qty)
<1> DEFINE q == request[r]
<1>1. /\ q.place \in Places /\ q.order \in Orders /\ q.qty \in 0 .. MaxQty
      /\ balance' = [balance EXCEPT ![q.place] = Plus(balance[q.place], ReceivedDelta(q.qty))]
  BY ReceiptCommits DEF AutoReceiptCommit, ConfirmReceiptCommit, RequestOK
<1>2. /\ receipt[x].status # "CONFIRMED"
      /\ receipt'[x].status = "CONFIRMED" /\ receipt'[x].place = q.place
      /\ receipt'[x].order = q.order /\ receipt'[x].qty = q.qty
      /\ \A y \in Receipts \ {x} : receipt'[y] = receipt[y]
  BY DEF AutoReceiptCommit, ConfirmReceiptCommit, ReceiptsCurrent, ReceiptCurrent, Fits, TypeOK,
     ReceiptRow
<1>3. \A z \in Orders : order'[z].withdrawn = order[z].withdrawn + (IF z = q.order THEN q.qty ELSE 0)
  BY <1>1 DEF AutoReceiptCommit, ConfirmReceiptCommit, Receive, TypeOK, OrderRow
<1> HIDE DEF q
<1>4. \A z \in Places :
         balance'[z].physical = balance[z].physical + (IF z = q.place THEN q.qty ELSE 0)
  BY <1>1, PlusType, ReceivedType DEF TypeOK, QtyRow
<1>5. \A z \in Places : Brought(z)[x] = 0 /\ Brought(z)'[x] = IF z = q.place THEN q.qty ELSE 0
  BY <1>2 DEF Brought
<1>6. \A z \in Orders : Drawn(z)[x] = 0 /\ Drawn(z)'[x] = IF z = q.order THEN q.qty ELSE 0
  BY <1>2 DEF Drawn, ConfirmedFor
<1>7. Moves(x, q.place, q.order, q.qty)
  BY <1>1, <1>2, <1>3, <1>4, <1>5, <1>6 DEF Moves
<1> QED
  BY <1>7 DEF q

\* One that is voided takes it back, if it was confirmed.
LEMMA VoidMoves ==
  ASSUME TypeOK, RequestOK, ReadsCurrent, ReceiptsCurrent, NEW r \in Requests,
         VoidReceiptCommit(r)
  PROVE  /\ request[r].receipt \in Receipts /\ UndoneQty(request[r].seen, request[r].qty) \in Nat
         /\ Moves(request[r].receipt, request[r].place, request[r].order,
                  -UndoneQty(request[r].seen, request[r].qty))
<1> DEFINE q == request[r]
           undone == UndoneQty(q.seen, q.qty)
           next == VoidedBalance(q.read, undone)
<1>1. /\ q.pc = "voidReceiptWrite" /\ q.receipt \in Receipts /\ q.place \in Places
      /\ q.order \in Orders /\ q.qty \in 0 .. MaxQty /\ undone \in 0 .. MaxQty
      /\ q.read = balance[q.place] /\ balance[q.place] \in QtyRow
  BY VoidCommits DEF VoidReceiptCommit, RequestOK, TypeOK, RequestState, ReadsCurrent
<1>2. /\ q.seen \in {"DRAFT", "CONFIRMED"} /\ receipt[q.receipt].status = q.seen
      /\ Fits(q.receipt, q)
  BY <1>1 DEF ReceiptsCurrent, ReceiptCurrent
<1>3. /\ receipt'[q.receipt].status = "VOID"
      /\ \A y \in Receipts \ {q.receipt} : receipt'[y] = receipt[y]
  BY <1>1 DEF VoidReceiptCommit, TypeOK, ReceiptRow
<1>4. \A z \in Places : /\ Brought(z)[q.receipt] = IF z = q.place THEN undone ELSE 0
                        /\ Brought(z)'[q.receipt] = 0
  BY <1>1, <1>2, <1>3 DEF Brought, Fits, UndoneQty
<1>5. \A z \in Orders : /\ Drawn(z)[q.receipt] = IF z = q.order THEN undone ELSE 0
                        /\ Drawn(z)'[q.receipt] = 0
  BY <1>1, <1>2, <1>3 DEF Drawn, ConfirmedFor, Fits, UndoneQty
<1>6. \A z \in Orders :
         order'[z].withdrawn = order[z].withdrawn + (IF z = q.order THEN -undone ELSE 0)
  BY <1>1 DEF VoidReceiptCommit, TypeOK, OrderRow
<1>7. \A z \in Places :
         balance'[z].physical = balance[z].physical + (IF z = q.place THEN -undone ELSE 0)
  <2>1. next.physical = balance[q.place].physical - undone
    BY <1>1, VoidedType
  <2>2. \/ balance' = balance /\ undone = 0
        \/ balance' = [balance EXCEPT ![q.place] =
                          Qtys(next.physical, next.pending, balance[q.place].posted)]
    BY <1>1 DEF VoidReceiptCommit, TypeOK
  <2> HIDE DEF q, undone, next
  <2> QED
    BY <1>1, <2>1, <2>2 DEF Qtys, TypeOK, QtyRow
<1> HIDE DEF q, undone
<1>8. Moves(q.receipt, q.place, q.order, -undone)
  BY <1>1, <1>3, <1>4, <1>5, <1>6, <1>7 DEF Moves
<1> QED
  BY <1>1, <1>8 DEF q, undone

ReceiptStep(r) ==
    \/ \E x \in Receipts, o \in Orders, p \in Places, qty \in Quantities :
           TermReceiptCreate(r, x, o, p, qty)
    \/ UpdateReceiptWrite(r)
    \/ \E x \in Receipts : AutoReceiptCommit(r, x)
    \/ ConfirmReceiptCommit(r)
    \/ VoidReceiptCommit(r)

\* Any other step leaves the receipts and what orders have drawn alone.
LEMMA ReceiptSteps ==
  ASSUME TypeOK, [Next]_vars
  PROVE  \/ /\ receipt' = receipt
            /\ \A o \in Orders : order'[o].withdrawn = order[o].withdrawn
         \/ \E r \in Requests : ReceiptStep(r)
<1> DEFINE Same == /\ receipt' = receipt
                   /\ \A o \in Orders : order'[o].withdrawn = order[o].withdrawn
<1>1. ASSUME NEW r \in Requests, AutoReceipt(r) \/ Abort(r)
      PROVE  Same \/ ReceiptStep(r)
  BY <1>1 DEF AutoReceipt, AutoReceiptRead, Abort, ReceiptStep
<1>2. ASSUME NEW r \in Requests, Approve(r) \/ Cancel(r)
      PROVE  Same
  <2>1. order \in [Orders -> OrderRow]
    BY DEF TypeOK
  <2>2. ASSUME NEW status, order' = [order EXCEPT ![request[r].order].status = status]
        PROVE  \A o \in Orders : order'[o].withdrawn = order[o].withdrawn
    BY <2>1, <2>2 DEF OrderRow
  <2> QED
    BY <1>2, <2>2 DEF Approve, ApproveRead, ApproveWrite, Cancel, CancelRead, CancelWrite
<1>3. ASSUME NEW r \in Requests, TermReceipt(r)
      PROVE  Same \/ ReceiptStep(r)
  BY <1>3 DEF TermReceipt, UpdateReceiptRead, ConfirmReceiptRead, VoidReceiptRead, ReceiptRead,
     ConfirmReceiptReadOrder, VoidReceiptReadBalance, ReceiptStep
<1>4. ASSUME NEW r \in Requests, Invoice(r)
      PROVE  Same
  BY <1>4 DEF Invoice, InvoiceCheck, VoidInvoiceCheck, VoidInvoiceMark, LineRead, LineWrite,
     InvoiceCommit, PayInvoice
<1>5. ASSUME UNCHANGED vars
      PROVE  Same
  BY <1>5 DEF vars
<1> HIDE DEF Same
<1>6. Same \/ \E r \in Requests : ReceiptStep(r)
  BY <1>1, <1>2, <1>3, <1>4, <1>5 DEF Next
<1> QED
  BY <1>6 DEF Same

\* Any other step leaves the invoices alone.
LEMMA InvoiceSteps ==
  ASSUME [Next]_vars
  PROVE  \/ invoice' = invoice
         \/ \E r \in Requests : InvoiceCommit(r) \/ \E i \in Invoices : PayInvoice(r, i)
<1>1. ASSUME NEW r \in Requests, AutoReceipt(r) \/ Approve(r) \/ Cancel(r) \/ Abort(r)
      PROVE  invoice' = invoice
  BY <1>1 DEF AutoReceipt, AutoReceiptRead, AutoReceiptCommit, Approve, ApproveRead, ApproveWrite,
     Cancel, CancelRead, CancelWrite, Abort
<1>2. ASSUME NEW r \in Requests, TermReceipt(r)
      PROVE  invoice' = invoice
  BY <1>2 DEF TermReceipt, TermReceiptCreate, UpdateReceiptRead, UpdateReceiptWrite,
     ConfirmReceiptRead, VoidReceiptRead, ReceiptRead, ConfirmReceiptReadOrder,
     ConfirmReceiptCommit, VoidReceiptReadBalance, VoidReceiptCommit
<1>3. ASSUME NEW r \in Requests, Invoice(r)
      PROVE  \/ invoice' = invoice
             \/ InvoiceCommit(r) \/ \E i \in Invoices : PayInvoice(r, i)
  BY <1>3 DEF Invoice, InvoiceCheck, VoidInvoiceCheck, VoidInvoiceMark, LineRead, LineWrite
<1> QED
  BY <1>1, <1>2, <1>3 DEF Next, vars

\* Invoices move stock between pending and posted: what is there stays.
LEMMA PhysicalSteps ==
  ASSUME TypeOK, ReadsCurrent, [Next]_vars
  PROVE  \/ \A p \in Places : balance'[p].physical = balance[p].physical
         \/ \E r \in Requests : ReceiptStep(r)
<1>1. ASSUME NEW r \in Requests, InvoiceCommit(r), NEW p \in Places
      PROVE  balance'[p].physical = balance[p].physical
  <2>1. CASE p \in request[r].written
    <3>1. /\ request[r].sign \in {1, -1} /\ request[r].items[p] \in 0 .. MaxQty
          /\ balance[p] \in QtyRow
      BY DEF TypeOK, RequestState
    <3>2. balance'[p] = Plus(balance[p], LineDelta(request[r].sign, request[r].items[p]))
      BY <1>1, <2>1 DEF InvoiceCommit, ReadsCurrent
    <3>3. LineDelta(request[r].sign, request[r].items[p]) \in QtyRow
          /\ LineDelta(request[r].sign, request[r].items[p]).physical = 0
      BY <3>1, LineType
    <3> QED
      BY <3>1, <3>2, <3>3, PlusType DEF QtyRow
  <2>2. CASE p \notin request[r].written
    BY <1>1, <2>2 DEF InvoiceCommit
  <2> QED
    BY <2>1, <2>2
<1> QED
  BY <1>1, BalanceSteps DEF BalanceStep, ReceiptStep

\* Each step keeps what is physically there, and what orders have drawn, the
\* sum of what confirmed receipts brought.
LEMMA ReceivedStep ==
  OneRequest /\ IInv /\ ReadsCurrent /\ DocumentsCurrent /\ PhysicalIsReceived
  /\ WithdrawnIsReceived /\ [Next]_vars
     => PhysicalIsReceived' /\ WithdrawnIsReceived'
<1> SUFFICES ASSUME OneRequest, IInv, ReadsCurrent, DocumentsCurrent, [Next]_vars,
                    PhysicalIsReceived, WithdrawnIsReceived
             PROVE  PhysicalIsReceived' /\ WithdrawnIsReceived'
  OBVIOUS
<1> USE DEF IInv, DocumentsCurrent
<1>a. TypeOK'
  BY TypeStep
<1>1. ASSUME receipt' = receipt,
             \A p \in Places : balance'[p].physical = balance[p].physical,
             \A o \in Orders : order'[o].withdrawn = order[o].withdrawn
      PROVE  PhysicalIsReceived' /\ WithdrawnIsReceived'
  BY <1>1 DEF PhysicalIsReceived, WithdrawnIsReceived, Brought, Drawn, Received, ConfirmedFor
<1>2. ASSUME NEW r \in Requests, NEW x \in Receipts, NEW o \in Orders, NEW p \in Places,
             NEW qty \in Quantities, TermReceiptCreate(r, x, o, p, qty)
      PROVE  PhysicalIsReceived' /\ WithdrawnIsReceived'
  <2>1. Moves(x, p, o, 0)
    BY <1>2 DEF TermReceiptCreate, Moves, Brought, Drawn, ConfirmedFor, TypeOK, QtyRow, OrderRow
  <2> QED
    BY <1>a, <2>1, MovesKeep
<1>3. ASSUME NEW r \in Requests, UpdateReceiptWrite(r)
      PROVE  PhysicalIsReceived' /\ WithdrawnIsReceived'
  <2>1. request[r].receipt \in Receipts /\ receipt[request[r].receipt].status = "DRAFT"
    BY <1>3 DEF UpdateReceiptWrite, RequestOK, ReceiptsCurrent, ReceiptCurrent
  <2>2. Moves(request[r].receipt, None, None, 0)
    BY <1>3, <2>1 DEF UpdateReceiptWrite, Moves, Brought, Drawn, ConfirmedFor, TypeOK, ReceiptRow,
       QtyRow, OrderRow
  <2> QED
    BY <1>a, <2>1, <2>2, MovesKeep
<1>4. ASSUME NEW r \in Requests, NEW x \in Receipts,
             AutoReceiptCommit(r, x) \/ (ConfirmReceiptCommit(r) /\ x = request[r].receipt)
      PROVE  PhysicalIsReceived' /\ WithdrawnIsReceived'
  <2>1. Moves(x, request[r].place, request[r].order, request[r].qty) /\ request[r].qty \in Int
    BY <1>4, ReceiptMoves DEF TypeOK, RequestState
  <2> QED
    BY <1>a, <2>1, MovesKeep
<1>5. ASSUME NEW r \in Requests, ConfirmReceiptCommit(r)
      PROVE  PhysicalIsReceived' /\ WithdrawnIsReceived'
  <2>1. request[r].receipt \in Receipts
    BY <1>5 DEF ConfirmReceiptCommit, RequestOK
  <2> QED
    BY <1>4, <1>5, <2>1
<1>6. ASSUME NEW r \in Requests, VoidReceiptCommit(r)
      PROVE  PhysicalIsReceived' /\ WithdrawnIsReceived'
  <2>1. /\ request[r].receipt \in Receipts /\ UndoneQty(request[r].seen, request[r].qty) \in Nat
        /\ Moves(request[r].receipt, request[r].place, request[r].order,
                 -UndoneQty(request[r].seen, request[r].qty))
    BY <1>6, VoidMoves
  <2>2. -UndoneQty(request[r].seen, request[r].qty) \in Int
    BY <2>1
  <2> QED
    BY <1>a, <2>1, <2>2, MovesKeep
<1> QED
  BY <1>1, <1>2, <1>3, <1>4, <1>5, <1>6, ReceiptSteps, PhysicalSteps DEF ReceiptStep

\* Each step keeps what is posted the sum of what the invoices in force cover.
LEMMA BilledStep ==
  OneRequest /\ IInv /\ ReadsCurrent /\ DocumentsCurrent /\ PostedIsBilled /\ [Next]_vars
     => PostedIsBilled'
<1> SUFFICES ASSUME OneRequest, IInv, ReadsCurrent, DocumentsCurrent, PostedIsBilled,
                    [Next]_vars
             PROVE  PostedIsBilled'
  OBVIOUS
<1> USE DEF IInv, DocumentsCurrent
<1>a. /\ TypeOK' /\ balance \in [Places -> QtyRow]
      /\ \A p \in Places : balance[p].posted \in Int
  BY TypeStep DEF TypeOK, QtyRow
<1>1. ASSUME NEW r \in Requests, InvoiceCommit(r), NEW p \in Places
      PROVE  balance'[p].posted = SumFunctionOnSet(Billed(p)', Invoices)
  <2> DEFINE q == request[r]
             n == IF q.sign = 1 THEN q.items[p] ELSE -q.items[p]
  <2>1. /\ q.invoice \in Invoices /\ q.items[p] \in 0 .. MaxQty /\ q.sign \in {1, -1}
        /\ q.pc = "invoice" /\ InvoiceCurrent(q) /\ invoice[q.invoice] \in InvoiceRow
    BY <1>1 DEF InvoiceCommit, RequestOK, TypeOK, RequestState, InvoicesCurrent
  <2>2. /\ n \in Int
        /\ LineDelta(q.sign, q.items[p]) \in QtyRow /\ LineDelta(q.sign, q.items[p]).posted = n
    BY <2>1, LineType
  <2>3. balance'[p].posted = balance[p].posted + n
    <3>1. CASE p \in q.written
      <4>1. balance'[p] = Plus(balance[p], LineDelta(q.sign, q.items[p]))
        BY <1>1, <3>1 DEF InvoiceCommit, ReadsCurrent
      <4> QED
        BY <1>a, <2>2, <4>1, PlusType
    <3>2. CASE p \notin q.written
      <4>1. balance'[p] = balance[p]
        BY <1>1, <3>2 DEF InvoiceCommit
      <4>2. q.items[p] = 0
        BY <1>1, <2>1, <3>2 DEF InvoiceCommit, LinesLeft
      <4> QED
        BY <1>a, <4>1, <4>2
    <3> QED
      BY <3>1, <3>2
  <2>4. \A i \in Invoices \ {q.invoice} : Billed(p)'[i] = Billed(p)[i]
    BY <1>1 DEF InvoiceCommit, Billed, TypeOK
  <2>5. Billed(p)'[q.invoice] = Billed(p)[q.invoice] + n
    <3>1. /\ invoice'[q.invoice].status = IF q.sign = 1 THEN "POSTED" ELSE "VOID"
          /\ invoice'[q.invoice].items = q.items
      BY <1>1, <2>1 DEF InvoiceCommit, TypeOK, InvoiceRow
    <3>2. CASE q.sign = 1
      BY <2>1, <3>1, <3>2 DEF InvoiceCurrent, Billed
    <3>3. CASE q.sign = -1
      BY <2>1, <3>1, <3>3 DEF InvoiceCurrent, Billed
    <3> QED
      BY <2>1, <3>2, <3>3
  <2>6. \A i \in Invoices : Billed(p)[i] \in Int /\ Billed(p)'[i] \in Int
    BY <1>a, TermTypes DEF TypeOK, InvoiceRow, Billed
  <2>7. SumFunctionOnSet(Billed(p)', Invoices)
          = SumFunctionOnSet(Billed(p), Invoices) - Billed(p)[q.invoice] + Billed(p)'[q.invoice]
    <3>1. PICK f : f = Billed(p)
      OBVIOUS
    <3>2. PICK g : g = Billed(p)'
      OBVIOUS
    <3>3. PICK x \in Invoices : x = q.invoice
      BY <2>1
    <3>4. /\ \A i \in Invoices : f[i] \in Int /\ g[i] \in Int
          /\ \A i \in Invoices \ {x} : g[i] = f[i]
      BY <2>4, <2>6, <3>1, <3>2, <3>3
    <3>5. SumFunctionOnSet(g, Invoices) = SumFunctionOnSet(f, Invoices) - f[x] + g[x]
      BY <3>4, FiniteAssumption, SumUpdate
    <3> QED
      BY <3>1, <3>2, <3>3, <3>5
  <2>8. SumFunctionOnSet(Billed(p), Invoices) = balance[p].posted
    BY DEF PostedIsBilled
  <2> HIDE DEF q, n
  <2> QED
    BY <1>a, <2>1, <2>2, <2>3, <2>5, <2>6, <2>7, <2>8
<1>2. ASSUME \A p \in Places : balance'[p].posted = balance[p].posted,
             \A i \in Invoices : /\ invoice'[i].status = invoice[i].status
                                 /\ invoice'[i].items = invoice[i].items
      PROVE  PostedIsBilled'
  BY <1>2 DEF PostedIsBilled, Billed
<1>3. ASSUME NEW r \in Requests, NEW i \in Invoices, PayInvoice(r, i)
      PROVE  PostedIsBilled'
  <2>1. \A x \in Invoices : /\ invoice'[x].status = invoice[x].status
                            /\ invoice'[x].items = invoice[x].items
    BY <1>3 DEF PayInvoice, TypeOK, InvoiceRow
  <2> QED
    BY <1>2, <1>3, <2>1 DEF PayInvoice
<1>4. ASSUME NEW r \in Requests,
             (\E x \in Receipts : AutoReceiptCommit(r, x)) \/ ConfirmReceiptCommit(r)
      PROVE  PostedIsBilled'
  <2>1. PICK p \in Places, n \in 0 .. MaxQty :
             balance' = [balance EXCEPT ![p] = Plus(balance[p], ReceivedDelta(n))]
    BY <1>4, ReceiptCommits
  <2>2. Plus(balance[p], ReceivedDelta(n)).posted = balance[p].posted
    BY <1>a, <2>1, PlusType, ReceivedType
  <2>3. \A z \in Places : balance'[z].posted = balance[z].posted
    BY <1>a, <2>1, <2>2
  <2>4. invoice' = invoice
    BY <1>4 DEF AutoReceiptCommit, ConfirmReceiptCommit
  <2> QED
    BY <1>2, <2>3, <2>4
<1>5. ASSUME NEW r \in Requests, VoidReceiptCommit(r)
      PROVE  PostedIsBilled'
  <2>1. \A z \in Places : balance'[z].posted = balance[z].posted
    <3>1. \/ balance' = balance
          \/ \E p \in Places : \E physical, pending :
                balance' = [balance EXCEPT ![p] = Qtys(physical, pending, balance[p].posted)]
      BY <1>5, VoidCommits
    <3> QED
      BY <1>a, <3>1 DEF Qtys
  <2>2. invoice' = invoice
    BY <1>5 DEF VoidReceiptCommit
  <2> QED
    BY <1>2, <2>1, <2>2
<1>6. CASE balance' = balance /\ invoice' = invoice
  BY <1>2, <1>6
<1>7. \A r \in Requests : InvoiceCommit(r) => PostedIsBilled'
  BY <1>1 DEF PostedIsBilled
<1>8. \A r \in Requests : \A i \in Invoices : PayInvoice(r, i) => balance' = balance
  BY DEF PayInvoice
<1> QED
  BY <1>3, <1>4, <1>5, <1>6, <1>7, InvoiceSteps, BalanceSteps DEF BalanceStep

\* Served one at a time, requests keep the stock what the documents say, whatever
\* receipts are edited, confirmed and voided and whatever invoices are posted
\* and voided.
THEOREM SerialStockIsDocuments == OneRequest /\ Spec => []StockIsDocuments
<1> SUFFICES ASSUME OneRequest PROVE Spec => []StockIsDocuments
  OBVIOUS
<1>1. Init => StockIsDocuments
  <2> SUFFICES ASSUME Init PROVE StockIsDocuments
    OBVIOUS
  <2>1. /\ \A p \in Places : \A x \in Receipts : Brought(p)[x] = 0
        /\ \A o \in Orders : \A x \in Receipts : Drawn(o)[x] = 0
        /\ \A p \in Places : \A i \in Invoices : Billed(p)[i] = 0
    BY DEF Init, Brought, Drawn, Billed, ConfirmedFor
  <2>2. /\ \A p \in Places : SumFunctionOnSet(Brought(p), Receipts) = 0
        /\ \A o \in Orders : SumFunctionOnSet(Drawn(o), Receipts) = 0
        /\ \A p \in Places : SumFunctionOnSet(Billed(p), Invoices) = 0
    BY <2>1, SumZero, FiniteAssumption
  <2> QED
    BY <2>2 DEF Init, NoQtys, Qtys, NewOrder, StockIsDocuments, PhysicalIsReceived,
       PostedIsBilled, WithdrawnIsReceived, Received
<1>2. OneRequest /\ (IInv /\ ReadsCurrent /\ DocumentsCurrent) /\ StockIsDocuments /\ [Next]_vars
         => StockIsDocuments'
  BY ReceivedStep, BilledStep DEF StockIsDocuments
<1> QED
  BY <1>1, <1>2, SerialInvariance, PTL DEF Spec

-----------------------------------------------------------------------------
(* Invoices in force and cancelled orders.                                  *)

\* A finite set of at most one member has at most one member.
LEMMA AtMostOne ==
  ASSUME NEW S, IsFiniteSet(S)
  PROVE  Cardinality(S) <= 1 <=> \A i, j \in S : i = j
<1>1. CASE S = {}
  BY <1>1, FS_EmptySet
<1>2. CASE S # {}
  <2>1. PICK i \in S : TRUE
    BY <1>2
  <2>2. IsFiniteSet(S \ {i}) /\ Cardinality(S \ {i}) = Cardinality(S) - 1 /\ Cardinality(S) \in Nat
    BY <2>1, FS_RemoveElement, FS_CardinalityType
  <2>3. Cardinality(S \ {i}) \in Nat /\ (Cardinality(S \ {i}) = 0 <=> S \ {i} = {})
    BY <2>2, FS_EmptySet, FS_CardinalityType
  <2>4. Cardinality(S) <= 1 <=> S \ {i} = {}
    BY <2>2, <2>3
  <2> QED
    BY <2>1, <2>4
<1> QED
  BY <1>1, <1>2

\* The invoices in force for one order, one at most.
OneInvoice == \A o \in Orders : \A i, j \in LiveInvoicesFor(o) : i = j

LEMMA OneInvoiceCount == OneInvoice <=> \A o \in Orders : Cardinality(LiveInvoicesFor(o)) <= 1
<1>1. \A o \in Orders : IsFiniteSet(LiveInvoicesFor(o))
  BY FiniteAssumption, FS_Subset DEF LiveInvoicesFor
<1> QED
  BY <1>1, AtMostOne DEF OneInvoice

\* Each step keeps the invoices in force in order.
LEMMA InForceStep ==
  OneRequest /\ IInv /\ DocumentsCurrent /\ InvoicesInForce /\ [Next]_vars => InvoicesInForce'
<1> SUFFICES ASSUME OneRequest, IInv, DocumentsCurrent, InvoicesInForce, [Next]_vars
             PROVE  InvoicesInForce'
  OBVIOUS
<1> USE DEF IInv, DocumentsCurrent
<1> DEFINE VoidUnpaid == \A i \in Invoices : invoice[i].status = "VOID" => ~invoice[i].paid
<1>a. OneInvoice /\ VoidUnpaid
  BY OneInvoiceCount DEF InvoicesInForce
<1>b. (OneInvoice /\ VoidUnpaid)' => InvoicesInForce'
  <2>1. OneInvoice' => (\A o \in Orders : Cardinality(LiveInvoicesFor(o)) <= 1)'
    BY OneInvoiceCount, PTL
  <2> QED
    BY <2>1 DEF InvoicesInForce
<1>1. CASE invoice' = invoice
  BY <1>1, <1>a, <1>b DEF OneInvoice, LiveInvoicesFor
<1>2. ASSUME NEW r \in Requests, NEW i \in Invoices, PayInvoice(r, i)
      PROVE  InvoicesInForce'
  BY <1>2, <1>a, <1>b DEF PayInvoice, OneInvoice, LiveInvoicesFor, TypeOK, InvoiceRow
<1>3. ASSUME NEW r \in Requests, InvoiceCommit(r)
      PROVE  InvoicesInForce'
  <2> DEFINE q == request[r]
  <2>1. /\ q.invoice \in Invoices /\ q.sign \in {1, -1} /\ InvoiceCurrent(q) /\ q.pc = "invoice"
        /\ q.order \in Orders \cup {None}
    BY <1>3 DEF InvoiceCommit, RequestOK, TypeOK, RequestState, InvoicesCurrent
  <2>2. /\ invoice'[q.invoice].status = IF q.sign = 1 THEN "POSTED" ELSE "VOID"
        /\ invoice'[q.invoice].order = q.order
        /\ invoice'[q.invoice].paid = invoice[q.invoice].paid
        /\ \A i \in Invoices \ {q.invoice} : invoice'[i] = invoice[i]
    BY <1>3, <2>1 DEF InvoiceCommit, TypeOK, InvoiceRow
  <2> HIDE DEF q
  <2>3. CASE q.sign = 1
    <3>1. VoidUnpaid'
      BY <1>a, <2>1, <2>2, <2>3
    <3>2. \A o \in Orders : q.order = o => LiveInvoicesFor(o) = {}
      BY <2>1, <2>3 DEF InvoiceCurrent, NoLiveInvoice
    <3>3. OneInvoice'
      BY <1>a, <2>1, <2>2, <2>3, <3>2 DEF OneInvoice, LiveInvoicesFor
    <3> QED
      BY <1>b, <3>1, <3>3
  <2>4. CASE q.sign = -1
    <3>1. VoidUnpaid'
      BY <1>a, <2>1, <2>2, <2>4 DEF InvoiceCurrent, Unpaid
    <3>2. OneInvoice'
      BY <1>a, <2>1, <2>2, <2>4 DEF OneInvoice, LiveInvoicesFor
    <3> QED
      BY <1>b, <3>1, <3>2
  <2> QED
    BY <2>1, <2>3, <2>4
<1> QED
  BY <1>1, <1>2, <1>3, InvoiceSteps

\* Served one at a time, an order has one invoice in force at most, and nobody
\* has been paid for an invoice that was voided.
THEOREM SerialInvoicesInForce == OneRequest /\ Spec => []InvoicesInForce
<1> SUFFICES ASSUME OneRequest PROVE Spec => []InvoicesInForce
  OBVIOUS
<1>1. Init => InvoicesInForce
  BY OneInvoiceCount DEF Init, OneInvoice, LiveInvoicesFor, InvoicesInForce
<1>2. OneRequest /\ (IInv /\ ReadsCurrent /\ DocumentsCurrent) /\ InvoicesInForce /\ [Next]_vars
         => InvoicesInForce'
  BY InForceStep
<1> QED
  BY <1>1, <1>2, SerialInvariance, PTL DEF Spec

\* Each step keeps the cancelled orders without stock.
LEMMA CancelledStep ==
  OneRequest /\ IInv /\ DocumentsCurrent /\ CancelledHasNoStock /\ [Next]_vars
     => CancelledHasNoStock'
<1> SUFFICES ASSUME OneRequest, IInv, DocumentsCurrent, CancelledHasNoStock, [Next]_vars,
                    NEW o \in Orders \ TermOrders, order'[o].status = "CANCELLED"
             PROVE  ConfirmedFor(o)' = {}
  BY DEF CancelledHasNoStock
<1> USE DEF IInv, DocumentsCurrent
<1>a. /\ order[o].status = "CANCELLED" => ConfirmedFor(o) = {}
      /\ order \in [Orders -> OrderRow] /\ receipt \in [Receipts -> ReceiptRow]
  BY DEF CancelledHasNoStock, TypeOK
<1>1. ASSUME order'[o].status = order[o].status,
             \A x \in Receipts : receipt'[x].status = "CONFIRMED" /\ receipt'[x].order = o
                                    => x \in ConfirmedFor(o)
      PROVE  ConfirmedFor(o)' = {}
  BY <1>1, <1>a DEF ConfirmedFor
<1>2. CASE receipt' = receipt /\ order'[o].status = order[o].status
  BY <1>1, <1>2 DEF ConfirmedFor
<1>3. ASSUME NEW r \in Requests, AutoReceipt(r)
      PROVE  ConfirmedFor(o)' = {}
  <2>1. ASSUME NEW x \in Receipts, AutoReceiptCommit(r, x)
        PROVE  ConfirmedFor(o)' = {}
    <3> DEFINE q == request[r]
    <3>1. /\ q.order \in Orders /\ q.seen = order[q.order].status
          /\ q.seen \in {"APPROVED", "IN_PROGRESS"}
      BY <2>1 DEF AutoReceiptCommit, RequestOK, OrdersCurrent, OrderCurrent, Receivable
    <3>2. order'[q.order].status = "IN_PROGRESS"
      BY <2>1, <3>1, <1>a DEF AutoReceiptCommit, Receive, OrderRow
    <3>3. o # q.order
      BY <3>2
    <3> QED
      BY <1>1, <1>a, <2>1, <3>3 DEF AutoReceiptCommit, Receive, ConfirmedFor
  <2>2. ASSUME NEW x \in Orders, NEW p \in Places, NEW qty \in Quantities,
               AutoReceiptRead(r, x, p, qty)
        PROVE  ConfirmedFor(o)' = {}
    BY <1>2, <2>2 DEF AutoReceiptRead
  <2> QED
    BY <1>3, <2>1, <2>2 DEF AutoReceipt
<1>4. ASSUME NEW r \in Requests, TermReceipt(r)
      PROVE  ConfirmedFor(o)' = {}
  <2>1. CASE ConfirmReceiptCommit(r)
    <3>1. request[r].order \in TermOrders /\ receipt[request[r].receipt].order # o
      BY <2>1 DEF ConfirmReceiptCommit, ReceiptsCurrent, ReceiptCurrent, Fits
    <3> QED
      BY <1>1, <1>a, <2>1, <3>1 DEF ConfirmReceiptCommit, Receive, ConfirmedFor, ReceiptRow
  <2>2. CASE VoidReceiptCommit(r)
    <3>1. order'[o].status = order[o].status
      BY <1>a, <2>2 DEF VoidReceiptCommit, OrderRow
    <3> QED
      BY <1>1, <1>a, <2>2, <3>1 DEF VoidReceiptCommit, ConfirmedFor, ReceiptRow
  <2>3. CASE UpdateReceiptWrite(r)
    BY <1>1, <1>a, <2>3 DEF UpdateReceiptWrite, ConfirmedFor, ReceiptRow
  <2>4. ASSUME NEW x \in Receipts, NEW t \in Orders, NEW p \in Places, NEW qty \in Quantities,
               TermReceiptCreate(r, x, t, p, qty)
        PROVE  ConfirmedFor(o)' = {}
    BY <1>1, <1>a, <2>4 DEF TermReceiptCreate, ConfirmedFor, ReceiptRow
  <2>5. CASE receipt' = receipt /\ order' = order
    BY <1>2, <2>5
  <2> QED
    BY <1>4, <2>1, <2>2, <2>3, <2>4, <2>5 DEF TermReceipt, UpdateReceiptRead, ConfirmReceiptRead,
       VoidReceiptRead, ReceiptRead, ConfirmReceiptReadOrder, VoidReceiptReadBalance
<1>5. ASSUME NEW r \in Requests, Invoice(r) \/ Abort(r)
      PROVE  ConfirmedFor(o)' = {}
  BY <1>2, <1>5 DEF Invoice, InvoiceCheck, VoidInvoiceCheck, VoidInvoiceMark, LineRead, LineWrite,
     InvoiceCommit, PayInvoice, Abort
<1>6. ASSUME NEW r \in Requests, Approve(r)
      PROVE  ConfirmedFor(o)' = {}
  <2>1. ASSUME ApproveWrite(r) PROVE ConfirmedFor(o)' = {}
    <3>1. o # request[r].order
      BY <1>a, <2>1 DEF ApproveWrite, OrderRow
    <3> QED
      BY <1>2, <1>a, <2>1, <3>1 DEF ApproveWrite
  <2> QED
    BY <1>2, <1>6, <2>1 DEF Approve, ApproveRead
<1>7. ASSUME NEW r \in Requests, Cancel(r)
      PROVE  ConfirmedFor(o)' = {}
  <2>1. ASSUME CancelWrite(r) PROVE ConfirmedFor(o)' = {}
    <3>1. CASE o = request[r].order
      BY <2>1, <3>1 DEF CancelWrite, OrdersCurrent, OrderCurrent, Cancellable, NothingConfirmed,
         ConfirmedFor
    <3>2. CASE o # request[r].order
      BY <1>2, <1>a, <2>1, <3>2 DEF CancelWrite
    <3> QED
      BY <3>1, <3>2
  <2> QED
    BY <1>2, <1>7, <2>1 DEF Cancel, CancelRead
<1>8. CASE UNCHANGED vars
  BY <1>2, <1>8 DEF vars
<1> QED
  BY <1>3, <1>4, <1>5, <1>6, <1>7, <1>8 DEF Next

\* Served one at a time, a commercial order that is cancelled has brought no
\* stock and brings none afterwards.
THEOREM SerialCancelledHasNoStock == OneRequest /\ Spec => []CancelledHasNoStock
<1> SUFFICES ASSUME OneRequest PROVE Spec => []CancelledHasNoStock
  OBVIOUS
<1>1. Init => CancelledHasNoStock
  BY DEF Init, CancelledHasNoStock, ConfirmedFor
<1>2. OneRequest /\ (IInv /\ ReadsCurrent /\ DocumentsCurrent) /\ CancelledHasNoStock /\ [Next]_vars
         => CancelledHasNoStock'
  BY CancelledStep
<1> QED
  BY <1>1, <1>2, SerialInvariance, PTL DEF Spec

\* Served one at a time, each write keeps physical the sum of pending and posted.
LEMMA SerialSplitStep ==
  IInv /\ ReadsCurrent /\ PhysicalIsSplit /\ [Next]_vars => PhysicalIsSplit'
<1> SUFFICES ASSUME IInv, ReadsCurrent, PhysicalIsSplit, [Next]_vars
             PROVE  \A p \in Places : Split(balance'[p])
  BY DEF PhysicalIsSplit, Split
<1> USE DEF IInv
<1>a. /\ \A p \in Places : Split(balance[p]) /\ balance[p] \in QtyRow
      /\ balance \in [Places -> QtyRow]
  BY DEF PhysicalIsSplit, Split, TypeOK
<1>b. ASSUME NEW b \in QtyRow, Split(b), NEW d \in QtyRow, Split(d)
      PROVE  Split(Plus(b, d))
  BY <1>b, PlusType DEF Split, QtyRow
<1>1. CASE balance' = balance
  BY <1>1, <1>a
<1>2. ASSUME NEW p \in Places, NEW d \in QtyRow, Split(d),
             balance' = [balance EXCEPT ![p] = Plus(balance[p], d)]
      PROVE  \A z \in Places : Split(balance'[z])
  BY <1>2, <1>a, <1>b
<1>3. \A n \in Int : ReceivedDelta(n) \in QtyRow /\ Split(ReceivedDelta(n))
  BY ReceivedType DEF Split
<1>4. ASSUME NEW r \in Requests,
             (\E x \in Receipts : AutoReceiptCommit(r, x)) \/ ConfirmReceiptCommit(r)
      PROVE  \A p \in Places : Split(balance'[p])
  <2>1. PICK p \in Places, n \in 0 .. MaxQty :
             balance' = [balance EXCEPT ![p] = Plus(balance[p], ReceivedDelta(n))]
    BY <1>4, ReceiptCommits
  <2>2. ReceivedDelta(n) \in QtyRow /\ Split(ReceivedDelta(n))
    <3>1. n \in Int
      OBVIOUS
    <3> QED
      BY <1>3, <3>1
  <2> QED
    BY <1>2, <2>1, <2>2
<1>5. ASSUME NEW r \in Requests, VoidReceiptCommit(r)
      PROVE  \A p \in Places : Split(balance'[p])
  <2> DEFINE voided(p, n) == VoidedBalance(balance[p], n)
  <2>1. PICK p \in Places, n \in 0 .. MaxQty :
             \/ balance' = balance
             \/ balance' = [balance EXCEPT ![p] =
                               Qtys(voided(p, n).physical, voided(p, n).pending, balance[p].posted)]
    <3>1. request[r].read = balance[request[r].place]
      BY <1>5 DEF VoidReceiptCommit, ReadsCurrent
    <3> QED
      BY <1>5, <3>1, VoidCommits
  <2>2. voided(p, n).physical = balance[p].physical - n /\ voided(p, n).pending = balance[p].pending - n
    BY <1>a, <2>1, VoidedType
  <2>3. Split(Qtys(voided(p, n).physical, voided(p, n).pending, balance[p].posted))
    BY <1>a, <2>2 DEF Split, Qtys, QtyRow
  <2> QED
    BY <1>a, <2>1, <2>3
<1>6. ASSUME NEW r \in Requests, InvoiceCommit(r), NEW p \in Places
      PROVE  Split(balance'[p])
  <2>1. CASE p \in request[r].written
    <3>1. /\ request[r].sign \in {1, -1} /\ request[r].items[p] \in 0 .. MaxQty
      BY DEF TypeOK, RequestState
    <3>2. balance'[p] = Plus(balance[p], LineDelta(request[r].sign, request[r].items[p]))
      BY <1>6, <2>1 DEF InvoiceCommit, ReadsCurrent
    <3>3. PICK n \in Int : n = request[r].sign * request[r].items[p]
      BY <3>1
    <3>4. LineDelta(request[r].sign, request[r].items[p]) \in QtyRow
          /\ Split(LineDelta(request[r].sign, request[r].items[p]))
      BY <3>1, <3>3, LineType DEF Split
    <3> QED
      BY <1>a, <1>b, <3>2, <3>4
  <2>2. CASE p \notin request[r].written
    BY <1>6, <1>a, <2>2 DEF InvoiceCommit
  <2> QED
    BY <2>1, <2>2
<1> QED
  BY <1>1, <1>4, <1>5, <1>6, BalanceSteps DEF BalanceStep

\* Served one at a time, requests keep physical stock pending plus posted stock,
\* voids of receipts included.
THEOREM SerialSplitCorrect == OneRequest /\ Spec => []PhysicalIsSplit
<1> SUFFICES ASSUME OneRequest PROVE Spec => []PhysicalIsSplit
  OBVIOUS
<1>1. Init => PhysicalIsSplit
  BY DEF Init, PhysicalIsSplit, NoQtys, Qtys
<1>2. (IInv /\ ReadsCurrent /\ DocumentsCurrent) /\ PhysicalIsSplit /\ [Next]_vars
         => PhysicalIsSplit'
  BY SerialSplitStep
<1> QED
  BY <1>1, <1>2, SerialInvariance, PTL DEF Spec

-----------------------------------------------------------------------------
(* The views of purchase orders.  They hold however requests interleave.    *)

\* What has been paid of each invoice is no more than it comes to.
SettledOK == settled \in [Invoices -> 0 .. Due]

LEMMA SettledStep == SettledOK /\ [OrdersNext]_viewVars => SettledOK'
<1> SUFFICES ASSUME SettledOK, [OrdersNext]_viewVars PROVE SettledOK'
  OBVIOUS
<1>1. ASSUME StockStep PROVE SettledOK'
  <2>1. PICK amount \in 1 .. Due :
             settled' = [i \in Invoices |-> IF invoice'[i].paid /\ ~invoice[i].paid THEN amount
                                            ELSE settled[i]]
    BY <1>1 DEF StockStep
  <2>2. amount \in 0 .. Due
    BY ViewsAssumption
  <2> QED
    BY <2>1, <2>2 DEF SettledOK
<1>2. ASSUME NEW i \in Invoices, PayMore(i) PROVE SettledOK'
  <2>1. PICK amount \in 1 .. Due - settled[i] : settled' = [settled EXCEPT ![i] = @ + amount]
    BY <1>2 DEF PayMore
  <2>2. settled[i] \in 0 .. Due /\ settled[i] + amount \in 0 .. Due
    BY <2>1, ViewsAssumption DEF SettledOK
  <2> QED
    BY <2>1, <2>2 DEF SettledOK
<1>3. CASE UNCHANGED viewVars
  BY <1>3 DEF viewVars, SettledOK
<1> QED
  BY <1>1, <1>2, <1>3 DEF OrdersNext

\* The stock below the views behaves as StockPosting says.
LEMMA ViewsRefineStock == OrdersSpec => Spec
<1>1. OrdersInit => Init
  BY DEF OrdersInit
<1>2. [OrdersNext]_viewVars => [Next]_vars
  BY DEF OrdersNext, StockStep, PayMore, viewVars
<1> QED
  BY <1>1, <1>2, PTL DEF OrdersSpec, Spec

LEMMA ViewsInvariance == OrdersSpec => [](TypeOK /\ SettledOK)
<1>1. OrdersInit => SettledOK
  BY ViewsAssumption DEF OrdersInit, SettledOK
<1> QED
  BY <1>1, SettledStep, ViewsRefineStock, TypeCorrect, PTL DEF OrdersSpec

\* What orders owe, and what has been paid of it.
LEMMA AmountsOfOrder ==
  ASSUME TypeOK, SettledOK, NEW o \in Orders
  PROVE  /\ TotalSettled(o) \in Nat /\ TotalDue(o) \in Nat
         /\ ~HasInvoice(o) => TotalSettled(o) = 0
         /\ HasInvoice(o) => TotalDue(o) > 0
         /\ HasInvoice(o) =>
               ((\A i \in InvoicesOf(o) : IsSettled(i)) <=> TotalSettled(o) >= TotalDue(o))
<1> DEFINE S == InvoicesOf(o)
           due == [i \in Invoices |-> Due]
<1>1. /\ S \subseteq Invoices /\ IsFiniteSet(S)
      /\ \A i \in S : settled[i] \in 0 .. Due /\ due[i] = Due
  BY FiniteAssumption, FS_Subset DEF InvoicesOf, SettledOK
<1>2. Due \in Nat \ {0}
  BY ViewsAssumption
<1> HIDE DEF S, due
<1>3. /\ SumFunctionOnSet(settled, S) \in Nat
      /\ SumFunctionOnSet(due, S) = Cardinality(S) * Due
  <2>1. \A i \in S : settled[i] \in Nat
    BY <1>1
  <2> QED
    BY <1>1, <1>2, <2>1, SumNat, SumConstant
<1>4. /\ Cardinality(S) \in Nat
      /\ S = {} <=> Cardinality(S) = 0
  BY <1>1, FS_CardinalityType, FS_EmptySet
<1>5. Cardinality(S) * Due \in Nat /\ (S # {} => Cardinality(S) * Due > 0)
  BY <1>2, <1>4
<1>6. S = {} => SumFunctionOnSet(settled, S) = 0
  BY SumEmpty
<1>7. CASE \A i \in S : IsSettled(i)
  <2>1. \A i \in S : settled[i] = due[i]
    BY <1>1, <1>2, <1>7 DEF IsSettled
  <2>2. SumFunctionOnSet(settled, S) = SumFunctionOnSet(due, S)
    BY <1>1, <2>1, SumSame
  <2> QED
    BY <1>3, <1>5, <1>6, <1>7, <2>2 DEF S, HasInvoice, TotalSettled, TotalDue
<1>8. CASE ~\A i \in S : IsSettled(i)
  <2>1. PICK x \in S : settled[x] < Due
    BY <1>1, <1>2, <1>8 DEF IsSettled
  <2>2. \A i \in S : settled[i] \in Int /\ due[i] \in Int /\ settled[i] <= due[i]
    BY <1>1, <1>2
  <2>3. IsFiniteSet(S \ {x})
    BY <1>1, FS_Subset
  <2>4. SumFunctionOnSet(settled, S \ {x}) <= SumFunctionOnSet(due, S \ {x})
    BY <2>2, <2>3, SumMonotone
  <2>5. SumFunctionOnSet(settled, S \ {x}) \in Int /\ SumFunctionOnSet(due, S \ {x}) \in Int
    BY <2>2, <2>3, SumType
  <2>6. /\ SumFunctionOnSet(settled, S) = settled[x] + SumFunctionOnSet(settled, S \ {x})
        /\ SumFunctionOnSet(due, S) = due[x] + SumFunctionOnSet(due, S \ {x})
    BY <1>1, <2>2, SumRemove
  <2>7. SumFunctionOnSet(settled, S) < SumFunctionOnSet(due, S)
    <3>1. settled[x] \in Int /\ due[x] = Due
      BY <1>1
    <3> QED
      BY <1>2, <2>1, <2>4, <2>5, <2>6, <3>1
  <2> QED
    BY <1>3, <1>5, <1>6, <1>8, <2>7 DEF S, HasInvoice, TotalSettled, TotalDue
<1> QED
  BY <1>7, <1>8

\* What the views compute from any tables of the right types.
LEMMA ViewsOfTables == TypeOK /\ SettledOK => ViewsAgree
<1> SUFFICES ASSUME TypeOK, SettledOK, NEW o \in Orders
    PROVE  /\ o \notin TermOrders => CountedIn(o) = {tab \in Tabs : Listed(o, tab)}
           /\ order[o].status \in {"APPROVED", "IN_PROGRESS"}
                 => CountedIn(o) = {TabOf(BusinessStatus(o))}
           /\ TotalDue(o) - TotalSettled(o) # 1 => DetailPayment(o) = ListPayment(o)
  BY DEF ViewsAgree
<1>1. /\ TotalSettled(o) \in Nat /\ TotalDue(o) \in Nat
      /\ ~HasInvoice(o) => TotalSettled(o) = 0
      /\ HasInvoice(o) => TotalDue(o) > 0
      /\ HasInvoice(o) =>
            ((\A i \in InvoicesOf(o) : IsSettled(i)) <=> TotalSettled(o) >= TotalDue(o))
  BY AmountsOfOrder
<1>2. order[o].status \in OrderStatus
  BY DEF TypeOK, OrderRow
<1>3. /\ ListPayment(o) \in {"PAID", "PARTIALLY_PAID", "UNPAID"}
      /\ ListPayment(o) # "UNPAID" => HasInvoice(o)
  BY <1>1 DEF ListPayment
<1>4. o \notin TermOrders => CountedIn(o) = {tab \in Tabs : Listed(o, tab)}
  BY <1>2, <1>3 DEF CountedIn, Tabs, Listed, OrderStatus
<1>5. ASSUME order[o].status \in {"APPROVED", "IN_PROGRESS"}
      PROVE  CountedIn(o) = {TabOf(BusinessStatus(o))}
  <2>1. CASE ListPayment(o) = "UNPAID"
    BY <1>5, <2>1 DEF CountedIn, TabOf, BusinessStatus
  <2>2. CASE ListPayment(o) # "UNPAID"
    BY <1>3, <1>5, <2>2 DEF CountedIn, TabOf, BusinessStatus
  <2> QED
    BY <2>1, <2>2
<1>6. TotalDue(o) - TotalSettled(o) # 1 => DetailPayment(o) = ListPayment(o)
  BY <1>1 DEF DetailPayment, ListPayment
<1> QED
  BY <1>4, <1>5, <1>6

\* The list, its tabs, their counters and the detail agree on every order,
\* however requests interleave.
THEOREM ViewsCorrect == OrdersSpec => []ViewsAgree
BY ViewsInvariance, ViewsOfTables, PTL

\* What the detail of an order offers is accepted, however requests interleave.
THEOREM OffersCorrect == OrdersSpec => []OfferedIsAccepted
<1>1. TypeOK => OfferedIsAccepted
  BY DEF TypeOK, OrderRow, OrderStatus, OfferedIsAccepted, CanCancel, CanReceive, Cancellable,
     Receivable, NothingConfirmed, HasReceipt, HasInvoice, InvoicesOf, LiveInvoicesFor
<1> QED
  BY <1>1, ViewsInvariance, PTL
=============================================================================
