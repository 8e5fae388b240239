---------------------------- MODULE StockPosting ----------------------------
(***************************************************************************)
(* Purchase stock: goods receipts (GoodsReceiptsService and the TERM       *)
(* PurchaseTermReceiptsService), supplier invoices that turn received      *)
(* goods into posted stock and can be voided, cancellation of purchase     *)
(* orders, and the InventoryBalance and InventoryLedger rows they keep.    *)
(*                                                                         *)
(* Requests are processes cut where the code reads, as in                  *)
(* SettlementAllocation.  The rows locked across steps are the balances an *)
(* invoice has already written ("written", with what it wrote in "after"), *)
(* the receipt a confirmation or a void has updated, and the order line a  *)
(* void updates before it reads the balance.                               *)
(***************************************************************************)
EXTENDS Integers, FiniteSets, Functions

CONSTANTS
    Orders,        \* purchase orders, each with one line
    TermOrders,    \* those of bizType TERM
    Places,        \* (supplierLocation, product) pairs: the keys of a balance
    Receipts,      \* ids a GoodsReceipt row may get
    Invoices,      \* ids a SupplierInvoice row may get
    Requests,      \* requests the web process may be serving at a time
    Operations,    \* the operations clients call
    MaxQty,        \* bound: quantities are whole units in 1 .. MaxQty
    None

ASSUME MaxQtyAssumption == MaxQty \in Nat
ASSUME OrdersAssumption == TermOrders \subseteq Orders
ASSUME FiniteAssumption == IsFiniteSet(Receipts) /\ IsFiniteSet(Invoices)
ASSUME NoneAssumption == None \notin Orders \cup Places \cup Receipts \cup Invoices

VARIABLES
    order,      \* PurchaseOrder.status and its line's withdrawnQty
    receipt,    \* the GoodsReceipt table
    invoice,    \* the SupplierInvoice table, with whether its settlement is paid
    balance,    \* the InventoryBalance table
    ledger,     \* the deltas of the InventoryLedger rows of each place, added up
    request     \* what each request has read and written so far

vars == <<order, receipt, invoice, balance, ledger, request>>

Quantities == 1 .. MaxQty
OrderStatus == {"DRAFT", "APPROVED", "IN_PROGRESS", "CANCELLED"}
ReceiptStatus == {"ABSENT", "DRAFT", "CONFIRMED", "VOID"}
InvoiceStatus == {"ABSENT", "POSTED", "VOID"}
Pcs == {"idle", "autoReceipt", "updateReceipt", "confirmReceipt", "confirmReceiptWrite",
        "voidReceipt", "voidReceiptWrite", "invoice", "invoiceLine", "voidInvoiceMark", "approveOrder", "cancelOrder"}

Qtys(physical, pending, posted) ==
    [physical |-> physical, pending |-> pending, posted |-> posted]
NoQtys == Qtys(0, 0, 0)
Plus(b, d) == Qtys(b.physical + d.physical, b.pending + d.pending, b.posted + d.posted)

ReceivedDelta(qty) == Qtys(qty, qty, 0)
PostedDelta(qty) == Qtys(0, -qty, qty)

LineDeltaUnsigned(sign, qty) == PostedDelta(qty)
\* Posting an invoice line takes its quantity out of pending; voiding puts it back.
LineDelta(sign, qty) == PostedDelta(sign * qty)

Idle == [pc |-> "idle", order |-> None, receipt |-> None, invoice |-> None, place |-> None,
         qty |-> 0, seen |-> "ABSENT", sign |-> 1, items |-> [p \in Places |-> 0],
         read |-> NoQtys, written |-> {}, after |-> [p \in Places |-> NoQtys]]

BalanceLocked(p, r) == \E q \in Requests \ {r} : p \in request[q].written
OrderLineLocked(o, r) ==
    \E q \in Requests \ {r} : /\ request[q].pc = "voidReceiptWrite"
                              /\ request[q].seen = "CONFIRMED"
                              /\ request[q].order = o
ReceiptLocked(x, r) ==
    \E q \in Requests \ {r} : /\ request[q].pc \in {"confirmReceiptWrite", "voidReceiptWrite"}
                              /\ request[q].receipt = x
InvoiceLocked(i, r) ==
    \E q \in Requests \ {r} : /\ request[q].pc \in {"invoice", "invoiceLine"}
                              /\ request[q].sign = -1
                              /\ request[q].invoice = i

ConfirmedFor(o) == {x \in Receipts : receipt[x].status = "CONFIRMED" /\ receipt[x].order = o}
LiveInvoicesFor(o) == {i \in Invoices : invoice[i].status = "POSTED" /\ invoice[i].order = o}

(***************************************************************************)
(* Checks and computations the handlers share.  As in SettlementAllocation *)
(* the operator before a definition is what it would be after a slip; it   *)
(* is used by no action.                                                   *)
(***************************************************************************)
IncrementedPhysicalOnly(b, d) == [b EXCEPT !.physical = @ + d.physical]
\* UPDATE ... increment, of what has committed by then.
Incremented(b, d) == Plus(b, d)

NonNegativePostedOnly(b) == b.posted >= 0
\* applyDeltaAndAppendLedger refuses a negative pending or posted quantity.
NonNegative(b) == b.pending >= 0 /\ b.posted >= 0

NoLiveInvoiceIgnored(o) == TRUE
NoLiveInvoice(o) == LiveInvoicesFor(o) = {}

Unpaid(i) == ~invoice[i].paid

NothingConfirmedIgnored(o) == TRUE
NothingConfirmed(o) == ConfirmedFor(o) = {}

\* Only a receipt that was confirmed has stock to take back.
UndoneQty(seen, qty) == IF seen = "CONFIRMED" THEN qty ELSE 0

VoidedBalancePhysicalOnly(b, qty) == [b EXCEPT !.physical = @ - qty]
VoidedBalance(b, qty) == Plus(b, ReceivedDelta(-qty))

-----------------------------------------------------------------------------
\* A new order is a DRAFT; where nothing approves orders they begin APPROVED.
NewOrder == [status |-> IF "approveOrder" \in Operations THEN "DRAFT" ELSE "APPROVED",
             withdrawn |-> 0]

\* Orders, of which some are TERM orders; nothing received yet.
Init ==
    /\ order = [o \in Orders |-> NewOrder]
    /\ receipt = [x \in Receipts |-> [status |-> "ABSENT", order |-> None, place |-> None, qty |-> 0]]
    /\ invoice = [i \in Invoices |-> [status |-> "ABSENT", order |-> None,
                                      items |-> [p \in Places |-> 0], paid |-> FALSE]]
    /\ balance = [p \in Places |-> NoQtys]
    /\ ledger = [p \in Places |-> NoQtys]
    /\ request = [r \in Requests |-> Idle]

Begin(op, r) == op \in Operations /\ request[r].pc = "idle"

\* Stock comes in: an increment of the balance and its ledger row.
Receive(r, o, p, qty, nextStatus) ==
    /\ ~BalanceLocked(p, r)
    /\ ~OrderLineLocked(o, r)
    /\ balance' = [balance EXCEPT ![p] = Incremented(@, ReceivedDelta(qty))]
    /\ ledger' = [ledger EXCEPT ![p] = Plus(@, ReceivedDelta(qty))]
    /\ order' = [order EXCEPT ![o].withdrawn = @ + qty, ![o].status = nextStatus]
    /\ request' = [request EXCEPT ![r] = Idle]

-----------------------------------------------------------------------------
(* createAutoConfirm: the order is read before the transaction.             *)

Receivable(o) == order[o].status \in {"APPROVED", "IN_PROGRESS"}

AutoReceiptRead(r, o, p, qty) ==
    /\ Begin("autoReceipt", r)
    /\ Receivable(o)
    /\ request' = [request EXCEPT ![r] = [Idle EXCEPT !.pc = "autoReceipt", !.order = o,
                                              !.place = p, !.qty = qty,
                                              !.seen = order[o].status]]
    /\ UNCHANGED <<order, receipt, invoice, balance, ledger>>

AutoReceiptCommit(r, x) ==
    LET q == request[r]
    IN  /\ q.pc = "autoReceipt"
        /\ receipt[x].status = "ABSENT"
        /\ receipt' = [receipt EXCEPT ![x] = [status |-> "CONFIRMED", order |-> q.order,
                                              place |-> q.place, qty |-> q.qty]]
        /\ Receive(r, q.order, q.place, q.qty,
                   IF q.seen = "APPROVED" THEN "IN_PROGRESS" ELSE order[q.order].status)
        /\ UNCHANGED invoice

-----------------------------------------------------------------------------
(* TERM receipts: drafted, edited, confirmed and voided.                    *)

\* What is inserted does not depend on anything that can change after the read.
TermReceiptCreate(r, x, o, p, qty) ==
    /\ Begin("termReceipt", r)
    /\ o \in TermOrders
    /\ order[o].status \in {"APPROVED", "IN_PROGRESS"}
    /\ receipt[x].status = "ABSENT"
    /\ receipt' = [receipt EXCEPT ![x] = [status |-> "DRAFT", order |-> o, place |-> p,
                                          qty |-> qty]]
    /\ UNCHANGED <<order, invoice, balance, ledger, request>>

\* The place may change: the lines of these orders name none.
UpdateReceiptRead(r, x, p, qty) ==
    /\ Begin("updateReceipt", r)
    /\ receipt[x].status = "DRAFT"
    /\ request' = [request EXCEPT ![r] = [Idle EXCEPT !.pc = "updateReceipt", !.receipt = x,
                                                      !.place = p, !.qty = qty]]
    /\ UNCHANGED <<order, receipt, invoice, balance, ledger>>

UpdateReceiptWrite(r) ==
    /\ request[r].pc = "updateReceipt"
    /\ ~ReceiptLocked(request[r].receipt, r)
    /\ receipt' = [receipt EXCEPT ![request[r].receipt] =
                      [@ EXCEPT !.place = request[r].place, !.qty = request[r].qty]]
    /\ request' = [request EXCEPT ![r] = Idle]
    /\ UNCHANGED <<order, invoice, balance, ledger>>

\* findById and its checks, before the transaction, for confirm and for void.
ReceiptRead(r, op, pc, x, statuses) ==
    /\ Begin(op, r)
    /\ receipt[x].order \in TermOrders
    /\ receipt[x].status \in statuses
    /\ request' = [request EXCEPT ![r] =
                      [Idle EXCEPT !.pc = pc, !.receipt = x, !.order = receipt[x].order,
                                   !.place = receipt[x].place, !.qty = receipt[x].qty,
                                   !.seen = receipt[x].status]]
    /\ UNCHANGED <<order, receipt, invoice, balance, ledger>>

ConfirmReceiptRead(r, x) == ReceiptRead(r, "confirmReceipt", "confirmReceipt", x, {"DRAFT"})

\* The transaction has updated the receipt when it reads the order.
ConfirmReceiptReadOrder(r) ==
    LET q == request[r]
    IN  /\ q.pc = "confirmReceipt"
        /\ ~ReceiptLocked(q.receipt, r)
        /\ request' = [request EXCEPT ![r].pc = "confirmReceiptWrite",
                                      ![r].seen = order[q.order].status]
        /\ UNCHANGED <<order, receipt, invoice, balance, ledger>>

ConfirmReceiptCommit(r) ==
    LET q == request[r]
    IN  /\ q.pc = "confirmReceiptWrite"
        /\ receipt' = [receipt EXCEPT ![q.receipt].status = "CONFIRMED"]
        /\ Receive(r, q.order, q.place, q.qty,
                   IF q.seen = "APPROVED" THEN "IN_PROGRESS" ELSE order[q.order].status)
        /\ UNCHANGED invoice

VoidReceiptRead(r, x) ==
    ReceiptRead(r, "voidReceipt", "voidReceipt", x, {"DRAFT", "CONFIRMED"})

\* The transaction updates the receipt and the order line, whose row locks it
\* then holds, and reads the balance.
VoidReceiptReadBalance(r) ==
    LET q == request[r]
    IN  /\ q.pc = "voidReceipt"
        /\ ~ReceiptLocked(q.receipt, r)
        /\ q.seen = "CONFIRMED" => ~OrderLineLocked(q.order, r)
        /\ LET next == VoidedBalance(balance[q.place], UndoneQty(q.seen, q.qty))
           IN  /\ next.physical >= 0 /\ next.pending >= 0
               /\ request' = [request EXCEPT ![r].pc = "voidReceiptWrite",
                                             ![r].read = balance[q.place]]
        /\ UNCHANGED <<order, receipt, invoice, balance, ledger>>

\* Physical and pending are written as computed from the balance that was read.
VoidReceiptCommit(r) ==
    LET q == request[r]
        undone == UndoneQty(q.seen, q.qty)
        next == VoidedBalance(q.read, undone)
    IN  /\ q.pc = "voidReceiptWrite"
        /\ ~BalanceLocked(q.place, r)
        /\ receipt' = [receipt EXCEPT ![q.receipt].status = "VOID"]
        /\ IF undone = 0
           THEN UNCHANGED <<order, balance, ledger>>
           ELSE /\ order' = [order EXCEPT ![q.order].withdrawn = @ - undone]
                /\ balance' = [balance EXCEPT ![q.place] =
                                  Qtys(next.physical, next.pending, @.posted)]
                /\ ledger' = [ledger EXCEPT ![q.place] = Plus(@, ReceivedDelta(-undone))]
        /\ request' = [request EXCEPT ![r] = Idle]
        /\ UNCHANGED invoice

-----------------------------------------------------------------------------
(* Supplier invoices: create posts at once, void reverses.  Both go through *)
(* the lines one by one with applyDeltaAndAppendLedger.                     *)

InvoiceCheck(r, i, o, items) ==
    /\ Begin("createInvoice", r)
    /\ invoice[i].status = "ABSENT"
    /\ \A q \in Requests : request[q].invoice # i
    /\ \E p \in Places : items[p] > 0
    /\ o # None => NoLiveInvoice(o)
    /\ request' = [request EXCEPT ![r] = [Idle EXCEPT !.pc = "invoice", !.invoice = i,
                                                      !.order = o, !.items = items]]
    /\ UNCHANGED <<order, receipt, invoice, balance, ledger>>

VoidInvoiceCheck(r, i) ==
    /\ Begin("voidInvoice", r)
    /\ invoice[i].status = "POSTED"
    /\ Unpaid(i)
    /\ request' = [request EXCEPT ![r] = [Idle EXCEPT !.pc = "voidInvoiceMark", !.invoice = i,
                                                      !.order = invoice[i].order, !.sign = -1,
                                                      !.items = invoice[i].items]]
    /\ UNCHANGED <<order, receipt, invoice, balance, ledger>>

\* The status update waits for a transaction that is voiding the same invoice.
VoidInvoiceMark(r) ==
    /\ request[r].pc = "voidInvoiceMark"
    /\ ~InvoiceLocked(request[r].invoice, r)
    /\ request' = [request EXCEPT ![r].pc = "invoice"]
    /\ UNCHANGED <<order, receipt, invoice, balance, ledger>>

LinesLeft(q) == {p \in Places : q.items[p] > 0} \ q.written

LineRead(r, p) ==
    LET q == request[r]
    IN  /\ q.pc = "invoice"
        /\ p \in LinesLeft(q)
        /\ NonNegative(Plus(balance[p], LineDelta(q.sign, q.items[p])))
        /\ request' = [request EXCEPT ![r].pc = "invoiceLine", ![r].place = p,
                                      ![r].read = balance[p]]
        /\ UNCHANGED <<order, receipt, invoice, balance, ledger>>

\* The update takes the row lock of the balance.
LineWrite(r) ==
    LET q == request[r]
        next == Plus(q.read, LineDelta(q.sign, q.items[q.place]))
    IN  /\ q.pc = "invoiceLine"
        /\ ~BalanceLocked(q.place, r)
        /\ request' = [request EXCEPT ![r].pc = "invoice", ![r].place = None,
                                      ![r].read = NoQtys,
                                      ![r].written = @ \cup {q.place},
                                      ![r].after[q.place] = next]
        /\ UNCHANGED <<order, receipt, invoice, balance, ledger>>

InvoiceCommit(r) ==
    LET q == request[r]
    IN  /\ q.pc = "invoice"
        /\ LinesLeft(q) = {}
        /\ invoice' = [invoice EXCEPT ![q.invoice] =
                           [@ EXCEPT !.status = IF q.sign = 1 THEN "POSTED" ELSE "VOID",
                                     !.order = q.order, !.items = q.items]]
        /\ balance' = [p \in Places |-> IF p \in q.written THEN q.after[p]
                                                         ELSE balance[p]]
        /\ ledger' = [p \in Places |-> IF p \in q.written
                                       THEN Plus(ledger[p], LineDelta(q.sign, q.items[p]))
                                       ELSE ledger[p]]
        /\ request' = [request EXCEPT ![r] = Idle]
        /\ UNCHANGED <<order, receipt>>

\* A payment is allocated to the invoice's settlement (SettlementAllocation).
PayInvoice(r, i) ==
    /\ Begin("payInvoice", r)
    /\ invoice[i].status = "POSTED"
    /\ ~invoice[i].paid
    /\ invoice' = [invoice EXCEPT ![i].paid = TRUE]
    /\ UNCHANGED <<order, receipt, balance, ledger, request>>

-----------------------------------------------------------------------------
(* approve and cancel, of an ordinary order and of a TERM order: a check,   *)
(* then an update outside any transaction, that does not look again.        *)

ApproveRead(r, o) ==
    /\ Begin("approveOrder", r)
    /\ order[o].status = "DRAFT"
    /\ request' = [request EXCEPT ![r] = [Idle EXCEPT !.pc = "approveOrder", !.order = o]]
    /\ UNCHANGED <<order, receipt, invoice, balance, ledger>>

ApproveWrite(r) ==
    /\ request[r].pc = "approveOrder"
    /\ order' = [order EXCEPT ![request[r].order].status = "APPROVED"]
    /\ request' = [request EXCEPT ![r] = Idle]
    /\ UNCHANGED <<receipt, invoice, balance, ledger>>

Cancellable(o) ==
    /\ order[o].status # "CANCELLED"
    /\ NothingConfirmed(o)
    /\ o \notin TermOrders => LiveInvoicesFor(o) = {}

CancelRead(r, o) ==
    /\ Begin("cancelOrder", r)
    /\ Cancellable(o)
    /\ request' = [request EXCEPT ![r] = [Idle EXCEPT !.pc = "cancelOrder", !.order = o]]
    /\ UNCHANGED <<order, receipt, invoice, balance, ledger>>

CancelWrite(r) ==
    /\ request[r].pc = "cancelOrder"
    /\ order' = [order EXCEPT ![request[r].order].status = "CANCELLED"]
    /\ request' = [request EXCEPT ![r] = Idle]
    /\ UNCHANGED <<receipt, invoice, balance, ledger>>

-----------------------------------------------------------------------------
\* A check fails, a deadlock or the timeout rolls back, or the process dies.
Abort(r) ==
    /\ request[r].pc # "idle"
    /\ request' = [request EXCEPT ![r] = Idle]
    /\ UNCHANGED <<order, receipt, invoice, balance, ledger>>

AutoReceipt(r) ==
    \/ \E o \in Orders, p \in Places, qty \in Quantities : AutoReceiptRead(r, o, p, qty)
    \/ \E x \in Receipts : AutoReceiptCommit(r, x)

TermReceipt(r) ==
    \/ \E x \in Receipts, o \in Orders, p \in Places, qty \in Quantities :
           TermReceiptCreate(r, x, o, p, qty)
    \/ \E x \in Receipts, p \in Places, qty \in Quantities : UpdateReceiptRead(r, x, p, qty)
    \/ UpdateReceiptWrite(r)
    \/ \E x \in Receipts : ConfirmReceiptRead(r, x)
    \/ ConfirmReceiptReadOrder(r)
    \/ ConfirmReceiptCommit(r)
    \/ \E x \in Receipts : VoidReceiptRead(r, x)
    \/ VoidReceiptReadBalance(r)
    \/ VoidReceiptCommit(r)

Invoice(r) ==
    \/ \E i \in Invoices, o \in Orders \cup {None}, items \in [Places -> 0 .. MaxQty] :
           InvoiceCheck(r, i, o, items)
    \/ \E i \in Invoices : VoidInvoiceCheck(r, i)
    \/ VoidInvoiceMark(r)
    \/ \E p \in Places : LineRead(r, p)
    \/ LineWrite(r)
    \/ InvoiceCommit(r)
    \/ \E i \in Invoices : PayInvoice(r, i)

\* approveMany and cancelMany take their orders through the same two steps, one
\* after another, and go on past those that are refused.
Approve(r) == (\E o \in Orders : ApproveRead(r, o)) \/ ApproveWrite(r)

Cancel(r) == (\E o \in Orders : CancelRead(r, o)) \/ CancelWrite(r)

Next ==
    \E r \in Requests :
        AutoReceipt(r) \/ TermReceipt(r) \/ Invoice(r) \/ Approve(r) \/ Cancel(r) \/ Abort(r)

Spec == Init /\ [][Next]_vars

-----------------------------------------------------------------------------
(* Properties                                                              *)

QtyRow == [physical : Int, pending : Int, posted : Int]
OrderRow == [status : OrderStatus, withdrawn : Int]
ReceiptRow == [status : ReceiptStatus, order : Orders \cup {None}, place : Places \cup {None},
               qty : 0 .. MaxQty]
InvoiceRow == [status : InvoiceStatus, order : Orders \cup {None},
               items : [Places -> 0 .. MaxQty], paid : BOOLEAN]
RequestState == [pc : Pcs, order : Orders \cup {None}, receipt : Receipts \cup {None},
                 invoice : Invoices \cup {None}, place : Places \cup {None}, qty : 0 .. MaxQty,
                 seen : OrderStatus \cup ReceiptStatus, sign : {1, -1},
                 items : [Places -> 0 .. MaxQty], read : QtyRow, written : SUBSET Places,
                 after : [Places -> QtyRow]]

\* Every row and every request in flight has the shape the code gives it.
TypeOK ==
    /\ order \in [Orders -> OrderRow]
    /\ receipt \in [Receipts -> ReceiptRow]
    /\ invoice \in [Invoices -> InvoiceRow]
    /\ balance \in [Places -> QtyRow]
    /\ ledger \in [Places -> QtyRow]
    /\ request \in [Requests -> RequestState]

\* No quantity of a balance ever goes below zero, although invoices and voids
\* check a balance they read earlier and then overwrite it.
NeverNegative ==
    \A p \in Places :
        balance[p].physical >= 0 /\ balance[p].pending >= 0 /\ balance[p].posted >= 0

\* What is physically there is either waiting for its invoice or posted.
PhysicalIsSplit ==
    \A p \in Places : balance[p].physical = balance[p].pending + balance[p].posted

\* The balance is the sum of the stock card (InventoryLedger), which is appended
\* to beside it.
BalanceIsLedger == balance = ledger

\* What the receipt x brought to the place p, and drew from the line of the order
\* o; what the invoice i has posted at p.
Brought(p) ==
    [x \in Receipts |-> IF receipt[x].status = "CONFIRMED" /\ receipt[x].place = p
                        THEN receipt[x].qty ELSE 0]
Drawn(o) == [x \in Receipts |-> IF x \in ConfirmedFor(o) THEN receipt[x].qty ELSE 0]
Billed(p) ==
    [i \in Invoices |-> IF invoice[i].status = "POSTED" THEN invoice[i].items[p] ELSE 0]

\* Stock is what the documents say: physical what confirmed receipts brought,
\* posted what invoices in force cover, and the withdrawnQty of an order line
\* what its confirmed receipts have drawn.
Received(o) == SumFunctionOnSet(Drawn(o), Receipts)
PhysicalIsReceived ==
    \A p \in Places : balance[p].physical = SumFunctionOnSet(Brought(p), Receipts)
PostedIsBilled ==
    \A p \in Places : balance[p].posted = SumFunctionOnSet(Billed(p), Invoices)
WithdrawnIsReceived == \A o \in Orders : order[o].withdrawn = Received(o)
StockIsDocuments == PhysicalIsReceived /\ PostedIsBilled /\ WithdrawnIsReceived

\* An order has one invoice in force (PURCHASE_ORDER_ALREADY_HAS_INVOICE), and
\* nobody has been paid for an invoice that was voided.
InvoicesInForce ==
    /\ \A o \in Orders : Cardinality(LiveInvoicesFor(o)) <= 1
    /\ \A i \in Invoices : invoice[i].status = "VOID" => ~invoice[i].paid

\* A cancelled order has brought no stock (PO_HAS_CONFIRMED_RECEIPTS); for
\* TERM orders, whose receipts are drafted first, see TermCancelledHasNoStock.
CancelledHasNoStock ==
    \A o \in Orders \ TermOrders : order[o].status = "CANCELLED" => ConfirmedFor(o) = {}

\* The message of the TERM cancellation: with a confirmed receipt it cannot be
\* cancelled (TERM_PURCHASE_ORDER_HAS_CONFIRMED_RECEIPT_CANNOT_CANCEL).
TermCancelledHasNoStock ==
    \A o \in TermOrders : order[o].status = "CANCELLED" => ConfirmedFor(o) = {}
(***************************************************************************)
(* The inductive invariants of the proofs.                                 *)
(***************************************************************************)

\* A request in flight works on rows that exist.
RequestOK ==
    \A r \in Requests : LET q == request[r] IN
        /\ q.pc \in {"autoReceipt", "confirmReceipt", "confirmReceiptWrite", "voidReceipt",
                     "voidReceiptWrite"} => q.order \in Orders /\ q.place \in Places
        /\ q.pc \in {"updateReceipt", "confirmReceipt", "confirmReceiptWrite", "voidReceipt",
                     "voidReceiptWrite"} => q.receipt \in Receipts
        /\ q.pc \in {"invoice", "invoiceLine", "voidInvoiceMark"} => q.invoice \in Invoices
        /\ q.pc \in {"updateReceipt", "invoiceLine"} => q.place \in Places
        /\ q.pc \in {"approveOrder", "cancelOrder"} => q.order \in Orders

\* A receipt of an order has a place.
ReceiptsPlaced == \A x \in Receipts : receipt[x].order \in Orders => receipt[x].place \in Places

\* What a request is about to write is not negative, whatever it has missed.
NonNegativeRow(b) == b.physical >= 0 /\ b.pending >= 0 /\ b.posted >= 0
WritesNonNegative ==
    \A r \in Requests : LET q == request[r] IN
        /\ q.pc = "voidReceiptWrite" =>
               LET next == VoidedBalance(q.read, UndoneQty(q.seen, q.qty))
               IN  next.physical >= 0 /\ next.pending >= 0
        /\ q.pc = "invoiceLine" =>
               /\ q.read.physical >= 0
               /\ NonNegative(Plus(q.read, LineDelta(q.sign, q.items[q.place])))
        /\ \A p \in q.written : NonNegativeRow(q.after[p])

\* Invoices and automatic receipts, but no void of a receipt: what has been
\* read or is about to be written is split as well.
NoReceiptVoid == "voidReceipt" \notin Operations
Split(b) == b.physical = b.pending + b.posted
WritesSplit ==
    \A r \in Requests : LET q == request[r] IN
        /\ q.pc \notin {"voidReceipt", "voidReceiptWrite"}
        /\ q.pc = "invoiceLine" => Split(q.read)
        /\ \A p \in q.written : Split(q.after[p])

\* One request at a time: what it has read is still so when it writes.
OneRequest == \A q, r \in Requests : q = r
ReadsCurrent ==
    \A r \in Requests : LET q == request[r] IN
        /\ q.pc \in {"voidReceiptWrite", "invoiceLine"} => q.read = balance[q.place]
        /\ \A p \in q.written : q.after[p] = Plus(balance[p], LineDelta(q.sign, q.items[p]))

\* So are the documents it has checked: the receipt it confirms, voids or edits,
\* the invoice it creates or voids, and the order.
Fits(x, q) == receipt[x].order = q.order /\ receipt[x].place = q.place /\ receipt[x].qty = q.qty
ReceiptCurrent(q) ==
    /\ q.pc = "updateReceipt" => receipt[q.receipt].status = "DRAFT"
    /\ q.pc \in {"confirmReceipt", "confirmReceiptWrite"} =>
           /\ receipt[q.receipt].status = "DRAFT"
           /\ q.order \in TermOrders
           /\ Fits(q.receipt, q)
    /\ q.pc \in {"voidReceipt", "voidReceiptWrite"} =>
           /\ q.seen \in {"DRAFT", "CONFIRMED"}
           /\ receipt[q.receipt].status = q.seen
           /\ Fits(q.receipt, q)
InvoiceCurrent(q) ==
    /\ q.pc = "voidInvoiceMark" => q.sign = -1
    /\ q.pc \in {"voidInvoiceMark", "invoice", "invoiceLine"} =>
           IF q.sign = -1
           THEN /\ invoice[q.invoice].status = "POSTED" /\ Unpaid(q.invoice)
                /\ invoice[q.invoice].order = q.order /\ invoice[q.invoice].items = q.items
           ELSE /\ invoice[q.invoice].status = "ABSENT"
                /\ q.order # None => NoLiveInvoice(q.order)
OrderCurrent(q) ==
    /\ q.pc = "autoReceipt" => Receivable(q.order) /\ q.seen = order[q.order].status
    /\ q.pc = "cancelOrder" => Cancellable(q.order)
ReceiptsCurrent == \A r \in Requests : ReceiptCurrent(request[r])
InvoicesCurrent == \A r \in Requests : InvoiceCurrent(request[r])
OrdersCurrent == \A r \in Requests : OrderCurrent(request[r])
DocumentsCurrent == ReceiptsCurrent /\ InvoicesCurrent /\ OrdersCurrent

IInv == TypeOK /\ RequestOK /\ ReceiptsPlaced /\ WritesNonNegative /\ NeverNegative
=============================================================================
