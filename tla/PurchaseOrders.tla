--------------------------- MODULE PurchaseOrders ---------------------------
(***************************************************************************)
(* The views PurchaseOrdersService gives of an order: the summary of a     *)
(* list row (buildPoSummary) and its tab (matchBusinessState), the         *)
(* counters of the tabs (getTabCounts) and the summary of the detail page, *)
(* each computed on its own from the receipts, the invoices and their      *)
(* settlements.  StockPosting says how those change; here the settlement   *)
(* of an invoice gets the amount that has been paid.                       *)
(***************************************************************************)
EXTENDS StockPosting

CONSTANTS
    Lots,          \* orders of type LOT, received in parts; the others are SINGLE
    OrderedQty,    \* of each order's line
    Due            \* what each invoice comes to, in units of 0.01

ASSUME ViewsAssumption == Lots \subseteq Orders /\ OrderedQty \in Nat /\ Due \in Nat \ {0}

VARIABLE settled   \* amountSettled of the settlement of each invoice

viewVars == <<vars, settled>>

OrdersInit == Init /\ settled = [i \in Invoices |-> 0]

\* The first payment of an invoice is of any amount.
StockStep ==
    /\ Next
    /\ \E amount \in 1 .. Due :
           settled' = [i \in Invoices |-> IF invoice'[i].paid /\ ~invoice[i].paid THEN amount
                                          ELSE settled[i]]

PayMore(i) ==
    /\ "payInvoice" \in Operations
    /\ invoice[i].status = "POSTED" /\ invoice[i].paid
    /\ \E amount \in 1 .. Due - settled[i] : settled' = [settled EXCEPT ![i] = @ + amount]
    /\ UNCHANGED vars

OrdersNext == StockStep \/ \E i \in Invoices : PayMore(i)
OrdersSpec == OrdersInit /\ [][OrdersNext]_viewVars

-----------------------------------------------------------------------------
HasReceipt(o) == ConfirmedFor(o) # {}

\* status: { not: VOID }
InvoicesOf(o) == {i \in Invoices : invoice[i].status \notin {"ABSENT", "VOID"} /\ invoice[i].order = o}
HasInvoice(o) == InvoicesOf(o) # {}

TotalDue(o) == Cardinality(InvoicesOf(o)) * Due
TotalSettled(o) == SumFunctionOnSet(settled, InvoicesOf(o))

\* A settlement is SETTLED once its amount is reached (SettlementAllocation).
IsSettled(i) == settled[i] >= Due

\* The list goes by the status of the settlements,
ListPayment(o) ==
    IF HasInvoice(o) /\ \A i \in InvoicesOf(o) : IsSettled(i) THEN "PAID"
    ELSE IF TotalSettled(o) > 0 THEN "PARTIALLY_PAID" ELSE "UNPAID"

\* the detail by their amounts, to the cent.
DetailPayment(o) ==
    IF TotalSettled(o) > 0 /\ TotalSettled(o) + 1 >= TotalDue(o) THEN "PAID"
    ELSE IF TotalSettled(o) > 0 THEN "PARTIALLY_PAID" ELSE "UNPAID"

Remaining(o) == IF OrderedQty > Received(o) THEN OrderedQty - Received(o) ELSE 0

CanReceive(o) ==
    /\ order[o].status # "CANCELLED"
    /\ ~HasInvoice(o)
    /\ Remaining(o) > 0
    /\ o \notin Lots => ~HasReceipt(o)

CanCancelInvoiced(o) == ~HasReceipt(o) /\ order[o].status # "CANCELLED"
CanCancel(o) == ~HasInvoice(o) /\ ~HasReceipt(o) /\ order[o].status # "CANCELLED"

BusinessStatus(o) ==
    CASE order[o].status = "CANCELLED" -> "CANCELLED"
      [] order[o].status # "CANCELLED" /\ ListPayment(o) # "UNPAID" -> ListPayment(o)
      [] order[o].status # "CANCELLED" /\ ListPayment(o) = "UNPAID" ->
             IF HasInvoice(o) THEN "INVOICED"
             ELSE IF HasReceipt(o) THEN "RECEIVED"
             ELSE IF order[o].status = "DRAFT" THEN "DRAFT" ELSE "APPROVED"

Tabs == {"PENDING_APPROVAL", "PENDING_RECEIPT", "PENDING_INVOICE", "PENDING_PAYMENT", "PAID", "CANCELLED"}

\* matchBusinessState, of one row of the list: commercial orders only.
Listed(o, tab) ==
    /\ o \notin TermOrders
    /\ CASE tab = "PENDING_APPROVAL" -> order[o].status = "DRAFT"
         [] tab = "PENDING_RECEIPT" -> /\ order[o].status \notin {"DRAFT", "CANCELLED"}
                                       /\ ~HasReceipt(o) /\ ~HasInvoice(o)
         [] tab = "PENDING_INVOICE" -> HasReceipt(o) /\ ~HasInvoice(o)
         [] tab = "PENDING_PAYMENT" -> HasInvoice(o) /\ ListPayment(o) # "PAID"
         [] tab = "PAID" -> ListPayment(o) = "PAID"
         [] tab = "CANCELLED" -> order[o].status = "CANCELLED"

CountedInInvoiced(o) ==
    (IF order[o].status = "DRAFT" THEN {"PENDING_APPROVAL"} ELSE {})
    \cup (IF HasReceipt(o) THEN {"PENDING_INVOICE"} ELSE {})
    \cup (IF HasInvoice(o) THEN {IF ListPayment(o) = "PAID" THEN "PAID" ELSE "PENDING_PAYMENT"} ELSE {})
\* getTabCounts: the counters an order is pushed to; TERM orders are counted too.
CountedIn(o) ==
    (IF order[o].status \in {"DRAFT", "CANCELLED"}
     THEN {IF order[o].status = "DRAFT" THEN "PENDING_APPROVAL" ELSE "CANCELLED"}
     ELSE IF ~HasReceipt(o) /\ ~HasInvoice(o) THEN {"PENDING_RECEIPT"} ELSE {})
    \cup (IF HasReceipt(o) /\ ~HasInvoice(o) THEN {"PENDING_INVOICE"} ELSE {})
    \cup (IF HasInvoice(o) /\ ListPayment(o) # "PAID" THEN {"PENDING_PAYMENT"} ELSE {})
    \cup (IF ListPayment(o) = "PAID" THEN {"PAID"} ELSE {})

-----------------------------------------------------------------------------
(* Properties                                                              *)

TabOf(business) ==
    CASE business = "APPROVED" -> "PENDING_RECEIPT"
      [] business = "RECEIVED" -> "PENDING_INVOICE"
      [] business \in {"INVOICED", "PARTIALLY_PAID"} -> "PENDING_PAYMENT"
      [] business = "PAID" -> "PAID"
      [] OTHER -> "none"

\* The views of an order agree, whatever receipts, invoices, voids and payments
\* it has had: the counter of a tab is the number of rows the tab lists, TERM
\* orders aside; an approved order is in one tab, that of its business status;
\* the list and the detail call the same orders paid, unless no more than the
\* cent the detail forgives is left to pay.
ViewsAgree ==
    \A o \in Orders :
        /\ o \notin TermOrders => CountedIn(o) = {tab \in Tabs : Listed(o, tab)}
        /\ order[o].status \in {"APPROVED", "IN_PROGRESS"} => CountedIn(o) = {TabOf(BusinessStatus(o))}
        /\ TotalDue(o) - TotalSettled(o) # 1 => DetailPayment(o) = ListPayment(o)

\* An order whose detail offers to cancel it can be cancelled, and one that
\* offers a receipt takes it, except that a DRAFT offers one too.
OfferedIsAccepted ==
    \A o \in Orders :
        /\ CanCancel(o) => Cancellable(o)
        /\ CanReceive(o) /\ order[o].status # "DRAFT" => Receivable(o)
=============================================================================
