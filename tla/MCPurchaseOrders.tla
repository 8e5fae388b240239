-------------------------- MODULE MCPurchaseOrders --------------------------
(* Every operation on orders, receipts and invoices, one request at a time, *)
(* with what the purchase-order views make of it.                           *)
EXTENDS PurchaseOrders, TLC

CONSTANTS x1, x2, i1, i2, r1, o1, o2, p1, p2

AllOperations == {"autoReceipt", "termReceipt", "updateReceipt", "confirmReceipt",
                  "voidReceipt", "createInvoice", "voidInvoice", "payInvoice", "approveOrder",
                  "cancelOrder"}

IdSymmetry == Permutations({x1, x2}) \cup Permutations({i1, i2})
=============================================================================
