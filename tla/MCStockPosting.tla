--------------------------- MODULE MCStockPosting ---------------------------
(* Small instances of StockPosting: which operations run together. *)
EXTENDS StockPosting, TLC

CONSTANTS x1, x2, i1, i2, r1, r2, o1, o2, p1, p2

AllOperations == {"autoReceipt", "termReceipt", "updateReceipt", "confirmReceipt",
                  "voidReceipt", "createInvoice", "voidInvoice", "payInvoice", "approveOrder",
                  "cancelOrder"}
TermReceiptsAndCancel == {"termReceipt", "confirmReceipt", "cancelOrder"}

IdSymmetry == Permutations({x1, x2}) \cup Permutations({i1, i2})
RequestSymmetry == IdSymmetry \cup Permutations({r1, r2})
=============================================================================
