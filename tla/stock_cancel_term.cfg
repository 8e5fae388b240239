CONSTANTS
    x1 = x1
    x2 = x2
    i1 = i1
    i2 = i2
    r1 = r1
    r2 = r2
    o1 = o1
    o2 = o2
    p1 = p1
    p2 = p2
    Orders = {o1}
    TermOrders = {o1}
    Places = {p1}
    Receipts = {x1, x2}
    Invoices = {i1, i2}
    Requests = {r1}
    Operations <- TermReceiptsAndCancel
    MaxQty = 1
    None = None
SPECIFICATION Spec
CHECK_DEADLOCK FALSE
INVARIANT TermCancelledHasNoStock
