CONSTANTS
    x1 = x1
    x2 = x2
    i1 = i1
    i2 = i2
    r1 = r1
    o1 = o1
    o2 = o2
    p1 = p1
    p2 = p2
    Orders = {o1, o2}
    TermOrders = {o1}
    Places = {p1, p2}
    Receipts = {x1, x2}
    Invoices = {i1, i2}
    Requests = {r1}
    Operations <- AllOperations
    MaxQty = 1
    Lots = {o2}
    OrderedQty = 2
    Due = 3
    None = None
SPECIFICATION OrdersSpec
CHECK_DEADLOCK FALSE
SYMMETRY IdSymmetry
INVARIANTS BalanceIsLedger StockIsDocuments InvoicesInForce CancelledHasNoStock PhysicalIsSplit ViewsAgree OfferedIsAccepted
