SPECIFICATION FlowSpec
CONSTANTS
    o1 = o1 o2 = o2 x1 = x1 x2 = x2 k1 = k1 k2 = k2 p1 = p1 p2 = p2 b1 = b1 b2 = b2 u1 = u1 u2 = u2
    Orders = {o1, o2}
    Receipts = {x1, x2}
    Runs = {k1, k2}
    PaymentRequests = {p1, p2}
    Batches = {b1, b2}
    Users = {u1, u2}
    Scenarios <- AllScenarios
    MaxLayers = 3
    MaxQty = 2
    None = None
SYMMETRY Symmetry
INVARIANTS
    FlowTypeOK StagesInOrder LayersAreFinal OldestFirst NextActionIsAccepted PaymentsAgree
CHECK_DEADLOCK FALSE
