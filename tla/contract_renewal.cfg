CONSTANTS
    c1 = c1
    c2 = c2
    c3 = c3
    u1 = u1
    u2 = u2
    r1 = r1
    r2 = r2
    Contracts <- MCContracts
    Customers = {u1}
    MaxDay = 2
    ExpiringIn = 1
    ExpiredWithin = 1
    Requests <- MCRequests
    Scenarios <- MCScenarios
    None = None
SPECIFICATION Spec
CHECK_DEADLOCK FALSE
SYMMETRY Symmetry
INVARIANTS RenewedIsNotReported RenewalFollows NoOverlap
