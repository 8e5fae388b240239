CONSTANTS
    s1 = s1
    s2 = s2
    t1 = t1
    t2 = t2
    r1 = r1
    r2 = r2
    Settlements <- MCSettlements
    BankTxns <- MCTxns
    Requests = {r1, r2}
    Operations <- AllocateOnly
    MaxAmount = 2
    NoSettlement = NoSettlement
    NoTxn = NoTxn
SPECIFICATION Spec
CHECK_DEADLOCK FALSE
INVARIANT TxnNotOverAllocated

