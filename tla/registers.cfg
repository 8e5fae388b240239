SPECIFICATION Spec
CONSTANTS
    r1 = r1 r2 = r2 n1 = n1 n2 = n2 n3 = n3 e1 = e1 u1 = u1 u2 = u2 s1 = s1 s2 = s2 g1 = g1
    view = view edit = edit code1 = code1
    q1 = q1 q2 = q2 q3 = q3 q4 = q4 q5 = q5 f1 = f1 f2 = f2 f3 = f3 bare = bare oneX = oneX letters = letters
    Clients = {r1, r2}
    Departments = {n1, n2, n3}
    Employees = {e1}
    Users = {u1, u2}
    Roles = {g1}
    Permissions = {view, edit}
    Sessions = {s1, s2}
    Entries = {u1, u2}
    Uses = {s1}
    Customers = {n1, n2, n3}
    Codes = {code1}
    Base = 3
    Pad = 1
    MaxNumber = 3
    HandTails = {bare, oneX, letters}
    Parsed <- TailParsed
    After <- TailAfter
    Addresses = {n1, n2, n3}
    Taxes = {n1, n2, n3}
    MaxDay = 3
    Bulletins = {n1, n2, n3}
    Items = {g1}
    MaxTime = 3
    MomentsADay = 2
    Rows = {q1, q2, q3, q4, q5}
    Ref <- RowRef
    Files = {f1, f2, f3}
    RowsOf <- StatementRows
    Readable = {q1, q2, q3, q4}
    BatchSize = 2
    Forms <- CustomerForms
    Costs = {u1, u2}
    Shipments = {g1}
    CostForms <- LogisticsForms
    PriceForms <- SheetForms
    Quotes <- PlattsQuotes
    Window = 1
    MaxLines = 2
    MaxInsertions = 5
    OrderLines <- LinesOrdered
    Scenarios <- RegisterScenarios
    None = None
INVARIANTS
    TreeShowsAll SessionsFollowRoles UsedEntryStays GeneratedCodeIsFree
    OneValueADay OnePriceAtATime DoneIsStored CostsHold PapersAddUp
PROPERTIES KeepsSchedule
SYMMETRY Interchangeable
CHECK_DEADLOCK FALSE
