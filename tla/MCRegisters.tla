---------------------------- MODULE MCRegisters ----------------------------
(* The registers and the accounts, each kind of use on its own small instance. *)
EXTENDS Access, Catalogue, Timelines, PriceTimeline, BankStatements, TermPapers, TLC

\* The same names serve as departments, customers, addresses and taxes: one table of them moves at a
\* time, and symmetry is cheap.
CONSTANTS r1, r2, n1, n2, n3, e1, u1, u2, s1, s2, g1, view, edit, code1, q1, q2, q3, q4, q5, f1, f2, f3, bare, oneX, letters

Use(clients, calls) == [clients |-> clients, calls |-> calls, rows |-> 3]
RegisterScenarios ==
    {Use({r1}, {"department", "employee"}),
     Use({r1}, {"account", "role", "permissions", "login", "logout"}),
     Use({r1, r2}, {"account", "role", "assign"}),
     Use({r1, r2}, {"employee", "account", "link"}),
     Use({r1}, {"account", "permissions", "role", "login", "crash"}),
     Use({r1}, {"register", "use"}),
     Use({r1}, {"customer", "location"}),
     Use({r1, r2}, {"code"}),
     Use({r1}, {"address"}),
     Use({r1, r2}, {"address"}),
     Use({r1}, {"tax"}),
     Use({r1}, {"rate"}),
     Use({r1}, {"importPrice", "voidPrice"}),
     Use({r1, r2}, {"importPrice", "voidPrice"}),
     Use({r1}, {"import", "removeTxn", "processSync"}),
     Use({r1, r2}, {"import", "processSync"}),
     [Use({r1}, PriceCalls) EXCEPT !.rows = 2],
     Use({r1}, {"cost", "shipment"}),
     [Use({r1, r2}, {"cost"}) EXCEPT !.rows = 1],
     Use({r1}, {"cost", "BOSS_SHEET"}),
     Use({r1}, {"ESTIMATE", "document"})}
Form(customer1, supplier, party) ==
    [flags |-> [p \in Parties |-> CASE p = "CUSTOMER" -> customer1 [] p = "SUPPLIER" -> supplier
                                     [] OTHER -> None],
     party |-> party]
CustomerForms == {Form(None, None, None), Form(None, TRUE, None), Form(FALSE, None, "SUPPLIER"),
                  Form(FALSE, FALSE, None)}
\* Texts of one digit of 0, 1, 2: nothing, "1x" and "abc" after the prefix.
TailParsed == (bare :> None) @@ (oneX :> 1) @@ (letters :> None)
TailAfter == (bare :> 0) @@ (oneX :> 1) @@ (letters :> 2)
\* Four rows, two of one reference, and one that cannot be read; a statement that repeats a row and
\* one that shares it.
RowRef == (q1 :> None) @@ (q2 :> code1) @@ (q3 :> code1) @@ (q4 :> None) @@ (q5 :> None)
StatementRows == (f1 :> <<q1, q2, q1>>) @@ (f2 :> <<q2, q1>>) @@ (f3 :> <<q4, q5, q3>>)
Cost(fx, lines) == [rate |-> fx, lines |-> lines]
Line(amount, capitalized) == [amount |-> amount, capitalized |-> capitalized]
LogisticsForms == {Cost(1, <<Line(2, TRUE)>>), Cost(2, <<Line(2, TRUE), Line(4, FALSE)>>), Cost(2, None)}
\* Prices and charges are even and the tank takes two liters at most: prices per liter are whole.
Sheet == [days |-> <<>>, base |-> None, mops |-> 3, premium |-> 1, barrels |-> 1, fx |-> 2, fees |-> 0,
          insurance |-> None, insuranceRate |-> 1, loss |-> None, lossRate |-> 0, deduction |-> 0,
          tank |-> 2, perLiter |-> 1, costs |-> <<>>, qtys |-> <<1, None>>]
SheetForms == {Sheet, [Sheet EXCEPT !.days = <<2, 4>>, !.insurance = 2, !.lossRate = 1],
               [Sheet EXCEPT !.base = 2, !.fees = 4, !.loss = 2, !.costs = <<2, 4>>],
               [Sheet EXCEPT !.tank = 0, !.qtys = <<2>>], [Sheet EXCEPT !.tank = 1, !.qtys = <<>>],
               [Sheet EXCEPT !.deduction = 40, !.barrels = 2]}
PlattsQuotes == <<[day |-> 0, price |-> 7], [day |-> 1, price |-> 4], [day |-> 3, price |-> 6]>>
Ordered(ordered, withdrawn, price) == [ordered |-> ordered, withdrawn |-> withdrawn, price |-> price]
LinesOrdered == {<<Ordered(2, 0, 3)>>, <<Ordered(1, 1, 2), Ordered(2, 1, 4)>>, <<Ordered(1, 0, 2), Ordered(1, 1, 0)>>}
Interchangeable ==
    Permutations({n1, n2, n3}) \cup Permutations({u1, u2}) \cup Permutations({s1, s2})

accountState == <<orgTables, accessTables>>
Init ==
    /\ RequestsInit /\ OrgTablesInit /\ AccessTablesInit /\ CatalogueTablesInit
    /\ TimelineTablesInit /\ BulletinInit /\ StatementTablesInit /\ PaperTablesInit
\* A use stays within one group of tables.
Calls(S) == scenario.calls \cap S # {}
Next ==
    \/ /\ Calls({"department", "employee", "account", "role", "permissions", "login"})
       /\ AccessNext /\ UNCHANGED <<catalogueTables, timelineTables, bulletin, statementTables, paperTables>>
    \/ /\ Calls({"register", "customer", "code"})
       /\ CatalogueStep /\ UNCHANGED <<accountState, timelineTables, bulletin, statementTables, paperTables>>
    \/ /\ Calls({"address", "tax", "rate"})
       /\ TimelineStep /\ UNCHANGED <<accountState, catalogueTables, bulletin, statementTables, paperTables>>
    \/ /\ Calls(PriceCalls)
       /\ PriceStep /\ UNCHANGED <<accountState, catalogueTables, timelineTables, statementTables, paperTables>>
    \/ /\ Calls({"import"})
       /\ StatementStep /\ UNCHANGED <<accountState, catalogueTables, timelineTables, bulletin, paperTables>>
    \/ /\ Calls({"cost", "ESTIMATE"})
       /\ PaperStep /\ UNCHANGED <<accountState, catalogueTables, timelineTables, bulletin, statementTables>>
Spec == Init /\ [][Next]_<<requestVars, accountState, catalogueTables, timelineTables, bulletin, statementTables, paperTables>>
=============================================================================
