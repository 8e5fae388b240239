----------------------------- MODULE TermPapers -----------------------------
(***************************************************************************)
(* What is added up for one TERM order: its shipments and logistics costs, *)
(* the price sheets of its first and last stage, and the order form made   *)
(* from the first.  The sheet of the director (BOSS_SHEET) takes in the    *)
(* confirmed logistics costs.  When a stage may be priced is TermPricing.  *)
(*                                                                         *)
(* Amounts are whole numbers, quotients rounded down; VAT is left out.     *)
(***************************************************************************)
EXTENDS Requests, Integers, Sequences, Functions
Seqs == INSTANCE SequencesExt

CONSTANTS
    Shipments,    \* ids a TermShipment row may get
    Costs,        \* ids a TermLogisticsCost row may get
    CostForms,    \* [rate, lines of amount and capitalized]; None in an update keeps what is there
    PriceForms,   \* CalculateTermPricingDto; qtys are those of the order's first lines
    Quotes,       \* the Platts quotes of the order's products, in order: [day, price]
    Window,       \* days before and after the base date whose quotes count
    MaxLines,     \* bound: a cost with more lines is not updated any more
    MaxInsertions,\* bound on the insertions of lines that are told apart
    OrderLines    \* lines the order may have: sequences of [ordered, withdrawn, price]

CostLine == [amount : Int, capitalized : BOOLEAN]
CostForm == [rate : Int \cup {None}, lines : (Seq(CostLine) \ {<<>>}) \cup {None}]
PriceForm ==
    [days : Seq(Int), base : Int \cup {None}, mops : Int, premium : Int, barrels : Int, fx : Int, fees : Int,
     insurance : Int \cup {None}, insuranceRate : Int, loss : Int \cup {None}, lossRate : Int,
     deduction : Int, tank : Int, perLiter : Int, costs : Seq(Int), qtys : Seq(Int \cup {None})]
OrderLine == [ordered : Int, withdrawn : Int, price : Int]
ASSUME PapersAssumption ==
    /\ IsFiniteSet(Costs) /\ MaxInsertions \in Nat \ {0}
    /\ CostForms \subseteq CostForm /\ PriceForms \subseteq PriceForm
    /\ Quotes \in Seq([day : Int, price : Int]) /\ Window \in Nat
    /\ OrderLines \subseteq Seq(OrderLine)

VARIABLES
    shipment,     \* TermShipment.status
    cost,         \* the TermLogisticsCost table; lines are kept by the call that inserted them, and
                  \* filed says that the last form which named a shipment (or null) named one
    sheet,        \* the ESTIMATE and BOSS_SHEET stages
    document      \* the ACTIVE order form

paperTables == <<shipment, cost, sheet, document>>

ShipmentStatus == {"DRAFT", "CONFIRMED", "VOID"}
Insertions == 1 .. MaxInsertions
NoCost == [status |-> "ABSENT", shipment |-> None, filed |-> FALSE, rate |-> 1, total |-> 0,
           lines |-> [i \in Insertions |-> <<>>]]
Shipped(s) == shipment[s] # "ABSENT"
Kept(c) == cost[c].status # "ABSENT"
Total(numbers) == SumFunction(numbers)
Vnd(lines) == Total([i \in DOMAIN lines |-> lines[i].vnd])

(***************************************************************************)
(* Logistics costs                                                         *)
(***************************************************************************)
\* A foreign currency needs a rate, which is 1 for VND; no lines are refused.
LineData(lines, rate) ==
    [i \in DOMAIN lines |->
        [amount |-> lines[i].amount, capitalized |-> lines[i].capitalized, vnd |-> lines[i].amount * rate]]
InsertedIn(c) == {i \in Insertions : cost[c].lines[i] # <<>>}
LinesOf(c) == Seqs!FlattenSeq([i \in Insertions |-> cost[c].lines[i]])

\* ensureShipment takes a shipment that is VOID.
CreateCost(c, form, s) ==
    /\ AtOnce("cost")
    /\ ~Kept(c) /\ Cardinality({d \in Costs : Kept(d)}) < scenario.rows
    /\ s # None => Shipped(s)
    /\ form.lines # None /\ form.rate # None
    /\ LET data == LineData(form.lines, form.rate) IN
       cost' = [cost EXCEPT ![c] =
            [status |-> "DRAFT", shipment |-> s, filed |-> s # None, rate |-> form.rate, total |-> Vnd(data),
             lines |-> [NoCost.lines EXCEPT ![1] = data]]]
    /\ UNCHANGED <<shipment, sheet, document>>

\* Only POSTED is not editable, which nothing sets: confirmed and void costs are.  A form names a
\* shipment, or none with null, or leaves the cost the one it has.
UpdateCostRead(r, c, form, named, s) ==
    /\ Starts(r, "cost")
    /\ Kept(c) /\ Len(LinesOf(c)) <= MaxLines
    /\ s # None => named /\ Shipped(s)
    /\ Goes(r, [pc |-> "costDelete", cost |-> c, named |-> named, shipment |-> s,
                rate |-> IF form.rate = None THEN cost[c].rate ELSE form.rate,
                lines |-> IF form.lines = None THEN LinesOf(c) ELSE form.lines])
    /\ UNCHANGED paperTables

SeenLinesNone(c) == {}
SeenLines(c) == InsertedIn(c)
\* deleteMany chooses the lines when it starts; one that waits for another update misses the
\* lines which that one inserts.
UpdateCostDelete(r) ==
    /\ At(r, "costDelete")
    /\ Goes(r, [cost |-> request[r].cost, named |-> request[r].named, shipment |-> request[r].shipment,
                rate |-> request[r].rate, lines |-> request[r].lines, pc |-> "costWrite",
                seen |-> SeenLines(request[r].cost)])
    /\ UNCHANGED paperTables

InUse(c) == InsertedIn(c) \cup UNION {request[q].seen : q \in {p \in Clients : At(p, "costWrite")}}
UpdateCostWrite(r) ==
    LET q == request[r]
        old == cost[q.cost]
        data == LineData(q.lines, q.rate)
        free == Insertions \ InUse(q.cost)
        i == CHOOSE j \in free : \A k \in free : j <= k
    IN /\ At(r, "costWrite") /\ free # {}
       /\ Kept(q.cost) /\ (q.shipment # None => Shipped(q.shipment))
       /\ cost' = [cost EXCEPT ![q.cost] =
            [old EXCEPT !.shipment = IF q.named THEN q.shipment ELSE old.shipment,
                        !.filed = IF q.named THEN q.shipment # None ELSE old.filed,
                        !.rate = q.rate,
                        !.total = Vnd(data),
                        !.lines = [j \in Insertions |->
                            IF j = i THEN data ELSE IF j \in q.seen THEN <<>> ELSE old.lines[j]]]]
       /\ Ends(r) /\ UNCHANGED <<shipment, sheet, document>>

\* confirm asks for a draft with lines, void and remove for any that is not POSTED; each writes
\* what it decided then.
DecideCost(r, c, to) ==
    /\ Starts(r, "cost")
    /\ Kept(c)
    /\ to = "CONFIRMED" => cost[c].status = "DRAFT" /\ InsertedIn(c) # {}
    /\ Goes(r, [pc |-> "costDecided", cost |-> c, to |-> to])
    /\ UNCHANGED paperTables
WriteCost(r) ==
    LET c == request[r].cost to == request[r].to IN
    /\ At(r, "costDecided") /\ Kept(c)
    /\ cost' = [cost EXCEPT ![c] = IF to = "ABSENT" THEN NoCost ELSE [@ EXCEPT !.status = to]]
    /\ Ends(r) /\ UNCHANGED <<shipment, sheet, document>>

(***************************************************************************)
(* Shipments: create and update may give any status.                       *)
(***************************************************************************)
SetShipment(s, status) ==
    /\ AtOnce("shipment")
    /\ shipment' = [shipment EXCEPT ![s] = status]
    /\ UNCHANGED <<cost, sheet, document>>

CostsOf(s) == {c \in Costs : Kept(c) /\ cost[c].shipment = s}
RemoveShipmentRead(r, s) ==
    /\ Starts(r, "shipment")
    /\ Shipped(s)
    /\ Goes(r, [pc |-> "shipmentRemove", shipment |-> s, void |-> CostsOf(s) # {}])
    /\ UNCHANGED paperTables
\* A cost created meanwhile loses the shipment (onDelete SetNull).
RemoveShipmentWrite(r) ==
    LET s == request[r].shipment IN
    /\ At(r, "shipmentRemove") /\ Shipped(s)
    /\ shipment' = [shipment EXCEPT ![s] = IF request[r].void THEN "VOID" ELSE "ABSENT"]
    /\ cost' = [c \in Costs |->
            IF ~request[r].void /\ c \in CostsOf(s) THEN [cost[c] EXCEPT !.shipment = None] ELSE cost[c]]
    /\ Ends(r) /\ UNCHANGED <<sheet, document>>

(***************************************************************************)
(* Price sheets.  Premium and special tax are one number, so are the fees  *)
(* for inspection, transport and storage, and what is added per liter.     *)
(***************************************************************************)
PriceDays(form) ==
    IF form.days # <<>> \/ form.base = None THEN form.days
    ELSE [i \in {j \in DOMAIN Quotes : Quotes[j].day \in form.base - Window .. form.base + Window}
            |-> Quotes[i].price]
Average(form) ==
    LET days == PriceDays(form) IN IF DOMAIN days = {} THEN form.mops ELSE Total(days) \div Cardinality(DOMAIN days)

\* Number(line.withdrawnQty || line.orderedQty): a Decimal is never falsy, the ordered quantity
\* never stands in.
StageQty(given, line) == IF given = None THEN line.withdrawn ELSE given

CapitalizedLines(c) == {i \in DOMAIN LinesOf(c) : LinesOf(c)[i].capitalized}
LogisticsCosts ==
    SumFunctionOnSet([c \in Costs |-> Total([i \in CapitalizedLines(c) |-> LinesOf(c)[i].vnd])],
                     {c \in Costs : cost[c].status = "CONFIRMED"})
StageCosts(type, form) == Total(form.costs) + IF type = "BOSS_SHEET" THEN LogisticsCosts ELSE 0
CountedEarly(type, form) == Total(form.costs)
Counted(type, form) == StageCosts(type, form)

\* recalculateStage; the sum of the costs is given.
Recalculated(form, extra) ==
    LET usd == (Average(form) + form.premium) * form.barrels
        goods == usd * form.fx
        insurance == IF form.insurance = None THEN goods * form.insuranceRate ELSE form.insurance
        loss == IF form.loss = None THEN goods * form.lossRate ELSE form.loss
        bill == goods + insurance + form.fees + loss + extra - form.deduction
        selling == (IF form.tank > 0 THEN bill \div form.tank ELSE 0) + form.perLiter
    IN [usd |-> usd, insurance |-> insurance, loss |-> loss, bill |-> bill,
        selling |-> selling, temporary |-> selling * form.tank]

Priced(type, form, lines) ==
    LET computed == Recalculated(form, Counted(type, form)) IN
    [form |-> form, computed |-> computed, costs |-> StageCosts(type, form),
     lines |-> [i \in DOMAIN form.qtys |->
        LET qty == StageQty(form.qtys[i], lines[i]) IN [qty |-> qty, amount |-> qty * computed.selling]]]
CreateSheet(type, form, lines) ==
    /\ AtOnce(type)
    /\ DOMAIN form.qtys \subseteq DOMAIN lines
    /\ sheet' = [sheet EXCEPT ![type] = Priced(type, form, lines)]
    /\ UNCHANGED <<shipment, cost, document>>

\* The rows of buildSheetRows that are amounts.
SheetRows(s) ==
    [PAYMENT_AMOUNT_USD |-> s.computed.usd, FX_RATE |-> s.form.fx, INSURANCE |-> s.computed.insurance,
     COST |-> s.costs, TRANSPORT_LOSS |-> s.computed.loss, TRANSPORT_DEDUCTION |-> s.form.deduction,
     BILL_TOTAL_VND |-> s.computed.bill, TANK_QTY |-> s.form.tank,
     SELLING_UNIT_PRICE |-> s.computed.selling, TEMP_AMOUNT |-> s.computed.temporary]

(***************************************************************************)
(* The order form                                                          *)
(***************************************************************************)
EstimateLines(s, qty, total) ==
    LET unit == IF qty > 0 THEN total \div qty ELSE 0
        n == Len(s.lines)
    IN IF n = 0 THEN <<[qty |-> qty, amount |-> total]>>
       ELSE [i \in 1 .. n |->
                [qty |-> s.lines[i].qty,
                 amount |-> IF i < n THEN s.lines[i].qty * unit
                            ELSE total - unit * Total([j \in 1 .. n - 1 |-> s.lines[j].qty])]]
FromEstimate(s) ==
    LET qty == IF s.form.tank # 0 THEN s.form.tank ELSE Total([i \in DOMAIN s.lines |-> s.lines[i].qty])
    IN [total |-> s.computed.temporary, lines |-> EstimateLines(s, qty, s.computed.temporary)]
Direct(lines) ==
    LET priced == [i \in DOMAIN lines |-> [qty |-> lines[i].ordered, amount |-> lines[i].ordered * lines[i].price]]
    IN [total |-> Total([i \in DOMAIN priced |-> priced[i].amount]), lines |-> priced]

GenerateForm(lines) ==
    /\ AtOnce("document")
    /\ sheet["ESTIMATE"] = None => \A i \in DOMAIN lines : lines[i].price > 0
    /\ document' = IF sheet["ESTIMATE"] # None THEN FromEstimate(sheet["ESTIMATE"]) ELSE Direct(lines)
    /\ UNCHANGED <<shipment, cost, sheet>>

\* printBatch, asked to generate the forms that are missing.
PrintForm(lines) == document = None /\ GenerateForm(lines)

AbortPapers(r) ==
    /\ request[r].pc \in {"costDelete", "costWrite", "costDecided", "shipmentRemove"}
    /\ Abort(r) /\ UNCHANGED paperTables

PaperTablesInit ==
    /\ shipment = [s \in Shipments |-> "ABSENT"]
    /\ cost = [c \in Costs |-> NoCost]
    /\ sheet = [type \in {"ESTIMATE", "BOSS_SHEET"} |-> None]
    /\ document = None
PaperStep ==
    \/ \E c \in Costs, form \in CostForms, s \in Shipments \cup {None} : CreateCost(c, form, s)
    \/ \E s \in Shipments, status \in ShipmentStatus : SetShipment(s, status)
    \/ \E r \in Clients :
        \/ \E c \in Costs :
            \/ \E form \in CostForms, named \in BOOLEAN, s \in Shipments \cup {None} :
                    UpdateCostRead(r, c, form, named, s)
            \/ \E to \in {"CONFIRMED", "VOID", "ABSENT"} : DecideCost(r, c, to)
        \/ \E s \in Shipments : RemoveShipmentRead(r, s)
        \/ UpdateCostDelete(r) \/ UpdateCostWrite(r) \/ WriteCost(r) \/ RemoveShipmentWrite(r)
        \/ AbortPapers(r)
    \/ \E lines \in OrderLines :
        \/ \E type \in {"ESTIMATE", "BOSS_SHEET"}, form \in PriceForms : CreateSheet(type, form, lines)
        \/ GenerateForm(lines) \/ PrintForm(lines)
PaperSpec == RequestsInit /\ PaperTablesInit /\ [][PaperStep]_<<requestVars, paperTables>>

(***************************************************************************)
(* Properties                                                              *)
(***************************************************************************)
\* However updates of a cost overlap, its total is the sum of the lines one of them inserted; only
\* calls that overlap leave it more lines than that, or take away the shipment it was filed under by
\* the last form that names one or null (a shipment with costs is voided and not deleted).
CostsHold ==
    \A c \in Costs : Kept(c) =>
        /\ \E i \in InsertedIn(c) : cost[c].total = Vnd(cost[c].lines[i])
        /\ Alone => Cardinality(InsertedIn(c)) = 1
        /\ Alone /\ cost[c].filed => cost[c].shipment # None

\* A sheet adds up for the one who reads it: its rows make the bill, except the fees that have no
\* row; the bill and what is added per liter make the amount, where the price per liter is whole,
\* and its lines share it when they divide the tank; and the lines of an order form make its total
\* (recalculateStage, buildSheetRows, buildEstimateLines).
PapersAddUp ==
    /\ \A type \in {t \in DOMAIN sheet : sheet[t] # None} :
        LET s == sheet[type] row == SheetRows(s) IN
        /\ row.BILL_TOTAL_VND - s.form.fees =
                row.PAYMENT_AMOUNT_USD * row.FX_RATE + row.INSURANCE + row.COST + row.TRANSPORT_LOSS
                - row.TRANSPORT_DEDUCTION
        /\ row.TANK_QTY = 0 => row.TEMP_AMOUNT = 0
        /\ row.TANK_QTY > 0 /\ row.BILL_TOTAL_VND % row.TANK_QTY = 0 =>
                row.TEMP_AMOUNT = row.BILL_TOTAL_VND + s.form.perLiter * row.TANK_QTY
        /\ Total([i \in DOMAIN s.lines |-> s.lines[i].qty]) = row.TANK_QTY =>
                Total([i \in DOMAIN s.lines |-> s.lines[i].amount]) = row.TEMP_AMOUNT
    /\ document # None =>
        Total([i \in DOMAIN document.lines |-> document.lines[i].amount]) = document.total
=============================================================================
