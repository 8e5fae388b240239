----------------------------- MODULE Timelines -----------------------------
(***************************************************************************)
(* Tables with a value per period: addresses of a customer, environment    *)
(* taxes of a product; and with a value per day: the exchange rates of the *)
(* bank and the commodity quotes.  Days are counted, a call reads the rows *)
(* in one step and writes in another, as its transaction does.             *)
(***************************************************************************)
EXTENDS Requests

CONSTANTS
    Addresses,    \* ids of address rows, of one customer
    Taxes,        \* ids of environment tax rows, of one product
    MaxDay        \* bound on the days

ASSUME TimelinesAssumption ==
    /\ MaxDay \in Nat
    /\ None \notin Nat \cup Addresses \cup Taxes
    /\ None \notin [from : Nat, to : Nat \cup {None}]
    /\ None \notin [from : Nat, to : Nat \cup {None}, active : BOOLEAN]

VARIABLES
    address,      \* None or [from, to], to None in the open row
    tax,          \* None or [from, to, active]
    rate,         \* of each day: None or [source, of], of the day the bank published it
    quoted,       \* the days with a commodity quote
    today

timelineTables == <<address, tax, rate, quoted, today>>

Days == 1 .. MaxDay
Addressed == {a \in Addresses : address[a] # None}
Open == {a \in Addressed : address[a].to = None}
LatestOf(rows) == CHOOSE a \in rows : \A b \in rows : address[b].from <= address[a].from
UpTo(to) == IF to = None THEN MaxDay + 1 ELSE to
Covers(row, day) == row.from <= day /\ day <= UpTo(row.to)

(***************************************************************************)
(* Addresses of a customer                                                 *)
(***************************************************************************)
CreateAddressRead(r, from) ==
    /\ Starts(r, "address")
    /\ Open # {} => from > address[LatestOf(Open)].from
    /\ Goes(r, [pc |-> "createAddress", from |-> from,
                current |-> IF Open = {} THEN None ELSE LatestOf(Open)])
    /\ UNCHANGED timelineTables
CreateAddressCommit(r, a) ==
    /\ At(r, "createAddress")
    /\ LET current == request[r].current from == request[r].from IN
        /\ a \notin Addressed /\ (current # None => current \in Addressed)
        /\ address' = [b \in Addresses |->
                IF b = a THEN [from |-> from, to |-> None]
                ELSE IF b = current THEN [address[b] EXCEPT !.to = from - 1]
                ELSE address[b]]
    /\ Ends(r) /\ UNCHANGED <<tax, rate, quoted, today>>

\* rebuildTimeline: each row of the customer ends the day before the next one begins.
RebuildTimelineTouching(starts) ==
    [a \in DOMAIN starts |->
        LET later == {starts[b] : b \in {c \in DOMAIN starts : starts[c] > starts[a]}} IN
        IF later = {} THEN None ELSE CHOOSE d \in later : \A e \in later : d <= e]
RebuildTimeline(starts) ==
    [a \in DOMAIN starts |->
        LET later == {starts[b] : b \in {c \in DOMAIN starts : starts[c] > starts[a]}} IN
        IF later = {} THEN None ELSE (CHOOSE d \in later : \A e \in later : d <= e) - 1]
Starting == [a \in Addressed |-> address[a].from]

\* The rows that rebuildTimeline updates are those the transaction has read.
UpdateAddressRead(r, a, from) ==
    /\ Starts(r, "address")
    /\ a \in Addressed
    /\ from # None => \A b \in Addressed \ {a} : address[b].from # from
    /\ Goes(r, [pc |-> "updateAddress",
                starts |-> IF from = None THEN Starting ELSE [Starting EXCEPT ![a] = from]])
    /\ UNCHANGED timelineTables
RemoveAddressRead(r, a) ==
    /\ Starts(r, "address")
    /\ a \in Addressed
    /\ Goes(r, [pc |-> "removeAddress", address |-> a,
                starts |-> [b \in Addressed \ {a} |-> address[b].from]])
    /\ UNCHANGED timelineTables
WriteTimeline(r, removed) ==
    /\ DOMAIN request[r].starts \cup removed \subseteq Addressed
    /\ address' = [a \in Addresses |->
            IF a \in DOMAIN request[r].starts
            THEN [from |-> request[r].starts[a], to |-> RebuildTimeline(request[r].starts)[a]]
            ELSE IF a \in removed THEN None ELSE address[a]]
    /\ Ends(r) /\ UNCHANGED <<tax, rate, quoted, today>>
UpdateAddressCommit(r) == At(r, "updateAddress") /\ WriteTimeline(r, {})
RemoveAddressCommit(r) == At(r, "removeAddress") /\ WriteTimeline(r, {request[r].address})

\* getAddressAt
AddressAt(day) ==
    LET rows == {a \in Addressed : Covers(address[a], day)} IN
    IF rows = {} THEN None ELSE LatestOf(rows)

(***************************************************************************)
(* Environment taxes                                                       *)
(***************************************************************************)
Taxed == {t \in Taxes : tax[t] # None}
TaxRows == {row \in [from : Days, to : Days \cup {None}, active : BOOLEAN] : row.from <= UpTo(row.to)}
AssertNoOverlap(row, self) ==
    row.active => \A t \in Taxed \ {self} :
        ~(tax[t].active /\ tax[t].from <= UpTo(row.to) /\ UpTo(tax[t].to) >= row.from)

CreateTaxRead(r, row) ==
    /\ Starts(r, "tax")
    /\ AssertNoOverlap(row, None)
    /\ Goes(r, [pc |-> "createTax", row |-> row])
    /\ UNCHANGED timelineTables
CreateTaxCommit(r, t) ==
    /\ At(r, "createTax") /\ t \notin Taxed
    /\ tax' = [tax EXCEPT ![t] = request[r].row]
    /\ Ends(r) /\ UNCHANGED <<address, rate, quoted, today>>
\* Fields that are not given are those of the row that was read.
UpdateTaxRead(r, t, row) ==
    /\ Starts(r, "tax")
    /\ t \in Taxed /\ AssertNoOverlap(row, t)
    /\ Goes(r, [pc |-> "updateTax", tax |-> t, row |-> row])
    /\ UNCHANGED timelineTables
UpdateTaxCommit(r) ==
    /\ At(r, "updateTax") /\ request[r].tax \in Taxed
    /\ tax' = [tax EXCEPT ![request[r].tax] = request[r].row]
    /\ Ends(r) /\ UNCHANGED <<address, rate, quoted, today>>
DeleteTax(t) ==
    /\ AtOnce("tax") /\ t \in Taxed
    /\ tax' = [tax EXCEPT ![t] = None]
    /\ UNCHANGED <<address, rate, quoted, today>>

(***************************************************************************)
(* Exchange rates and commodity quotes                                     *)
(***************************************************************************)
\* upsertRate: one row per day, the last writer's.
UpsertRate(day, row) == rate' = [rate EXCEPT ![day] = row] /\ UNCHANGED <<address, tax, quoted, today>>
UpsertManualRate(day) == AtOnce("rate") /\ UpsertRate(day, [source |-> "MANUAL", of |-> day])
\* The day is the one asked for, or today; the bank answers with the rate of the day it answers.
FetchFromVcbCall(r, day) ==
    /\ Starts(r, "rate")
    /\ Goes(r, [pc |-> "fetchRate", day |-> IF day = None THEN today ELSE day])
    /\ UNCHANGED timelineTables
FetchFromVcbStore(r) ==
    /\ At(r, "fetchRate")
    /\ UpsertRate(request[r].day, [source |-> "VCB_API", of |-> today])
    /\ Ends(r)
DeleteRate(day) == AtOnce("rate") /\ rate[day] # None /\ UpsertRate(day, None)

UpsertQuote(day) ==
    AtOnce("rate") /\ quoted' = quoted \cup {day} /\ UNCHANGED <<address, tax, rate, today>>
DeleteQuote(day) ==
    AtOnce("rate") /\ day \in quoted /\ quoted' = quoted \ {day} /\ UNCHANGED <<address, tax, rate, today>>

NextDay ==
    /\ "rate" \in scenario.calls /\ today < MaxDay
    /\ today' = today + 1
    /\ UNCHANGED <<requestVars, address, tax, rate, quoted>>

TimelinePcs == {"createAddress", "updateAddress", "removeAddress", "createTax", "updateTax", "fetchRate"}
AbortTimeline(r) == request[r].pc \in TimelinePcs /\ Abort(r) /\ UNCHANGED timelineTables

TimelineTablesInit ==
    /\ address = [a \in Addresses |-> None]
    /\ tax = [t \in Taxes |-> None]
    /\ rate = [d \in Days |-> None]
    /\ quoted = {}
    /\ today = 1
AddressStep ==
    \E r \in Clients :
        \/ \E from \in Days : CreateAddressRead(r, from)
        \/ \E a \in Addresses :
            \/ CreateAddressCommit(r, a) \/ RemoveAddressRead(r, a)
            \/ \E from \in Days \cup {None} : UpdateAddressRead(r, a, from)
        \/ UpdateAddressCommit(r) \/ RemoveAddressCommit(r)
TaxStep ==
    \/ \E t \in Taxes : DeleteTax(t)
    \/ \E r \in Clients :
        \/ \E row \in TaxRows : CreateTaxRead(r, row) \/ \E t \in Taxes : UpdateTaxRead(r, t, row)
        \/ \E t \in Taxes : CreateTaxCommit(r, t)
        \/ UpdateTaxCommit(r)
RateStep ==
    \/ \E day \in Days : UpsertManualRate(day) \/ DeleteRate(day) \/ UpsertQuote(day) \/ DeleteQuote(day)
    \/ \E r \in Clients : FetchFromVcbStore(r) \/ \E day \in Days \cup {None} : FetchFromVcbCall(r, day)
    \/ NextDay
TimelineStep == AddressStep \/ TaxStep \/ RateStep \/ \E r \in Clients : AbortTimeline(r)
TimelineSpec == RequestsInit /\ TimelineTablesInit /\ [][TimelineStep]_<<requestVars, timelineTables>>

(***************************************************************************)
(* Properties                                                              *)
(***************************************************************************)
\* A day has one value.  The addresses of a customer follow one another without a gap and without
\* an overlap, the last without an end, however rows are added, moved and removed; and the tax that
\* lookup takes is the only ACTIVE one of the product on that day, so that the order of its rows
\* does not matter.  The calls are not serialized: promised when they come one after another.
OneValueADay ==
    Alone =>
        /\ Cardinality(Open) = IF Addressed = {} THEN 0 ELSE 1
        /\ \A day \in Days :
            LET rows == {a \in Addressed : Covers(address[a], day)} IN
            /\ Cardinality(rows) <= 1
            /\ (\E a \in Addressed : address[a].from <= day) => rows # {}
            /\ Cardinality({t \in Taxed : tax[t].active /\ Covers(tax[t], day)}) <= 1
=============================================================================
