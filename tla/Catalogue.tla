----------------------------- MODULE Catalogue -----------------------------
(***************************************************************************)
(* Registers of rows with a code that other rows refer to: bank purposes,  *)
(* contract types, customer groups, import templates, bank accounts; and   *)
(* customers with their generated codes and the locations of suppliers.    *)
(***************************************************************************)
EXTENDS Requests

CONSTANTS
    Entries, Uses, Customers, Codes,
    Base,         \* ten
    Pad,          \* the digits a generated number is padded to, four
    MaxNumber,    \* bound on the numbers of customer codes of the month
    HandTails,    \* tails typed by hand after the prefix of the month that are no padded number
    Parsed,       \* of each, the number parseInt reads, or None
    After,        \* of each, the number whose text is the last before it, or 0
    Forms         \* what forms say of the roles of a customer: [flags, party]

ASSUME CatalogueAssumption ==
    /\ Base \in Nat \ {0, 1} /\ Pad \in Nat \ {0} /\ MaxNumber \in Nat /\ None \notin Entries
    /\ HandTails \subseteq DOMAIN Parsed \cap DOMAIN After
    /\ \A h \in HandTails : Parsed[h] \in Nat \cup {None} /\ After[h] \in Nat

VARIABLES
    entry,        \* [kind, code, system] of each register row
    use,          \* rows that refer to one: [status, entry]
    customer,     \* [status, tail, roles]; the tail of a code of this month, or None
    location      \* of each supplier and code: ABSENT, ACTIVE or INACTIVE

catalogueTables == <<entry, use, customer, location>>

Kinds == {"purpose", "contractType", "group", "template", "bankAccount"}
NoEntry == [kind |-> "none", code |-> None, system |-> FALSE]
NoUse == [status |-> "ABSENT", entry |-> None]
NoCustomer == [status |-> "ABSENT", tail |-> None, roles |-> {}]

Is(x, kind) == x # None /\ entry[x].kind = kind
KeyTaken(kind, code, x) == \E y \in Entries \ {x} : Is(y, kind) /\ entry[y].code = code
UsesOf(xs) == {u \in Uses : use[u].status # "ABSENT" /\ use[u].entry \in xs}
LiveUsesOf(xs) == {u \in UsesOf(xs) : use[u].status = "LIVE"}

\* The look for a duplicate and the unique key refuse the same codes.
CreateEntry(kind, x, code, system) ==
    /\ AtOnce("register")
    /\ entry[x] = NoEntry /\ ~KeyTaken(kind, code, x)
    /\ entry' = [entry EXCEPT ![x] = [kind |-> kind, code |-> code, system |-> system]]
    /\ UNCHANGED <<use, customer, location>>
UpdateEntry(kind, x, code, system) ==
    /\ AtOnce("register")
    /\ Is(x, kind) /\ ~KeyTaken(kind, code, x)
    /\ entry' = [entry EXCEPT ![x] = [kind |-> kind, code |-> code, system |-> system]]
    /\ UNCHANGED <<use, customer, location>>
RemoveEntriesRead(r, xs, all) ==
    /\ Starts(r, "register")
    /\ Goes(r, [pc |-> "removeEntries", entries |-> xs, all |-> all])
    /\ UNCHANGED catalogueTables

CreatePurpose(x, code, system) == CreateEntry("purpose", x, code, system)
UpdatePurpose(x, code, system) ==
    /\ entry[x].system => code = entry[x].code
    /\ UpdateEntry("purpose", x, code, system)
RemovePurposeInUse(r, x) == Is(x, "purpose") /\ ~entry[x].system /\ RemoveEntriesRead(r, {x}, TRUE)
RemovePurpose(r, x) ==
    /\ Is(x, "purpose") /\ ~entry[x].system /\ UsesOf({x}) = {}
    /\ RemoveEntriesRead(r, {x}, TRUE)

CreateContractType(x, code) == CreateEntry("contractType", x, code, FALSE)
UpdateContractType(x, code) == UpdateEntry("contractType", x, code, FALSE)
\* Deleted customers are not counted; they lose the group when it goes.
NoLiveUse(xs) == LiveUsesOf(xs) = {}
RemoveContractType(r, x) == NoLiveUse({x}) /\ Is(x, "contractType") /\ RemoveEntriesRead(r, {x}, TRUE)
RemoveContractTypes(r, xs) ==
    /\ xs # {} /\ NoLiveUse(xs) /\ \A x \in xs : entry[x].kind \in {"contractType", "none"}
    /\ RemoveEntriesRead(r, xs, FALSE)

CreateGroup(x, code) == CreateEntry("group", x, code, FALSE)
UpdateGroup(x, code) == UpdateEntry("group", x, code, FALSE)
RemoveGroup(r, x) == Is(x, "group") /\ NoLiveUse({x}) /\ RemoveEntriesRead(r, {x}, TRUE)

CreateTemplate(x, code) == CreateEntry("template", x, code, FALSE)
UpdateTemplate(x, code) == UpdateEntry("template", x, code, FALSE)
CreateBankAccount(x, code) == CreateEntry("bankAccount", x, code, FALSE)
UpdateBankAccount(x, code) == UpdateEntry("bankAccount", x, code, FALSE)

\* The rows that refer to a deleted entry lose it, except that contracts keep their type from going.
RemoveEntriesCommit(r) ==
    /\ At(r, "removeEntries")
    /\ LET xs == request[r].entries IN
        /\ request[r].all => \A x \in xs : entry[x] # NoEntry
        /\ \A u \in UsesOf(xs) : ~Is(use[u].entry, "contractType")
        /\ entry' = [x \in Entries |-> IF x \in xs THEN NoEntry ELSE entry[x]]
        /\ use' = [u \in Uses |-> IF u \in UsesOf(xs) THEN [use[u] EXCEPT !.entry = None] ELSE use[u]]
    /\ Ends(r) /\ UNCHANGED <<customer, location>>

\* A bank transaction gets its purpose, a contract its type, a customer its group.
CreateUse(u, x) ==
    /\ AtOnce("use")
    /\ use[u] = NoUse /\ entry[x].kind \in {"purpose", "contractType", "group"}
    /\ use' = [use EXCEPT ![u] = [status |-> "LIVE", entry |-> x]]
    /\ UNCHANGED <<entry, customer, location>>
\* Only a customer keeps its row, and with it its group.
DeleteUse(u) ==
    /\ AtOnce("use")
    /\ use[u].status = "LIVE"
    /\ use' = [use EXCEPT ![u] = IF Is(use[u].entry, "group") THEN [@ EXCEPT !.status = "DELETED"] ELSE NoUse]
    /\ UNCHANGED <<entry, customer, location>>

(***************************************************************************)
(* Customers and locations of suppliers                                    *)
(***************************************************************************)
Parties == {"CUSTOMER", "SUPPLIER", "INTERNAL"}
Tails == {customer[c].tail : c \in Customers} \ {None}
Numbers == Tails \ HandTails
\* The digits a number is written with, padded.
PaddedDigits(n) == CHOOSE k \in Pad .. Pad + n : n < Base ^ k /\ \A j \in Pad .. k - 1 : Base ^ j <= n
\* The order of the texts of two numbers, as "desc" on the code sorts them: "9999" is after "10000".
TextBefore(m, n) ==
    LET k == PaddedDigits(m) l == PaddedDigits(n) IN
    \/ k = l /\ m < n
    \/ k < l /\ m * Base ^ (l - k) <= n
    \/ k > l /\ m < n * Base ^ (k - l)
LastCode == CHOOSE m \in Numbers : \A n \in Numbers \ {m} : TextBefore(n, m)
\* The hand-typed tail that sorts after all others; which one of two between the same numbers
\* does is left open.
SortsAfter(h, n) == n = After[h] \/ TextBefore(n, After[h])
LastHands ==
    {h \in Tails \cap HandTails :
        /\ \A n \in Numbers : SortsAfter(h, n)
        /\ \A g \in Tails \cap HandTails : ~TextBefore(After[h], After[g])}
\* A tail that is no number (parseInt: NaN) starts again at 1.
NumberAfter(h) == IF Parsed[h] = None THEN 1 ELSE Parsed[h] + 1
NextNumbersByCount == {Cardinality(Numbers) + 1}
NextNumbers ==
    IF LastHands # {} THEN {NumberAfter(h) : h \in LastHands}
    ELSE IF Numbers = {} THEN {1} ELSE {LastCode + 1}

\* A role that is not given follows the party type, or stays as it is.
RolesGiven(form, old) ==
    {p \in Parties : IF form.flags[p] # None THEN form.flags[p]
                     ELSE IF form.party # None THEN p = form.party ELSE p \in old}

\* A code of the month that is typed by hand, as generated ones are or not, or (None) another.
CreateCustomer(c, tail, form) ==
    /\ AtOnce(IF tail = None THEN "customer" ELSE "code")
    /\ customer[c].status = "ABSENT" /\ tail \notin Tails
    /\ LET roles == RolesGiven([form EXCEPT !.party = IF @ = None THEN "CUSTOMER" ELSE @], {}) IN
        /\ roles # {}
        /\ customer' = [customer EXCEPT ![c] = [status |-> "LIVE", tail |-> tail, roles |-> roles]]
    /\ UNCHANGED <<entry, use, location>>
GenerateCode(r) ==
    /\ Starts(r, "code")
    /\ \E next \in NextNumbers \cap 1 .. MaxNumber :
        Goes(r, [pc |-> "createCustomer", number |-> next])
    /\ UNCHANGED catalogueTables
\* The code has a unique key: when it is taken the call fails (AbortCatalogue).
CreateCustomerCommit(r, c) ==
    /\ At(r, "createCustomer")
    /\ customer[c].status = "ABSENT" /\ request[r].number \notin Tails
    /\ customer' = [customer EXCEPT ![c] =
            [status |-> "LIVE", tail |-> request[r].number, roles |-> {"CUSTOMER"}]]
    /\ Ends(r) /\ UNCHANGED <<entry, use, location>>
UpdateCustomer(c, form) ==
    /\ AtOnce("customer")
    /\ customer[c].status = "LIVE"
    /\ RolesGiven(form, customer[c].roles) # {}
    /\ customer' = [customer EXCEPT ![c].roles = RolesGiven(form, @)]
    /\ UNCHANGED <<entry, use, location>>
RemoveCustomer(c) ==
    /\ AtOnce("customer")
    /\ customer[c].status = "LIVE"
    /\ customer' = [customer EXCEPT ![c].status = "DELETED"]
    /\ UNCHANGED <<entry, use, location>>

AssertValidSuppliers(cs) ==
    cs # {} /\ \A c \in cs : customer[c].status = "LIVE" /\ "SUPPLIER" \in customer[c].roles
CreateLocations(cs, code, state) ==
    /\ AtOnce("location")
    /\ AssertValidSuppliers(cs)
    /\ location' = [location EXCEPT ![code] =
            [c \in Customers |-> IF c \in cs /\ @[c] = "ABSENT" THEN state ELSE @[c]]]
    /\ UNCHANGED <<entry, use, customer>>
\* The location of any supplier gives the code; without a state the rows keep theirs.
BatchUpdateLocations(of, cs, code, state) ==
    /\ AtOnce("location")
    /\ location[code][of] # "ABSENT" /\ AssertValidSuppliers(cs)
    /\ location' = [location EXCEPT ![code] =
            [c \in Customers |->
                IF c \notin cs THEN @[c]
                ELSE IF state # None THEN state
                ELSE IF @[c] = "ABSENT" THEN @[of] ELSE @[c]]]
    /\ UNCHANGED <<entry, use, customer>>
SetLocation(c, code, state) ==
    /\ AtOnce("location")
    /\ location[code][c] # "ABSENT"
    /\ location' = [location EXCEPT ![code][c] = state]
    /\ UNCHANGED <<entry, use, customer>>
DeactivateLocation(c, code) == SetLocation(c, code, "INACTIVE")
ActivateLocation(c, code) == SetLocation(c, code, "ACTIVE")

AbortCatalogue(r) ==
    request[r].pc \in {"removeEntries", "createCustomer"} /\ Abort(r) /\ UNCHANGED catalogueTables

CatalogueTablesInit ==
    /\ entry = [x \in Entries |-> NoEntry]
    /\ use = [u \in Uses |-> NoUse]
    /\ customer = [c \in Customers |-> NoCustomer]
    /\ location = [code \in Codes |-> [c \in Customers |-> "ABSENT"]]
RegisterStep ==
    \/ \E x \in Entries, code \in Codes :
        \/ \E system \in BOOLEAN : CreatePurpose(x, code, system) \/ UpdatePurpose(x, code, system)
        \/ CreateContractType(x, code) \/ UpdateContractType(x, code)
        \/ CreateGroup(x, code) \/ UpdateGroup(x, code)
        \/ CreateTemplate(x, code) \/ UpdateTemplate(x, code)
        \/ CreateBankAccount(x, code) \/ UpdateBankAccount(x, code)
    \/ \E r \in Clients :
        \/ \E x \in Entries : RemovePurpose(r, x) \/ RemoveContractType(r, x) \/ RemoveGroup(r, x)
        \/ \E xs \in SUBSET Entries : RemoveContractTypes(r, xs)
        \/ RemoveEntriesCommit(r)
    \/ \E u \in Uses : DeleteUse(u) \/ \E x \in Entries : CreateUse(u, x)
CustomerStep ==
    \/ \E c \in Customers :
        \/ \E form \in Forms :
            \/ UpdateCustomer(c, form)
            \/ \E tail \in {None} \cup 1 .. MaxNumber \cup HandTails : CreateCustomer(c, tail, form)
        \/ RemoveCustomer(c)
    \/ \E r \in Clients : GenerateCode(r) \/ \E c \in Customers : CreateCustomerCommit(r, c)
LocationStep ==
    \E code \in Codes, c \in Customers :
        \/ \E cs \in SUBSET Customers :
            \/ \E state \in {"ACTIVE", "INACTIVE"} : CreateLocations(cs, code, state)
            \/ \E state \in {"ACTIVE", "INACTIVE", None} : BatchUpdateLocations(c, cs, code, state)
        \/ DeactivateLocation(c, code) \/ ActivateLocation(c, code)
CatalogueStep ==
    RegisterStep \/ CustomerStep \/ LocationStep \/ \E r \in Clients : AbortCatalogue(r)
CatalogueSpec == RequestsInit /\ CatalogueTablesInit /\ [][CatalogueStep]_<<requestVars, catalogueTables>>

(***************************************************************************)
(* Properties                                                              *)
(***************************************************************************)
\* Deleting a purpose, a contract type or a customer group takes it from no row that is in use:
\* when calls come one after another, what a live row was given is still there.
UsedEntryStays ==
    Alone => \A u \in Uses : use[u].status = "LIVE" => use[u].entry # None

\* generateCode never answers the code of a generated form that is in use, deleted customers
\* counted: while the numbers of the month have the digits they are padded to (afterwards the order
\* of the codes as texts is not that of the numbers), and while a hand-typed code that sorts last
\* reads as a number no smaller than those before it.  A last code C202501ABC reads as none: 1 again.
GeneratedCodeIsFree ==
    /\ \A n \in Numbers \cup {After[h] : h \in LastHands} : n < Base ^ Pad
    /\ \A h \in LastHands : Parsed[h] # None /\ Parsed[h] >= After[h]
    => NextNumbers \cap Numbers = {}
=============================================================================
