------------------------ MODULE SettlementAllocation ------------------------
(***************************************************************************)
(* Supplier settlements, bank transactions and the payment allocations     *)
(* that tie them: SupplierSettlementsService (create, allocate, void), the *)
(* part of BankingService that confirms and deletes bank transactions, and *)
(* what matching an item of a payment batch does to a bank transaction.    *)
(*                                                                         *)
(* Every HTTP request is a process.  PostgreSQL runs the code's            *)
(* transactions at READ COMMITTED: a statement sees what has committed, an *)
(* UPDATE waits for the row lock of another transaction and then works on  *)
(* the row that one left behind.  A request is therefore cut where the     *)
(* code reads: each read is a step of its own and the writes that follow   *)
(* the last read take effect at the commit.  The one transaction that      *)
(* reads again after it has written, confirmTransaction, keeps the rows it *)
(* has updated in "written", which are the row locks it holds.             *)
(***************************************************************************)
EXTENDS Integers, FiniteSets, FiniteSetsExt, Functions

CONSTANTS
    Settlements,   \* ids a SupplierSettlement row may get
    BankTxns,      \* ids a BankTransaction row may get
    Requests,      \* requests the web process may be serving at a time
    Operations,    \* the operations clients call
    MaxAmount,     \* bound: amounts are whole units in 1 .. MaxAmount
    NoSettlement, NoTxn

ASSUME MaxAmountAssumption == MaxAmount \in Nat
ASSUME NoneAssumption == NoSettlement \notin Settlements /\ NoTxn \notin BankTxns
ASSUME FiniteAssumption == IsFiniteSet(Settlements) /\ IsFiniteSet(BankTxns)

VARIABLES
    settlement,    \* the SupplierSettlement table
    bankTxn,       \* the BankTransaction table
    allocated,     \* PaymentAllocation.allocatedAmount; 0 where there is no row
    request,       \* what each request has read and written so far
    paidByBatch    \* history: the bank transactions matchItem has taken for a batch item

vars == <<settlement, bankTxn, allocated, request, paidByBatch>>

Amounts == 1 .. MaxAmount
SettlementStatus == {"OPEN", "PARTIAL", "SETTLED", "VOID"}
BankTxnMatchStatus == {"UNMATCHED", "MANUAL_MATCHED", "PARTIAL_MATCHED"}
BankTxnDirection == {"IN", "OUT"}
Pcs == {"idle", "allocateTxn", "allocateWrite", "confirm", "confirmItem",
        "voidWrite", "removeDelete", "matchItem"}

SettlementExists(s) == settlement[s].status # "ABSENT"
TxnExists(t) == bankTxn[t].matchStatus \notin {"ABSENT", "DELETED"}
SettlementAllocated(s) == SumFunctionOnSet([t \in BankTxns |-> allocated[<<t, s>>]], BankTxns)
TxnAllocated(t) == SumFunctionOnSet([s \in Settlements |-> allocated[<<t, s>>]], Settlements)
ItemsTotal(items) == SumFunctionOnSet(items, Settlements)
NoItems == [s \in Settlements |-> 0]

Idle == [pc |-> "idle", txn |-> NoTxn, items |-> NoItems, cur |-> NoSettlement,
         written |-> {}, settledRead |-> 0, nextMatch |-> "UNMATCHED", ids |-> {}]

(***************************************************************************)
(* Row locks.  A settlement row is locked by the confirmation that has     *)
(* updated it; the foreign key of the allocations it has inserted also     *)
(* keeps the bank transaction from being deleted.                          *)
(***************************************************************************)
SettlementLocked(s, r) == \E q \in Requests \ {r} : s \in request[q].written
TxnReferenced(t, r) ==
    \E q \in Requests \ {r} : request[q].written # {} /\ request[q].txn = t

(***************************************************************************)
(* Checks and computations the handlers share.  The operators whose name   *)
(* ends in a slip (Ignoring..., ...Always, ...Stale) are used by no action: *)
(* they are what the definition below them would be after a plausible      *)
(* mistake, and each is the mutant of a property.                          *)
(***************************************************************************)
FitsSettlementIgnoringPaid(s, amount, settledRead) == amount <= settlement[s].amountTotal
\* The amount fits the settlement whose amountSettled was read as given.
FitsSettlement(s, amount, settledRead) ==
    amount <= settlement[s].amountTotal - settledRead

NoAllocationYetAlways(t, s) == TRUE
\* @@unique([bankTransactionId, settlementId]) on PaymentAllocation.
NoAllocationYet(t, s) == allocated[<<t, s>>] = 0

Unallocated(s) == \A t \in BankTxns : allocated[<<t, s>>] = 0

RemovableIgnoringMatch(t) == TxnExists(t) /\ ~bankTxn[t].isConfirmed
RemovableIgnoringConfirmed(t) == TxnExists(t)
Removable(t) == /\ bankTxn[t].matchStatus = "UNMATCHED"
                /\ ~bankTxn[t].isConfirmed
                /\ \A s \in Settlements : allocated[<<t, s>>] = 0

MatchStatusForSettlement(total, amount) == IF total >= amount THEN "SETTLED" ELSE "PARTIAL"
MatchStatusForLoose(total, amount) ==
    IF total + 1 >= amount THEN "MANUAL_MATCHED" ELSE "PARTIAL_MATCHED"
MatchStatusFor(total, amount) ==
    IF total >= amount THEN "MANUAL_MATCHED" ELSE "PARTIAL_MATCHED"

IncrementedStale(row, amount) ==
    [row EXCEPT !.amountSettled = @ + amount,
                !.status = IF row.amountSettled >= row.amountTotal THEN "SETTLED"
                           ELSE IF row.amountSettled > 0 THEN "PARTIAL" ELSE "OPEN"]
\* The settlement row after "increment" and the status update that follows it.
Incremented(row, amount) ==
    LET nextSettled == row.amountSettled + amount
    IN  [row EXCEPT !.amountSettled = nextSettled,
                    !.status = IF nextSettled >= row.amountTotal THEN "SETTLED"
                               ELSE IF nextSettled > 0 THEN "PARTIAL" ELSE "OPEN"]

-----------------------------------------------------------------------------
Init ==
    /\ settlement = [s \in Settlements |->
                        [status |-> "ABSENT", amountTotal |-> 0, amountSettled |-> 0]]
    /\ bankTxn = [t \in BankTxns |->
                     [matchStatus |-> "ABSENT", direction |-> "OUT", amount |-> 0,
                      isConfirmed |-> FALSE]]
    /\ allocated = [p \in BankTxns \X Settlements |-> 0]
    /\ request = [r \in Requests |-> Idle]
    /\ paidByBatch = {}

\* SupplierSettlementsService.create, also what posting an invoice inserts.
CreateSettlement(s, total) ==
    /\ ~SettlementExists(s)
    /\ settlement' = [settlement EXCEPT ![s] =
                         [status |-> "OPEN", amountTotal |-> total, amountSettled |-> 0]]
    /\ UNCHANGED <<bankTxn, allocated, request, paidByBatch>>

\* A statement row inserted by importStatement.
ImportTxn(t, direction, amount) ==
    /\ bankTxn[t].matchStatus = "ABSENT"
    /\ bankTxn' = [bankTxn EXCEPT ![t] =
                      [matchStatus |-> "UNMATCHED", direction |-> direction,
                       amount |-> amount, isConfirmed |-> FALSE]]
    /\ UNCHANGED <<settlement, allocated, request, paidByBatch>>

Begin(op, r) == op \in Operations /\ request[r].pc = "idle"

-----------------------------------------------------------------------------
(* allocate: one amount of one bank transaction, inside one transaction.   *)

AllocateReadSettlement(r, s, t, amount) ==
    /\ Begin("allocate", r)
    /\ settlement[s].status \notin {"ABSENT", "VOID"}
    /\ request' = [request EXCEPT ![r] =
                      [Idle EXCEPT !.pc = "allocateTxn", !.txn = t, !.cur = s,
                                   !.items = [NoItems EXCEPT ![s] = amount],
                                   !.settledRead = settlement[s].amountSettled]]
    /\ UNCHANGED <<settlement, bankTxn, allocated, paidByBatch>>

AllocateReadTxn(r) ==
    LET t == request[r].txn
        s == request[r].cur
        amount == request[r].items[s]
    IN  /\ request[r].pc = "allocateTxn"
        /\ TxnExists(t)
        /\ bankTxn[t].direction = "OUT"
        /\ FitsSettlement(s, amount, request[r].settledRead)
        /\ amount <= bankTxn[t].amount - TxnAllocated(t)
        /\ request' = [request EXCEPT ![r].pc = "allocateWrite",
                                      ![r].nextMatch =
                                          MatchStatusFor(TxnAllocated(t) + amount,
                                                         bankTxn[t].amount)]
        /\ UNCHANGED <<settlement, bankTxn, allocated, paidByBatch>>

\* The new amountSettled and matchStatus are computed from what was read.
AllocateWrite(r) ==
    LET t == request[r].txn
        s == request[r].cur
        amount == request[r].items[s]
        newSettled == request[r].settledRead + amount
    IN  /\ request[r].pc = "allocateWrite"
        /\ ~SettlementLocked(s, r)
        /\ TxnExists(t)
        /\ NoAllocationYet(t, s)
        /\ allocated' = [allocated EXCEPT ![<<t, s>>] = amount]
        /\ settlement' = [settlement EXCEPT
                             ![s].amountSettled = newSettled,
                             ![s].status = IF newSettled >= settlement[s].amountTotal
                                           THEN "SETTLED" ELSE "PARTIAL"]
        /\ bankTxn' = [bankTxn EXCEPT
                          ![t].matchStatus = request[r].nextMatch]
        /\ request' = [request EXCEPT ![r] = Idle]
        /\ UNCHANGED paidByBatch

-----------------------------------------------------------------------------
(* confirmTransaction: the bank transaction is read and checked before the *)
(* database transaction starts; the items are then applied one by one.     *)

Confirmable(t, items) ==
    /\ TxnExists(t)
    /\ ~bankTxn[t].isConfirmed
    /\ bankTxn[t].direction = "OUT"
    /\ ItemsTotal(items) > 0
    /\ ItemsTotal(items) <= bankTxn[t].amount
Payable(s, amount) ==
    /\ settlement[s].status \in {"OPEN", "PARTIAL"}
    /\ FitsSettlement(s, amount, settlement[s].amountSettled)

ConfirmRead(r, t, items) ==
    /\ Begin("confirm", r)
    /\ Confirmable(t, items)
    /\ request' = [request EXCEPT ![r] =
                      [Idle EXCEPT !.pc = "confirm", !.txn = t, !.items = items]]
    /\ UNCHANGED <<settlement, bankTxn, allocated, paidByBatch>>

ConfirmCheckItem(r, s) ==
    /\ request[r].pc = "confirm"
    /\ request[r].items[s] > 0
    /\ s \notin request[r].written
    /\ Payable(s, request[r].items[s])
    /\ request' = [request EXCEPT ![r].pc = "confirmItem", ![r].cur = s]
    /\ UNCHANGED <<settlement, bankTxn, allocated, paidByBatch>>

\* UPDATE ... increment takes the row lock; the allocation row is inserted.
ConfirmApplyItem(r) ==
    LET s == request[r].cur
        t == request[r].txn
    IN  /\ request[r].pc = "confirmItem"
        /\ ~SettlementLocked(s, r)
        /\ TxnExists(t)
        /\ NoAllocationYet(t, s)
        /\ request' = [request EXCEPT ![r].pc = "confirm", ![r].cur = NoSettlement,
                                      ![r].written = @ \cup {s}]
        /\ UNCHANGED <<settlement, bankTxn, allocated, paidByBatch>>

ConfirmCommit(r) ==
    LET t == request[r].txn
        items == request[r].items
        written == request[r].written
    IN  /\ request[r].pc = "confirm"
        /\ written = {s \in Settlements : items[s] > 0}
        /\ settlement' = [s \in Settlements |->
                             IF s \in written THEN Incremented(settlement[s], items[s])
                                              ELSE settlement[s]]
        /\ allocated' = [p \in BankTxns \X Settlements |->
                            IF p[1] = t /\ p[2] \in written THEN items[p[2]]
                                                            ELSE allocated[p]]
        /\ bankTxn' = [bankTxn EXCEPT
                          ![t].matchStatus = MatchStatusFor(ItemsTotal(items),
                                                            bankTxn[t].amount),
                          ![t].isConfirmed = TRUE]
        /\ request' = [request EXCEPT ![r] = Idle]
        /\ UNCHANGED paidByBatch

\* getMatchSuggestions: the settlements it may offer for t and what a payment by t of s may be.
\* Neither the direction of t nor its confirmation is looked at where its document code names an
\* order, nor for advances: an incoming transaction may be offered any of them, and
\* confirmTransaction refuses it.  What else narrows the list (the order of the code, the 50 oldest)
\* and the score that sorts it are left out: any settlement with something to pay may be offered.
Suggested(t) ==
    {s \in Settlements : /\ settlement[s].status \in {"OPEN", "PARTIAL"}
                         /\ settlement[s].amountTotal - settlement[s].amountSettled > 0}
SuggestedAmountOfTotal(t, s) ==
    Min({bankTxn[t].amount - TxnAllocated(t), settlement[s].amountTotal})
SuggestedAmount(t, s) ==
    Min({bankTxn[t].amount - TxnAllocated(t), settlement[s].amountTotal - settlement[s].amountSettled})

-----------------------------------------------------------------------------
(* void: refused while the settlement has allocations.                     *)

VoidRead(r, s) ==
    /\ Begin("void", r)
    /\ SettlementExists(s)
    /\ Unallocated(s)
    /\ request' = [request EXCEPT ![r] = [Idle EXCEPT !.pc = "voidWrite", !.cur = s]]
    /\ UNCHANGED <<settlement, bankTxn, allocated, paidByBatch>>

VoidWrite(r) ==
    LET s == request[r].cur
    IN  /\ request[r].pc = "voidWrite"
        /\ ~SettlementLocked(s, r)
        /\ settlement' = [settlement EXCEPT ![s].status = "VOID"]
        /\ request' = [request EXCEPT ![r] = Idle]
        /\ UNCHANGED <<bankTxn, allocated, paidByBatch>>

-----------------------------------------------------------------------------
(* remove and deleteMultiple: a check, then a DELETE that is not in the    *)
(* same transaction and cascades to the allocations.                       *)

RemoveRead(r, ids) ==
    /\ Begin("remove", r)
    /\ \A t \in ids : Removable(t)
    /\ request' = [request EXCEPT ![r] = [Idle EXCEPT !.pc = "removeDelete", !.ids = ids]]
    /\ UNCHANGED <<settlement, bankTxn, allocated, paidByBatch>>

RemoveDelete(r) ==
    LET ids == request[r].ids
    IN  /\ request[r].pc = "removeDelete"
        /\ \A t \in ids : ~TxnReferenced(t, r)
        /\ bankTxn' = [t \in BankTxns |->
                          IF t \in ids THEN [bankTxn[t] EXCEPT !.matchStatus = "DELETED"]
                                       ELSE bankTxn[t]]
        /\ allocated' = [p \in BankTxns \X Settlements |->
                            IF p[1] \in ids THEN 0 ELSE allocated[p]]
        /\ request' = [request EXCEPT ![r] = Idle]
        /\ UNCHANGED <<settlement, paidByBatch>>

-----------------------------------------------------------------------------
(* matchItem of the payment batches: the bank transaction is read, and the *)
(* database transaction that marks the item paid calls it fully matched    *)
(* and confirmed, whatever its amount and without any allocation.  The     *)
(* item, its request and its bank instruction are in TermFlow.             *)

MatchItemRead(r, t) ==
    /\ Begin("matchItem", r)
    /\ TxnExists(t)
    /\ bankTxn[t].direction = "OUT"
    /\ request' = [request EXCEPT ![r] = [Idle EXCEPT !.pc = "matchItem", !.txn = t]]
    /\ UNCHANGED <<settlement, bankTxn, allocated, paidByBatch>>

MatchItemWrite(r) ==
    LET t == request[r].txn
    IN  /\ request[r].pc = "matchItem"
        /\ TxnExists(t)
        /\ bankTxn' = [bankTxn EXCEPT ![t].matchStatus = "MANUAL_MATCHED",
                                      ![t].isConfirmed = TRUE]
        /\ paidByBatch' = paidByBatch \cup {t}
        /\ request' = [request EXCEPT ![r] = Idle]
        /\ UNCHANGED <<settlement, allocated>>

-----------------------------------------------------------------------------
\* The request ends without effect: a check fails, a unique or foreign key is
\* violated, a deadlock or the transaction timeout rolls it back, the process dies.
Abort(r) ==
    /\ request[r].pc # "idle"
    /\ request' = [request EXCEPT ![r] = Idle]
    /\ UNCHANGED <<settlement, bankTxn, allocated, paidByBatch>>

Allocate(r) ==
    \/ \E s \in Settlements, t \in BankTxns, amount \in Amounts :
           AllocateReadSettlement(r, s, t, amount)
    \/ AllocateReadTxn(r)
    \/ AllocateWrite(r)

ConfirmTransaction(r) ==
    \/ \E t \in BankTxns, items \in [Settlements -> 0 .. MaxAmount] : ConfirmRead(r, t, items)
    \/ \E s \in Settlements : ConfirmCheckItem(r, s)
    \/ ConfirmApplyItem(r)
    \/ ConfirmCommit(r)

Void(r) == (\E s \in Settlements : VoidRead(r, s)) \/ VoidWrite(r)

Remove(r) == (\E ids \in (SUBSET BankTxns) \ {{}} : RemoveRead(r, ids)) \/ RemoveDelete(r)

MatchItem(r) == (\E t \in BankTxns : MatchItemRead(r, t)) \/ MatchItemWrite(r)

Next ==
    \/ \E s \in Settlements, total \in Amounts : CreateSettlement(s, total)
    \/ \E t \in BankTxns, d \in BankTxnDirection, amount \in Amounts : ImportTxn(t, d, amount)
    \/ \E r \in Requests : \/ Allocate(r) \/ ConfirmTransaction(r) \/ Void(r) \/ Remove(r)
                           \/ MatchItem(r) \/ Abort(r)

Spec == Init /\ [][Next]_vars

-----------------------------------------------------------------------------
(* Properties                                                              *)

SettlementRow == [status : SettlementStatus \cup {"ABSENT"}, amountTotal : 0 .. MaxAmount,
                  amountSettled : Nat]
BankTxnRow == [matchStatus : BankTxnMatchStatus \cup {"ABSENT", "DELETED"},
               direction : BankTxnDirection, amount : 0 .. MaxAmount, isConfirmed : BOOLEAN]
RequestState == [pc : Pcs, txn : BankTxns \cup {NoTxn}, items : [Settlements -> 0 .. MaxAmount],
                 cur : Settlements \cup {NoSettlement}, written : SUBSET Settlements,
                 settledRead : Nat, nextMatch : BankTxnMatchStatus, ids : SUBSET BankTxns]

\* Every row and every request in flight has the shape the code gives it.
TypeOK ==
    /\ settlement \in [Settlements -> SettlementRow]
    /\ bankTxn \in [BankTxns -> BankTxnRow]
    /\ allocated \in [BankTxns \X Settlements -> 0 .. MaxAmount]
    /\ request \in [Requests -> RequestState]
    /\ paidByBatch \subseteq BankTxns

\* The status of a settlement that is not void is the one its own amounts call
\* for, although confirmTransaction writes the amount and the status in two
\* UPDATEs and allocate computes both from an earlier read.
StatusAgrees ==
    \A s \in Settlements : LET row == settlement[s] IN
        row.status \in {"OPEN", "PARTIAL", "SETTLED"} =>
            /\ row.status = "SETTLED" <=> row.amountSettled >= row.amountTotal
            /\ row.status = "OPEN" <=> row.amountSettled = 0

\* A bank transaction that pays something never looks unmatched: remove and
\* deleteMultiple, which cascade to the allocations, rely on it.
AllocatedTxnIsMatched ==
    \A t \in BankTxns, s \in Settlements :
        allocated[<<t, s>>] > 0 => bankTxn[t].matchStatus \in {"MANUAL_MATCHED", "PARTIAL_MATCHED"}

\* MANUAL_MATCHED is written from totals computed earlier; unless an item of a payment batch has
\* taken the bank transaction, which allocates nothing of it, it is then really spent.
FullMatchIsFunded ==
    \A t \in BankTxns \ paidByBatch :
        bankTxn[t].matchStatus = "MANUAL_MATCHED" => TxnAllocated(t) >= bankTxn[t].amount

\* What a settlement says has been paid is what its allocations add up to
\* (amountSettled is a running total kept beside the PaymentAllocation rows);
\* a void one carries no payment, and no payment revives it.
SettledIsAllocated ==
    \A s \in Settlements :
        /\ settlement[s].amountSettled = SettlementAllocated(s)
        /\ settlement[s].status = "VOID" => settlement[s].amountSettled = 0

\* Nobody is paid more than is owed, whichever of allocate and
\* confirmTransaction pays.
NeverOverSettled ==
    \A s \in Settlements : settlement[s].amountSettled <= settlement[s].amountTotal

\* A payment taken from the suggestions of an outgoing transaction that is not confirmed yet, which
\* are computed from running totals and from rows, passes the checks of confirmTransaction and
\* spends no more than the transaction and the settlement have left.
SuggestionIsAccepted ==
    \A t \in BankTxns, s \in Settlements :
        /\ TxnExists(t) /\ bankTxn[t].direction = "OUT" /\ ~bankTxn[t].isConfirmed
        /\ s \in Suggested(t) /\ SuggestedAmount(t, s) > 0
        =>
            /\ Confirmable(t, [NoItems EXCEPT ![s] = SuggestedAmount(t, s)])
            /\ Payable(s, SuggestedAmount(t, s))
            /\ TxnAllocated(t) + SuggestedAmount(t, s) <= bankTxn[t].amount
            /\ SettlementAllocated(s) + SuggestedAmount(t, s) <= settlement[s].amountTotal

\* A confirmed bank transaction is there for good: no handler unconfirms it
\* and remove refuses it.
ConfirmedIsFinal ==
    [][\A t \in BankTxns : bankTxn[t].isConfirmed =>
           /\ bankTxn'[t].isConfirmed
           /\ bankTxn'[t].matchStatus # "DELETED"]_vars

\* allocate's comment, "sum allocations <= txn.amount".
TxnNotOverAllocated ==
    \A t \in BankTxns : TxnAllocated(t) <= bankTxn[t].amount

(***************************************************************************)
(* The inductive invariant of the proofs.                                  *)
(***************************************************************************)

\* A request in flight works on rows that exist, with an amount to pay, and
\* holds row locks only while its transaction is open.
RequestOK ==
    \A r \in Requests : LET q == request[r] IN
        /\ q.pc \in {"allocateTxn", "allocateWrite"} =>
               /\ q.txn \in BankTxns
               /\ q.cur \in Settlements
               /\ q.items[q.cur] > 0
               /\ SettlementExists(q.cur)
        /\ q.pc = "allocateWrite" => q.nextMatch \in {"MANUAL_MATCHED", "PARTIAL_MATCHED"}
        /\ q.pc \in {"confirm", "confirmItem", "matchItem"} => q.txn \in BankTxns
        /\ q.pc \in {"confirmItem", "voidWrite"} =>
               q.cur \in Settlements /\ SettlementExists(q.cur)
        /\ q.pc = "confirmItem" => q.items[q.cur] > 0
        /\ q.written # {} => q.pc \in {"confirm", "confirmItem"}

\* A settlement row updated by an open confirmation is updated by no other
\* request, and the allocation the update stands for is not there yet.
LocksOK ==
    \A r \in Requests : \A s \in request[r].written :
        /\ SettlementExists(s)
        /\ request[r].items[s] > 0
        /\ allocated[<<request[r].txn, s>>] = 0
        /\ \A q \in Requests \ {r} : s \notin request[q].written

\* Nothing has been paid on a settlement that does not exist.
AbsentUnpaid ==
    \A s \in Settlements : ~SettlementExists(s) => settlement[s].amountSettled = 0

\* A confirmation has something to pay, and once it has paid an item its bank transaction stays.
ConfirmReferences ==
    \A r \in Requests : LET q == request[r] IN
        q.pc \in {"confirm", "confirmItem"} =>
            /\ \E s \in Settlements : q.items[s] > 0
            /\ q.written # {} => TxnExists(q.txn)

\* What allocate has found to be spent with its amount is still so, unless the bank transaction
\* is gone: until then allocations are only added.
MatchReadFunded ==
    \A r \in Requests : LET q == request[r] IN
        q.pc = "allocateWrite" =>
            /\ bankTxn[q.txn].matchStatus # "ABSENT"
            /\ q.nextMatch = "MANUAL_MATCHED" /\ bankTxn[q.txn].matchStatus # "DELETED" =>
                   bankTxn[q.txn].amount <= TxnAllocated(q.txn) + q.items[q.cur]

\* One request at a time: what it has read is still so when it writes.
OneRequest == \A q, r \in Requests : q = r

AmountsCurrent ==
    \A r \in Requests : LET q == request[r] IN
        /\ q.pc \in {"allocateTxn", "allocateWrite"} =>
               q.settledRead = settlement[q.cur].amountSettled
        /\ q.pc = "allocateWrite" =>
               q.settledRead + q.items[q.cur] <= settlement[q.cur].amountTotal
        /\ q.pc = "confirmItem" =>
               settlement[q.cur].amountSettled + q.items[q.cur] <= settlement[q.cur].amountTotal
        /\ \A s \in q.written :
               settlement[s].amountSettled + q.items[s] <= settlement[s].amountTotal

ChecksCurrent ==
    \A r \in Requests : LET q == request[r] IN
        /\ q.pc = "voidWrite" => Unallocated(q.cur)
        /\ q.pc = "removeDelete" => \A t \in q.ids : Removable(t)

ReadsCurrent == AmountsCurrent /\ ChecksCurrent

\* ... and what it has found a bank transaction to have left, where clients pay in one of the two
\* ways only: confirmTransaction does not count what allocate has paid.
OneWayToPay == "allocate" \notin Operations \/ "confirm" \notin Operations
UnpaidUntilConfirmed ==
    "allocate" \notin Operations =>
        \A t \in BankTxns, s \in Settlements : ~bankTxn[t].isConfirmed => allocated[<<t, s>>] = 0
TxnHasLeft(q) ==
    /\ q.pc \in {"allocateTxn", "allocateWrite"} => "allocate" \in Operations
    /\ q.pc = "allocateWrite" =>
           /\ bankTxn[q.txn].matchStatus # "ABSENT"
           /\ TxnAllocated(q.txn) + q.items[q.cur] <= bankTxn[q.txn].amount
    /\ q.pc \in {"confirm", "confirmItem"} =>
           /\ "confirm" \in Operations
           /\ bankTxn[q.txn].matchStatus # "ABSENT"
           /\ ~bankTxn[q.txn].isConfirmed
           /\ ItemsTotal(q.items) <= bankTxn[q.txn].amount
FundsCurrent == UnpaidUntilConfirmed /\ \A r \in Requests : TxnHasLeft(request[r])

\* A confirmed bank transaction is there.
ConfirmedExists == \A t \in BankTxns : bankTxn[t].isConfirmed => TxnExists(t)

IInv == TypeOK /\ RequestOK /\ LocksOK /\ AbsentUnpaid /\ StatusAgrees /\ AllocatedTxnIsMatched

(***************************************************************************)
(* The ledger of payments this implements (SettlementLedger): paid amounts *)
(* and settled totals move together.                                       *)
(***************************************************************************)
Ledger == INSTANCE SettlementLedger WITH
              paid <- allocated,
              settled <- [s \in Settlements |-> settlement[s].amountSettled]

\* Every request sequence, however its steps interleave, is a sequence of
\* whole payments: a confirmation pays all its items or none, once.
LedgerSpec == Ledger!Spec
=============================================================================
