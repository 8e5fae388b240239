-------------------------- MODULE SettlementLedger --------------------------
(***************************************************************************)
(* What the books of supplier payments promise, without requests, locks or *)
(* statuses: a payment takes one bank transaction and pays each settlement *)
(* it names once, and the settled amounts move by exactly what is paid.    *)
(***************************************************************************)
EXTENDS Integers

CONSTANTS Settlements, BankTxns, MaxAmount

VARIABLES
    paid,      \* paid[<<t, s>>]: what bank transaction t has paid of settlement s
    settled    \* settled[s]: what settlement s says has been paid

Init ==
    /\ paid = [p \in BankTxns \X Settlements |-> 0]
    /\ settled = [s \in Settlements |-> 0]

Pay(t, items) ==
    /\ \A s \in Settlements : items[s] > 0 => paid[<<t, s>>] = 0
    /\ paid' = [p \in BankTxns \X Settlements |->
                   IF p[1] = t /\ items[p[2]] > 0 THEN items[p[2]] ELSE paid[p]]
    /\ settled' = [s \in Settlements |-> settled[s] + items[s]]

Next == \E t \in BankTxns, items \in [Settlements -> 0 .. MaxAmount] : Pay(t, items)

Spec == Init /\ [][Next]_<<paid, settled>>

=============================================================================
