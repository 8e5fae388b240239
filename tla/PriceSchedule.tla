---------------------------- MODULE PriceSchedule ----------------------------
(***************************************************************************)
(* What a price list promises, without rows, statuses or ends: at each     *)
(* moment at most one bulletin is in force.                                *)
(***************************************************************************)
EXTENDS Integers

CONSTANTS Bulletins, MaxTime, None

VARIABLE schedule    \* schedule[t]: the bulletin in force at t, or None

Times == 1 .. MaxTime

Init == schedule = [t \in Times |-> None]

Starts(t) == schedule[t] # None /\ (t = 1 \/ schedule[t - 1] # schedule[t])

\* From t on b is in force, until the next bulletin starts; the one before t
\* lasts up to t.  Nothing that had a price before t gets another.
Insert(b, t) ==
    /\ \A u \in Times : schedule[u] # b
    /\ schedule' =
           [u \in Times |->
               IF u >= t /\ \A v \in t + 1 .. u : ~Starts(v) THEN b
               ELSE IF u < t /\ schedule[u] = None /\ (\E v \in 1 .. u : schedule[v] # None)
                             /\ \A v \in u .. t - 1 : schedule[v] = None
               THEN schedule[CHOOSE v \in 1 .. u : /\ schedule[v] # None
                                                   /\ \A w \in v + 1 .. u : schedule[w] = None]
               ELSE schedule[u]]

\* A bulletin is withdrawn and leaves a gap.
Withdraw(b) ==
    schedule' = [u \in Times |-> IF schedule[u] = b THEN None ELSE schedule[u]]

Next == \E b \in Bulletins : Withdraw(b) \/ \E t \in Times : Insert(b, t)

Spec == Init /\ [][Next]_schedule
=============================================================================
