----------------------------- MODULE MCTermFlow -----------------------------
(* Small instances of TermFlow.  Pricing: two billed orders priced and consumed by one request at a
   time, and one order served by two: from the start on, with every call but consumption, and from
   the bill on, with consumption.  The flow, served by one user: one order from its creation to its
   end, and the payments of two orders under way.  DirectOrders leaves the pricing out. *)
EXTENDS TermFlow, TLC

CONSTANTS o1, o2, x1, x2, k1, k2, p1, p2, b1, b2, u1, u2

OneByOne(u) == [users |-> {u}, orders |-> {o1, o2}, billed |-> {o1, o2}, finals |-> {0, 2},
                layers |-> 3, calls |-> {"BILL_NORMALIZE", "FINAL", "consume"}]
TwoOnOrder == [users |-> {u1, u2}, orders |-> {o1}, billed |-> {}, finals |-> {0}, layers |-> 0,
               calls |-> StageTypes \cup {"APPROVED", "CANCELLED", "COMPLETED", "confirm", "void"}]
TwoOnLayers == [users |-> {u1, u2}, orders |-> {o1}, billed |-> {o1}, finals |-> {2}, layers |-> 3,
                calls |-> {"FINAL", "consume"}]
OneOrder(u) == [users |-> {u}, orders |-> {o1}, billed |-> {}, finals |-> {1}, layers |-> 1,
                calls |-> StageTypes \cup {"APPROVED", "approveAny", "CANCELLED", "COMPLETED",
                                           "confirm", "void", "update", "document",
                                           "request", "instruct", "adjust"}]
TwoPayments(u) == [users |-> {u}, orders |-> {o1, o2}, billed |-> {o1, o2}, finals |-> {1}, layers |-> 0,
                   calls |-> {"document", "request", "instruct", "match", "batch"}]
AllScenarios == {TwoOnOrder, TwoOnLayers}
                \cup UNION {{OneByOne(u), OneOrder(u), TwoPayments(u)} : u \in {u1, u2}}
DirectOrders == {[OneOrder(u) EXCEPT !.calls = @ \ (StageTypes \cup {"approveAny"})] : u \in {u1, u2}}

Symmetry == Permutations({x1, x2}) \cup Permutations({k1, k2}) \cup Permutations({p1, p2})
            \cup Permutations({u1, u2})
=============================================================================
