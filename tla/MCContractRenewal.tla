-------------------------- MODULE MCContractRenewal --------------------------
(* Three contracts, so that one may be renewed twice; two days.  A period   *)
(* may end before it starts: create does not compare.                      *)
EXTENDS ContractRenewal, TLC

CONSTANTS c1, c2, c3, u1, u2, r1, r2

MCContracts == {c1, c2, c3}
MCRequests == {r1, r2}

\* One at a time: renewals, imports and removals; assignments.  Two at a
\* time: renewals and removals.
MCScenarios ==
    {[calls |-> Calls \ {"assign", "unassign"}, edits |-> {"renewal", "customer"},
      statuses |-> {"Draft", "Active"}, requests |-> {r1}, periods |-> Days \X Days],
     [calls |-> {"create", "remove", "assign", "unassign"}, edits |-> {},
      statuses |-> {"Active", "Cancelled"}, requests |-> {r1}, periods |-> Days \X Days],
     [calls |-> {"create", "update", "remove"}, edits |-> {"renewal"},
      statuses |-> {"Active"}, requests |-> {r1, r2}, periods |-> {<<1, 1>>, <<2, 2>>}],
     [calls |-> {"create", "update"}, edits |-> {"renewal", "dates"},
      statuses |-> {"Active"}, requests |-> {r1}, periods |-> {<<1, 1>>, <<2, 2>>}]}

Symmetry == Permutations(MCContracts)
=============================================================================
