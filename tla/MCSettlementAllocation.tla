---------------------- MODULE MCSettlementAllocation ----------------------
(* Two settlements, two bank transactions; symmetric ids. *)
EXTENDS SettlementAllocation, TLC

CONSTANTS s1, s2, t1, t2, r1, r2

AllOperations == {"allocate", "confirm", "void", "remove", "matchItem"}
AllocateOnly == {"allocate"}

MCSettlements == {s1, s2}
MCTxns == {t1, t2}

Symmetry == Permutations(MCSettlements) \cup Permutations(MCTxns)
                \cup Permutations(Requests)
=============================================================================
