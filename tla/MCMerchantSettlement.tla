------------------------- MODULE MCMerchantSettlement -------------------------
(* Small instances of MerchantSettlement. *)
EXTENDS MerchantSettlement, TLC

CONSTANTS p1, p2

\* 100 and 60 pesewas: on the free plan the fees are 2.5 and 1.5, rounded up.
MCGrossOf == [p \in Payments |-> IF p = p1 THEN 100 ELSE 60]

SettlementSymmetry == Permutations(Settlements)
===============================================================================
