--------------------------- MODULE MCAccountAdmin ---------------------------
EXTENDS AccountAdmin, TLC

MCSymmetry == Permutations(Users) \cup Permutations(Requests)

MCRank == (SuperAdmin :> 100) @@ (ClassRepresentative :> 40)
=============================================================================
