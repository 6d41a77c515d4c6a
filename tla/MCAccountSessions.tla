------------------------- MODULE MCAccountSessions -------------------------
EXTENDS AccountSessions, TLC

MCSymmetry == Permutations(Sessions) \cup Permutations(Calls) \cup Permutations(Links)
=============================================================================
