--------------------------- MODULE MCMessageStore ---------------------------
EXTENDS MessageStore, TLC

CONSTANTS m1, m2, g1, g2, r1, r2, a, b

MCChat == [m \in Messages |-> m]

Symmetry == Permutations(Goroutines) \union Permutations(Requests)
=============================================================================
