------------------------ MODULE MCInstanceConnection ------------------------
EXTENDS InstanceConnection, TLC

CONSTANTS t1, t2, c1, c2, c3, p1, p2

MCThreads == {t1, t2}
OneProcess == [t \in MCThreads |-> p1]
TwoProcesses == (t1 :> p1) @@ (t2 :> p2)

Symmetry1 == Permutations(MCThreads) \union Permutations(Clients)
Symmetry2 == Permutations(Clients)

\* A free record is never read again before NewClient resets it.
View == <<lock, device, hub, pairing, phase, thread,
          [c \in Clients |-> IF Free(c) THEN NoRecord ELSE client[c]]>>
=============================================================================
