------------------------- MODULE MCAddressResolver -------------------------
EXTENDS AddressResolver, TLC

\* Both spellings of a mobile number, and a number with one spelling.
Number(area, ninth) == [area |-> area, mobile |-> TRUE, ninth |-> ninth]

FewNumbers == {Number(TRUE, TRUE), Number(TRUE, FALSE), Number(FALSE, FALSE)}

Symmetry == Permutations(Callers)
=============================================================================
