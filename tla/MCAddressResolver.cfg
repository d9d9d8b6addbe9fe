SPECIFICATION Spec
SYMMETRY Symmetry
CONSTANTS
    Numbers <- FewNumbers
    c1 = c1
    c2 = c2
    Callers = {c1, c2}
    TTL = 1
    MaxTime = 2
    Nobody = Nobody
INVARIANTS
    AnswersWereConfirmed
    SpellingsAgree
