SPECIFICATION FairSpec
CONSTANTS
    c1 = c1
    c2 = c2
    Callers = {c1, c2}
    MaxChallenges = 3
    Consumer = Consumer
    NoOne = NoOne
INVARIANTS
    AssertionOnce
    CommandsOwnTheirStates
PROPERTY
    ConfirmationProceeds
    KeepsPasskeyContract
CHECK_DEADLOCK FALSE
