SPECIFICATION FairSpec
CONSTANTS
    s1 = s1
    s2 = s2
    s3 = s3
    d1 = d1
    d2 = d2
    Setters = {s1, s2, s3}
    Dispatchers = {d1, d2}
    NoSetter = NoSetter
INVARIANTS
    EventsSurvive
    NoHalfConfiguration
PROPERTY
    
    KeepsConfigurationContract
