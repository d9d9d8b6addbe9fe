SPECIFICATION Spec
INVARIANTS
    TypeOK
    StatusIsDocumented
    NeverRefusedInside
    
    
