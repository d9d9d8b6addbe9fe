CONSTANTS
    Deliveries = {d1, d2}
    Workers = {w1, w2}
    NoDelivery = none
    MaxClaims = 4

SPECIFICATION Spec

SYMMETRY WorkerSymmetry

INVARIANTS
    SnapshotInHand
    GoneMeansOver

PROPERTY ImplementsContract

