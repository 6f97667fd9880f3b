\* Three writers and a reader, one failing file operation, one kill. No symmetry:
\* the refinement and the liveness are temporal properties.
SPECIFICATION FairSpec
CONSTANTS
    Writers = {w1, w2, w3}
    Readers = {r1}
    NoOne = NoOne
    MaxFaults = 1
    MaxCrashes = 1
INVARIANTS
    TypeOK
    AckedDurable
    ReadsDurable
    RestartLoads
PROPERTIES
    ImplementsDurableState
    EveryRequestAnswered
