\* Three requests; two calls make one weather. No symmetry: liveness is checked.
SPECIFICATION LifeSpec
CONSTANTS
    Requests = {r1, r2, r3}
    NoOne = NoOne
    TTL = 2
    Calls = 2
    MaxTime = 3
    Unusual = 2
INVARIANTS
    TypeOK
    AnswersFresh
    OneFetchPerTTL
    RefusedForCause
PROPERTIES
    NeverOlder
    EveryRequestAnswered
    DrainsWithoutLimit
