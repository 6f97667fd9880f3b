\* The first save fails.
SPECIFICATION Spec
CONSTANTS
    Devices = {d1}
    Users = {u1}
    Tokens = {t1}
    Codes = {c1, c2}
    Secrets = {s1, s2}
    Nobody = Nobody
    NoCode = NoCode
    NoSecret = NoSecret
    Absent = Absent
    TTL = 1
    MaxTime = 1
    MaxFaults = 1
    MaxCrashes = 0
SYMMETRY Symmetry
CHECK_DEADLOCK FALSE
INVARIANTS
    FirstHelloAccepted
