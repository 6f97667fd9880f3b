\* Two devices, two users and as many codes as devices: the search for one may not end.
SPECIFICATION Spec
CONSTANTS
    Devices = {d1, d2}
    Users = {u1, u2}
    Tokens = {t1, t2}
    Codes = {c1, c2}
    Secrets = {s1, s2, s3}
    Nobody = Nobody
    NoCode = NoCode
    NoSecret = NoSecret
    Absent = Absent
    TTL = 1
    MaxTime = 4
    MaxFaults = 1
    MaxCrashes = 2
SYMMETRY Symmetry
CHECK_DEADLOCK FALSE
INVARIANTS
    TypeOK
    CodeNamesOneDevice
    KeptSecretAccepted
    PromisedCodeBinds
    ToldOwnersOwn
    OwnersAreUsers
    TokenKeepsItsUser
    StuckOnlyWhenFull
