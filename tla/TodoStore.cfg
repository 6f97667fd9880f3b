\* A failed save and a kill, and a version more than a client has read.
SPECIFICATION Spec
CONSTANTS
    Owners = {u1, u2}
    Texts = {a, b}
    Statuses = {0}
    Keep = Keep
    MaxId = 2
    MaxVersion = 2
    MaxFaults = 1
    MaxCrashes = 1
SYMMETRY Symmetry
INVARIANTS
    TypeOK
    VersionIdentifiesContent
    AckedNeverRegresses
    RemovedStaysRemoved
PROPERTIES
    LostOnlyWhenForgotten
