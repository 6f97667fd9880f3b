\* Two devices share a log that keeps two messages; a failed save and a kill. No
\* symmetry: liveness is checked.
SPECIFICATION FairSpec
CONSTANTS
    Devices = {d1, d2}
    Users = {u1}
    Bodies = {b1}
    Nobody = Nobody
    Gone = Gone
    MaxMessages = 2
    Limit = 1
    MaxId = 3
    MaxBinds = 2
    MaxFaults = 1
    MaxCrashes = 1
INVARIANTS
    WellFormed
    AckedStaysAcked
    AckedWasShown
    NoneOvertaken
PROPERTIES
    PendingIsHandled
