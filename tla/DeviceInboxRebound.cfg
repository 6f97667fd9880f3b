\* The device is deleted and bound to another user.
SPECIFICATION Spec
CONSTANTS
    Devices = {d1}
    Users = {u1, u2}
    Bodies = {b1, b2}
    Nobody = Nobody
    Gone = Gone
    MaxMessages = 2
    Limit = 1
    MaxId = 2
    MaxBinds = 2
    MaxFaults = 0
    MaxCrashes = 0
PROPERTIES
    OnlyItsOwnersMessages
