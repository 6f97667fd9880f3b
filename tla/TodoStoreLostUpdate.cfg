\* One failed save and one kill.
SPECIFICATION Spec
CONSTANTS
    Owners = {u1}
    Texts = {a, b}
    Statuses = {0}
    Keep = Keep
    MaxId = 2
    MaxVersion = 3
    MaxFaults = 1
    MaxCrashes = 1
SYMMETRY TextSymmetry
PROPERTIES
    NoLostUpdate
