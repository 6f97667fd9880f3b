\* Two devices and two clicks; a call fails, and a device changes elsewhere.
SPECIFICATION Spec
CONSTANTS
    Devices = {d1, d2}
    None = None
    MaxClicks = 2
    MaxFailures = 1
    MaxElsewhere = 1
SYMMETRY Symmetry
INVARIANTS
    SelectionSettles
    PageSettles
PROPERTIES
    ActsOnShownDevice
