\* Devices change hands around two snapshots of devices and a user's list.
SPECIFICATION Spec
CONSTANTS
    Devices = {d1, d2}
    Users = {u1, u2}
    Snapshots = {q1, q2}
    Listings = {l1}
    Nobody = Nobody
    Gone = Gone
    MaxBinds = 2
SYMMETRY Symmetry
INVARIANTS
    AnswersOfTheAsker
