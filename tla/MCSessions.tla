---- MODULE MCSessions ----
EXTENDS Sessions, TLC

Symmetry == Permutations(Devices) \cup Permutations(Users)
            \cup Permutations(Snapshots) \cup Permutations(Listings)
====
