---- MODULE MCWebPanel ----
EXTENDS WebPanel, TLC

Symmetry == Permutations(Devices)
====
