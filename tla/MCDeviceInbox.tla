---- MODULE MCDeviceInbox ----
EXTENDS DeviceInbox, TLC

Symmetry == Permutations(Devices) \cup Permutations(Users) \cup Permutations(Bodies)
====
