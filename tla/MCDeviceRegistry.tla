---- MODULE MCDeviceRegistry ----
EXTENDS DeviceRegistry, TLC

Symmetry == Permutations(Devices) \cup Permutations(Users) \cup Permutations(Tokens) \cup
            Permutations(Codes) \cup Permutations(Secrets)
====
