------------------------- MODULE MCDeviceLifecycle -------------------------
EXTENDS DeviceLifecycle, TLC

\* The default timeouts: idle is reached well before offline.
IdleFirst == [m \in Devices |-> 1]
OfflineSecond == [m \in Devices |-> 2]

Symmetry == Permutations(Devices) \cup Permutations(APs)
=============================================================================
