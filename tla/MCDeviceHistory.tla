---------------------------- MODULE MCDeviceHistory ----------------------------
(* Instances of DeviceHistory for TLC.                                        *)
EXTENDS DeviceHistory, TLC

CONSTANTS t1, t2, d1, d2, d3, p1, p2

Symmetry == Permutations(Tabs) \cup Permutations(Devices) \cup Permutations(Passwords)
==============================================================================
