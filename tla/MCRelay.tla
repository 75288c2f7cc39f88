------------------------------- MODULE MCRelay -------------------------------
(* Instances of Relay for TLC: model values and the symmetry among them.     *)
EXTENDS Relay, TLC

CONSTANTS a1, a2, v1, v2, d1, d2

AgentSymmetry == Permutations({a1, a2})
ViewerSymmetry == Permutations({v1, v2})
==============================================================================
