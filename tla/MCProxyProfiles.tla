--------------------------- MODULE MCProxyProfiles ---------------------------
(* Instances of ProxyProfiles for TLC.                                       *)
EXTENDS ProxyProfiles, TLC

CONSTANTS p1, p2

ProcSymmetry == Permutations({p1, p2})
=============================================================================
