------------------------------ MODULE MCProxyTx ------------------------------
(* Instances of ProxyTx for TLC.                                             *)
EXTENDS ProxyTx, TLC

CONSTANTS c1, c2, c3, c4, p1, p2

AllBuilds == {"good", "bad", "blind"}

(* One process runs everything.                                              *)
Solo == [p \in Procs |-> AllCommands]

(* One recreates, the other brings the proxy up and down.                    *)
OneRecreates ==
  [p \in Procs |-> IF p = p1 THEN {"recreate"} ELSE {"up", "restart", "down"}]

(* Every command but the two that create a proxy beside a backup.            *)
Swapping == [p \in Procs |-> Recreators \cup {"down"}]

JustRecreate == [p \in Procs |-> {"recreate"}]

IdentitySymmetry == Permutations(Ctr)
=============================================================================
