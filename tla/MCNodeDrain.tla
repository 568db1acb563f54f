----------------------------- MODULE MCNodeDrain -----------------------------
(* An instance of NodeDrain for TLC.  On n1: p1 with a volume, p4 of a     *)
(* DaemonSet, and the latecomer p3, alone in its ReplicaSet, with a volume *)
(* too; on n2: p2, of the ReplicaSet of p1, with a local claim.            *)
EXTENDS NodeDrain, TLC

CONSTANTS p1, p2, p3, p4, r1, r2, n1, n2

AllPods == {p1, p2, p3, p4}
BothSets == {r1, r2}
BothNodes == {n1, n2}
OwnerOf == (p1 :> r1) @@ (p2 :> r1) @@ (p3 :> r2) @@ (p4 :> Unowned)
PlacedOn == [p \in AllPods |-> IF p = p2 THEN n2 ELSE n1]
=============================================================================
