--------------------------- MODULE MCDeleteOrEvict ---------------------------
(* Instances of DeleteOrEvict for TLC.                                     *)
EXTENDS DeleteOrEvict, TLC

CONSTANTS p1, p2, p3

TwoPods == {p1, p2}
ThreePods == {p1, p2, p3}

(* The pods are interchangeable; used for safety only. *)
Symmetric == Permutations(Pods)
=============================================================================
