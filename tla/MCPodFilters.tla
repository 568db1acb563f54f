---------------------------- MODULE MCPodFilters ----------------------------
(* Every kind of pod, one at a time; and pairs of a few kinds that meet    *)
(* different filters.                                                      *)
EXTENDS PodFilters

CONSTANTS p1, p2

OnePod == {p1}
TwoPods == {p1, p2}

EveryKind == AllKinds

Plain == [overdue |-> FALSE, finished |-> FALSE, mirror |-> FALSE,
          owner |-> "other", daemonSet |-> "found", emptyDir |-> FALSE,
          claim |-> "none"]
FewKinds ==
    {Plain, [Plain EXCEPT !.owner = "DaemonSet"], [Plain EXCEPT !.owner = "none"],
     [Plain EXCEPT !.emptyDir = TRUE], [Plain EXCEPT !.mirror = TRUE]}
=============================================================================
