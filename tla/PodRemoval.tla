----------------------------- MODULE PodRemoval -----------------------------
(***************************************************************************)
(* What DeleteOrEvictPods promises, whichever way it takes: every pod is   *)
(* settled at most once, "removed" is only said of a pod that no longer    *)
(* exists or whose Get failed, the callback OnPodDeletedOrEvicted is       *)
(* called at most once for a pod and only for one so removed, and the call *)
(* returns nil if and only if every pod was removed or skipped.            *)
(***************************************************************************)
CONSTANT Pods

VARIABLES
    present,    \* the pods that still exist
    misled,     \* the pods taken for gone because a Get failed
    settled,    \* what the call has concluded about each pod
    told,       \* the pods OnPodDeletedOrEvicted was called for
    verdict     \* what the call returned: "none" while it runs

vars == <<present, misled, settled, told, verdict>>

Done(p) == settled[p] \in {"removed", "skipped"}

Init ==
    /\ present = Pods
    /\ misled = {}
    /\ settled = [p \in Pods |-> "pending"]
    /\ told = {}
    /\ verdict = "none"

(* A pod goes, by this call's doing or another's. *)
Vanish(p) ==
    /\ p \in present
    /\ present' = present \ {p}
    /\ UNCHANGED <<misled, settled, told, verdict>>

(* The call sees that the pod is gone; it need not tell (a pod already     *)
(* gone when its eviction was asked for is not told).                      *)
Remove(p) ==
    /\ verdict = "none"
    /\ settled[p] = "pending"
    /\ \/ p \notin present /\ misled' = misled
       \/ misled' = misled \union {p}
    /\ settled' = [settled EXCEPT ![p] = "removed"]
    /\ told' \in {told, told \union {p}}
    /\ UNCHANGED <<present, verdict>>

(* The call stops waiting for a pod, or fails on it. *)
GiveUp(p) ==
    /\ verdict = "none"
    /\ settled[p] = "pending"
    /\ \E how \in {"skipped", "failed"} :
          settled' = [settled EXCEPT ![p] = how]
    /\ UNCHANGED <<present, misled, told, verdict>>

Return ==
    /\ verdict = "none"
    /\ verdict' = IF \A p \in Pods : Done(p) THEN "nil" ELSE "error"
    /\ UNCHANGED <<present, misled, settled, told>>

Next ==
    \/ \E p \in Pods : Vanish(p) \/ Remove(p) \/ GiveUp(p)
    \/ Return

Spec == Init /\ [][Next]_vars
=============================================================================
