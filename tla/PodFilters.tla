----------------------------- MODULE PodFilters -----------------------------
(***************************************************************************)
(* Helper.GetPodsForDeletion of drain/drain.go and the filters of          *)
(* drain/filters.go: each pod of the node goes through five filters in     *)
(* order, the chain stops at the first that keeps the pod, and the pods    *)
(* that pass all five make the list handed to DeleteOrEvictPods.           *)
(***************************************************************************)
EXTENDS Naturals, Sequences

CONSTANTS
    NodePods,   \* the pods listed on the node
    Kinds,      \* the kinds of pod considered, a subset of AllKinds
    NoPod       \* not a pod

(* What the filters read of a pod, and what the server answers when they   *)
(* look up its DaemonSet and its claims.                                   *)
AllKinds ==
    [overdue   : BOOLEAN,       \* deleted longer ago than the threshold
     finished  : BOOLEAN,       \* phase Succeeded or Failed
     mirror    : BOOLEAN,       \* has the mirror pod annotation
     owner     : {"none", "DaemonSet", "other"},    \* controller reference
     daemonSet : {"found", "notFound", "error"},    \* Get of that owner
     emptyDir  : BOOLEAN,       \* has an emptyDir volume
     claim     : {"none", "local", "remote", "error"}]  \* Get of its claim;
                                \* "local": no storage class, or a local one

ASSUME FilterAssumption == NoPod \notin NodePods /\ Kinds \subseteq AllKinds

(* Options of the Helper. *)
Options ==
    [skipOverdue : BOOLEAN, Force : BOOLEAN,
     IgnoreAllDaemonSets : BOOLEAN, DeleteLocalData : BOOLEAN]

(* podDeleteStatus: whether to go on towards deletion, and why. *)
Status == [delete : BOOLEAN, reason : {"Okay", "Skip", "Warning", "Error"}]
Okay == [delete |-> TRUE, reason |-> "Okay"]
Skip == [delete |-> FALSE, reason |-> "Skip"]
Warning(delete) == [delete |-> delete, reason |-> "Warning"]
Error == [delete |-> FALSE, reason |-> "Error"]

VARIABLES
    d,          \* the Helper's options
    kind,       \* the kind of each pod
    todo,       \* pods not yet taken by the loop
    pod,        \* the pod in the filters, or NoPod
    next,       \* index of the filter it goes through next
    items,      \* the podDeleteList: pod and the status it passed with
    refused,    \* history: pods a filter answered Error for
    filtered

filterVars == <<d, kind, todo, pod, next, items, refused, filtered>>

-----------------------------------------------------------------------------
(* The filters.                                                            *)

skipDeletedFilter(k) == IF d.skipOverdue /\ k.overdue THEN Skip ELSE Okay

(* Mutant of daemonSetFilter: a pod of an ignored DaemonSet goes on, with  *)
(* a warning.                                                              *)
daemonSetFilterGoesOn(k) ==
    CASE k.owner # "DaemonSet" \/ k.finished -> Okay
      [] OTHER ->
           CASE k.daemonSet = "notFound" /\ d.Force -> Warning(TRUE)
             [] k.daemonSet = "found" /\ d.IgnoreAllDaemonSets -> Warning(TRUE)
             [] OTHER -> Error

daemonSetFilter(k) ==
    CASE k.owner # "DaemonSet" \/ k.finished -> Okay
      [] OTHER ->
           CASE k.daemonSet = "notFound" /\ d.Force -> Warning(TRUE)
             [] k.daemonSet = "found" /\ d.IgnoreAllDaemonSets -> Warning(FALSE)
             [] OTHER -> Error

mirrorPodFilter(k) == IF k.mirror THEN Skip ELSE Okay

localStorageFilter(k) ==
    CASE k.claim = "error" -> Error
      [] k.claim = "local" -> Skip
      [] k.claim \in {"none", "remote"} ->
           IF ~k.emptyDir \/ k.finished THEN Okay
           ELSE IF d.DeleteLocalData THEN Warning(TRUE) ELSE Error

(* Mutant of unreplicatedFilter: a finished pod needs Force too. *)
unreplicatedFilterStrict(k) ==
    IF k.owner # "none" THEN Okay
    ELSE IF d.Force THEN Warning(TRUE) ELSE Error

unreplicatedFilter(k) ==
    IF k.finished \/ k.owner # "none" THEN Okay
    ELSE IF d.Force THEN Warning(TRUE) ELSE Error

makeFilters(k) ==
    <<skipDeletedFilter(k), daemonSetFilter(k), mirrorPodFilter(k),
      localStorageFilter(k), unreplicatedFilter(k)>>

-----------------------------------------------------------------------------
(* The loop.                                                               *)

FiltersInit ==
    /\ d \in Options
    /\ kind \in [NodePods -> Kinds]
    /\ todo = NodePods
    /\ pod = NoPod
    /\ next = 1
    /\ items = {}
    /\ refused = {}
    /\ filtered = FALSE

Take(p) ==
    /\ pod = NoPod
    /\ p \in todo
    /\ pod' = p
    /\ next' = 1
    /\ todo' = todo \ {p}
    /\ UNCHANGED <<d, kind, items, refused, filtered>>

(* Mutant of Filter: the chain runs past its last filter. *)
FilterPastLast ==
    /\ pod # NoPod
    /\ next <= Len(makeFilters(kind[pod]))
    /\ LET status == makeFilters(kind[pod])[next]
           last == next = Len(makeFilters(kind[pod]))
       IN  /\ IF status.delete
              THEN next' = next + 1 /\ UNCHANGED pod
              ELSE pod' = NoPod /\ UNCHANGED next
           /\ items' = IF status.delete /\ last
                       THEN items \union {[pod |-> pod, status |-> status]}
                       ELSE items
           /\ refused' = IF status.reason = "Error"
                         THEN refused \union {pod} ELSE refused
    /\ UNCHANGED <<d, kind, todo, filtered>>

(* One filter.  A status that does not delete ends the chain and drops the *)
(* pod; after the last filter the pod is appended with that last status.   *)
Filter ==
    /\ pod # NoPod
    /\ LET status == makeFilters(kind[pod])[next]
           last == next = Len(makeFilters(kind[pod]))
       IN  /\ IF status.delete /\ ~last
              THEN next' = next + 1 /\ UNCHANGED pod
              ELSE pod' = NoPod /\ UNCHANGED next
           /\ items' = IF status.delete /\ last
                       THEN items \union {[pod |-> pod, status |-> status]}
                       ELSE items
           /\ refused' = IF status.reason = "Error"
                         THEN refused \union {pod} ELSE refused
    /\ UNCHANGED <<d, kind, todo, filtered>>

Return ==
    /\ todo = {} /\ pod = NoPod
    /\ ~filtered
    /\ filtered' = TRUE
    /\ UNCHANGED <<d, kind, todo, pod, next, items, refused>>

FiltersNext == (\E p \in NodePods : Take(p)) \/ Filter \/ Return

FiltersSpec == FiltersInit /\ [][FiltersNext]_filterVars

(* The accessors of podDeleteList. *)
Listed == {i.pod : i \in {j \in items : j.status.delete}}
Warned == {i.pod : i \in {j \in items : j.status.reason = "Warning"}}
Errors == {i.pod : i \in {j \in items : j.status.reason = "Error"}}

-----------------------------------------------------------------------------
(* Properties.                                                             *)

(* The variables keep their types; no filter past the fifth is asked for. *)
FiltersTypeOK ==
    /\ d \in Options
    /\ kind \in [NodePods -> AllKinds]
    /\ todo \subseteq NodePods
    /\ pod \in NodePods \union {NoPod}
    /\ next \in 1..5
    /\ items \subseteq [pod : NodePods, status : Status]
    /\ refused \subseteq NodePods
    /\ filtered \in BOOLEAN

(* What a drain must never delete, whichever filter is in charge and       *)
(* whatever the options: a mirror pod; a running pod of an existing        *)
(* DaemonSet ("we return false in cases where the pod is DaemonSet         *)
(* managed, regardless of flags", filters.go:161); a pod whose claim is on *)
(* a local volume; without Force a running pod nobody would recreate;      *)
(* without DeleteLocalData a running pod with an emptyDir.                 *)
Protected ==
    \A p \in Listed :
        LET k == kind[p]
        IN  /\ ~k.mirror
            /\ k.claim \notin {"local", "error"}
            /\ k.finished \/
                  /\ k.owner = "DaemonSet" =>
                        k.daemonSet = "notFound" /\ d.Force
                  /\ k.owner = "none" => d.Force
                  /\ k.emptyDir => d.DeleteLocalData

(* "Any finished pod can be removed" (filters.go:171, 216): one that is    *)
(* not a mirror, not overdue and on no local volume is always listed,      *)
(* whatever its owner and the options.                                     *)
FinishedListed ==
    filtered =>
        \A p \in NodePods :
            LET k == kind[p]
            IN  k.finished /\ ~k.mirror /\ k.claim \in {"none", "remote"}
                /\ ~(k.overdue /\ d.skipOverdue) => p \in Listed

(* GetPodsForDeletion promises ".Errors() for all errors that occurred"    *)
(* (drain.go:156): no pod is refused with an error unless errors say so.   *)
ErrorsReported == filtered => refused \subseteq Errors
=============================================================================
