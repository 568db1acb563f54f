------------------------------ MODULE PodServer ------------------------------
(***************************************************************************)
(* What the Kubernetes API server holds of the pods a drain was asked to   *)
(* remove, and what other clients do to them meanwhile.                    *)
(*                                                                         *)
(* The server is not part of this repository: it is modelled from what     *)
(* drain/drain.go asks of it (an eviction or a delete by name, a Get by    *)
(* name) and from the answers the code distinguishes.  A pod is identified *)
(* by its name; its UID matters only in that an object of that name may be *)
(* the listed pod or a later pod of the same name.                         *)
(***************************************************************************)
EXTENDS Naturals, FiniteSets

CONSTANTS
    Pods,           \* the pods handed to DeleteOrEvictPods
    SkipOverdue,    \* SkipWaitForDeleteTimeoutSeconds > 0
    HasTimeout,     \* Helper.Timeout # 0; Timeout = 0 means no deadline
    HasCancel,      \* Helper.Ctx may be cancelled by the caller
    GetsFail        \* a Get may fail for a reason other than NotFound

ASSUME PodsAssumption == IsFiniteSet(Pods)
ASSUME OptionsAssumption ==
    {SkipOverdue, HasTimeout, HasCancel, GetsFail} \subseteq BOOLEAN

VARIABLES
    obj,            \* what exists on the server under the pod's name
    wrong,          \* history: names whose LATER pod was removed by a request
                    \* meant for the listed one
    misled          \* history: pods taken for gone because a Get failed

serverVars == <<obj, wrong, misled>>

(* "running"     the listed pod, not being deleted                         *)
(* "terminating" the listed pod, deletionTimestamp set                     *)
(* "overdue"     the same, for longer than the skip threshold              *)
(* "gone"        no object of that name                                    *)
(* "replaced"    another pod (another UID) took the name                   *)
Objects == {"running", "terminating", "overdue", "gone", "replaced"}

(* The listed pod no longer exists. *)
Removed(p) == obj[p] \in {"gone", "replaced"}

(* The server's variables keep their types. *)
ServerTypeOK ==
    /\ obj \in [Pods -> Objects]
    /\ wrong \subseteq Pods
    /\ misled \subseteq Pods

(* GetPodsForDeletion lists running pods and pods already terminating; the *)
(* ones overdue are left out by skipDeletedFilter.                         *)
ServerInit ==
    /\ obj \in [Pods -> {"running", "terminating"}]
    /\ wrong = {}
    /\ misled = {}

-----------------------------------------------------------------------------
(* Requests of the drain.                                                  *)

(* A removal by name takes effect on whatever has the name: neither        *)
(* makeDeleteOptions nor the Eviction sets a UID precondition.             *)
RemoveByName(p) ==
    /\ obj[p] # "gone"
    /\ obj' = IF obj[p] = "running" THEN [obj EXCEPT ![p] = "terminating"]
                                    ELSE obj
    /\ wrong' = IF obj[p] = "replaced" THEN wrong \union {p} ELSE wrong
    /\ UNCHANGED misled

(* The answers a Get by name can have.  A failed Get gives the caller an   *)
(* error and an empty object.                                              *)
Answers(p) == {obj[p]} \union (IF GetsFail THEN {"failed"} ELSE {})

(* waitForDelete takes NotFound and another UID for "gone", and so a       *)
(* failed Get too: the empty object has an empty UID, and the branch that  *)
(* would return the error is not reached.                                  *)
LooksGone(p) ==
    /\ \E answer \in Answers(p) :
          /\ answer \in {"gone", "replaced", "failed"}
          /\ misled' = IF answer = "failed" THEN misled \union {p} ELSE misled
    /\ UNCHANGED <<obj, wrong>>

(* shouldSkipPod: terminating for longer than the threshold. *)
LooksOverdue(p) == "overdue" \in Answers(p) /\ UNCHANGED serverVars

LooksPending(p) ==
    /\ Answers(p) \cap {"running", "terminating"} # {}
    /\ UNCHANGED serverVars

-----------------------------------------------------------------------------
(* Other clients and the kubelet.                                          *)

(* Somebody else deletes the pod. *)
DeletedByOther(p) ==
    /\ obj[p] = "running"
    /\ obj' = [obj EXCEPT ![p] = "terminating"]

(* The pod stays terminating past the skip threshold. *)
BecomesOverdue(p) ==
    /\ SkipOverdue
    /\ obj[p] = "terminating"
    /\ obj' = [obj EXCEPT ![p] = "overdue"]

(* The kubelet confirms the deletion: the object goes. *)
Terminates(p) ==
    /\ obj[p] \in {"terminating", "overdue"}
    /\ obj' = [obj EXCEPT ![p] = "gone"]

(* A controller (a StatefulSet) creates a pod of the same name. *)
Recreated(p) ==
    /\ obj[p] = "gone"
    /\ obj' = [obj EXCEPT ![p] = "replaced"]

OthersStep ==
    /\ \E p \in Pods : \/ DeletedByOther(p)
                       \/ BecomesOverdue(p)
                       \/ Terminates(p)
                       \/ Recreated(p)
    /\ UNCHANGED <<wrong, misled>>
=============================================================================
