------------------------------ MODULE EvictPod ------------------------------
(***************************************************************************)
(* Client.EvictPod of evict.go: scale a ReplicaSet of one replica up to    *)
(* two, fail over a Patroni master, evict the pod, renew the claims on     *)
(* local volumes, and on every return path after the first step scale the  *)
(* ReplicaSet back.  Callers for several pods run at the same time (two    *)
(* nodes being drained); NodeDrain says who calls when.                    *)
(*                                                                         *)
(* The eviction itself is one step here: DeleteOrEvictPods as PodRemoval   *)
(* promises it.                                                            *)
(***************************************************************************)
EXTENDS Naturals, FiniteSets

CONSTANTS
    Pods,           \* the pods
    Skipped,        \* those that were, when listed, a DaemonSet's, finished,
                    \* already deleted or static
    Sets,           \* the ReplicaSets that own them
    Unowned,        \* a pod without a ReplicaSet
    Owner,          \* [Pods -> Sets \union {Unowned}]
    Claimants,      \* the pods with a claim on a local volume (its storage
                    \* class names "local", or it has none)
    MaxMishaps      \* bound on the failing requests and the writes of other
                    \* clients

ASSUME EvictPodAssumption ==
    /\ Owner \in [Pods -> Sets \union {Unowned}]
    /\ Unowned \notin Sets
    /\ Claimants \subseteq Pods
    /\ Skipped \subseteq Pods
    /\ MaxMishaps \in Nat

VARIABLES
    replicas,   \* Spec.Replicas of each ReplicaSet on the server
    version,    \* its resourceVersion
    present,    \* the pods that still exist
    misled,     \* history: the pods whose removal was reported while they
                \* existed, because a Get of them failed
    claim,      \* the claim of each pod: see Claims
    pc,         \* where each EvictPod is: see Locations
    read,       \* the ReplicaSet each ScalePod has read: replicas, version
    surged,     \* the pods whose EvictPod deferred the scaling back
    result,     \* what EvictPod is to return
    warned,     \* the pods whose scaling back failed ("Failed to scale back")
    mishaps,    \* how many requests have failed or been interfered with
    disturbed   \* history: the ReplicaSets another client has written, or a
                \* request of whose evictions has failed

setVars == <<replicas, version, mishaps>>
podVars == <<present, misled>>
evictState == <<replicas, version, present, misled, claim, pc, read, surged,
                result, warned, disturbed>>
evictVars == <<evictState, mishaps>>

(* "old"      the claim the evicted pod used                               *)
(* "deleting" its deletion requested, a finalizer still holds it           *)
(* "absent"   no claim of that name                                        *)
(* "renewed"  created again by EvictPod, without finalizers or volume      *)
(* "foreign"  created by someone else (the StatefulSet controller)         *)
Claims == {"old", "deleting", "absent", "renewed", "foreign"}

(* "idle" before EvictPod is called, "done" when it has returned. *)
Locations == {"idle", "replicas", "upGet", "upPut", "failover", "evict", "claimGet",
              "claimDelete", "claimWait", "claimCreate", "unwind", "downGet",
              "downPut", "done"}

Owned(p) == Owner[p] # Unowned
Set(p) == Owner[p]

(* The variables keep their types; a ReplicaSet of one replica never       *)
(* leaves 1..2.                                                            *)
EvictTypeOK ==
    /\ replicas \in [Sets -> 1..2]
    /\ version \in [Sets -> Nat]
    /\ present \subseteq Pods
    /\ misled \subseteq Pods
    /\ claim \in [Pods -> Claims]
    /\ pc \in [Pods -> Locations]
    /\ read \in [Pods -> [replicas : 1..2, version : Nat]]
    /\ surged \subseteq Pods
    /\ result \in [Pods -> {"nil", "error"}]
    /\ warned \subseteq Pods
    /\ mishaps \in 0..MaxMishaps
    /\ disturbed \subseteq Sets

(* Sets of more than one replica are never scaled; they are left out. *)
EvictInit ==
    /\ replicas = [s \in Sets |-> 1]
    /\ version = [s \in Sets |-> 0]
    /\ misled = {}
    /\ claim = [p \in Pods |-> "old"]
    /\ pc = [p \in Pods |-> "idle"]
    /\ read = [p \in Pods |-> [replicas |-> 1, version |-> 0]]
    /\ surged = {}
    /\ result = [p \in Pods |-> "nil"]
    /\ warned = {}
    /\ mishaps = 0
    /\ disturbed = {}

-----------------------------------------------------------------------------
At(p, here) == pc[p] = here
Goto(p, there) == pc' = [pc EXCEPT ![p] = there]

(* return err: the deferred function, if any, still runs. *)
Fail(p) ==
    /\ result' = [result EXCEPT ![p] = "error"]
    /\ Goto(p, "unwind")

Disturb(p) == disturbed' = disturbed \union ({Set(p)} \ {Unowned})

(* EvictPod is called.  The kinds it leaves alone are told from the pod as *)
(* the caller listed it.                                                   *)
Begin(p) ==
    /\ At(p, "idle")
    /\ Goto(p, IF p \in Skipped THEN "done" ELSE "replicas")
    /\ UNCHANGED <<setVars, podVars, claim, read, surged, result, warned,
                   disturbed>>

Mishap == mishaps < MaxMishaps /\ mishaps' = mishaps + 1

(* Any request may fail. *)
RequestFails(p) ==
    /\ pc[p] \in {"replicas", "upGet", "upPut", "claimGet", "claimDelete",
                  "claimCreate"}
    /\ Mishap
    /\ Fail(p)
    /\ Disturb(p)
    /\ UNCHANGED <<replicas, version, podVars, claim, read, surged, warned>>

(* GetPodReplicas: 1 for a pod without a ReplicaSet. *)
GetPodReplicas(p) ==
    /\ At(p, "replicas")
    /\ LET n == IF Owned(p) THEN replicas[Set(p)] ELSE 1
       IN  Goto(p, IF n = 1 THEN "upGet" ELSE "failover")
    /\ UNCHANGED <<setVars, podVars, claim, read, surged, result, warned, disturbed>>

-----------------------------------------------------------------------------
(* ScalePod: read the ReplicaSet, and write it if its replicas differ; the *)
(* write carries the version read and is refused if that is stale.         *)

ReadSet(p) ==
    read' = [read EXCEPT ![p] = [replicas |-> replicas[Set(p)],
                                 version |-> version[Set(p)]]]

Fresh(p) == read[p].version = version[Set(p)]

WriteSet(p, n) ==
    /\ replicas' = [replicas EXCEPT ![Set(p)] = n]
    /\ version' = [version EXCEPT ![Set(p)] = @ + 1]

(* Scaling up: a pod without a ReplicaSet, or one already at two, is a     *)
(* no-op; then the scaling back is deferred.                               *)
ScaleUpGet(p) ==
    /\ At(p, "upGet")
    /\ IF Owned(p) /\ replicas[Set(p)] # 2
       THEN /\ ReadSet(p)
            /\ Goto(p, "upPut")
            /\ UNCHANGED surged
       ELSE /\ surged' = surged \union {p}
            /\ Goto(p, "failover")
            /\ UNCHANGED read
    /\ UNCHANGED <<setVars, podVars, claim, result, warned, disturbed>>

(* Mutant of ScaleUpPut: a refused write is not an error. *)
ScaleUpPutUnheard(p) ==
    /\ At(p, "upPut")
    /\ IF Fresh(p) THEN WriteSet(p, 2) ELSE UNCHANGED <<replicas, version>>
    /\ surged' = surged \union {p}
    /\ Goto(p, "failover")
    /\ UNCHANGED <<mishaps, podVars, claim, read, result, warned, disturbed>>

ScaleUpPut(p) ==
    /\ At(p, "upPut")
    /\ IF Fresh(p)
       THEN /\ WriteSet(p, 2)
            /\ surged' = surged \union {p}
            /\ Goto(p, "failover")
            /\ UNCHANGED result
       ELSE Fail(p) /\ UNCHANGED <<replicas, version, surged>>
    /\ UNCHANGED <<mishaps, podVars, claim, read, warned, disturbed>>

(* The update took effect but its answer was lost: ScalePod fails, and the *)
(* scaling back is not deferred.                                           *)
ScaleUpLost(p) ==
    /\ At(p, "upPut")
    /\ Fresh(p)
    /\ Mishap
    /\ WriteSet(p, 2)
    /\ Fail(p)
    /\ Disturb(p)
    /\ UNCHANGED <<podVars, claim, read, surged, warned>>

(* Scaling back in the deferred function: a failure is only a warning. *)
ScaleDownGet(p) ==
    /\ At(p, "downGet")
    /\ IF Owned(p) /\ replicas[Set(p)] # 1
       THEN ReadSet(p) /\ Goto(p, "downPut")
       ELSE Goto(p, "done") /\ UNCHANGED read
    /\ UNCHANGED <<setVars, podVars, claim, surged, result, warned, disturbed>>

(* Mutant of ScaleDownPut: scaled back by two. *)
ScaleDownPutByTwo(p) ==
    /\ At(p, "downPut")
    /\ IF Fresh(p)
       THEN WriteSet(p, replicas[Set(p)] - 2) /\ UNCHANGED warned
       ELSE /\ warned' = warned \union {p}
            /\ UNCHANGED <<replicas, version>>
    /\ Goto(p, "done")
    /\ UNCHANGED <<mishaps, podVars, claim, read, surged, result, disturbed>>

ScaleDownPut(p) ==
    /\ At(p, "downPut")
    /\ IF Fresh(p)
       THEN WriteSet(p, 1) /\ UNCHANGED warned
       ELSE /\ warned' = warned \union {p}
            /\ UNCHANGED <<replicas, version>>
    /\ Goto(p, "done")
    /\ UNCHANGED <<mishaps, podVars, claim, read, surged, result, disturbed>>

(* Mutant of ScaleDownFails: the error is dropped without a warning. *)
ScaleDownFailsUnheard(p) ==
    /\ pc[p] \in {"downGet", "downPut"}
    /\ Mishap
    /\ Goto(p, "done")
    /\ Disturb(p)
    /\ UNCHANGED <<replicas, version, podVars, claim, read, surged, warned,
                   result>>

ScaleDownFails(p) ==
    /\ pc[p] \in {"downGet", "downPut"}
    /\ Mishap
    /\ warned' = warned \union {p}
    /\ Goto(p, "done")
    /\ Disturb(p)
    /\ UNCHANGED <<replicas, version, podVars, claim, read, surged, result>>

-----------------------------------------------------------------------------
(* The switchover of a Patroni master succeeds, is not needed, or fails.   *)
Failover(p) ==
    /\ At(p, "failover")
    /\ \/ Goto(p, "evict") /\ UNCHANGED result
       \/ Fail(p)
    /\ UNCHANGED <<setVars, podVars, claim, read, surged, warned, disturbed>>

(* After DeleteOrEvictPods returned nil. *)
Evicted(p) ==
    /\ Goto(p, IF p \in Claimants THEN "claimGet" ELSE "unwind")
    /\ UNCHANGED result

(* Mutant of Evict: the claims are renewed although the eviction failed. *)
EvictAnyway(p) ==
    /\ At(p, "evict")
    /\ present' \in {present, present \ {p}}
    /\ Evicted(p)
    /\ UNCHANGED <<setVars, misled, claim, read, surged, warned, disturbed>>

(* DeleteOrEvictPods, as PodRemoval promises it with nothing to skip: nil  *)
(* for a pod that no longer exists, or whose Get failed, or an error.      *)
Evict(p) ==
    /\ At(p, "evict")
    /\ \/ /\ present' = present \ {p}
          /\ Evicted(p)
          /\ UNCHANGED <<misled, mishaps>>
       \/ /\ Mishap
          /\ misled' = misled \union {p}
          /\ Evicted(p)
          /\ UNCHANGED present
       \/ Fail(p) /\ UNCHANGED <<podVars, mishaps>>
    /\ UNCHANGED <<replicas, version, claim, read, surged, warned, disturbed>>

-----------------------------------------------------------------------------
(* The claim of a local volume.                                            *)

ClaimGet(p) ==
    /\ At(p, "claimGet")
    /\ IF claim[p] = "absent" THEN Fail(p)
                              ELSE Goto(p, "claimDelete") /\ UNCHANGED result
    /\ UNCHANGED <<setVars, podVars, claim, read, surged, warned, disturbed>>

ClaimDelete(p) ==
    /\ At(p, "claimDelete")
    /\ IF claim[p] = "absent"
       THEN Fail(p) /\ UNCHANGED claim
       ELSE /\ claim' = [claim EXCEPT ![p] = "deleting"]
            /\ Goto(p, "claimWait")
            /\ UNCHANGED result
    /\ UNCHANGED <<setVars, podVars, read, surged, warned, disturbed>>

(* PollImmediate for two minutes; its result is ignored, so the wait ends  *)
(* when the claim is absent or when the time is up.                        *)
ClaimWait(p) ==
    /\ At(p, "claimWait")
    /\ Goto(p, "claimCreate")
    /\ UNCHANGED <<setVars, podVars, claim, read, surged, result, warned, disturbed>>

(* Mutant of ClaimCreate: AlreadyExists is taken for success. *)
ClaimCreateAnyway(p) ==
    /\ At(p, "claimCreate")
    /\ claim' = IF claim[p] = "absent" THEN [claim EXCEPT ![p] = "renewed"]
                                       ELSE claim
    /\ Goto(p, "unwind")
    /\ UNCHANGED <<setVars, podVars, read, surged, result, warned, disturbed>>

(* Create is refused (AlreadyExists) while any claim has the name. *)
ClaimCreate(p) ==
    /\ At(p, "claimCreate")
    /\ IF claim[p] = "absent"
       THEN /\ claim' = [claim EXCEPT ![p] = "renewed"]
            /\ Goto(p, "unwind")
            /\ UNCHANGED result
       ELSE Fail(p) /\ UNCHANGED claim
    /\ UNCHANGED <<setVars, podVars, read, surged, warned, disturbed>>

(* Mutant of Unwind: the scaling back is not deferred but the last step of *)
(* an eviction that succeeds.                                              *)
UnwindOnSuccess(p) ==
    /\ At(p, "unwind")
    /\ Goto(p, IF p \in surged /\ result[p] = "nil" THEN "downGet" ELSE "done")
    /\ UNCHANGED <<setVars, podVars, claim, read, surged, result, warned, disturbed>>

(* EvictPod returns: run the deferred function if it was registered. *)
Unwind(p) ==
    /\ At(p, "unwind")
    /\ Goto(p, IF p \in surged THEN "downGet" ELSE "done")
    /\ UNCHANGED <<setVars, podVars, claim, read, surged, result, warned, disturbed>>

-----------------------------------------------------------------------------
(* Other clients.                                                          *)

(* A pod whose eviction was asked for terminates, although EvictPod did    *)
(* not see it go.                                                          *)
Terminates(p) ==
    /\ p \in present \ Skipped
    /\ pc[p] \in {"claimGet", "claimDelete", "claimWait", "claimCreate",
                  "unwind", "downGet", "downPut", "done"}
    /\ present' = present \ {p}
    /\ UNCHANGED <<setVars, misled, claim, pc, read, surged, result, warned,
                   disturbed>>

(* A deleted claim goes when no pod uses it. *)
ClaimGone(p) ==
    /\ claim[p] = "deleting"
    /\ p \notin present
    /\ claim' = [claim EXCEPT ![p] = "absent"]
    /\ UNCHANGED <<setVars, podVars, pc, read, surged, result, warned, disturbed>>

(* The StatefulSet controller makes a pod's missing claim. *)
ClaimRecreated(p) ==
    /\ claim[p] = "absent"
    /\ claim' = [claim EXCEPT ![p] = "foreign"]
    /\ UNCHANGED <<setVars, podVars, pc, read, surged, result, warned, disturbed>>

(* A controller updates the status of a ReplicaSet: a new version. *)
StatusWritten(s) ==
    /\ Mishap
    /\ version' = [version EXCEPT ![s] = @ + 1]
    /\ disturbed' = disturbed \union {s}
    /\ UNCHANGED <<replicas, podVars, claim, pc, read, surged, result, warned>>

Caller(p) ==
    \/ RequestFails(p) \/ GetPodReplicas(p)
    \/ ScaleUpGet(p) \/ ScaleUpPut(p) \/ ScaleUpLost(p)
    \/ ScaleDownGet(p) \/ ScaleDownPut(p) \/ ScaleDownFails(p)
    \/ Failover(p) \/ Evict(p)
    \/ ClaimGet(p) \/ ClaimDelete(p) \/ ClaimWait(p) \/ ClaimCreate(p)
    \/ Unwind(p)

OtherClients ==
    \/ \E p \in Pods : Terminates(p)
    \/ \E p \in Claimants : ClaimGone(p) \/ ClaimRecreated(p)
    \/ \E s \in Sets : StatusWritten(s)

-----------------------------------------------------------------------------
(* Properties.                                                             *)

Ended(p) == pc[p] \in {"idle", "done"}
CallersOf(s) == {p \in Pods : Set(p) = s}

(* The scaling up is temporary: when all evictions of its pods have ended, *)
(* a ReplicaSet that nobody else wrote is back at one replica, although    *)
(* the callers read and write it in any order and a stale write is         *)
(* refused.                                                                *)
ScaledBack ==
    \A s \in Sets \ disturbed :
        (\A p \in CallersOf(s) : Ended(p)) => replicas[s] = 1

(* With other clients writing the set, and with failing requests, it may   *)
(* stay at two, but never without an error or a warning to some caller.    *)
LeftUpIsTold ==
    \A s \in Sets :
        (\A p \in CallersOf(s) : Ended(p)) /\ replicas[s] # 1 =>
            \E p \in CallersOf(s) : p \in warned \/ result[p] = "error"

(* The second replica is there while the first is evicted, if no other     *)
(* caller evicts from the same set (such a caller may scale it back).      *)
SurgeHeld ==
    \A p \in Pods :
        At(p, "evict") /\ p \in surged /\ Owned(p)
        /\ CallersOf(Set(p)) = {p} => replicas[Set(p)] = 2

(* The claim on a local volume, and so its data, is never given up while   *)
(* the pod that uses it exists: an eviction that fails leaves it alone.    *)
(* (One whose Get failed does not fail.)                                   *)
ClaimOutlivesPod == \A p \in present \ misled : claim[p] = "old"

(* nil means the pod is gone, or a Get of it failed, and its claim is a    *)
(* fresh one, not the one bound to the node left behind; or the pod is of  *)
(* a kind left alone.                                                      *)
NilMeansRenewed ==
    \A p \in Pods \ Skipped :
        At(p, "done") /\ result[p] = "nil" =>
            /\ p \notin present \ misled
            /\ p \in Claimants => claim[p] = "renewed"
=============================================================================
