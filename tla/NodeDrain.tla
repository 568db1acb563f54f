------------------------------ MODULE NodeDrain ------------------------------
(***************************************************************************)
(* Client.Drain and Client.EvictNode of evict.go: cordon the node, list    *)
(* its pods once, evict them one after the other (EvictPod), then remove   *)
(* the node's volume attachments.  Several nodes are drained at the same   *)
(* time, while the scheduler binds pods and other clients write the nodes  *)
(* and the ReplicaSets.                                                    *)
(***************************************************************************)
EXTENDS EvictPod

CONSTANTS
    Nodes,          \* the nodes drained
    Cordoning,      \* those drained by Drain; the others by EvictNode alone
    NodeOf,         \* [Pods -> Nodes]: where each pod runs, or would
    Latecomers,     \* pods the scheduler has still to place
    Attached        \* pods with a volume to attach to their node

ASSUME NodeDrainAssumption ==
    /\ Cordoning \subseteq Nodes
    /\ NodeOf \in [Pods -> Nodes]
    /\ Latecomers \subseteq Pods \ Skipped
    /\ Attached \subseteq Pods

VARIABLES
    node,       \* each node on the server: unschedulable, tainted, version
    copy,       \* the node Cordon has read
    at,         \* where each drain is: see Stages
    listed,     \* the pods EvictNode listed
    attachments,    \* the pods whose VolumeAttachment exists
    toDetach,   \* those listed that are still to be removed
    verdict,    \* what the drain returned: "none" while it runs
    unconnected,    \* drains that could not make a client
    nominated   \* latecomers the scheduler has chosen a node for

nodeVars == <<node, copy>>
drainVars == <<at, listed, toDetach, verdict, unconnected>>
ownVars == <<node, copy, at, listed, toDetach, verdict, unconnected,
             attachments, nominated>>
vars == <<evictVars, ownVars>>

(* "cordonGet", "cordonPut"  Cordon, when the drain is Drain               *)
(* "list", "evicting"        EvictNode                                     *)
(* "attachments", "detaching"  its second half                             *)
Stages == {"cordonGet", "cordonPut", "list", "evicting", "attachments",
           "detaching", "returned"}

NodeObjects == [unschedulable : BOOLEAN, tainted : BOOLEAN, version : Nat]

(* The variables of EvictPod and of the drains keep their types. *)
TypeOK ==
    /\ EvictTypeOK
    /\ node \in [Nodes -> NodeObjects]
    /\ copy \in [Nodes -> NodeObjects]
    /\ at \in [Nodes -> Stages]
    /\ listed \in [Nodes -> SUBSET Pods]
    /\ attachments \subseteq Pods
    /\ toDetach \in [Nodes -> SUBSET Pods]
    /\ verdict \in [Nodes -> {"none", "nil", "error"}]
    /\ unconnected \subseteq Nodes
    /\ nominated \subseteq Latecomers

FreshNode == [unschedulable |-> FALSE, tainted |-> FALSE, version |-> 0]

(* Drain cordons first. *)
Init ==
    /\ EvictInit
    /\ present = Pods \ Latecomers
    /\ node = [n \in Nodes |-> FreshNode]
    /\ copy = node
    /\ at = [n \in Nodes |-> IF n \in Cordoning THEN "cordonGet" ELSE "list"]
    /\ listed = [n \in Nodes |-> {}]
    /\ attachments = Attached \ Latecomers
    /\ toDetach = [n \in Nodes |-> {}]
    /\ verdict = [n \in Nodes |-> "none"]
    /\ unconnected = {}
    /\ nominated = {}

-----------------------------------------------------------------------------
(* The drain of one node.                                                  *)

Proceed(n, from, to) ==
    /\ at[n] = from
    /\ at' = [at EXCEPT ![n] = to]

ReturnWith(n, from, v) ==
    /\ Proceed(n, from, "returned")
    /\ verdict' = [verdict EXCEPT ![n] = v]

(* Cordon: without a client it returns nil, and Drain goes on. *)
CordonUnconnected(n) ==
    /\ Mishap
    /\ Proceed(n, "cordonGet", "list")
    /\ unconnected' = unconnected \union {n}
    /\ UNCHANGED <<evictState, nodeVars, listed, toDetach, verdict,
                   attachments, nominated>>

CordonGet(n) ==
    /\ Proceed(n, "cordonGet", "cordonPut")
    /\ copy' = [copy EXCEPT ![n] = node[n]]
    /\ UNCHANGED <<evictVars, node, listed, toDetach, verdict,
                   unconnected, attachments, nominated>>

(* Mutant of CordonPut: an update without the version read. *)
CordonPutUnconditional(n) ==
    /\ at[n] = "cordonPut"
    /\ node' = [node EXCEPT ![n] =
                   [copy[n] EXCEPT !.unschedulable = TRUE,
                                   !.version = node[n].version + 1]]
    /\ Proceed(n, "cordonPut", "list")
    /\ UNCHANGED <<evictVars, copy, listed, toDetach, verdict,
                   unconnected, attachments, nominated>>

(* The whole node is written back, under the version read. *)
CordonPut(n) ==
    /\ at[n] = "cordonPut"
    /\ copy[n].version = node[n].version
    /\ node' = [node EXCEPT ![n] =
                   [copy[n] EXCEPT !.unschedulable = TRUE, !.version = @ + 1]]
    /\ Proceed(n, "cordonPut", "list")
    /\ UNCHANGED <<evictVars, copy, listed, toDetach, verdict,
                   unconnected, attachments, nominated>>

(* The version is stale: Drain returns the error. *)
CordonConflict(n) ==
    /\ at[n] = "cordonPut"
    /\ copy[n].version # node[n].version
    /\ ReturnWith(n, "cordonPut", "error")
    /\ UNCHANGED <<evictVars, nodeVars, listed, toDetach, unconnected,
                   attachments, nominated>>

(* EvictNode without a client returns nil. *)
EvictUnconnected(n) ==
    /\ Mishap
    /\ ReturnWith(n, "list", "nil")
    /\ unconnected' = unconnected \union {n}
    /\ UNCHANGED <<evictState, nodeVars, listed, toDetach, attachments,
                   nominated>>

OnNode(n) == {p \in present : NodeOf[p] = n}

ListPods(n) ==
    /\ Proceed(n, "list", "evicting")
    /\ listed' = [listed EXCEPT ![n] = OnNode(n)]
    /\ UNCHANGED <<evictVars, nodeVars, toDetach, verdict, unconnected,
                   attachments, nominated>>

(* The next pod of the list, when those before it were evicted. *)
EvictNext(n, p) ==
    /\ at[n] = "evicting"
    /\ p \in listed[n]
    /\ \A q \in listed[n] : Ended(q) /\ result[q] = "nil"
    /\ Begin(p)
    /\ UNCHANGED ownVars

(* A step of the EvictPod in progress. *)
Evicting(p) == Caller(p) /\ UNCHANGED ownVars

(* Mutant of EvictFailed: the error is logged, and the loop left. *)
EvictFailedUnheard(n) ==
    /\ \E p \in listed[n] : At(p, "done") /\ result[p] = "error"
    /\ Proceed(n, "evicting", "attachments")
    /\ UNCHANGED <<evictVars, nodeVars, listed, toDetach, verdict,
                   unconnected, attachments, nominated>>

(* An eviction failed: the rest of the list is left alone. *)
EvictFailed(n) ==
    /\ \E p \in listed[n] : At(p, "done") /\ result[p] = "error"
    /\ ReturnWith(n, "evicting", "error")
    /\ UNCHANGED <<evictVars, nodeVars, listed, toDetach, unconnected,
                   attachments, nominated>>

(* Mutant of AllEvicted: the loop ends with the first pod evicted. *)
OneEvicted(n) ==
    /\ \E p \in listed[n] : At(p, "done") /\ result[p] = "nil"
    /\ Proceed(n, "evicting", "attachments")
    /\ UNCHANGED <<evictVars, nodeVars, listed, toDetach, verdict,
                   unconnected, attachments, nominated>>

AllEvicted(n) ==
    /\ \A p \in listed[n] : At(p, "done") /\ result[p] = "nil"
    /\ Proceed(n, "evicting", "attachments")
    /\ UNCHANGED <<evictVars, nodeVars, listed, toDetach, verdict,
                   unconnected, attachments, nominated>>

ListAttachments(n) ==
    /\ Proceed(n, "attachments", "detaching")
    /\ toDetach' = [toDetach EXCEPT ![n] =
                       {p \in attachments : NodeOf[p] = n}]
    /\ UNCHANGED <<evictVars, nodeVars, listed, verdict, unconnected,
                   attachments, nominated>>

(* RemoveVolumeAttachment: clear the finalizers, then delete. *)
Detach(n, p) ==
    /\ at[n] = "detaching"
    /\ p \in toDetach[n]
    /\ p \in attachments
    /\ attachments' = attachments \ {p}
    /\ toDetach' = [toDetach EXCEPT ![n] = @ \ {p}]
    /\ UNCHANGED <<evictVars, nodeVars, at, listed, verdict,
                   unconnected, nominated>>

(* The attachment went since it was listed: NotFound is an error. *)
DetachMissing(n) ==
    /\ \E p \in toDetach[n] : p \notin attachments
    /\ ReturnWith(n, "detaching", "error")
    /\ UNCHANGED <<evictVars, nodeVars, listed, toDetach, unconnected,
                   attachments, nominated>>

Detached(n) ==
    /\ toDetach[n] = {}
    /\ ReturnWith(n, "detaching", "nil")
    /\ UNCHANGED <<evictVars, nodeVars, listed, toDetach, unconnected,
                   attachments, nominated>>

(* A request of the drain fails. *)
DrainFails(n) ==
    /\ Mishap
    /\ \E stage \in Stages \ {"evicting", "returned"} :
          ReturnWith(n, stage, "error")
    /\ UNCHANGED <<evictState, nodeVars, listed, toDetach, unconnected,
                   attachments, nominated>>

Drainer(n) ==
    \/ CordonUnconnected(n) \/ CordonGet(n) \/ CordonPut(n)
    \/ CordonConflict(n) \/ EvictUnconnected(n) \/ ListPods(n)
    \/ \E p \in Pods : EvictNext(n, p) \/ Detach(n, p)
    \/ EvictFailed(n) \/ AllEvicted(n) \/ ListAttachments(n)
    \/ DetachMissing(n) \/ Detached(n) \/ DrainFails(n)

-----------------------------------------------------------------------------
(* The scheduler, the attach-detach controller and other clients.          *)

(* The scheduler chooses a node that is schedulable, and binds the pod     *)
(* later, when the node may have been cordoned.                            *)
Nominate(p) ==
    /\ p \in Latecomers \ (nominated \union present)
    /\ At(p, "idle")
    /\ ~node[NodeOf[p]].unschedulable
    /\ nominated' = nominated \union {p}
    /\ UNCHANGED <<evictVars, nodeVars, drainVars, attachments>>

Bind(p) ==
    /\ p \in nominated
    /\ nominated' = nominated \ {p}
    /\ present' = present \union {p}
    /\ UNCHANGED <<setVars, misled, claim, pc, read, surged, result, warned,
                   disturbed, nodeVars, drainVars, attachments>>

(* The controller attaches the volume of a pod that is bound, and detaches *)
(* that of a pod that has gone.                                            *)
AttachedByController(p) ==
    /\ p \in present \cap Latecomers \cap Attached
    /\ p \notin attachments
    /\ at[NodeOf[p]] # "returned"
    /\ attachments' = attachments \union {p}
    /\ UNCHANGED <<evictVars, nodeVars, drainVars, nominated>>

DetachedByController(p) ==
    /\ p \in attachments \ present
    /\ attachments' = attachments \ {p}
    /\ UNCHANGED <<evictVars, nodeVars, drainVars, nominated>>

(* Another client taints or uncordons the node. *)
NodeEdited(n) ==
    /\ Mishap
    /\ \/ node' = [node EXCEPT ![n].tainted = TRUE, ![n].version = @ + 1]
       \/ node' = [node EXCEPT ![n].unschedulable = FALSE,
                               ![n].version = @ + 1]
    /\ UNCHANGED <<evictState, copy, drainVars, attachments, nominated>>

Others ==
    \/ OtherClients /\ UNCHANGED ownVars
    \/ \E p \in Pods : \/ Nominate(p) \/ Bind(p)
                      \/ AttachedByController(p) \/ DetachedByController(p)
    \/ \E n \in Nodes : NodeEdited(n)

Next ==
    \/ \E n \in Nodes : Drainer(n)
    \/ \E p \in Pods : Evicting(p)
    \/ Others

Spec == Init /\ [][Next]_vars

-----------------------------------------------------------------------------
(* Properties.                                                             *)

(* nil from Drain or EvictNode means that every pod listed on the node is  *)
(* gone, or a Get of it failed, or it is of a kind left alone; unless no   *)
(* client could be made: then both return nil and have done nothing.       *)
NilMeansDrained ==
    \A n \in Nodes :
        verdict[n] = "nil" =>
            \/ n \in unconnected
            \/ \A p \in listed[n] \ Skipped :
                  At(p, "done") /\ result[p] = "nil" /\ p \notin present \ misled

(* A drain takes no volume from a pod it listed and has not evicted: an    *)
(* eviction that fails keeps the node's attachments.  (A pod bound after   *)
(* the list was taken, or whose Get failed, has no such protection.)       *)
DetachedWhenEvicted ==
    [][\A p \in (attachments \ attachments') \cap present :
          p \in Skipped \union misled \/ p \notin listed[NodeOf[p]]]_attachments

(* Cordon writes the whole node: no taint set by another client is lost.   *)
TaintsKept ==
    [][\A n \in Nodes : node[n].tainted => node'[n].tainted]_node
=============================================================================
