---------------------------- MODULE DeleteOrEvict ----------------------------
(***************************************************************************)
(* Helper.DeleteOrEvictPods of drain/drain.go: find out whether the server *)
(* supports evictions, then take one of the two ways, evictPods or         *)
(* deletePods.  This module composes them over one server.                 *)
(***************************************************************************)
EXTENDS PodServer, Sequences

CONSTANT DisableEviction    \* the Helper's field

ASSUME DisableAssumption == DisableEviction \in BOOLEAN

VARIABLES
    way,        \* the way taken: see Ways
    told,       \* how often OnPodDeletedOrEvicted was called for the pod
    pc, result, returnCh, doneCount, errors, expired, returned,
    phase, undeleted, pods, unseen, pendingPods, lastRound, timedOut,
    cancelled, settled

evictVars == <<pc, result, returnCh, doneCount, errors, expired, returned>>
deleteVars == <<phase, undeleted, pods, unseen, pendingPods, lastRound,
                timedOut, cancelled, settled>>
vars == <<serverVars, way, told, evictVars, deleteVars>>

E == INSTANCE EvictPods
D == INSTANCE DeletePods

(* "asking"    about to ask the server which groups it supports            *)
(* "failed"    that failed: its error is returned                          *)
(* "nothing"   no pod was given: nil is returned                           *)
Ways == {"asking", "evict", "delete", "failed", "nothing"}

(* The variables of the composition and of both ways keep their types. *)
TypeOK == way \in Ways /\ E!TypeOK /\ D!TypeOK

Init == way = "asking" /\ E!Init /\ D!Init

-----------------------------------------------------------------------------
(* CheckEvictionSupport: "evict" when the server has the policy group and  *)
(* the subresource pods/eviction, "delete" when it lacks either.           *)
EvictionSupport == {"evict", "delete", "failed"}

Ask ==
    /\ way = "asking"
    /\ way' \in IF Pods = {} THEN {"nothing"}
                ELSE IF DisableEviction THEN {"delete"}
                ELSE EvictionSupport
    /\ UNCHANGED <<serverVars, told, evictVars, deleteVars>>

Evicting(A) == way = "evict" /\ A /\ UNCHANGED <<way, deleteVars>>
Deleting(A) == way = "delete" /\ A /\ UNCHANGED <<way, evictVars>>

Evictor(p) == Evicting(E!Worker(p))
Collect == Evicting(E!Receive)
Finish == Evicting(E!Return)
Deadline == Evicting(E!Expire)
Deleter == Deleting(D!Caller)
Timer == Deleting(D!TimeOut)
Cancelled == Deleting(D!Cancel)

Others == OthersStep /\ UNCHANGED <<way, told, evictVars, deleteVars>>

Next ==
    \/ Ask
    \/ \E p \in Pods : Evictor(p)
    \/ Collect \/ Finish \/ Deadline
    \/ Deleter \/ Timer \/ Cancelled
    \/ Others

Spec == Init /\ [][Next]_vars

(* The Go scheduler runs every goroutine that can run, and the clock runs: *)
(* with a timeout the deadline comes.  Nothing is assumed of the server.   *)
FairSpec ==
    /\ Spec
    /\ WF_vars(Ask)
    /\ \A p \in Pods : WF_vars(Evictor(p))
    /\ WF_vars(Collect) /\ WF_vars(Finish) /\ WF_vars(Deleter)
    /\ HasTimeout => WF_vars(Deadline) /\ WF_vars(Timer)

-----------------------------------------------------------------------------
(* Properties.                                                             *)

(* What DeleteOrEvictPods has returned. *)
Verdict ==
    CASE way = "evict" /\ returned -> IF errors = {} THEN "nil" ELSE "error"
      [] way = "delete" /\ D!Returned -> phase
      [] way = "failed" -> "error"
      [] way = "nothing" -> "nil"
      [] OTHER -> "none"

(* What it has concluded about each pod. *)
Concluded(p) ==
    IF way = "delete" THEN settled[p]
    ELSE IF result[p] = "none" THEN "pending" ELSE result[p]

(* When evictPods returns, no goroutine it started is left running and no  *)
(* result is left in the channel ("return here or we'll leak a goroutine", *)
(* drain.go:243): the count to numPods and the one send per goroutine      *)
(* agree on every path.                                                    *)
NoGoroutineLeft == E!NoGoroutineLeft

(* The aggregate evictPods returns holds exactly the failures of its       *)
(* goroutines: none is lost between the channel and the caller, none is    *)
(* counted twice.                                                          *)
VerdictExact == E!VerdictExact

(* A nil result, by either way, means that every pod given is gone, or is  *)
(* past the threshold the helper was told not to wait beyond, or that a    *)
(* Get of it failed.                                                       *)
NilMeansGone ==
    Verdict = "nil" =>
        \A p \in Pods : Removed(p) \/ obj[p] = "overdue" \/ p \in misled

(* deletePods returns an error only with a pod still to be settled: a wait *)
(* that times out in the very round that finds the last pod gone is a      *)
(* success.                                                                *)
ErrorMeansPending == D!ErrorMeansPending

(* The callback runs at most once for a pod, over all retries, polls and   *)
(* rounds of either way, and the call then counts the pod as removed.      *)
ToldOnce ==
    \A p \in Pods :
        told[p] <= 1 /\ (told[p] = 1 => Concluded(p) = "removed")

(* "OnPodDeletedOrEvicted is called when a pod is evicted/deleted"         *)
(* (drain.go:72): only for a pod that is gone.                             *)
ToldWhenGone == \A p \in Pods : told[p] > 0 => Removed(p)

(* "EvictPod will evict the given pod" (drain.go:136): no request removes  *)
(* a later pod that merely has the name of a given one.                    *)
GivenPodOnly == wrong = {}

(* DeleteOrEvictPods keeps its promise: it implements PodRemoval. *)
Removal == INSTANCE PodRemoval WITH
    present <- {p \in Pods : ~Removed(p)},
    settled <- [p \in Pods |-> Concluded(p)],
    told <- {p \in Pods : told[p] > 0},
    verdict <- Verdict

ImplementsRemoval == Removal!Spec

(* With a deadline DeleteOrEvictPods returns, whatever the disruption      *)
(* budgets and the kubelets do.                                            *)
Returns == <>(Verdict # "none")

(* Every result concluded by a goroutine of evictPods reaches the caller,  *)
(* although the channel holds only one and all may be sending at once.     *)
ResultsReceived == E!ResultsReceived
=============================================================================
