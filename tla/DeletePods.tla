----------------------------- MODULE DeletePods -----------------------------
(***************************************************************************)
(* Helper.deletePods of drain/drain.go, taken when eviction is disabled or *)
(* not supported: delete every pod by name, one after the other, then wait *)
(* for all of them together in waitForDelete, which polls in rounds (one   *)
(* Get per pod still pending, every second) until the timer fires.         *)
(***************************************************************************)
EXTENDS PodServer

VARIABLES
    phase,      \* where the call is: see Phases
    undeleted,  \* pods not yet asked to be deleted
    pods,       \* waitForDelete's pods: pending when the round began
    unseen,     \* those of them the current round has still to Get
    pendingPods,    \* those the current round found still there
    lastRound,  \* the round was started by the poll's timeout
    timedOut,   \* the poll's timer has fired
    cancelled,  \* ctx.Done()
    told,       \* how often OnPodDeletedOrEvicted was called for the pod
    settled     \* history: what the call concluded about each pod

listVars == <<undeleted, pods, unseen, pendingPods>>
clockVars == <<timedOut, cancelled>>
vars == <<obj, wrong, misled, phase, undeleted, pods, unseen, pendingPods,
          lastRound, timedOut, cancelled, told, settled>>

(* "deleting"  in the loop of DeletePod calls                              *)
(* "round"     in a round of Gets, the condition of PollImmediate          *)
(* "sleeping"  between two rounds                                          *)
(* "nil", "error"  returned                                                *)
Phases == {"deleting", "round", "sleeping", "nil", "error"}
Returned == phase \in {"nil", "error"}

(* The variables keep their types. *)
TypeOK ==
    /\ ServerTypeOK
    /\ phase \in Phases
    /\ undeleted \subseteq Pods
    /\ pods \subseteq Pods
    /\ unseen \subseteq Pods
    /\ pendingPods \subseteq Pods
    /\ lastRound \in BOOLEAN
    /\ timedOut \in BOOLEAN
    /\ cancelled \in BOOLEAN
    /\ told \in [Pods -> Nat]
    /\ settled \in [Pods -> {"pending", "removed", "skipped"}]

Init ==
    /\ ServerInit
    /\ phase = "deleting"
    /\ undeleted = Pods
    /\ pods = {}
    /\ unseen = {}
    /\ pendingPods = {}
    /\ lastRound = FALSE
    /\ timedOut = FALSE
    /\ cancelled = FALSE
    /\ told = [p \in Pods |-> 0]
    /\ settled = [p \in Pods |-> "pending"]

-----------------------------------------------------------------------------
(* The loop of deletes.  The list's order is left open.                    *)

(* DeletePod succeeds, or finds no pod of that name. *)
DeleteOne(p) ==
    /\ phase = "deleting"
    /\ p \in undeleted
    /\ \/ RemoveByName(p)
       \/ obj[p] = "gone" /\ UNCHANGED serverVars
    /\ undeleted' = undeleted \ {p}
    /\ UNCHANGED <<phase, pods, unseen, pendingPods, lastRound, clockVars,
                   told, settled>>

(* Any other error ends the call: the pods after it are not deleted, and   *)
(* nobody waits for those before it.  The request may have taken effect.   *)
DeleteFails(p) ==
    /\ phase = "deleting"
    /\ p \in undeleted
    /\ RemoveByName(p) \/ UNCHANGED serverVars
    /\ phase' = "error"
    /\ UNCHANGED <<listVars, lastRound, clockVars, told, settled>>

(* waitForDelete begins: PollImmediate runs a first round at once. *)
BeginWait ==
    /\ phase = "deleting"
    /\ undeleted = {}
    /\ phase' = "round"
    /\ pods' = Pods
    /\ unseen' = Pods
    /\ pendingPods' = {}
    /\ UNCHANGED <<serverVars, undeleted, lastRound, clockVars, told, settled>>

-----------------------------------------------------------------------------
(* One round: a Get for every pending pod.                                 *)

Seen(p) ==
    /\ phase = "round"
    /\ p \in unseen
    /\ unseen' = unseen \ {p}

(* Gone: the pod is dropped from the list and the callback is called. *)
SeeGone(p) ==
    /\ Seen(p)
    /\ LooksGone(p)
    /\ told' = [told EXCEPT ![p] = @ + 1]
    /\ settled' = [settled EXCEPT ![p] = "removed"]
    /\ UNCHANGED <<phase, undeleted, pods, pendingPods, lastRound, clockVars>>

(* Overdue: dropped without a callback. *)
SeeOverdue(p) ==
    /\ Seen(p)
    /\ LooksOverdue(p)
    /\ settled' = [settled EXCEPT ![p] = "skipped"]
    /\ UNCHANGED <<phase, undeleted, pods, pendingPods, lastRound, clockVars,
                   told>>

(* Mutant of SeePending: the pod is not carried over to the next round. *)
SeePendingForgotten(p) ==
    /\ Seen(p)
    /\ LooksPending(p)
    /\ UNCHANGED <<phase, undeleted, pods, pendingPods, lastRound, clockVars,
                   told, settled>>

SeePending(p) ==
    /\ Seen(p)
    /\ LooksPending(p)
    /\ pendingPods' = pendingPods \union {p}
    /\ UNCHANGED <<phase, undeleted, pods, lastRound, clockVars, told, settled>>

(* Mutant of EndRound: the context is tested before the pending pods. *)
EndRoundContextFirst ==
    /\ phase = "round"
    /\ unseen = {}
    /\ pods' = pendingPods
    /\ phase' = IF cancelled \/ lastRound THEN "error"
                ELSE IF pendingPods = {} THEN "nil"
                ELSE "sleeping"
    /\ UNCHANGED <<serverVars, undeleted, unseen, pendingPods, lastRound,
                   clockVars, told, settled>>

(* The round ends: done when nothing is pending, else an error if the      *)
(* context is done or (ErrWaitTimeout) if this was the round after the     *)
(* timer fired, else sleep.                                                *)
EndRound ==
    /\ phase = "round"
    /\ unseen = {}
    /\ pods' = pendingPods
    /\ phase' = IF pendingPods = {} THEN "nil"
                ELSE IF cancelled \/ lastRound THEN "error"
                ELSE "sleeping"
    /\ UNCHANGED <<serverVars, undeleted, unseen, pendingPods, lastRound,
                   clockVars, told, settled>>

(* Mutant of NextRound: pods = pendingPods is missing, so that each round  *)
(* looks at every pod again.                                               *)
NextRoundOfAll ==
    /\ phase = "sleeping"
    /\ phase' = "round"
    /\ unseen' = Pods
    /\ pendingPods' = {}
    /\ lastRound' = timedOut
    /\ UNCHANGED <<serverVars, undeleted, pods, clockVars, told, settled>>

(* The next round starts on a tick, or because the timer closed the        *)
(* channel: then it is the last.                                           *)
NextRound ==
    /\ phase = "sleeping"
    /\ phase' = "round"
    /\ unseen' = pods
    /\ pendingPods' = {}
    /\ lastRound' = timedOut
    /\ UNCHANGED <<serverVars, undeleted, pods, clockVars, told, settled>>

-----------------------------------------------------------------------------
(* The timer of the poll, started after the first round; one that fires in *)
(* the first round here stands for one that fires right after it.          *)
TimeOut ==
    /\ HasTimeout
    /\ ~timedOut
    /\ phase \in {"round", "sleeping"}
    /\ timedOut' = TRUE
    /\ UNCHANGED <<serverVars, phase, listVars, lastRound, cancelled, told,
                   settled>>

Cancel ==
    /\ HasCancel
    /\ ~cancelled
    /\ cancelled' = TRUE
    /\ UNCHANGED <<serverVars, phase, listVars, lastRound, timedOut, told,
                   settled>>

Others ==
    /\ OthersStep
    /\ UNCHANGED <<phase, listVars, lastRound, clockVars, told, settled>>

See(p) == SeeGone(p) \/ SeeOverdue(p) \/ SeePending(p)

Caller ==
    \/ \E p \in Pods : DeleteOne(p) \/ DeleteFails(p) \/ See(p)
    \/ BeginWait
    \/ EndRound
    \/ NextRound

Next == Caller \/ TimeOut \/ Cancel \/ Others

Spec == Init /\ [][Next]_vars

-----------------------------------------------------------------------------
(* Properties.                                                             *)

(* nil means that every pod is gone or overdue, or that a Get of it        *)
(* failed: the rounds carry exactly the pods still pending from one to the *)
(* next.                                                                   *)
NilMeansGone ==
    phase = "nil" =>
        \A p \in Pods : Removed(p) \/ obj[p] = "overdue" \/ p \in misled

(* The callback runs once for each pod settled as removed and for no       *)
(* other, over all the rounds: no round looks again at a settled pod.      *)
ToldOnce ==
    \A p \in Pods : told[p] = IF settled[p] = "removed" THEN 1 ELSE 0

(* An error is returned only with a pod still to be settled: a wait that   *)
(* times out in the very round that finds the last pod gone is a success.  *)
ErrorMeansPending ==
    phase = "error" => \E p \in Pods : settled[p] = "pending"

(* The other implementation of the promise of DeleteOrEvictPods. *)
Removal == INSTANCE PodRemoval WITH
    present <- {p \in Pods : ~Removed(p)},
    told <- {p \in Pods : told[p] > 0},
    verdict <- IF Returned THEN phase ELSE "none"

ImplementsRemoval == Removal!Spec

-----------------------------------------------------------------------------
(* The inductive invariant.                                                *)

Unsettled == {p \in Pods : settled[p] = "pending"}

(* In a round, the pods unsettled are those not yet looked at and those    *)
(* found pending; between rounds they are the list waited for.             *)
ListInv ==
    /\ phase = "deleting" => Unsettled = Pods
    /\ phase = "round" =>
          /\ Unsettled = unseen \union pendingPods
          /\ unseen \cap pendingPods = {}
    /\ phase = "sleeping" => Unsettled = pods /\ pods # {}
    /\ phase = "nil" => Unsettled = {}
    /\ phase = "error" => Unsettled # {}

(* Unless a Get failed, what was concluded of a pod is and stays true. *)
TruthInv ==
    \A p \in Pods :
        /\ settled[p] = "removed" => Removed(p) \/ p \in misled
        /\ settled[p] = "skipped" => Removed(p) \/ obj[p] = "overdue"

(* The inductive invariant: what the rounds carry, the callbacks, and the  *)
(* truth of what was concluded.                                            *)
IInv == ListInv /\ ToldOnce /\ TruthInv
=============================================================================
