------------------------------ MODULE EvictPods ------------------------------
(***************************************************************************)
(* Helper.evictPods of drain/drain.go: one goroutine per pod asks for its  *)
(* eviction, again every 5 s while a disruption budget refuses it, then    *)
(* polls until the pod is gone; each sends one result on a channel of      *)
(* capacity 1, and the caller counts results up to the number of pods.     *)
(***************************************************************************)
EXTENDS PodServer, Sequences

VARIABLES
    pc,         \* where the goroutine of each pod is
    result,     \* what it concluded: see Results
    told,       \* how often OnPodDeletedOrEvicted was called for the pod
    returnCh,   \* the channel: sequence of the pods whose result is in it
    doneCount,  \* the caller's count of received results
    errors,     \* the pods whose received result was an error
    expired,    \* ctx.Done(): deadline passed, or parent context cancelled
    returned    \* evictPods has returned, NewAggregate(errors)

workerVars == <<pc, result, told>>
callerVars == <<doneCount, errors, returned>>
vars == <<obj, wrong, misled, pc, result, told, returnCh, doneCount, errors,
          expired, returned>>

(* "check"   about to test ctx.Done(), top of the eviction loop            *)
(* "evict"   about to call EvictPod                                        *)
(* "backoff" in the 5 s sleep after TooManyRequests                        *)
(* "poll"    about to Get the pod in waitForDelete                         *)
(* "pending" the Get found it: about to test ctx.Done()                    *)
(* "send"    about to send its result on returnCh                          *)
(* "sent"    the goroutine has ended                                       *)
Locations == {"check", "evict", "backoff", "poll", "pending", "send", "sent"}

(* "removed" and "skipped" are both sent as nil. *)
Results == {"none", "removed", "skipped", "failed"}

(* The variables keep their types; a count never goes below zero. *)
TypeOK ==
    /\ ServerTypeOK
    /\ pc \in [Pods -> Locations]
    /\ result \in [Pods -> Results]
    /\ told \in [Pods -> Nat]
    /\ returnCh \in Seq(Pods)
    /\ doneCount \in Nat
    /\ errors \subseteq Pods
    /\ expired \in BOOLEAN
    /\ returned \in BOOLEAN

Init ==
    /\ ServerInit
    /\ pc = [p \in Pods |-> "check"]
    /\ result = [p \in Pods |-> "none"]
    /\ told = [p \in Pods |-> 0]
    /\ returnCh = <<>>
    /\ doneCount = 0
    /\ errors = {}
    /\ expired = FALSE
    /\ returned = FALSE

-----------------------------------------------------------------------------
(* The goroutine of one pod.                                               *)

At(p, here) == pc[p] = here
Goto(p, there) == pc' = [pc EXCEPT ![p] = there]

(* Go on to send the result r. *)
Conclude(p, r) ==
    /\ result' = [result EXCEPT ![p] = r]
    /\ Goto(p, "send")

(* Mutant of CheckContext: the eviction loop does not look at ctx.Done(). *)
NeverCheckContext(p) ==
    /\ At(p, "check")
    /\ Goto(p, "evict")
    /\ UNCHANGED <<serverVars, result, told, returnCh, callerVars, expired>>

CheckContext(p) ==
    /\ At(p, "check")
    /\ IF expired THEN Conclude(p, "failed")
                  ELSE Goto(p, "evict") /\ UNCHANGED result
    /\ UNCHANGED <<serverVars, told, returnCh, callerVars, expired>>

(* EvictPod succeeds: the request took effect on the pod of that name. *)
EvictAccepted(p) ==
    /\ At(p, "evict")
    /\ RemoveByName(p)
    /\ Goto(p, "poll")
    /\ UNCHANGED <<result, told, returnCh, callerVars, expired>>

EvictNotFound(p) ==
    /\ At(p, "evict")
    /\ obj[p] = "gone"
    /\ Conclude(p, "removed")
    /\ UNCHANGED <<serverVars, told, returnCh, callerVars, expired>>

(* TooManyRequests: a disruption budget forbids the eviction for now. *)
EvictRefused(p) ==
    /\ At(p, "evict")
    /\ Goto(p, "backoff")
    /\ UNCHANGED <<serverVars, result, told, returnCh, callerVars, expired>>

(* Mutant of EvictFails: the error of the eviction is logged, and nil sent. *)
EvictFailsUnheard(p) ==
    /\ At(p, "evict")
    /\ RemoveByName(p) \/ UNCHANGED serverVars
    /\ Conclude(p, "removed")
    /\ UNCHANGED <<told, returnCh, callerVars, expired>>

(* Any other error; the request may have taken effect all the same (the    *)
(* answer was lost).                                                       *)
EvictFails(p) ==
    /\ At(p, "evict")
    /\ RemoveByName(p) \/ UNCHANGED serverVars
    /\ Conclude(p, "failed")
    /\ UNCHANGED <<told, returnCh, callerVars, expired>>

Evict(p) ==
    EvictAccepted(p) \/ EvictNotFound(p) \/ EvictRefused(p) \/ EvictFails(p)

(* time.Sleep(5 s) ends; it is not cut short by the deadline. *)
WakeUp(p) ==
    /\ At(p, "backoff")
    /\ Goto(p, "check")
    /\ UNCHANGED <<serverVars, result, told, returnCh, callerVars, expired>>

(* One Get of waitForDelete. *)
PollGone(p) ==
    /\ At(p, "poll")
    /\ LooksGone(p)
    /\ told' = [told EXCEPT ![p] = @ + 1]
    /\ Conclude(p, "removed")
    /\ UNCHANGED <<returnCh, callerVars, expired>>

(* Not waited for, and not told. *)
PollOverdue(p) ==
    /\ At(p, "poll")
    /\ LooksOverdue(p)
    /\ Conclude(p, "skipped")
    /\ UNCHANGED <<told, returnCh, callerVars, expired>>

PollFound(p) ==
    /\ At(p, "poll")
    /\ LooksPending(p)
    /\ Goto(p, "pending")
    /\ UNCHANGED <<result, told, returnCh, callerVars, expired>>

Poll(p) == PollGone(p) \/ PollOverdue(p) \/ PollFound(p)

(* The pod is still there: fail if the deadline passed, else wait 1 s. *)
StillPending(p) ==
    /\ At(p, "pending")
    /\ IF expired THEN Conclude(p, "failed")
                  ELSE Goto(p, "poll") /\ UNCHANGED result
    /\ UNCHANGED <<serverVars, told, returnCh, callerVars, expired>>

(* returnCh <- err blocks while the buffer of one is full. *)
ChannelCap == 1

(* Mutant of Send: without the return after sending the error of a context *)
(* that is done, the goroutine goes on with its loop.                      *)
SendAndCarryOn(p) ==
    /\ At(p, "send")
    /\ Len(returnCh) < ChannelCap
    /\ returnCh' = Append(returnCh, p)
    /\ Goto(p, IF expired /\ result[p] = "failed" THEN "check" ELSE "sent")
    /\ UNCHANGED <<serverVars, result, told, callerVars, expired>>

Send(p) ==
    /\ At(p, "send")
    /\ Len(returnCh) < ChannelCap
    /\ returnCh' = Append(returnCh, p)
    /\ Goto(p, "sent")
    /\ UNCHANGED <<serverVars, result, told, callerVars, expired>>

Worker(p) ==
    \/ CheckContext(p) \/ Evict(p) \/ WakeUp(p)
    \/ Poll(p) \/ StillPending(p) \/ Send(p)

-----------------------------------------------------------------------------
(* The caller.                                                             *)

(* Mutants of Receive: counting down; keeping the last error only;         *)
(* collecting no more results after the first error.                       *)
ReceiveDown ==
    /\ ~returned
    /\ doneCount < Cardinality(Pods)
    /\ returnCh # <<>>
    /\ returnCh' = Tail(returnCh)
    /\ doneCount' = doneCount - 1
    /\ errors' = IF result[Head(returnCh)] = "failed"
                 THEN errors \union {Head(returnCh)} ELSE errors
    /\ UNCHANGED <<serverVars, workerVars, expired, returned>>

ReceiveLastError ==
    /\ ~returned
    /\ doneCount < Cardinality(Pods)
    /\ returnCh # <<>>
    /\ returnCh' = Tail(returnCh)
    /\ doneCount' = doneCount + 1
    /\ errors' = IF result[Head(returnCh)] = "failed"
                 THEN {Head(returnCh)} ELSE errors
    /\ UNCHANGED <<serverVars, workerVars, expired, returned>>

ReceiveToFirstError ==
    /\ ~returned
    /\ errors = {}
    /\ doneCount < Cardinality(Pods)
    /\ returnCh # <<>>
    /\ returnCh' = Tail(returnCh)
    /\ doneCount' = doneCount + 1
    /\ errors' = IF result[Head(returnCh)] = "failed"
                 THEN {Head(returnCh)} ELSE errors
    /\ UNCHANGED <<serverVars, workerVars, expired, returned>>

(* One result received in the busy loop. *)
Receive ==
    /\ ~returned
    /\ doneCount < Cardinality(Pods)
    /\ returnCh # <<>>
    /\ returnCh' = Tail(returnCh)
    /\ doneCount' = doneCount + 1
    /\ errors' = IF result[Head(returnCh)] = "failed"
                 THEN errors \union {Head(returnCh)} ELSE errors
    /\ UNCHANGED <<serverVars, workerVars, expired, returned>>

(* All results are in: return, and the deferred cancel() runs. *)
Return ==
    /\ ~returned
    /\ doneCount = Cardinality(Pods)
    /\ returned' = TRUE
    /\ expired' = TRUE
    /\ UNCHANGED <<serverVars, workerVars, returnCh, doneCount, errors>>

(* The deadline passes, or the caller cancels Helper.Ctx. *)
Expire ==
    /\ HasTimeout \/ HasCancel
    /\ ~expired
    /\ expired' = TRUE
    /\ UNCHANGED <<serverVars, workerVars, returnCh, callerVars>>

Others == OthersStep /\ UNCHANGED <<workerVars, returnCh, callerVars, expired>>

Next ==
    \/ \E p \in Pods : Worker(p)
    \/ Receive
    \/ Return
    \/ Expire
    \/ Others

Spec == Init /\ [][Next]_vars

-----------------------------------------------------------------------------
(* Properties.                                                             *)

Failed == {p \in Pods : result[p] = "failed"}

(* When evictPods returns, no goroutine it started is left running and no  *)
(* result is left in the channel ("return here or we'll leak a goroutine", *)
(* drain.go:243): the count to numPods and the one send per goroutine      *)
(* agree on every path.                                                    *)
NoGoroutineLeft ==
    returned => /\ \A p \in Pods : pc[p] = "sent"
                /\ returnCh = <<>>

(* The aggregate returned holds exactly the failures of the goroutines:    *)
(* none is lost between the channel and the caller, none is counted twice. *)
VerdictExact == returned => errors = Failed

(* A nil result means that every pod given is gone, or is past the         *)
(* threshold the helper was told not to wait beyond, or that a Get of it   *)
(* failed.                                                                 *)
NilMeansGone ==
    returned /\ errors = {} =>
        \A p \in Pods : Removed(p) \/ obj[p] = "overdue" \/ p \in misled

(* The callback runs at most once for a pod over all its retries and       *)
(* polls, and the pod's result is then nil.                                *)
ToldOnce ==
    \A p \in Pods : told[p] <= 1 /\ (told[p] = 1 => result[p] = "removed")

(* Every result concluded by a goroutine reaches the caller, although the  *)
(* channel holds only one and all goroutines may be sending at once.       *)
ResultsReceived ==
    \A p \in Pods : pc[p] = "send" ~> (pc[p] = "sent" /\ returnCh = <<>>)

(* evictPods keeps the promise of DeleteOrEvictPods. *)
Removal == INSTANCE PodRemoval WITH
    present <- {p \in Pods : ~Removed(p)},
    settled <- [p \in Pods |-> IF result[p] = "none" THEN "pending"
                                                     ELSE result[p]],
    told <- {p \in Pods : told[p] > 0},
    verdict <- IF ~returned THEN "none"
               ELSE IF errors = {} THEN "nil" ELSE "error"

ImplementsRemoval == Removal!Spec

-----------------------------------------------------------------------------
(* The inductive invariant behind the safety properties.                   *)

Sent == {p \in Pods : pc[p] = "sent"}

(* Every result sent is either in the channel or counted. *)
CountInv == doneCount + Len(returnCh) = Cardinality(Sent)

(* The channel never exceeds its capacity and holds results of ended       *)
(* goroutines only.                                                        *)
ChannelInv ==
    /\ Len(returnCh) <= ChannelCap
    /\ returnCh # <<>> => pc[Head(returnCh)] = "sent"

(* A goroutine has a result exactly from the moment it is to send it. *)
ResultInv ==
    \A p \in Pods : result[p] = "none" <=> pc[p] \notin {"send", "sent"}

(* The errors collected are those of the sent results not in the channel. *)
InChannel(p) == returnCh # <<>> /\ Head(returnCh) = p

ErrorsInv == errors = {p \in Sent : result[p] = "failed" /\ ~InChannel(p)}

ReturnInv == returned => doneCount = Cardinality(Pods)

(* Unless a Get failed, what a goroutine concluded is and stays true. *)
TruthInv ==
    \A p \in Pods :
        /\ result[p] = "removed" => Removed(p) \/ p \in misled
        /\ result[p] = "skipped" => Removed(p) \/ obj[p] = "overdue"

(* All of it; it implies NoGoroutineLeft, VerdictExact and NilMeansGone,   *)
(* none of which is inductive alone.                                       *)
IInv ==
    /\ CountInv
    /\ ChannelInv
    /\ ResultInv
    /\ ErrorsInv
    /\ ReturnInv
    /\ ToldOnce
    /\ TruthInv
=============================================================================
