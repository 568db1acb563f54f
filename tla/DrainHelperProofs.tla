-------------------------- MODULE DrainHelperProofs --------------------------
(***************************************************************************)
(* Proofs about what drain.Helper does: DeleteOrEvictPods and, at the end, *)
(* GetPodsForDeletion, which share no state.                               *)
(*                                                                         *)
(* DeleteOrEvict is correct for any finite set of pods, from what is       *)
(* proved of the two ways in EvictPodsProofs (EP) and DeletePodsProofs     *)
(* (DP): while neither is taken both of their invariants hold, and then    *)
(* the invariant of the way taken.                                         *)
(***************************************************************************)
EXTENDS DeleteOrEvict, PodFilters, PodServerProofs, TLAPS

EP == INSTANCE EvictPodsProofs
DP == INSTANCE DeletePodsProofs

-----------------------------------------------------------------------------
(* The modules instantiated for the proofs are those of the specification. *)

(* The pods are finitely many, by either module's definition. *)
LEMMA FinitePods == EP!IsFiniteSet(Pods) /\ DP!IsFiniteSet(Pods)
  BY PodsAssumption DEF EP!IsFiniteSet, DP!IsFiniteSet, IsFiniteSet

(* The type of the server's state is the same in all of them. *)
LEMMA SameServer ==
    /\ EP!ServerTypeOK <=> ServerTypeOK
    /\ E!ServerTypeOK <=> ServerTypeOK
    /\ DP!ServerTypeOK <=> ServerTypeOK
    /\ D!ServerTypeOK <=> ServerTypeOK
  BY DEF EP!ServerTypeOK, E!ServerTypeOK, EP!Objects, E!Objects,
         DP!ServerTypeOK, D!ServerTypeOK, DP!Objects, D!Objects,
         ServerTypeOK, Objects

(* So are the types of the two ways, *)
LEMMA SameTypeOK == (EP!TypeOK <=> E!TypeOK) /\ (DP!TypeOK <=> D!TypeOK)
  BY SameServer
  DEF EP!TypeOK, E!TypeOK, EP!Locations, E!Locations, EP!Results, E!Results,
      DP!TypeOK, D!TypeOK, DP!Phases, D!Phases

(* their initial states, *)
LEMMA SameInit == (EP!Init <=> E!Init) /\ (DP!Init <=> D!Init)
  BY DEF EP!Init, E!Init, DP!Init, D!Init, EP!ServerInit, E!ServerInit,
         DP!ServerInit, D!ServerInit

(* the number of pods, *)
LEMMA SameCount == EP!Cardinality(Pods) = E!Cardinality(Pods)
  BY DEF EP!Cardinality, E!Cardinality

(* the steps of other clients, *)
LEMMA SameOthers ==
    /\ OthersStep <=> EP!OthersStep
    /\ OthersStep <=> DP!OthersStep
  BY DEF OthersStep, DeletedByOther, BecomesOverdue, Terminates, Recreated,
     EP!OthersStep, EP!DeletedByOther, EP!BecomesOverdue, EP!Terminates,
     EP!Recreated, DP!OthersStep, DP!DeletedByOther, DP!BecomesOverdue,
     DP!Terminates, DP!Recreated

(* the steps of a goroutine of evictPods, *)
LEMMA SameWorker == ASSUME NEW p \in Pods PROVE E!Worker(p) <=> EP!Worker(p)
  BY DEF E!Worker, E!CheckContext, E!Evict, E!EvictAccepted, E!EvictNotFound,
     E!EvictRefused, E!EvictFails, E!WakeUp, E!Poll, E!PollGone,
     E!PollOverdue, E!PollFound, E!StillPending, E!Send, E!At, E!Goto,
     E!Conclude, E!ChannelCap, E!RemoveByName, E!LooksGone, E!LooksOverdue,
     E!LooksPending, E!Answers, E!serverVars, E!callerVars,
     EP!Worker, EP!CheckContext, EP!Evict, EP!EvictAccepted, EP!EvictNotFound,
     EP!EvictRefused, EP!EvictFails, EP!WakeUp, EP!Poll, EP!PollGone,
     EP!PollOverdue, EP!PollFound, EP!StillPending, EP!Send, EP!At, EP!Goto,
     EP!Conclude, EP!ChannelCap, EP!RemoveByName, EP!LooksGone,
     EP!LooksOverdue, EP!LooksPending, EP!Answers, EP!serverVars,
     EP!callerVars

(* the steps of evictPods itself, *)
LEMMA SameCollector ==
    /\ E!Receive <=> EP!Receive
    /\ E!Return <=> EP!Return
    /\ E!Expire <=> EP!Expire
  BY SameCount
  DEF E!Receive, E!Return, E!Expire, EP!Receive, EP!Return, EP!Expire,
      E!serverVars, EP!serverVars, E!workerVars, EP!workerVars,
      E!callerVars, EP!callerVars

(* and the steps of deletePods. *)
LEMMA SameDeleter ==
    /\ D!Caller <=> DP!Caller
    /\ D!TimeOut <=> DP!TimeOut
    /\ D!Cancel <=> DP!Cancel
  BY DEF D!Caller, D!DeleteOne, D!DeleteFails, D!See, D!SeeGone,
     D!SeeOverdue, D!SeePending, D!Seen, D!BeginWait, D!EndRound,
     D!NextRound, D!TimeOut, D!Cancel, D!RemoveByName, D!LooksGone,
     D!LooksOverdue, D!LooksPending, D!Answers, D!serverVars, D!listVars,
     D!clockVars,
     DP!Caller, DP!DeleteOne, DP!DeleteFails, DP!See, DP!SeeGone,
     DP!SeeOverdue, DP!SeePending, DP!Seen, DP!BeginWait, DP!EndRound,
     DP!NextRound, DP!TimeOut, DP!Cancel, DP!RemoveByName, DP!LooksGone,
     DP!LooksOverdue, DP!LooksPending, DP!Answers, DP!serverVars,
     DP!listVars, DP!clockVars

-----------------------------------------------------------------------------
(* Every step of the composition is one of the way taken.                  *)

(* Unless deletePods is the way, a step is one of evictPods or changes     *)
(* nothing of it.                                                          *)
LEMMA EvictStep ==
    ASSUME [Next]_vars, way' # "delete" \/ way # "delete"
    PROVE  [EP!Next]_(EP!vars)
<1>1. ASSUME NEW p \in Pods, Evictor(p) PROVE EP!Next
  BY <1>1, SameWorker DEF Evictor, Evicting, EP!Next
<1>2. CASE Collect \/ Finish \/ Deadline
  BY <1>2, SameCollector DEF Collect, Finish, Deadline, Evicting, EP!Next
<1>3. CASE Others
  BY <1>3, SameOthers
  DEF Others, evictVars, EP!Next, EP!Others, EP!workerVars, EP!callerVars
<1>4. CASE Ask \/ UNCHANGED vars
  BY <1>4 DEF Ask, vars, serverVars, evictVars, EP!vars
<1>5. CASE Deleter \/ Timer \/ Cancelled
  BY <1>5 DEF Deleter, Timer, Cancelled, Deleting
<1> QED
  BY <1>1, <1>2, <1>3, <1>4, <1>5 DEF Next

(* Unless evictPods is the way, a step is one of deletePods or changes     *)
(* nothing of it.                                                          *)
LEMMA DeleteStep ==
    ASSUME [Next]_vars, way' # "evict" \/ way # "evict"
    PROVE  [DP!Next]_(DP!vars)
<1>1. ASSUME NEW p \in Pods, Evictor(p) PROVE FALSE
  BY <1>1 DEF Evictor, Evicting
<1>2. CASE Collect \/ Finish \/ Deadline
  BY <1>2 DEF Collect, Finish, Deadline, Evicting
<1>3. CASE Others
  BY <1>3, SameOthers
  DEF Others, deleteVars, DP!Next, DP!Others, DP!listVars, DP!clockVars
<1>4. CASE Ask \/ UNCHANGED vars
  BY <1>4 DEF Ask, vars, serverVars, deleteVars, DP!vars
<1>5. CASE Deleter \/ Timer \/ Cancelled
  BY <1>5, SameDeleter DEF Deleter, Timer, Cancelled, Deleting, DP!Next
<1> QED
  BY <1>1, <1>2, <1>3, <1>4, <1>5 DEF Next

(* The way, once taken, is kept, and the other is never begun. *)
LEMMA WayStep ==
    ASSUME [Next]_vars
    PROVE  /\ way # "asking" => way' = way
           /\ way # way' => Ask
           /\ way # "evict" => UNCHANGED evictVars
           /\ way # "delete" => UNCHANGED deleteVars
  BY DEF Next, Ask, Evictor, Collect, Finish, Deadline, Evicting, Deleter,
     Timer, Cancelled, Deleting, Others, vars

-----------------------------------------------------------------------------
(* The inductive invariant.                                                *)

EvictIdle == ~returned /\ \A p \in Pods : result[p] = "none"
DeleteIdle == phase = "deleting" /\ \A p \in Pods : settled[p] = "pending"

(* Both invariants hold until a way is taken, then that of the way taken;  *)
(* the other way stays where it began.                                     *)
IInv ==
    /\ way # "delete" => EP!IInv /\ DeleteIdle
    /\ way # "evict" => DP!IInv /\ EvictIdle
    /\ way = "nothing" => Pods = {}
    /\ way = "failed" => Pods # {}

(* The initial states satisfy the types and the invariant. *)
LEMMA InitInv == Init => TypeOK /\ IInv
<1> SUFFICES ASSUME Init PROVE TypeOK /\ IInv
  OBVIOUS
<1>1. EP!Init /\ DP!Init /\ way = "asking"
  BY SameInit DEF Init
<1>2. EP!TypeOK /\ EP!IInv /\ DP!TypeOK /\ DP!IInv
  BY <1>1, FinitePods, OptionsAssumption, EP!InitTypeOK, EP!InitIInv,
     DP!InitTypeOK, DP!InitIInv
<1>3. EvictIdle /\ DeleteIdle
  BY <1>1 DEF EP!Init, DP!Init, EvictIdle, DeleteIdle
<1> QED
  BY <1>1, <1>2, <1>3, SameTypeOK DEF TypeOK, Ways, IInv

(* Every step keeps the types. *)
LEMMA NextTypeOK == TypeOK /\ IInv /\ [Next]_vars => TypeOK'
<1> SUFFICES ASSUME TypeOK, IInv, [Next]_vars PROVE TypeOK'
  OBVIOUS
<1>1. way' \in Ways
  <2>1. CASE way' = way
    BY <2>1 DEF TypeOK
  <2>2. CASE way' # way
    BY <2>2, WayStep DEF Ask, Ways, EvictionSupport
  <2> QED
    BY <2>1, <2>2
<1>2. EP!TypeOK /\ DP!TypeOK
  BY SameTypeOK DEF TypeOK
<1>3. CASE way # "delete"
  <2>1. EP!TypeOK'
    BY <1>2, <1>3, EvictStep, FinitePods, OptionsAssumption, EP!NextTypeOK
  <2>2. ServerTypeOK' /\ told' \in [Pods -> Nat]
    BY <2>1 DEF EP!TypeOK, EP!ServerTypeOK, EP!Objects, ServerTypeOK, Objects
  <2>3. D!TypeOK'
    BY <1>2, <1>3, <2>2, WayStep
    DEF DP!TypeOK, DP!Phases, D!TypeOK, D!Phases, D!ServerTypeOK, D!Objects,
        ServerTypeOK, Objects, deleteVars
  <2>4. E!TypeOK'
    BY <2>1
    DEF EP!TypeOK, E!TypeOK, EP!Locations, E!Locations, EP!Results,
        E!Results, EP!ServerTypeOK, E!ServerTypeOK, EP!Objects, E!Objects
  <2> QED
    BY <1>1, <2>3, <2>4 DEF TypeOK
<1>4. CASE way = "delete"
  <2>1. DP!TypeOK'
    BY <1>2, <1>4, DeleteStep, FinitePods, OptionsAssumption, DP!NextIInv
    DEF IInv
  <2>2. ServerTypeOK' /\ told' \in [Pods -> Nat]
    BY <2>1 DEF DP!TypeOK, DP!ServerTypeOK, DP!Objects, ServerTypeOK, Objects
  <2>3. E!TypeOK'
    BY <1>2, <1>4, <2>2, WayStep
    DEF EP!TypeOK, EP!Locations, EP!Results, E!TypeOK, E!Locations,
        E!Results, E!ServerTypeOK, E!Objects, ServerTypeOK, Objects,
        evictVars
  <2>4. D!TypeOK'
    BY <2>1
    DEF DP!TypeOK, D!TypeOK, DP!Phases, D!Phases, DP!ServerTypeOK,
        D!ServerTypeOK, DP!Objects, D!Objects
  <2> QED
    BY <1>1, <2>3, <2>4 DEF TypeOK
<1> QED
  BY <1>3, <1>4

(* Every step keeps the invariant. *)
LEMMA NextIInv == TypeOK /\ IInv /\ [Next]_vars => IInv'
<1> SUFFICES ASSUME TypeOK, IInv, [Next]_vars PROVE IInv'
  OBVIOUS
<1>1. EP!TypeOK /\ DP!TypeOK
  BY SameTypeOK DEF TypeOK
<1>2. ASSUME way' # "delete" PROVE EP!IInv' /\ DeleteIdle'
  <2>1. way # "delete"
    BY <1>2, WayStep
  <2>2. EP!IInv'
    BY <1>1, <2>1, EvictStep, FinitePods, OptionsAssumption, EP!NextIInv
    DEF IInv
  <2>3. DeleteIdle'
    BY <2>1, WayStep DEF IInv, DeleteIdle, deleteVars
  <2> QED
    BY <2>2, <2>3
<1>3. ASSUME way' # "evict" PROVE DP!IInv' /\ EvictIdle'
  <2>1. way # "evict"
    BY <1>3, WayStep
  <2>2. DP!IInv'
    BY <1>1, <2>1, DeleteStep, FinitePods, OptionsAssumption, DP!NextIInv
    DEF IInv
  <2>3. EvictIdle'
    BY <2>1, WayStep DEF IInv, EvictIdle, evictVars
  <2> QED
    BY <2>2, <2>3
<1>4. (way' = "nothing" => Pods = {}) /\ (way' = "failed" => Pods # {})
  BY WayStep DEF IInv, Ask, EvictionSupport
<1> QED
  BY <1>2, <1>3, <1>4 DEF IInv

(* The invariant of the composition holds of every behaviour, for every    *)
(* finite set of pods.                                                     *)
THEOREM Invariance == Spec => [](TypeOK /\ IInv)
<1> QED
  BY InitInv, NextTypeOK, NextIInv, PTL DEF Spec

-----------------------------------------------------------------------------
(* What the invariant gives.                                               *)

(* In every state of DeleteOrEvictPods, whichever way it takes, all        *)
(* variables have the values their declarations say.                       *)
THEOREM TypeCorrect == Spec => []TypeOK
<1> QED
  BY Invariance, PTL

(* The invariant of evictPods gives NoGoroutineLeft; the other ways never  *)
(* return from evictPods.                                                  *)
LEMMA InvNoLeak == TypeOK /\ IInv => NoGoroutineLeft
<1> SUFFICES ASSUME TypeOK, IInv PROVE NoGoroutineLeft
  OBVIOUS
<1>1. CASE way = "evict"
  <2>1. EP!NoGoroutineLeft
    BY <1>1, SameTypeOK, FinitePods, OptionsAssumption, EP!InvNoLeak
    DEF TypeOK, IInv
  <2> QED
    BY <2>1 DEF EP!NoGoroutineLeft, NoGoroutineLeft, E!NoGoroutineLeft
<1>2. CASE way # "evict"
  BY <1>2 DEF IInv, EvictIdle, NoGoroutineLeft, E!NoGoroutineLeft
<1> QED
  BY <1>1, <1>2

(* evictPods returns only when every goroutine it started has ended and    *)
(* the channel is empty: it never joins them, and its count of results is  *)
(* what makes up for a WaitGroup.                                          *)
THEOREM NoLeak == Spec => []NoGoroutineLeft
<1> QED
  BY InvNoLeak, Invariance, PTL

(* In the same way it gives VerdictExact. *)
LEMMA InvVerdict == TypeOK /\ IInv => VerdictExact
<1> SUFFICES ASSUME TypeOK, IInv PROVE VerdictExact
  OBVIOUS
<1>1. CASE way = "evict"
  <2>1. EP!TypeOK /\ EP!IInv
    BY <1>1, SameTypeOK DEF TypeOK, IInv
  <2>2. EP!NoGoroutineLeft
    BY <2>1, FinitePods, OptionsAssumption, EP!InvNoLeak
  <2>3. EP!VerdictExact
    BY <2>1, <2>2, FinitePods, OptionsAssumption, EP!InvVerdict
  <2> QED
    BY <2>3 DEF EP!VerdictExact, EP!Failed, VerdictExact, E!VerdictExact,
       E!Failed
<1>2. CASE way # "evict"
  BY <1>2 DEF IInv, EvictIdle, VerdictExact, E!VerdictExact
<1> QED
  BY <1>1, <1>2

(* The error evictPods returns aggregates exactly the goroutines that      *)
(* failed.                                                                 *)
THEOREM ExactVerdict == Spec => []VerdictExact
<1> QED
  BY InvVerdict, Invariance, PTL

(* The verdict is nil only if the way taken settled every pod, and what it *)
(* concluded of a pod is true.                                             *)
LEMMA InvNil == TypeOK /\ IInv => NilMeansGone
<1> SUFFICES ASSUME TypeOK, IInv, Verdict = "nil", NEW p \in Pods
             PROVE  Removed(p) \/ obj[p] = "overdue" \/ p \in misled
  BY DEF NilMeansGone
<1>1. way \in {"evict", "delete"}
  BY DEF Verdict, IInv
<1>2. CASE way = "evict"
  <2>1. EP!TypeOK /\ EP!IInv
    BY <1>2, SameTypeOK DEF TypeOK, IInv
  <2>2. EP!NoGoroutineLeft
    BY <2>1, FinitePods, OptionsAssumption, EP!InvNoLeak
  <2>3. EP!VerdictExact
    BY <2>1, <2>2, FinitePods, OptionsAssumption, EP!InvVerdict
  <2>4. EP!NilMeansGone
    BY <2>1, <2>2, <2>3, FinitePods, OptionsAssumption, EP!InvNil
  <2>5. returned /\ errors = {}
    BY <1>2 DEF Verdict
  <2> QED
    BY <2>4, <2>5 DEF EP!NilMeansGone, EP!Removed, Removed
<1>3. CASE way = "delete"
  <2>1. DP!NilMeansGone
    BY <1>3, SameTypeOK, FinitePods, OptionsAssumption, DP!InvNil
    DEF TypeOK, IInv
  <2>2. phase = "nil"
    BY <1>3 DEF Verdict
  <2> QED
    BY <2>1, <2>2 DEF DP!NilMeansGone, DP!Removed, Removed
<1> QED
  BY <1>1, <1>2, <1>3

(* A nil result of DeleteOrEvictPods is the truth, for any number of pods  *)
(* and by either way: all are gone, or overdue and deliberately not waited *)
(* for, or a Get of them failed.                                           *)
THEOREM NilIsTruthful == Spec => []NilMeansGone
<1> QED
  BY InvNil, Invariance, PTL

(* The invariant of deletePods gives ErrorMeansPending. *)
LEMMA InvErrorMeansPending == IInv => ErrorMeansPending
  BY DEF IInv, DeleteIdle, DP!IInv, DP!ListInv, DP!Unsettled,
     ErrorMeansPending, D!ErrorMeansPending

(* deletePods never returns an error when every pod has been settled. *)
THEOREM ErrorIsTruthful == Spec => []ErrorMeansPending
<1> QED
  BY InvErrorMeansPending, Invariance, PTL

(* The invariant of the way taken gives ToldOnce. *)
LEMMA InvToldOnce == IInv => ToldOnce
<1> SUFFICES ASSUME IInv, NEW p \in Pods
             PROVE  told[p] <= 1 /\ (told[p] = 1 => Concluded(p) = "removed")
  BY DEF ToldOnce
<1>1. CASE way = "delete"
  BY <1>1 DEF IInv, DP!IInv, DP!ToldOnce, Concluded
<1>2. CASE way # "delete"
  BY <1>2 DEF IInv, EP!IInv, EP!ToldOnce, Concluded
<1> QED
  BY <1>1, <1>2

(* OnPodDeletedOrEvicted is called at most once for a pod, by either way,  *)
(* and only for one the call counts as removed.                            *)
THEOREM CallbackOnce == Spec => []ToldOnce
<1> QED
  BY InvToldOnce, Invariance, PTL

-----------------------------------------------------------------------------
(* The refinement: the way taken refines PodRemoval, and before one is     *)
(* taken only the server moves.                                            *)

present == {p \in Pods : ~Removed(p)}
concluded == [p \in Pods |-> Concluded(p)]
toldOf == {p \in Pods : told[p] > 0}

(* A step on the way of evictPods is a step of PodRemoval, or none. *)
LEMMA EvictRefines ==
    ASSUME TypeOK, IInv, NoGoroutineLeft, NoGoroutineLeft', VerdictExact',
           [Next]_vars, way = "evict"
    PROVE  [Removal!Next]_(Removal!vars)
<1>1. EP!TypeOK /\ EP!IInv /\ way' = "evict"
  BY SameTypeOK, WayStep DEF TypeOK, IInv
<1>2. EP!NoGoroutineLeft /\ EP!NoGoroutineLeft' /\ EP!VerdictExact'
  BY DEF EP!NoGoroutineLeft, NoGoroutineLeft, E!NoGoroutineLeft,
     EP!VerdictExact, VerdictExact, E!VerdictExact, EP!Failed, E!Failed
<1>3. [EP!Next]_(EP!vars)
  BY EvictStep
<1>4. [EP!Removal!Next]_(EP!Removal!vars)
  BY <1>1, <1>2, <1>3, FinitePods, OptionsAssumption, EP!StepRefines
<1>5. /\ {p \in Pods : ~EP!Removed(p)} = present
      /\ [p \in Pods |-> IF result[p] = "none" THEN "pending" ELSE result[p]]
            = concluded
      /\ (IF ~returned THEN "none" ELSE IF errors = {} THEN "nil" ELSE "error")
            = Verdict
  BY DEF EP!Removed, Removed, present, concluded, Concluded, Verdict
<1>6. /\ {p \in Pods : ~EP!Removed(p)}' = present'
      /\ [p \in Pods |-> IF result[p] = "none" THEN "pending" ELSE result[p]]'
            = concluded'
      /\ (IF ~returned THEN "none" ELSE IF errors = {} THEN "nil" ELSE "error")'
            = Verdict'
  BY <1>1 DEF EP!Removed, Removed, present, concluded, Concluded, Verdict
<1> QED
  BY <1>4, <1>5, <1>6
  DEF Removal!Next, Removal!vars, Removal!Vanish, Removal!Remove,
      Removal!GiveUp, Removal!Return, Removal!Done, EP!Removal!Next,
      EP!Removal!vars, EP!Removal!Vanish, EP!Removal!Remove,
      EP!Removal!GiveUp, EP!Removal!Return, EP!Removal!Done,
      present, concluded

(* A step on the way of deletePods is a step of PodRemoval, or none. *)
LEMMA DeleteRefines ==
    ASSUME TypeOK, IInv, [Next]_vars, way = "delete"
    PROVE  [Removal!Next]_(Removal!vars)
<1>1. DP!TypeOK /\ DP!IInv /\ way' = "delete"
  BY SameTypeOK, WayStep DEF TypeOK, IInv
<1>2. [DP!Next]_(DP!vars)
  BY DeleteStep
<1>3. DP!Removal!Next \/ UNCHANGED DP!Removal!vars
  BY <1>1, <1>2, FinitePods, OptionsAssumption, DP!StepRefines
<1>4. /\ {p \in Pods : ~DP!Removed(p)} = present
      /\ settled = concluded
      /\ (IF DP!Returned THEN phase ELSE "none") = Verdict
  BY <1>1
  DEF DP!TypeOK, DP!Removed, Removed, DP!Returned, D!Returned, present,
      concluded, Concluded, Verdict
<1>5. /\ {p \in Pods : ~DP!Removed(p)}' = present'
      /\ settled' = concluded'
      /\ (IF DP!Returned THEN phase ELSE "none")' = Verdict'
  <2>1. DP!TypeOK'
    BY <1>1, <1>2, FinitePods, OptionsAssumption, DP!NextIInv
  <2> QED
    BY <1>1, <2>1
    DEF DP!TypeOK, DP!Removed, Removed, DP!Returned, D!Returned, present,
        concluded, Concluded, Verdict
<1> QED
  BY <1>3, <1>4, <1>5
  DEF Removal!Next, Removal!vars, Removal!Vanish, Removal!Remove,
      Removal!GiveUp, Removal!Return, Removal!Done, DP!Removal!Next,
      DP!Removal!vars, DP!Removal!Vanish, DP!Removal!Remove,
      DP!Removal!GiveUp, DP!Removal!Return, DP!Removal!Done,
      present, concluded

(* Before a way is taken, and after CheckEvictionSupport failed or nothing *)
(* was to be done.                                                         *)
LEMMA AskRefines ==
    ASSUME TypeOK, IInv, [Next]_vars, way \notin {"evict", "delete"}
    PROVE  [Removal!Next]_(Removal!vars)
<1>1. EvictIdle /\ DeleteIdle /\ UNCHANGED <<evictVars, deleteVars>>
  BY WayStep DEF IInv
<1>2. concluded = [p \in Pods |-> "pending"] /\ concluded' = concluded
  BY <1>1
  DEF EvictIdle, DeleteIdle, evictVars, deleteVars, concluded, Concluded
<1>3. CASE Others
  <2>1. misled' = misled /\ UNCHANGED <<told, way>>
        /\ (present' = present
            \/ \E p \in present : present' = present \ {p})
    BY <1>3, SameServer, OthersVanish DEF Others, TypeOK, E!TypeOK, present
  <2>2. Verdict' = Verdict
    BY <1>1, <2>1 DEF evictVars, deleteVars, Verdict, D!Returned
  <2>3. CASE present' = present
    BY <1>2, <2>1, <2>2, <2>3 DEF Removal!vars, present, concluded
  <2>4. ASSUME NEW p \in present, present' = present \ {p}
        PROVE  Removal!Next
    <3>1. Removal!Vanish(p)
      BY <1>2, <2>1, <2>2, <2>4 DEF Removal!Vanish, present, concluded
    <3> QED
      BY <3>1 DEF Removal!Next, present
  <2> QED
    BY <2>1, <2>3, <2>4
<1>4. CASE Ask
  <2>1. present' = present /\ UNCHANGED <<told, misled>>
    BY <1>4 DEF Ask, serverVars, present, Removed
  <2>2. Verdict = "none"
    BY <1>4 DEF Ask, Verdict
  <2>3. CASE way' \in {"evict", "delete"}
    <3>1. Verdict' = "none"
      BY <1>1, <2>3
      DEF EvictIdle, DeleteIdle, evictVars, deleteVars, Verdict, D!Returned
    <3> QED
      BY <1>2, <2>1, <2>2, <3>1 DEF Removal!vars, present, concluded
  <2>4. CASE way' \in {"failed", "nothing"}
    <3>1. Verdict' = IF \A p \in Pods : Removal!Done(p) THEN "nil" ELSE "error"
      <4>1. \A p \in Pods : ~Removal!Done(p)
        BY <1>2 DEF Removal!Done, concluded
      <4>2. way' = "failed" => Pods # {} /\ Verdict' = "error"
        BY <1>4 DEF Ask, EvictionSupport, Verdict
      <4>3. way' = "nothing" => Pods = {} /\ Verdict' = "nil"
        BY <1>4 DEF Ask, EvictionSupport, Verdict
      <4> QED
        BY <2>4, <4>1, <4>2, <4>3
    <3>2. Removal!Return
      BY <1>2, <2>1, <2>2, <3>1 DEF Removal!Return, present, concluded
    <3> QED
      BY <3>2 DEF Removal!Next
  <2> QED
    BY <1>4, <2>3, <2>4 DEF Ask, EvictionSupport
<1>5. CASE UNCHANGED vars
  <2>1. UNCHANGED <<present, concluded, told, misled, Verdict>>
    BY <1>5
    DEF vars, serverVars, evictVars, deleteVars, present, Removed, concluded,
        Concluded, Verdict, D!Returned
  <2> QED
    BY <2>1 DEF Removal!vars, present, concluded
<1>6. Others \/ Ask \/ UNCHANGED vars
  BY DEF Next, Evictor, Collect, Finish, Deadline, Evicting, Deleter, Timer,
     Cancelled, Deleting
<1> QED
  BY <1>3, <1>4, <1>5, <1>6

(* DeleteOrEvictPods keeps its promise whichever way it takes, whatever    *)
(* the server answers and other clients do, with two hundred pods as with  *)
(* two.                                                                    *)
THEOREM Refinement == Spec => ImplementsRemoval
<1>1. Init => Removal!Init
  BY DEF Init, E!Init, E!ServerInit, Removed, Concluded, Verdict,
     Removal!Init
<1>2. ASSUME TypeOK, IInv, NoGoroutineLeft, NoGoroutineLeft', VerdictExact',
             [Next]_vars
      PROVE  [Removal!Next]_(Removal!vars)
  BY <1>2, EvictRefines, DeleteRefines, AskRefines
<1> QED
  BY <1>1, <1>2, Invariance, NoLeak, ExactVerdict, PTL
  DEF Spec, ImplementsRemoval, Removal!Spec

-----------------------------------------------------------------------------
(* GetPodsForDeletion: the pods that pass the filters.                     *)

(* The pod passes the first n filters. *)
PassesFirst(p, n) == \A i \in 1 .. n : makeFilters(kind[p])[i].delete

Passes(p) == PassesFirst(p, 5)

(* The pod in the filters was taken, and has passed those before the next; *)
(* the list holds the pods that pass all of them, and every one that the   *)
(* loop is done with.                                                      *)
FiltersInv ==
    /\ FiltersTypeOK
    /\ pod # NoPod => pod \notin todo /\ PassesFirst(pod, next - 1)
    /\ \A i \in items : i.status.delete /\ Passes(i.pod)
    /\ \A p \in NodePods \ (todo \union {pod}) : Passes(p) => p \in Listed
    /\ filtered => todo = {} /\ pod = NoPod

(* The filters are five, and each answers with a status. *)
LEMMA FiltersAnswer ==
    ASSUME d \in Options, NEW k \in AllKinds
    PROVE  /\ Len(makeFilters(k)) = 5
           /\ \A i \in 1 .. 5 : makeFilters(k)[i] \in Status
<1>1. Okay \in Status /\ Skip \in Status /\ Error \in Status
  BY DEF Okay, Skip, Error, Status
<1>2. Warning(TRUE) \in Status /\ Warning(FALSE) \in Status
  BY DEF Warning, Status
<1>3. skipDeletedFilter(k) \in Status /\ mirrorPodFilter(k) \in Status
  BY <1>1 DEF skipDeletedFilter, mirrorPodFilter
<1>4. daemonSetFilter(k) \in Status
  BY <1>1, <1>2 DEF daemonSetFilter
<1>5. localStorageFilter(k) \in Status
  <2>1. k.claim \in {"none", "local", "remote", "error"}
    BY DEF AllKinds
  <2> QED
    BY <2>1, <1>1, <1>2 DEF localStorageFilter
<1>6. unreplicatedFilter(k) \in Status
  BY <1>1, <1>2 DEF unreplicatedFilter
<1> HIDE DEF Status
<1> QED
  BY <1>3, <1>4, <1>5, <1>6 DEF makeFilters

(* To pass all of them is to pass each. *)
LEMMA PassesEach ==
    ASSUME NEW p
    PROVE  Passes(p) <=> /\ skipDeletedFilter(kind[p]).delete
                         /\ daemonSetFilter(kind[p]).delete
                         /\ mirrorPodFilter(kind[p]).delete
                         /\ localStorageFilter(kind[p]).delete
                         /\ unreplicatedFilter(kind[p]).delete
<1> DEFINE F == makeFilters(kind[p])
<1>1. /\ F[1] = skipDeletedFilter(kind[p])
      /\ F[2] = daemonSetFilter(kind[p])
      /\ F[3] = mirrorPodFilter(kind[p])
      /\ F[4] = localStorageFilter(kind[p])
      /\ F[5] = unreplicatedFilter(kind[p])
  BY DEF makeFilters
<1>2. Passes(p) <=> F[1].delete /\ F[2].delete /\ F[3].delete /\ F[4].delete
                    /\ F[5].delete
  <2>1. 1 .. 5 = {1, 2, 3, 4, 5}
    OBVIOUS
  <2> HIDE DEF F
  <2>2. Passes(p) <=> \A i \in {1, 2, 3, 4, 5} : F[i].delete
    BY <2>1 DEF Passes, PassesFirst, F
  <2> QED
    BY <2>2
<1> HIDE DEF F
<1> QED
  BY <1>1, <1>2

(* The filters ask nothing but the options and the kind of the pod. *)
LEMMA SameOptions ==
    ASSUME UNCHANGED <<d, kind>>
    PROVE  /\ \A k : makeFilters(k)' = makeFilters(k)
           /\ \A p, n : PassesFirst(p, n)' <=> PassesFirst(p, n)
<1>1. \A k : makeFilters(k)' = makeFilters(k)
  BY DEF makeFilters, skipDeletedFilter, daemonSetFilter, mirrorPodFilter,
         localStorageFilter, unreplicatedFilter
<1>2. \A p : makeFilters(kind[p])' = makeFilters(kind[p])
  BY DEF makeFilters, skipDeletedFilter, daemonSetFilter, mirrorPodFilter,
         localStorageFilter, unreplicatedFilter
<1> QED
  BY <1>1, <1>2 DEF PassesFirst

(* The loop starts with every pod to take. *)
LEMMA InitFilters == FiltersInit => FiltersInv
<1> SUFFICES ASSUME FiltersInit PROVE FiltersInv
  OBVIOUS
<1>1. FiltersTypeOK
  <2>1. kind \in [NodePods -> AllKinds]
    BY FilterAssumption DEF FiltersInit
  <2>2. next \in 1 .. 5 /\ pod \in NodePods \union {NoPod} /\ refused \subseteq NodePods
    BY DEF FiltersInit
  <2>3. items \subseteq [pod : NodePods, status : Status]
    BY DEF FiltersInit
  <2> QED
    BY <2>1, <2>2, <2>3, Zenon DEF FiltersInit, FiltersTypeOK
<1> QED
  BY <1>1 DEF FiltersInit, FiltersInv

(* A filter ends the chain, or leads to the next one; the last appends. *)
LEMMA FilterStep == FiltersInv /\ Filter => FiltersInv'
<1> SUFFICES ASSUME FiltersInv, Filter PROVE FiltersInv'
  OBVIOUS
<1> DEFINE status == makeFilters(kind[pod])[next]
           last == next = 5
           item == [pod |-> pod, status |-> status]
<1> USE DEF FiltersInv
<1>1. /\ d \in Options /\ pod \in NodePods /\ pod # NoPod
      /\ kind[pod] \in AllKinds /\ next \in 1 .. 5
      /\ kind \in [NodePods -> AllKinds]
  BY DEF Filter, FiltersTypeOK
<1>2. Len(makeFilters(kind[pod])) = 5 /\ status \in Status
  BY <1>1, FiltersAnswer
<1>3. /\ IF status.delete /\ ~last
         THEN next' = next + 1 /\ pod' = pod
         ELSE pod' = NoPod /\ next' = next
      /\ items' = IF status.delete /\ last THEN items \union {item} ELSE items
      /\ refused' = IF status.reason = "Error" THEN refused \union {pod}
                    ELSE refused
      /\ UNCHANGED <<d, kind, todo, filtered>>
  BY <1>2 DEF Filter
<1>4. \A p, n : PassesFirst(p, n)' <=> PassesFirst(p, n)
  BY <1>3, SameOptions
<1>5. \A p : Passes(p)' <=> Passes(p)
  BY <1>4 DEF Passes
<1>6. status.delete => PassesFirst(pod, next)
  <2>1. \A i \in 1 .. next : i = next \/ i \in 1 .. next - 1
    BY <1>1
  <2> HIDE DEF FiltersInv
  <2>2. PassesFirst(pod, next - 1)
    BY <1>1 DEF FiltersInv
  <2> QED
    BY <2>1, <2>2 DEF PassesFirst
<1>7. ~status.delete => ~Passes(pod)
  BY <1>1 DEF Passes, PassesFirst
<1> HIDE DEF status, last
<1>8. item \in [pod : NodePods, status : Status]
  BY <1>1, <1>2
<1>9. FiltersTypeOK'
  <2>1. next' \in 1 .. 5
    BY <1>1, <1>3 DEF last
  <2>2. pod' \in NodePods \union {NoPod}
    BY <1>1, <1>3
  <2>3. items' \subseteq [pod : NodePods, status : Status]
    BY <1>3, <1>8 DEF FiltersTypeOK
  <2>4. refused' \subseteq NodePods
    BY <1>1, <1>3 DEF FiltersTypeOK
  <2> QED
    BY <1>3, <2>1, <2>2, <2>3, <2>4, Zenon DEF FiltersTypeOK
<1>10. (pod # NoPod => pod \notin todo /\ PassesFirst(pod, next - 1))'
  <2> SUFFICES ASSUME pod' # NoPod
               PROVE  pod' \notin todo' /\ PassesFirst(pod, next - 1)'
    OBVIOUS
  <2>1. pod' = pod /\ next' - 1 = next /\ status.delete
    BY <1>1, <1>3
  <2>2. PassesFirst(pod, next)
    BY <1>6, <2>1
  <2>3. PassesFirst(pod, next - 1)'
    BY <1>3, <2>1, <2>2, SameOptions DEF PassesFirst
  <2> QED
    BY <1>1, <1>3, <2>1, <2>3
<1>11. \A i \in items' : i.status.delete /\ Passes(i.pod)'
  <2>1. status.delete /\ last => Passes(pod)
    BY <1>6 DEF Passes, last
  <2>2. item.pod = pod /\ item.status = status
    OBVIOUS
  <2> HIDE DEF item
  <2> QED
    BY <1>3, <1>5, <2>1, <2>2
<1>12. ASSUME NEW p \in NodePods \ (todo' \union {pod'}), Passes(p)'
       PROVE  p \in Listed'
  <2>1. items \subseteq items'
    BY <1>3
  <2>2. CASE p # pod
    <3>1. p \in Listed
      BY <1>3, <1>5, <1>12, <2>2
    <3> QED
      BY <2>1, <3>1 DEF Listed
  <2>3. CASE p = pod
    <3>1. status.delete /\ last
      BY <1>3, <1>5, <1>7, <1>12, <2>3
    <3>2. item \in items' /\ item.pod = p /\ item.status.delete
      BY <1>3, <2>3, <3>1
    <3> HIDE DEF item
    <3> QED
      BY <3>2 DEF Listed
  <2> QED
    BY <2>2, <2>3
<1>13. filtered' => todo' = {} /\ pod' = NoPod
  BY <1>1, <1>3
<1> HIDE DEF item
<1> QED
  BY <1>9, <1>10, <1>11, <1>12, <1>13

(* So does every step of the loop. *)
LEMMA NextFilters == FiltersInv /\ [FiltersNext]_filterVars => FiltersInv'
<1> SUFFICES ASSUME FiltersInv, [FiltersNext]_filterVars PROVE FiltersInv'
  OBVIOUS
<1> USE DEF FiltersInv
<1>1. ASSUME NEW p \in NodePods, Take(p) PROVE FiltersInv'
  <2>1. /\ UNCHANGED <<d, kind, items, refused, filtered>>
        /\ pod = NoPod /\ p \in todo /\ pod' = p /\ next' = 1
        /\ todo' = todo \ {p}
    BY <1>1 DEF Take
  <2>2. FiltersTypeOK'
    BY <2>1 DEF FiltersTypeOK
  <2>3. \A q : Passes(q)' <=> Passes(q)
    BY <2>1, SameOptions DEF Passes
  <2>4. Listed' = Listed
    BY <2>1 DEF Listed
  <2>5. PassesFirst(pod, next - 1)'
    <3>1. 1 .. next' - 1 = {}
      BY <2>1
    <3> QED
      BY <3>1 DEF PassesFirst
  <2>6. (pod # NoPod => pod \notin todo /\ PassesFirst(pod, next - 1))'
    BY <2>1, <2>5
  <2>7. (\A i \in items : i.status.delete /\ Passes(i.pod))'
    BY <2>1, <2>3
  <2>8. (\A q \in NodePods \ (todo \union {pod}) : Passes(q) => q \in Listed)'
    <3>1. NodePods \ (todo' \union {pod'}) \subseteq NodePods \ (todo \union {pod})
      BY <2>1, FilterAssumption
    <3> QED
      BY <2>3, <2>4, <3>1
  <2>9. (filtered => todo = {} /\ pod = NoPod)'
    BY <2>1
  <2> HIDE DEF FiltersInv
  <2> QED
    BY <2>2, <2>6, <2>7, <2>8, <2>9 DEF FiltersInv
<1>2. CASE Filter
  BY <1>2, FilterStep
<1>3. CASE Return
  <2>1. FiltersTypeOK' /\ Listed' = Listed
    BY <1>3 DEF Return, FiltersTypeOK, Listed
  <2> QED
    BY <1>3, <2>1, SameOptions DEF Return, Passes
<1>4. CASE UNCHANGED filterVars
  <2>1. FiltersTypeOK' /\ Listed' = Listed
    BY <1>4 DEF filterVars, FiltersTypeOK, Listed
  <2> QED
    BY <1>4, <2>1, SameOptions DEF filterVars, Passes
<1> QED
  BY <1>1, <1>2, <1>3, <1>4 DEF FiltersNext

(* The invariant of the filters, for any pods, kinds and options. *)
THEOREM FiltersInvariant == FiltersSpec => []FiltersInv
<1> QED
  BY InitFilters, NextFilters, PTL DEF FiltersSpec

(* The loop over the pods and filters keeps the types of its variables,    *)
(* and asks for no filter past the fifth.                                  *)
THEOREM FiltersTypeCorrect == FiltersSpec => []FiltersTypeOK
<1>1. FiltersInv => FiltersTypeOK
  BY DEF FiltersInv
<1> QED
  BY <1>1, FiltersInvariant, PTL

(* Whatever the pods, their kinds and the options, GetPodsForDeletion      *)
(* lists no mirror pod, no running pod of an existing DaemonSet, none with *)
(* a local claim, and, without Force or DeleteLocalData, no running pod    *)
(* without an owner or with local data.                                    *)
THEOREM ProtectedAreKept == FiltersSpec => []Protected
<1>1. FiltersInv => Protected
  <2> SUFFICES ASSUME FiltersInv, NEW p \in Listed
               PROVE  LET k == kind[p]
                      IN  /\ ~k.mirror
                          /\ k.claim \notin {"local", "error"}
                          /\ k.finished \/
                                /\ k.owner = "DaemonSet" =>
                                      k.daemonSet = "notFound" /\ d.Force
                                /\ k.owner = "none" => d.Force
                                /\ k.emptyDir => d.DeleteLocalData
    BY DEF Protected
  <2> DEFINE k == kind[p]
  <2>1. p \in NodePods /\ Passes(p)
    BY DEF FiltersInv, FiltersTypeOK, Listed
  <2>2. k \in AllKinds
    BY <2>1 DEF FiltersInv, FiltersTypeOK
  <2>3. /\ daemonSetFilter(k).delete /\ mirrorPodFilter(k).delete
        /\ localStorageFilter(k).delete /\ unreplicatedFilter(k).delete
    BY <2>1, PassesEach
  <2> HIDE DEF k
  <2>4. ~Skip.delete /\ ~Error.delete /\ ~Warning(FALSE).delete
    BY DEF Skip, Error, Warning
  <2>5. ~k.mirror
    BY <2>3, <2>4 DEF mirrorPodFilter
  <2>6. /\ k.claim \notin {"local", "error"}
        /\ k.emptyDir => k.finished \/ d.DeleteLocalData
    BY <2>2, <2>3, <2>4 DEF localStorageFilter, AllKinds
  <2>7. k.owner = "DaemonSet" =>
            k.finished \/ (k.daemonSet = "notFound" /\ d.Force)
    BY <2>2, <2>3, <2>4 DEF daemonSetFilter, AllKinds
  <2>8. k.owner = "none" => k.finished \/ d.Force
    BY <2>2, <2>3, <2>4 DEF unreplicatedFilter, AllKinds
  <2> QED
    BY <2>5, <2>6, <2>7, <2>8 DEF k
<1> QED
  BY <1>1, FiltersInvariant, PTL

(* A finished pod that is not a mirror, not overdue and on no local volume *)
(* is in the list returned, whatever its owner and the options: no filter  *)
(* forgets to let finished pods through.                                   *)
THEOREM FinishedAreListed == FiltersSpec => []FinishedListed
<1>1. FiltersInv => FinishedListed
  <2> SUFFICES ASSUME FiltersInv, filtered, NEW p \in NodePods,
                      kind[p].finished, ~kind[p].mirror,
                      kind[p].claim \in {"none", "remote"},
                      ~(kind[p].overdue /\ d.skipOverdue)
               PROVE  p \in Listed
    BY DEF FinishedListed
  <2> DEFINE k == kind[p]
  <2>1. k \in AllKinds
    BY DEF FiltersInv, FiltersTypeOK
  <2>2. Okay.delete
    BY DEF Okay
  <2>3. skipDeletedFilter(k).delete /\ mirrorPodFilter(k).delete
    BY <2>2 DEF skipDeletedFilter, mirrorPodFilter
  <2>4. daemonSetFilter(k).delete /\ unreplicatedFilter(k).delete
    BY <2>2 DEF daemonSetFilter, unreplicatedFilter
  <2>5. localStorageFilter(k).delete
    BY <2>2 DEF localStorageFilter
  <2>6. Passes(p)
    BY <2>3, <2>4, <2>5, PassesEach
  <2>7. p # NoPod
    BY FilterAssumption
  <2> QED
    BY <2>6, <2>7 DEF FiltersInv
<1> QED
  BY <1>1, FiltersInvariant, PTL
=============================================================================
