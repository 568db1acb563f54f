-------------------------- MODULE DeletePodsProofs --------------------------
(***************************************************************************)
(* Proofs about DeletePods for any set of pods: the inductive invariant,   *)
(* what a nil result and a callback mean, and the refinement of            *)
(* PodRemoval.                                                             *)
(***************************************************************************)
EXTENDS DeletePods, PodServerProofs, TLAPS

(* The initial states are well typed. *)
LEMMA InitTypeOK == Init => TypeOK
<1> SUFFICES ASSUME Init PROVE TypeOK
  OBVIOUS
<1>1. ServerTypeOK
  BY DEF Init, ServerInit, ServerTypeOK, Objects
<1>2. /\ phase \in Phases
      /\ undeleted \subseteq Pods /\ pods \subseteq Pods
      /\ unseen \subseteq Pods /\ pendingPods \subseteq Pods
      /\ lastRound \in BOOLEAN /\ timedOut \in BOOLEAN /\ cancelled \in BOOLEAN
  BY DEF Init, Phases
<1>3. /\ told \in [Pods -> Nat]
      /\ settled \in [Pods -> {"pending", "removed", "skipped"}]
  BY DEF Init
<1> QED
  BY <1>1, <1>2, <1>3 DEF TypeOK

(* The initial states satisfy the invariant. *)
LEMMA InitIInv == Init => IInv
<1> SUFFICES ASSUME Init PROVE IInv
  OBVIOUS
<1>1. ListInv
  BY DEF Init, ListInv, Unsettled
<1>2. ToldOnce
  BY DEF Init, ToldOnce
<1>3. TruthInv
  BY DEF Init, TruthInv
<1> QED
  BY <1>1, <1>2, <1>3 DEF IInv

-----------------------------------------------------------------------------
(* Every step keeps the types and the invariant. *)
LEMMA NextIInv == TypeOK /\ IInv /\ [Next]_vars => TypeOK' /\ IInv'
<1> SUFFICES ASSUME TypeOK, IInv, [Next]_vars
             PROVE  TypeOK' /\ IInv'
  OBVIOUS
<1>i. ListInv /\ ToldOnce /\ TruthInv
  BY DEF IInv
<1> USE DEF TypeOK, Phases, serverVars, listVars, clockVars
<1>1. ASSUME NEW p \in Pods, DeleteOne(p) PROVE TypeOK' /\ IInv'
  <2>1. ServerTypeOK' /\ \A q \in Pods : Forward(q)
    BY <1>1, RequestForward, SameForward, ServerStepTypeOK DEF DeleteOne
  <2>2. ListInv' /\ ToldOnce'
    BY <1>i, <1>1 DEF DeleteOne, ListInv, Unsettled, ToldOnce
  <2>3. TruthInv'
    BY <1>i, <1>1, <2>1 DEF DeleteOne, TruthInv, Forward
  <2> QED
    BY <1>1, <2>1, <2>2, <2>3 DEF DeleteOne, IInv
<1>2. ASSUME NEW p \in Pods, DeleteFails(p) PROVE TypeOK' /\ IInv'
  <2>1. ServerTypeOK' /\ \A q \in Pods : Forward(q)
    BY <1>2, RequestForward, SameForward, ServerStepTypeOK DEF DeleteFails
  <2>2. ListInv' /\ ToldOnce'
    BY <1>i, <1>2 DEF DeleteFails, ListInv, Unsettled, ToldOnce
  <2>3. TruthInv'
    BY <1>i, <1>2, <2>1 DEF DeleteFails, TruthInv, Forward
  <2> QED
    BY <1>2, <2>1, <2>2, <2>3 DEF DeleteFails, IInv
<1>3. CASE BeginWait
  <2>1. ListInv' /\ ToldOnce'
    BY <1>i, <1>3 DEF BeginWait, ListInv, Unsettled, ToldOnce
  <2>2. TruthInv' /\ ServerTypeOK'
    BY <1>i, <1>3 DEF BeginWait, TruthInv, Removed, ServerTypeOK
  <2> QED
    BY <1>3, <2>1, <2>2 DEF BeginWait, IInv
<1>4. ASSUME NEW p \in Pods, See(p) PROVE TypeOK' /\ IInv'
  <2>1. CASE SeeGone(p)
    <3>1. /\ phase = "round" /\ p \in unseen /\ settled[p] = "pending"
          /\ told[p] = 0
      BY <1>i, <2>1 DEF SeeGone, Seen, ListInv, Unsettled, ToldOnce
    <3>2. TypeOK'
      BY <2>1, ServerStepTypeOK DEF SeeGone, Seen
    <3>3. ListInv'
      BY <1>i, <2>1, <3>1 DEF SeeGone, Seen, ListInv, Unsettled
    <3>4. ToldOnce'
      BY <1>i, <2>1, <3>1 DEF SeeGone, ToldOnce
    <3>5. UNCHANGED obj /\ misled \subseteq misled'
          /\ (Removed(p) \/ p \in misled')
      BY <2>1, LooksGoneIsGone DEF SeeGone
    <3>6. TruthInv'
      BY <1>i, <2>1, <3>5 DEF SeeGone, TruthInv, Removed
    <3> QED
      BY <3>2, <3>3, <3>4, <3>6 DEF IInv
  <2>2. CASE SeeOverdue(p)
    <3>1. /\ phase = "round" /\ p \in unseen /\ settled[p] = "pending"
          /\ obj[p] = "overdue" /\ UNCHANGED serverVars
      BY <1>i, <2>2, LooksOverdueIsOverdue
      DEF SeeOverdue, Seen, ListInv, Unsettled
    <3>2. TypeOK'
      BY <2>2, ServerStepTypeOK DEF SeeOverdue, Seen
    <3>3. ListInv'
      BY <1>i, <2>2, <3>1 DEF SeeOverdue, Seen, ListInv, Unsettled
    <3>4. ToldOnce'
      BY <1>i, <2>2, <3>1 DEF SeeOverdue, ToldOnce
    <3>5. TruthInv'
      BY <1>i, <2>2, <3>1 DEF SeeOverdue, TruthInv, Removed
    <3> QED
      BY <3>2, <3>3, <3>4, <3>5 DEF IInv
  <2>3. CASE SeePending(p)
    <3>1. TypeOK' /\ ListInv' /\ ToldOnce'
      BY <1>i, <2>3, ServerStepTypeOK
      DEF SeePending, Seen, ListInv, Unsettled, ToldOnce
    <3>2. TruthInv'
      BY <1>i, <2>3 DEF SeePending, LooksPending, TruthInv, Removed
    <3> QED
      BY <3>1, <3>2 DEF IInv
  <2> QED
    BY <1>4, <2>1, <2>2, <2>3 DEF See
<1>5. CASE EndRound
  <2>1. TypeOK' /\ ListInv' /\ ToldOnce'
    BY <1>i, <1>5 DEF EndRound, ListInv, Unsettled, ToldOnce, ServerTypeOK
  <2>2. TruthInv'
    BY <1>i, <1>5 DEF EndRound, TruthInv, Removed
  <2> QED
    BY <2>1, <2>2 DEF IInv
<1>6. CASE NextRound
  <2>1. TypeOK' /\ ListInv' /\ ToldOnce'
    BY <1>i, <1>6 DEF NextRound, ListInv, Unsettled, ToldOnce, ServerTypeOK
  <2>2. TruthInv'
    BY <1>i, <1>6 DEF NextRound, TruthInv, Removed
  <2> QED
    BY <2>1, <2>2 DEF IInv
<1>7. CASE TimeOut \/ Cancel
  <2>1. TypeOK' /\ ListInv' /\ ToldOnce'
    BY <1>i, <1>7
    DEF TimeOut, Cancel, ListInv, Unsettled, ToldOnce, ServerTypeOK
  <2>2. TruthInv'
    BY <1>i, <1>7 DEF TimeOut, Cancel, TruthInv, Removed
  <2> QED
    BY <2>1, <2>2 DEF IInv
<1>8. CASE Others
  <2>1. ServerTypeOK' /\ \A q \in Pods : Forward(q)
    BY <1>8, OthersForward, ServerStepTypeOK DEF Others
  <2>2. ListInv' /\ ToldOnce'
    BY <1>i, <1>8 DEF Others, ListInv, Unsettled, ToldOnce
  <2>3. TruthInv'
    BY <1>i, <1>8, <2>1 DEF Others, TruthInv, Forward
  <2> QED
    BY <1>8, <2>1, <2>2, <2>3 DEF Others, IInv
<1>9. CASE UNCHANGED vars
  <2>1. TypeOK' /\ ListInv' /\ ToldOnce'
    BY <1>i, <1>9 DEF vars, ListInv, Unsettled, ToldOnce, ServerTypeOK
  <2>2. TruthInv'
    BY <1>i, <1>9 DEF vars, TruthInv, Removed
  <2> QED
    BY <2>1, <2>2 DEF IInv
<1> QED
  BY <1>1, <1>2, <1>3, <1>4, <1>5, <1>6, <1>7, <1>8, <1>9 DEF Next, Caller

(* The inductive invariant holds of every behaviour, for every set of      *)
(* pods.                                                                   *)
THEOREM Invariance == Spec => [](TypeOK /\ IInv)
<1> QED
  BY InitTypeOK, InitIInv, NextIInv, PTL DEF Spec

-----------------------------------------------------------------------------
(* What the invariant gives.                                               *)

(* A nil result leaves no pod unsettled, and what was concluded is true. *)
LEMMA InvNil == TypeOK /\ IInv => NilMeansGone
<1> SUFFICES ASSUME TypeOK, IInv, phase = "nil", NEW p \in Pods
             PROVE  Removed(p) \/ obj[p] = "overdue" \/ p \in misled
  BY DEF NilMeansGone
<1>1. settled[p] \in {"removed", "skipped"}
  BY DEF IInv, ListInv, Unsettled, TypeOK
<1> QED
  BY <1>1 DEF IInv, TruthInv

(* A nil result is the truth: all pods are gone, or overdue and            *)
(* deliberately not waited for, or a Get of them failed.                   *)
THEOREM NilIsTruthful == Spec => []NilMeansGone
<1> QED
  BY InvNil, Invariance, PTL

(* OnPodDeletedOrEvicted is called once for each pod settled as removed,   *)
(* and for no other.                                                       *)
THEOREM CallbackOnce == Spec => []ToldOnce
<1> QED
  BY Invariance, PTL DEF IInv

(* An error is never returned when every pod has been settled. *)
THEOREM ErrorIsTruthful == Spec => []ErrorMeansPending
<1>1. IInv => ErrorMeansPending
  BY DEF IInv, ListInv, Unsettled, ErrorMeansPending
<1> QED
  BY <1>1, Invariance, PTL

-----------------------------------------------------------------------------
(* The refinement.                                                         *)

(* Nothing PodRemoval sees changes but what exists on the server. *)
Invisible == UNCHANGED <<misled, told, settled>> /\ (Returned' <=> Returned)
             /\ (Returned => phase' = phase)

(* Every step is a step of PodRemoval, or none. *)
LEMMA StepRefines ==
    ASSUME TypeOK, IInv, [Next]_vars
    PROVE  Removal!Next \/ UNCHANGED Removal!vars
<1> DEFINE present == {q \in Pods : ~Removed(q)}
<1> USE DEF TypeOK, serverVars, listVars, clockVars
<1>0. (\A q \in Pods : Removed(q)' <=> Removed(q)) /\ Invisible
        => UNCHANGED Removal!vars
  BY DEF Invisible, Removal!vars
<1>1. ASSUME NEW p \in Pods, DeleteOne(p)
      PROVE  UNCHANGED Removal!vars
  <2>1. misled' = misled /\ \A q \in Pods : Removed(q)' <=> Removed(q)
    BY <1>1, RequestForward DEF DeleteOne, Removed
  <2>2. Invisible
    BY <1>1, <2>1 DEF DeleteOne, Invisible, Returned
  <2> QED
    BY <1>0, <2>1, <2>2
<1>2. ASSUME NEW p \in Pods, DeleteFails(p) PROVE Removal!Next
  <2>1. misled' = misled /\ \A q \in Pods : Removed(q)' <=> Removed(q)
    BY <1>2, RequestForward DEF DeleteFails, Removed
  <2>2. settled[p] = "pending" /\ ~Returned /\ Returned' /\ phase' = "error"
    BY <1>2 DEF DeleteFails, IInv, ListInv, Unsettled, Returned
  <2>3. Removal!Return
    BY <1>2, <2>1, <2>2 DEF DeleteFails, Removal!Return, Removal!Done
  <2> QED
    BY <2>3 DEF Removal!Next
<1>3. CASE BeginWait \/ NextRound
  BY <1>0, <1>3 DEF BeginWait, NextRound, Invisible, Returned, Removed
<1>4. ASSUME NEW p \in Pods, See(p)
      PROVE  Removal!Next \/ UNCHANGED Removal!vars
  <2>0. /\ ~Returned /\ settled[p] = "pending"
        /\ UNCHANGED <<obj, phase>>
    BY <1>4, LooksGoneIsGone DEF LooksOverdue, LooksPending, See, SeeGone, SeeOverdue, SeePending, Seen, IInv, ListInv,
       Unsettled, Returned
  <2>1. CASE SeeGone(p)
    <3>1. \/ Removed(p) /\ misled' = misled
          \/ misled' = misled \union {p}
      BY <2>1, LooksGoneIsGone DEF SeeGone
    <3>2. {q \in Pods : told[q] > 0}' = {q \in Pods : told[q] > 0} \union {p}
      BY <2>1 DEF SeeGone
    <3>3. present' = present
      BY <2>0 DEF Removed
    <3>4. Removal!Remove(p)
      BY <2>0, <2>1, <3>1, <3>2, <3>3 DEF SeeGone, Removal!Remove, Returned
    <3> QED
      BY <3>4 DEF Removal!Next
  <2>2. CASE SeeOverdue(p)
    <3>1. Removal!GiveUp(p)
      BY <2>0, <2>2
      DEF SeeOverdue, LooksOverdue, Removal!GiveUp, Returned, Removed
    <3> QED
      BY <3>1 DEF Removal!Next
  <2>3. CASE SeePending(p)
    BY <1>0, <2>0, <2>3
    DEF SeePending, LooksPending, Invisible, Returned, Removed
  <2> QED
    BY <1>4, <2>1, <2>2, <2>3 DEF See
<1>5. CASE EndRound
  <2>1. Unsettled = pendingPods /\ ~Returned
    BY <1>5 DEF EndRound, IInv, ListInv, Returned
  <2>2. CASE phase' = "sleeping"
    BY <1>0, <1>5, <2>1, <2>2 DEF EndRound, Invisible, Returned, Removed
  <2>3. CASE phase' # "sleeping"
    <3>1. phase' = IF \A q \in Pods : settled[q] \in {"removed", "skipped"}
                   THEN "nil" ELSE "error"
      BY <1>5, <2>1, <2>3 DEF EndRound, Unsettled
    <3>2. Returned'
      BY <3>1 DEF Returned
    <3>3. Removal!Return
      BY <1>5, <2>1, <3>1, <3>2
      DEF EndRound, Removal!Return, Removal!Done, Removed
    <3> QED
      BY <3>3 DEF Removal!Next
  <2> QED
    BY <2>2, <2>3
<1>6. CASE TimeOut \/ Cancel
  BY <1>0, <1>6 DEF TimeOut, Cancel, Invisible, Returned, Removed
<1>7. CASE Others
  <2>1. UNCHANGED <<told, settled, phase>>
    BY <1>7 DEF Others
  <2>2. /\ misled' = misled
        /\ \/ present' = present
           \/ \E p \in present : present' = present \ {p}
    BY <1>7, OthersVanish DEF Others
  <2>3. CASE present' = present
    BY <2>1, <2>2, <2>3 DEF Removal!vars, Returned
  <2>4. ASSUME NEW p \in present, present' = present \ {p}
        PROVE  Removal!Next
    <3>1. Removal!Vanish(p)
      BY <2>1, <2>2, <2>4 DEF Removal!Vanish, Returned
    <3> QED
      BY <3>1 DEF Removal!Next
  <2> QED
    BY <2>2, <2>3, <2>4
<1>8. CASE UNCHANGED vars
  BY <1>0, <1>8 DEF vars, Invisible, Returned, Removed
<1> QED
  BY <1>1, <1>2, <1>3, <1>4, <1>5, <1>6, <1>7, <1>8 DEF Next, Caller

(* Deletion keeps the same promise as eviction. *)
THEOREM Refinement == Spec => ImplementsRemoval
<1>1. Init => Removal!Init
  BY DEF Init, ServerInit, Removed, Returned, Removal!Init
<1>2. TypeOK /\ IInv /\ [Next]_vars => [Removal!Next]_(Removal!vars)
  BY StepRefines
<1> QED
  BY <1>1, <1>2, Invariance, PTL DEF Spec, ImplementsRemoval, Removal!Spec
=============================================================================
