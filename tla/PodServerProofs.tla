--------------------------- MODULE PodServerProofs ---------------------------
(***************************************************************************)
(* Lemmas about the steps of PodServer, shared by the proofs about the two *)
(* ways of removing pods.                                                  *)
(***************************************************************************)
EXTENDS PodServer, TLAPS

(* What may be concluded of a pod from the server stays true of it. *)
Forward(p) ==
    /\ Removed(p) => Removed(p)'
    /\ obj[p] = "overdue" => Removed(p)' \/ obj'[p] = "overdue"
    /\ p \in misled => p \in misled'

(* A step that leaves the object as it is keeps what was concluded. *)
LEMMA SameForward ==
    ASSUME NEW q \in Pods, obj' = obj, misled \subseteq misled'
    PROVE  Forward(q)
  BY DEF Forward, Removed

(* So does a removal by name, which makes no pod vanish at once. *)
LEMMA RequestForward ==
    ASSUME ServerTypeOK, NEW p \in Pods, RemoveByName(p)
    PROVE  /\ \A q \in Pods : Forward(q) /\ (Removed(q)' <=> Removed(q))
           /\ misled' = misled
  BY DEF ServerTypeOK, RemoveByName, Forward, Removed

(* So do the steps of other clients and of the kubelet. *)
LEMMA OthersForward ==
    ASSUME ServerTypeOK, OthersStep, NEW q \in Pods
    PROVE  Forward(q)
<1> USE DEF ServerTypeOK, Forward, Removed
<1>1. PICK p \in Pods : \/ DeletedByOther(p)
                        \/ BecomesOverdue(p)
                        \/ Terminates(p)
                        \/ Recreated(p)
  BY DEF OthersStep
<1>m. misled' = misled
  BY DEF OthersStep
<1>2. CASE DeletedByOther(p)
  BY <1>m, <1>2 DEF DeletedByOther
<1>3. CASE BecomesOverdue(p)
  BY <1>m, <1>3 DEF BecomesOverdue
<1>4. CASE Terminates(p)
  BY <1>m, <1>4 DEF Terminates
<1>5. CASE Recreated(p)
  BY <1>m, <1>5 DEF Recreated
<1> QED
  BY <1>1, <1>2, <1>3, <1>4, <1>5

(* A pod that looks gone is gone, or the Get failed. *)
LEMMA LooksGoneIsGone ==
    ASSUME NEW p \in Pods, LooksGone(p)
    PROVE  /\ UNCHANGED <<obj, wrong>>
           /\ misled \subseteq misled'
           /\ \/ Removed(p) /\ misled' = misled
              \/ misled' = misled \union {p}
  BY DEF LooksGone, Answers, Removed

(* A pod that looks overdue is overdue, and looking changes nothing. *)
LEMMA LooksOverdueIsOverdue ==
    ASSUME NEW p \in Pods, LooksOverdue(p)
    PROVE  obj[p] = "overdue" /\ UNCHANGED serverVars
  BY DEF LooksOverdue, Answers

(* Another client's step makes one pod vanish, or none. *)
LEMMA OthersVanish ==
    ASSUME ServerTypeOK, OthersStep
    PROVE  LET present == {q \in Pods : ~Removed(q)}
           IN  /\ misled' = misled
               /\ \/ present' = present
                  \/ \E p \in present : present' = present \ {p}
<1> DEFINE present == {q \in Pods : ~Removed(q)}
<1>1. PICK p \in Pods : \/ DeletedByOther(p) \/ BecomesOverdue(p)
                        \/ Terminates(p) \/ Recreated(p)
  BY DEF OthersStep
<1> USE DEF ServerTypeOK, Removed
<1>2. CASE Terminates(p)
  <2>1. present' = present \ {p} /\ p \in present
    BY <1>2 DEF Terminates
  <2> QED
    BY <2>1 DEF OthersStep
<1>3. CASE ~Terminates(p)
  <2>1. present' = present
    BY <1>1, <1>3 DEF DeletedByOther, BecomesOverdue, Recreated
  <2> QED
    BY <2>1 DEF OthersStep
<1> QED
  BY <1>2, <1>3

(* The server's part of every step is well typed. *)
LEMMA ServerStepTypeOK ==
    ASSUME ServerTypeOK,
           \/ UNCHANGED serverVars
           \/ \E p \in Pods : \/ RemoveByName(p) \/ LooksGone(p)
                             \/ LooksOverdue(p) \/ LooksPending(p)
           \/ OthersStep
    PROVE  ServerTypeOK'
<1> USE DEF ServerTypeOK, Objects, serverVars
<1>1. CASE UNCHANGED serverVars
  BY <1>1
<1>2. ASSUME NEW p \in Pods, RemoveByName(p) PROVE ServerTypeOK'
  BY <1>2 DEF RemoveByName
<1>3. ASSUME NEW p \in Pods, LooksGone(p) PROVE ServerTypeOK'
  BY <1>3 DEF LooksGone
<1>4. ASSUME NEW p \in Pods, LooksOverdue(p) \/ LooksPending(p)
      PROVE  ServerTypeOK'
  BY <1>4 DEF LooksOverdue, LooksPending
<1>5. CASE OthersStep
  BY <1>5 DEF OthersStep, DeletedByOther, BecomesOverdue, Terminates,
              Recreated
<1> QED
  BY <1>1, <1>2, <1>3, <1>4, <1>5
=============================================================================
