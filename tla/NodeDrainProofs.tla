--------------------------- MODULE NodeDrainProofs ---------------------------
(***************************************************************************)
(* Proofs about EvictPod and NodeDrain, for any pods, ReplicaSets and      *)
(* nodes: first what a step of one EvictPod does, then the part of the     *)
(* inductive invariant that speaks of evictions, then that of the drains.  *)
(***************************************************************************)
EXTENDS NodeDrain, TLAPS

(* Where an EvictPod that has deferred the scaling back is before it does  *)
(* so, and where it is once its result is settled.                         *)
BeforeScalingBack == {"failover", "evict", "claimGet", "claimDelete",
                      "claimWait", "claimCreate", "unwind", "downGet"}
Renewing == {"claimGet", "claimDelete", "claimWait", "claimCreate"}
Leaving == {"unwind", "downGet", "downPut", "done"}

(* Only a pod of a ReplicaSet is scaled. *)
OwnedInv == \A p \in Pods : pc[p] \in {"upPut", "downPut"} => Owned(p)

(* The scaling back is deferred after the scaling up. *)
SurgedInv ==
    \A p \in surged : pc[p] \notin {"idle", "replicas", "upGet", "upPut"}

(* Somebody still has the second replica to take back, and will not be     *)
(* refused: who reads the set again, or has read its last version.         *)
LiveInv ==
    \A s \in Sets \ disturbed :
        replicas[s] # 1 =>
            \E p \in CallersOf(s) :
                /\ p \in surged
                /\ \/ pc[p] \in BeforeScalingBack
                   \/ At(p, "downPut") /\ Fresh(p)

(* Or, in any set: somebody has been told, or will be if refused. *)
ToldInv ==
    \A s \in Sets :
        replicas[s] # 1 =>
            \E p \in CallersOf(s) :
                \/ p \in warned
                \/ result[p] = "error"
                \/ p \in surged /\ pc[p] \in BeforeScalingBack \union {"downPut"}

(* The only caller of a set finds the second replica it has asked for. *)
HeldInv ==
    \A p \in surged :
        /\ pc[p] \in {"failover", "evict"}
        /\ Owned(p)
        /\ CallersOf(Set(p)) = {p}
        => replicas[Set(p)] = 2

(* A claim is touched after the pod went, or was taken for gone. *)
ClaimInv ==
    \A p \in Pods :
        /\ claim[p] # "old" =>
              /\ pc[p] \in (Renewing \ {"claimGet", "claimDelete"}) \union Leaving
              /\ p \notin present \ misled
        /\ pc[p] \in Renewing => p \notin present \ misled

(* Whoever leaves with nil has seen the pod go and has renewed its claim. *)
RenewInv ==
    \A p \in Pods \ Skipped :
        pc[p] \in Leaving /\ result[p] = "nil" =>
            /\ p \notin present \ misled
            /\ p \in Claimants => claim[p] = "renewed"

EvictInv ==
    /\ EvictTypeOK
    /\ OwnedInv
    /\ SurgedInv
    /\ LiveInv
    /\ ToldInv
    /\ HeldInv
    /\ ClaimInv
    /\ RenewInv

(* A pod that is only nominated has not been listed or evicted yet, and a  *)
(* pod that was listed is there until its eviction begins.                 *)
LateInv ==
    /\ \A p \in nominated :
          p \notin present /\ pc[p] = "idle" /\ \A n \in Nodes : p \notin listed[n]
    /\ \A n \in Nodes : \A p \in listed[n] : pc[p] = "idle" => p \in present

(* The attachments are looked at when every eviction has returned nil, and *)
(* the drain returns nil after that.                                       *)
DrainInv ==
    \A n \in Nodes :
        /\ verdict[n] # "none" => at[n] = "returned"
        /\ \/ at[n] \in {"attachments", "detaching"}
           \/ verdict[n] = "nil" /\ n \notin unconnected
           => \A p \in listed[n] : pc[p] = "done" /\ result[p] = "nil"
        /\ \A p \in toDetach[n] : NodeOf[p] = n

(* What Cordon has read is the node, unless a later version exists. *)
CopyInv ==
    \A n \in Nodes :
        at[n] = "cordonPut" =>
            /\ copy[n].version <= node[n].version
            /\ copy[n].version = node[n].version => copy[n] = node[n]

IInv == EvictInv /\ TypeOK /\ LateInv /\ DrainInv /\ CopyInv

-----------------------------------------------------------------------------
(* A step of an EvictPod concerns its own pod, and that pod is neither     *)
(* waiting for its eviction nor done with it.                              *)
LEMMA CallerFrame ==
    ASSUME EvictTypeOK, NEW p \in Pods, Caller(p) \/ Begin(p)
    PROVE  /\ pc[p] # "done" /\ pc'[p] # "idle" /\ (Caller(p) => pc[p] # "idle")
           /\ \A q \in Pods \ {p} :
                 /\ pc'[q] = pc[q] /\ result'[q] = result[q]
                 /\ claim'[q] = claim[q] /\ read'[q] = read[q]
                 /\ q \in present' <=> q \in present
                 /\ q \in misled' <=> q \in misled
                 /\ q \in surged' <=> q \in surged
                 /\ q \in warned' <=> q \in warned
           /\ present' \subseteq present
           /\ (pc[p] = "idle" => present' = present)
           /\ misled \subseteq misled' /\ surged \subseteq surged'
           /\ warned \subseteq warned' /\ disturbed \subseteq disturbed'
           /\ (result[p] = "error" => result'[p] = "error")
BY DEF EvictTypeOK, Caller, Begin, RequestFails, GetPodReplicas, ScaleUpGet,
       ScaleUpPut, ScaleUpLost, ScaleDownGet, ScaleDownPut, ScaleDownFails,
       Failover, Evict, Evicted, ClaimGet, ClaimDelete, ClaimWait, ClaimCreate,
       Unwind, At, Goto, Fail, Disturb, ReadSet, setVars, podVars

(* It writes a ReplicaSet in three of its steps only. *)
LEMMA CallerWrites ==
    ASSUME EvictTypeOK, OwnedInv, NEW p \in Pods, Caller(p) \/ Begin(p)
    PROVE  \/ UNCHANGED <<replicas, version>>
           \/ /\ Owned(p) /\ Set(p) \in Sets
              /\ ScaleUpPut(p) \/ ScaleUpLost(p) \/ ScaleDownPut(p)
              /\ Fresh(p)
              /\ version' = [version EXCEPT ![Set(p)] = @ + 1]
              /\ \/ /\ pc[p] = "upPut"
                    /\ replicas' = [replicas EXCEPT ![Set(p)] = 2]
                 \/ /\ pc[p] = "downPut" /\ ScaleDownPut(p)
                    /\ replicas' = [replicas EXCEPT ![Set(p)] = 1]
BY EvictPodAssumption
   DEF EvictTypeOK, OwnedInv, Caller, Begin, RequestFails, GetPodReplicas,
       ScaleUpGet, ScaleUpPut, ScaleUpLost, ScaleDownGet, ScaleDownPut,
       ScaleDownFails, WriteSet, Failover, Evict, Evicted, ClaimGet,
       ClaimDelete, ClaimWait, ClaimCreate, Unwind, At, Owned, Set, setVars

(* The types of one EvictPod's variables, step by step. *)
LEMMA CallerKeepsTypes ==
    ASSUME EvictTypeOK, OwnedInv, NEW p \in Pods, Caller(p) \/ Begin(p)
    PROVE  EvictTypeOK'
<1>1. version' \in [Sets -> Nat] /\ replicas' \in [Sets -> 1..2]
  <2>1. CASE UNCHANGED <<replicas, version>>
    BY <2>1 DEF EvictTypeOK
  <2>2. CASE ~UNCHANGED <<replicas, version>>
    <3>1. /\ Set(p) \in Sets
          /\ version' = [version EXCEPT ![Set(p)] = @ + 1]
          /\ \/ replicas' = [replicas EXCEPT ![Set(p)] = 2]
             \/ replicas' = [replicas EXCEPT ![Set(p)] = 1]
      BY <2>2, CallerWrites
    <3>2. version' \in [Sets -> Nat]
      BY <3>1 DEF EvictTypeOK
    <3>3. replicas' \in [Sets -> 1..2]
      BY <3>1 DEF EvictTypeOK
    <3> QED BY <3>2, <3>3
  <2> QED BY <2>1, <2>2
<1>2. /\ present' \subseteq Pods /\ misled' \subseteq Pods
      /\ surged' \subseteq Pods /\ warned' \subseteq Pods
  BY CallerFrame DEF EvictTypeOK, Caller, Begin, RequestFails, GetPodReplicas,
     ScaleUpGet, ScaleUpPut, ScaleUpLost, ScaleDownGet, ScaleDownPut,
     ScaleDownFails, Failover, Evict, ClaimGet, ClaimDelete, ClaimWait,
     ClaimCreate, Unwind, setVars, podVars
<1>3. disturbed' \subseteq Sets /\ mishaps' \in 0..MaxMishaps
  BY EvictPodAssumption
     DEF EvictTypeOK, Caller, Begin, RequestFails, GetPodReplicas,
     ScaleUpGet, ScaleUpPut, ScaleUpLost, ScaleDownGet, ScaleDownPut,
     ScaleDownFails, Failover, Evict, ClaimGet, ClaimDelete, ClaimWait,
     ClaimCreate, Unwind, Disturb, Set, Mishap, setVars, podVars
<1>4. pc' \in [Pods -> Locations] /\ result' \in [Pods -> {"nil", "error"}]
  BY DEF EvictTypeOK, Caller, Begin, RequestFails, GetPodReplicas,
     ScaleUpGet, ScaleUpPut, ScaleUpLost, ScaleDownGet, ScaleDownPut,
     ScaleDownFails, Failover, Evict, Evicted, ClaimGet, ClaimDelete, ClaimWait,
     ClaimCreate, Unwind, Goto, Fail, Locations
<1>5. claim' \in [Pods -> Claims]
  BY DEF EvictTypeOK, Caller, Begin, RequestFails, GetPodReplicas,
     ScaleUpGet, ScaleUpPut, ScaleUpLost, ScaleDownGet, ScaleDownPut,
     ScaleDownFails, Failover, Evict, ClaimGet, ClaimDelete, ClaimWait,
     ClaimCreate, Unwind, Claims
<1>6. read' \in [Pods -> [replicas : 1..2, version : Nat]]
  <2>1. CASE UNCHANGED read
    BY <2>1 DEF EvictTypeOK
  <2>2. CASE read' # read
    <3>1. ReadSet(p) /\ Owned(p)
      BY <2>2 DEF Caller, Begin, RequestFails, GetPodReplicas, ScaleUpGet,
         ScaleUpPut, ScaleUpLost, ScaleDownGet, ScaleDownPut, ScaleDownFails,
         Failover, Evict, ClaimGet, ClaimDelete, ClaimWait, ClaimCreate, Unwind
    <3>2. Set(p) \in Sets
      BY <3>1, EvictPodAssumption DEF Owned, Set
    <3> QED BY <3>1, <3>2 DEF EvictTypeOK, ReadSet
  <2> QED BY <2>1, <2>2
<1> QED BY <1>1, <1>2, <1>3, <1>4, <1>5, <1>6 DEF EvictTypeOK

(* Only a pod of a ReplicaSet comes to a write of it. *)
LEMMA CallerKeepsOwned ==
    ASSUME EvictTypeOK, OwnedInv, NEW p \in Pods, Caller(p) \/ Begin(p)
    PROVE  OwnedInv'
<1>1. pc'[p] \in {"upPut", "downPut"} => Owned(p)
  BY DEF EvictTypeOK, OwnedInv, Caller, Begin, RequestFails, GetPodReplicas,
     ScaleUpGet, ScaleUpPut, ScaleUpLost, ScaleDownGet, ScaleDownPut,
     ScaleDownFails, Failover, Evict, Evicted, ClaimGet, ClaimDelete, ClaimWait,
     ClaimCreate, Unwind, Goto, Fail
<1> QED BY <1>1, CallerFrame DEF OwnedInv, Owned

(* The scaling back is deferred with the step that scales up. *)
LEMMA CallerKeepsSurged ==
    ASSUME EvictTypeOK, SurgedInv, NEW p \in Pods, Caller(p) \/ Begin(p)
    PROVE  SurgedInv'
<1>1. p \in surged' => pc'[p] \notin {"idle", "replicas", "upGet", "upPut"}
  BY DEF EvictTypeOK, SurgedInv, Caller, Begin, RequestFails, GetPodReplicas,
     ScaleUpGet, ScaleUpPut, ScaleUpLost, ScaleDownGet, ScaleDownPut,
     ScaleDownFails, Failover, Evict, Evicted, ClaimGet, ClaimDelete, ClaimWait,
     ClaimCreate, Unwind, At, Goto, Fail
<1>2. surged' \subseteq Pods
  BY DEF EvictTypeOK, Caller, Begin, RequestFails, GetPodReplicas, ScaleUpGet,
     ScaleUpPut, ScaleUpLost, ScaleDownGet, ScaleDownPut, ScaleDownFails,
     Failover, Evict, ClaimGet, ClaimDelete, ClaimWait, ClaimCreate, Unwind
<1> QED BY <1>1, <1>2, CallerFrame DEF SurgedInv

(* Who has the second replica to take back keeps that duty, in a set that  *)
(* nobody disturbs: the duty ends with the write that scales back.         *)
LEMMA CallerKeepsLive ==
    ASSUME EvictTypeOK, OwnedInv, LiveInv, NEW p \in Pods, Caller(p) \/ Begin(p)
    PROVE  LiveInv'
<1> SUFFICES ASSUME NEW s \in Sets \ disturbed', replicas'[s] # 1
             PROVE  \E q \in CallersOf(s) :
                        /\ q \in surged'
                        /\ \/ pc'[q] \in BeforeScalingBack
                           \/ pc'[q] = "downPut" /\ read'[q].version = version'[s]
  BY DEF LiveInv, CallersOf, At, Fresh, Set
<1>1. s \in Sets \ disturbed
  BY CallerFrame
<1>2. CASE version'[s] = version[s] /\ replicas'[s] = replicas[s]
  <2>1. PICK q \in CallersOf(s) :
            /\ q \in surged
            /\ \/ pc[q] \in BeforeScalingBack
               \/ At(q, "downPut") /\ Fresh(q)
    BY <1>1, <1>2 DEF LiveInv
  <2>2. q \in Pods /\ Set(q) = s /\ Owned(q)
    BY <2>1, EvictPodAssumption DEF CallersOf, Set, Owned
  <2>3. CASE q # p
    BY <1>2, <2>1, <2>2, <2>3, CallerFrame DEF At, Fresh
  <2>4. CASE q = p
    <3>1. p \in surged'
      BY <2>1, <2>4, CallerFrame
    <3>2. CASE At(p, "downPut") /\ Fresh(p)
      <4>1. ~ScaleDownPut(p)
        BY <1>2, <2>2, <2>4, <3>2 DEF ScaleDownPut, WriteSet, EvictTypeOK
      <4>2. ~RequestFails(p) /\ ~ScaleDownFails(p)
        BY <2>2, <2>4, EvictPodAssumption
           DEF RequestFails, ScaleDownFails, Disturb, Set, Owned
      <4> QED BY <3>2, <4>1, <4>2
              DEF Caller, Begin, GetPodReplicas, ScaleUpGet, ScaleUpPut,
              ScaleUpLost, ScaleDownGet, Failover, Evict, ClaimGet, ClaimDelete,
              ClaimWait, ClaimCreate, Unwind, At
    <3>3. CASE pc[p] \in BeforeScalingBack
      <4>1. CASE ScaleDownGet(p)
        BY <1>2, <2>2, <2>4, <3>1, <4>1
           DEF ScaleDownGet, ReadSet, Goto, EvictTypeOK, setVars
      <4>2. CASE ~ScaleDownGet(p)
        <5>1. ~ScaleDownFails(p)
          BY <2>2, <2>4, EvictPodAssumption
             DEF ScaleDownFails, Disturb, Set, Owned
        <5>2. pc'[p] \in BeforeScalingBack
          BY <2>1, <2>4, <3>3, <4>2, <5>1
             DEF BeforeScalingBack, EvictTypeOK, Caller, Begin, RequestFails,
             GetPodReplicas, ScaleUpGet, ScaleUpPut, ScaleUpLost, ScaleDownPut,
             Failover, Evict, Evicted, ClaimGet, ClaimDelete, ClaimWait,
             ClaimCreate, Unwind, At, Goto, Fail
        <5> QED BY <2>1, <2>4, <3>1, <5>2
      <4> QED BY <4>1, <4>2
    <3> QED BY <2>1, <2>4, <3>2, <3>3
  <2> QED BY <2>3, <2>4
<1>3. CASE ~(version'[s] = version[s] /\ replicas'[s] = replicas[s])
  <2>1. /\ Owned(p) /\ Set(p) = s
        /\ ScaleUpPut(p) \/ ScaleUpLost(p) \/ ScaleDownPut(p)
        /\ Fresh(p) /\ pc[p] = "upPut"
    BY <1>3, CallerWrites DEF EvictTypeOK
  <2>2. ~ScaleUpLost(p)
    BY <2>1, EvictPodAssumption DEF ScaleUpLost, Disturb, Set, Owned
  <2>3. p \in surged' /\ pc'[p] = "failover"
    BY <2>1, <2>2 DEF ScaleUpPut, ScaleDownPut, At, Goto, EvictTypeOK
  <2> QED BY <2>1, <2>3 DEF BeforeScalingBack, CallersOf
<1> QED BY <1>2, <1>3

(* In any set, whoever ends without taking the replica back is told. *)
LEMMA CallerKeepsTold ==
    ASSUME EvictTypeOK, OwnedInv, ToldInv, NEW p \in Pods, Caller(p) \/ Begin(p)
    PROVE  ToldInv'
<1> SUFFICES ASSUME NEW s \in Sets, replicas'[s] # 1
             PROVE  \E q \in CallersOf(s) :
                        \/ q \in warned'
                        \/ result'[q] = "error"
                        \/ /\ q \in surged'
                           /\ pc'[q] \in BeforeScalingBack \union {"downPut"}
  BY DEF ToldInv, CallersOf, Set
<1>1. CASE replicas'[s] = replicas[s] /\ version'[s] = version[s]
  <2>1. PICK q \in CallersOf(s) :
            \/ q \in warned
            \/ result[q] = "error"
            \/ q \in surged /\ pc[q] \in BeforeScalingBack \union {"downPut"}
    BY <1>1 DEF ToldInv
  <2>2. q \in Pods /\ Set(q) = s /\ Owned(q)
    BY <2>1, EvictPodAssumption DEF CallersOf, Set, Owned
  <2>3. CASE q # p \/ q \in warned \/ result[q] = "error"
    BY <2>1, <2>2, <2>3, CallerFrame DEF EvictTypeOK
  <2>4. CASE q = p /\ q \in surged /\ pc[q] \in BeforeScalingBack \union {"downPut"}
    <3>1. p \in surged'
      BY <2>4, CallerFrame
    <3>2. CASE ScaleDownPut(p)
      <4>1. ~Fresh(p)
        BY <1>1, <2>2, <2>4, <3>2 DEF ScaleDownPut, WriteSet, EvictTypeOK
      <4> QED BY <2>1, <2>4, <3>2, <4>1 DEF ScaleDownPut
    <3>3. CASE ScaleDownFails(p)
      BY <2>1, <2>4, <3>3 DEF ScaleDownFails
    <3>4. CASE ScaleDownGet(p)
      BY <1>1, <2>1, <2>2, <2>4, <3>1, <3>4
         DEF ScaleDownGet, Goto, EvictTypeOK, setVars
    <3>5. CASE ~ScaleDownPut(p) /\ ~ScaleDownFails(p) /\ ~ScaleDownGet(p)
      <4>1. pc'[p] \in BeforeScalingBack
        BY <2>4, <3>5
           DEF BeforeScalingBack, EvictTypeOK, Caller, Begin, RequestFails,
           GetPodReplicas, ScaleUpGet, ScaleUpPut, ScaleUpLost, Failover, Evict,
           Evicted, ClaimGet, ClaimDelete, ClaimWait, ClaimCreate, Unwind, At,
           Goto, Fail
      <4> QED BY <2>1, <2>4, <3>1, <4>1
    <3> QED BY <3>2, <3>3, <3>4, <3>5
  <2> QED BY <2>1, <2>3, <2>4
<1>2. CASE ~(replicas'[s] = replicas[s] /\ version'[s] = version[s])
  <2>1. /\ Owned(p) /\ Set(p) = s
        /\ ScaleUpPut(p) \/ ScaleUpLost(p) \/ ScaleDownPut(p)
        /\ Fresh(p) /\ pc[p] = "upPut"
    BY <1>2, CallerWrites DEF EvictTypeOK
  <2>2. CASE ScaleUpLost(p)
    BY <2>1, <2>2 DEF ScaleUpLost, Fail, EvictTypeOK, CallersOf
  <2>3. CASE ScaleUpPut(p)
    BY <2>1, <2>3 DEF ScaleUpPut, Goto, EvictTypeOK, BeforeScalingBack, CallersOf
  <2> QED BY <2>1, <2>2, <2>3 DEF ScaleDownPut, At
<1> QED BY <1>1, <1>2

(* The only caller of a set writes it before its eviction, or after. *)
LEMMA CallerKeepsHeld ==
    ASSUME EvictTypeOK, OwnedInv, SurgedInv, HeldInv,
           NEW p \in Pods, Caller(p) \/ Begin(p)
    PROVE  HeldInv'
<1> SUFFICES ASSUME NEW q \in surged', pc'[q] \in {"failover", "evict"}, Owned(q),
                    CallersOf(Set(q)) = {q}
             PROVE  replicas'[Set(q)] = 2
  BY DEF HeldInv, Owned, CallersOf, Set
<1>0. Set(q) \in Sets /\ q \in Pods
  BY EvictPodAssumption, CallerKeepsSurged DEF Owned, Set, CallersOf
<1>1. CASE q = p
  <2>1. CASE ScaleUpPut(p)
    BY <1>0, <1>1, <2>1 DEF ScaleUpPut, WriteSet, Fail, Goto, EvictTypeOK
  <2>2. CASE ScaleUpGet(p)
    BY <1>0, <1>1, <2>2 DEF ScaleUpGet, Goto, EvictTypeOK, setVars
  <2>3. CASE ~ScaleUpPut(p) /\ ~ScaleUpGet(p)
    <3>1. p \in surged /\ pc[p] \in {"failover", "evict"}
      BY <1>1, <2>3
         DEF SurgedInv, EvictTypeOK, Caller, Begin, RequestFails, GetPodReplicas,
         ScaleUpLost, ScaleDownGet, ScaleDownPut, ScaleDownFails, Failover,
         Evict, Evicted, ClaimGet, ClaimDelete, ClaimWait, ClaimCreate, Unwind,
         At, Goto, Fail
    <3>2. UNCHANGED replicas
      BY <3>1, CallerWrites
    <3> QED BY <1>1, <3>1, <3>2 DEF HeldInv
  <2> QED BY <2>1, <2>2, <2>3
<1>2. CASE q # p
  <2>1. q \in surged /\ pc[q] \in {"failover", "evict"}
    BY <1>0, <1>2, CallerFrame
  <2>2. replicas[Set(q)] = 2
    BY <2>1 DEF HeldInv
  <2>3. Set(p) # Set(q)
    BY <1>2 DEF CallersOf, Set
  <2> QED BY <1>0, <2>2, <2>3, CallerWrites DEF EvictTypeOK
<1> QED BY <1>1, <1>2

(* The claim is deleted only after an eviction that returned nil. *)
LEMMA CallerKeepsClaim ==
    ASSUME EvictTypeOK, ClaimInv, NEW p \in Pods, Caller(p) \/ Begin(p)
    PROVE  ClaimInv'
<1>1. ASSUME NEW q \in Pods, q # p
      PROVE  /\ claim'[q] = claim[q] /\ pc'[q] = pc[q]
             /\ q \in present' \ misled' <=> q \in present \ misled
  BY <1>1, CallerFrame
<1>2. pc'[p] \in Renewing => p \notin present' \ misled'
  BY DEF ClaimInv, Renewing, EvictTypeOK, Caller, Begin, RequestFails,
     GetPodReplicas, ScaleUpGet, ScaleUpPut, ScaleUpLost, ScaleDownGet,
     ScaleDownPut, ScaleDownFails, Failover, Evict, Evicted, ClaimGet,
     ClaimDelete, ClaimWait, ClaimCreate, Unwind, At, Goto, Fail, podVars
<1>3. claim'[p] # "old" =>
          /\ pc'[p] \in (Renewing \ {"claimGet", "claimDelete"}) \union Leaving
          /\ p \notin present' \ misled'
  <2>1. CASE claim[p] # "old"
    <3>1. /\ pc[p] \in (Renewing \ {"claimGet", "claimDelete"}) \union Leaving
          /\ p \notin present \ misled
      BY <2>1 DEF ClaimInv
    <3>2. pc'[p] \in (Renewing \ {"claimGet", "claimDelete"}) \union Leaving
      BY <3>1
         DEF Renewing, Leaving, EvictTypeOK, Caller, Begin, RequestFails,
         GetPodReplicas, ScaleUpGet, ScaleUpPut, ScaleUpLost, ScaleDownGet,
         ScaleDownPut, ScaleDownFails, Failover, Evict, ClaimGet,
         ClaimDelete, ClaimWait, ClaimCreate, Unwind, At, Goto, Fail
    <3> QED BY <3>1, <3>2, CallerFrame
  <2>2. CASE claim[p] = "old" /\ claim'[p] # "old"
    <3>1. ClaimDelete(p) \/ ClaimCreate(p)
      BY <2>2
         DEF Caller, Begin, RequestFails, GetPodReplicas, ScaleUpGet,
         ScaleUpPut, ScaleUpLost, ScaleDownGet, ScaleDownPut, ScaleDownFails,
         Failover, Evict, ClaimGet, ClaimWait, Unwind
    <3>2. ClaimDelete(p) /\ pc'[p] = "claimWait"
      BY <2>2, <3>1 DEF ClaimDelete, ClaimCreate, Goto, EvictTypeOK
    <3> QED BY <1>2, <3>2 DEF Renewing
  <2> QED BY <2>1, <2>2
<1> QED BY <1>1, <1>2, <1>3 DEF ClaimInv

(* The ways out of EvictPod with nil: no claim to renew, or a new one. *)
LEMMA CallerKeepsRenewed ==
    ASSUME EvictTypeOK, ClaimInv, RenewInv, NEW p \in Pods, Caller(p) \/ Begin(p)
    PROVE  RenewInv'
<1>1. ASSUME NEW q \in Pods, q # p
      PROVE  /\ claim'[q] = claim[q] /\ pc'[q] = pc[q] /\ result'[q] = result[q]
             /\ q \in present' \ misled' <=> q \in present \ misled
  BY <1>1, CallerFrame
<1>2. ASSUME p \notin Skipped, pc'[p] \in Leaving, result'[p] = "nil"
      PROVE  /\ p \notin present' \ misled'
             /\ p \in Claimants => claim'[p] = "renewed"
  <2>1. CASE pc[p] \in Leaving
    <3>1. result[p] = "nil"
      BY <1>2, CallerFrame DEF EvictTypeOK
    <3>2. claim'[p] = claim[p]
      BY <2>1 DEF Leaving, Caller, Begin, RequestFails, GetPodReplicas,
         ScaleUpGet, ScaleUpPut, ScaleUpLost, ScaleDownGet, ScaleDownPut,
         ScaleDownFails, Failover, Evict, ClaimGet, ClaimDelete, ClaimWait,
         ClaimCreate, Unwind, At
    <3> QED BY <1>2, <2>1, <3>1, <3>2, CallerFrame DEF RenewInv
  <2>2. CASE pc[p] \notin Leaving
    <3>1. Evict(p) \/ ClaimCreate(p)
      BY <1>2, <2>2
         DEF Leaving, EvictTypeOK, Caller, Begin, RequestFails, GetPodReplicas,
         ScaleUpGet, ScaleUpPut, ScaleUpLost, ScaleDownGet, ScaleDownPut,
         ScaleDownFails, Failover, ClaimGet, ClaimDelete, ClaimWait, Unwind,
         At, Goto, Fail
    <3>2. CASE Evict(p)
      BY <1>2, <3>2 DEF Evict, Evicted, Goto, Fail, Leaving, EvictTypeOK, podVars
    <3>3. CASE ClaimCreate(p)
      BY <1>2, <3>3
         DEF ClaimCreate, Goto, Fail, EvictTypeOK, ClaimInv, Renewing, At, podVars
    <3> QED BY <3>1, <3>2, <3>3
  <2> QED BY <2>1, <2>2
<1> QED BY <1>1, <1>2 DEF RenewInv

(* Every step of an EvictPod. *)
LEMMA CallerKeeps ==
    ASSUME EvictInv, NEW p \in Pods, Caller(p) \/ Begin(p)
    PROVE  EvictInv'
BY CallerKeepsTypes, CallerKeepsOwned, CallerKeepsSurged, CallerKeepsLive,
   CallerKeepsTold, CallerKeepsHeld, CallerKeepsClaim, CallerKeepsRenewed
   DEF EvictInv

(* Every step of the kubelet, the StatefulSet controller and the others. *)
LEMMA OthersKeep ==
    ASSUME EvictInv, OtherClients
    PROVE  EvictInv'
<1> USE DEF EvictInv
<1>1. ASSUME NEW p \in Pods, Terminates(p) PROVE EvictInv'
  <2>1. /\ present' = present \ {p}
        /\ UNCHANGED <<setVars, misled, claim, pc, read, surged, result, warned,
                       disturbed>>
    BY <1>1 DEF Terminates
  <2>2. EvictTypeOK' /\ OwnedInv' /\ SurgedInv' /\ HeldInv'
    BY <2>1 DEF EvictTypeOK, OwnedInv, Owned, SurgedInv, HeldInv, CallersOf, Set,
                setVars
  <2>3. LiveInv' /\ ToldInv'
    BY <2>1 DEF LiveInv, ToldInv, CallersOf, Set, At, Fresh, setVars
  <2>4. ClaimInv' /\ RenewInv'
    BY <2>1 DEF ClaimInv, RenewInv
  <2> QED BY <2>2, <2>3, <2>4
<1>2. ASSUME NEW p \in Claimants, ClaimGone(p) \/ ClaimRecreated(p) PROVE EvictInv'
  <2>1. /\ claim[p] \in {"deleting", "absent"}
        /\ \E c \in {"absent", "foreign"} : claim' = [claim EXCEPT ![p] = c]
        /\ UNCHANGED <<setVars, podVars, pc, read, surged, result, warned, disturbed>>
    BY <1>2 DEF ClaimGone, ClaimRecreated
  <2>2. EvictTypeOK' /\ OwnedInv' /\ SurgedInv' /\ HeldInv'
    BY <2>1 DEF EvictTypeOK, Claims, OwnedInv, Owned, SurgedInv, HeldInv,
                CallersOf, Set, setVars, podVars
  <2>3. LiveInv' /\ ToldInv'
    BY <2>1 DEF LiveInv, ToldInv, CallersOf, Set, At, Fresh, setVars
  <2>4. ClaimInv' /\ RenewInv'
    BY <2>1, EvictPodAssumption DEF ClaimInv, RenewInv, EvictTypeOK, podVars
  <2> QED BY <2>2, <2>3, <2>4
<1>3. ASSUME NEW s \in Sets, StatusWritten(s) PROVE EvictInv'
  <2>1. /\ version' = [version EXCEPT ![s] = @ + 1]
        /\ disturbed' = disturbed \union {s}
        /\ mishaps' = mishaps + 1 /\ mishaps < MaxMishaps
        /\ UNCHANGED <<replicas, podVars, claim, pc, read, surged, result, warned>>
    BY <1>3 DEF StatusWritten, Mishap
  <2>2. EvictTypeOK' /\ OwnedInv' /\ SurgedInv' /\ HeldInv'
    BY <2>1, EvictPodAssumption
       DEF EvictTypeOK, OwnedInv, Owned, SurgedInv, HeldInv, CallersOf, Set, podVars
  <2>3. \A t \in Sets \ disturbed' : t \in Sets \ disturbed /\ version'[t] = version[t]
    BY <2>1 DEF EvictTypeOK
  <2>4. LiveInv' /\ ToldInv'
    BY <2>1, <2>3 DEF LiveInv, ToldInv, CallersOf, Set, At, Fresh
  <2>5. ClaimInv' /\ RenewInv'
    BY <2>1 DEF ClaimInv, RenewInv, podVars
  <2> QED BY <2>2, <2>4, <2>5
<1> QED BY <1>1, <1>2, <1>3 DEF OtherClients

(* What happens to the drains, and a request of theirs that fails, leaves  *)
(* the evictions as they are.                                              *)
LEMMA DrainsKeepEvictions ==
    ASSUME EvictInv, UNCHANGED evictState, mishaps' \in 0..MaxMishaps
    PROVE  EvictInv'
BY DEF EvictInv, evictState, EvictTypeOK, OwnedInv, Owned, SurgedInv, LiveInv,
   ToldInv, HeldInv, ClaimInv, RenewInv, CallersOf, Set, At, Fresh

-----------------------------------------------------------------------------
(* The parts of the invariant that speak of drains.                        *)

(* One node goes from a stage to the next.                                 *)
LEMMA ProceedSets ==
    ASSUME TypeOK, NEW n \in Nodes, NEW from, NEW to \in Stages, Proceed(n, from, to)
    PROVE  /\ at[n] = from /\ at'[n] = to /\ at' \in [Nodes -> Stages]
           /\ \A m \in Nodes \ {n} : at'[m] = at[m]
BY DEF TypeOK, Proceed

(* And it may return with a verdict. *)
LEMMA ReturnSets ==
    ASSUME TypeOK, NEW n \in Nodes, NEW from, NEW v \in {"nil", "error"},
           ReturnWith(n, from, v)
    PROVE  /\ at[n] = from /\ at'[n] = "returned" /\ verdict'[n] = v
           /\ at' \in [Nodes -> Stages]
           /\ verdict' \in [Nodes -> {"none", "nil", "error"}]
           /\ \A m \in Nodes \ {n} : at'[m] = at[m] /\ verdict'[m] = verdict[m]
BY DEF TypeOK, ReturnWith, Proceed, Stages

(* The initial states have every part of the invariant. *)
LEMMA InitInv == Init => IInv
<1> SUFFICES ASSUME Init PROVE IInv
  OBVIOUS
<1> USE DEF Init, EvictInit
<1>1. EvictTypeOK
  BY EvictPodAssumption DEF EvictTypeOK, Claims, Locations
<1>2. EvictInv
  BY <1>1 DEF EvictInv, OwnedInv, SurgedInv, LiveInv, ToldInv, HeldInv, ClaimInv,
              RenewInv, Renewing, Leaving
<1>3. node \in [Nodes -> NodeObjects]
  BY DEF FreshNode, NodeObjects
<1>4. at \in [Nodes -> Stages]
  BY DEF Stages
<1>5. TypeOK
  BY <1>1, <1>3, <1>4, EvictPodAssumption, NodeDrainAssumption DEF TypeOK
<1>6. LateInv /\ DrainInv /\ CopyInv
  BY DEF LateInv, DrainInv, CopyInv
<1> QED BY <1>2, <1>5, <1>6 DEF IInv

(* A pod that is bound has no eviction yet, and its claim was not touched. *)
LEMMA BindKeepsEvictions ==
    ASSUME IInv, NEW p \in Pods, Bind(p)
    PROVE  EvictInv'
<1>1. /\ pc[p] = "idle" /\ present' = present \union {p}
      /\ UNCHANGED <<setVars, misled, claim, pc, read, surged, result, warned,
                     disturbed>>
  BY DEF IInv, LateInv, Bind
<1>2. EvictTypeOK' /\ OwnedInv' /\ SurgedInv' /\ HeldInv'
  BY <1>1 DEF IInv, EvictInv, EvictTypeOK, OwnedInv, Owned, SurgedInv, HeldInv,
              CallersOf, Set, setVars
<1>3. LiveInv' /\ ToldInv'
  BY <1>1 DEF IInv, EvictInv, LiveInv, ToldInv, CallersOf, Set, At, Fresh, setVars
<1>4. ClaimInv'
  BY <1>1 DEF IInv, EvictInv, ClaimInv, Renewing, Leaving
<1>5. RenewInv'
  BY <1>1 DEF IInv, EvictInv, RenewInv, Leaving
<1> QED BY <1>2, <1>3, <1>4, <1>5 DEF EvictInv

(* Every step keeps the part of the invariant that speaks of evictions. *)
LEMMA StepKeepsEvictions ==
    ASSUME IInv, [Next]_vars
    PROVE  EvictInv'
<1>0. EvictInv /\ mishaps \in 0..MaxMishaps
  BY DEF IInv, EvictInv, EvictTypeOK
<1>1. ASSUME NEW p \in Pods, Evicting(p) PROVE EvictInv'
  BY <1>0, <1>1, CallerKeeps DEF Evicting
<1>2. ASSUME NEW n \in Nodes, NEW p \in Pods, EvictNext(n, p) PROVE EvictInv'
  BY <1>0, <1>2, CallerKeeps DEF EvictNext
<1>3. CASE OtherClients
  BY <1>0, <1>3, OthersKeep
<1>4. ASSUME NEW p \in Pods, Bind(p) PROVE EvictInv'
  BY <1>4, BindKeepsEvictions
<1>5. CASE UNCHANGED evictState /\ (Mishap \/ UNCHANGED mishaps)
  <2>1. mishaps' \in 0..MaxMishaps
    BY <1>0, <1>5, EvictPodAssumption DEF Mishap
  <2> QED BY <1>0, <1>5, <2>1, DrainsKeepEvictions
<1>6. \/ \E p \in Pods : Evicting(p) \/ Bind(p)
      \/ \E n \in Nodes : \E p \in Pods : EvictNext(n, p)
      \/ OtherClients
      \/ UNCHANGED evictState /\ (Mishap \/ UNCHANGED mishaps)
  <2>1. CASE \E n \in Nodes : Drainer(n)
    BY <2>1 DEF Drainer, CordonUnconnected, CordonGet, CordonPut, CordonConflict,
       EvictUnconnected, ListPods, Detach, EvictFailed, AllEvicted,
       ListAttachments, DetachMissing, Detached, DrainFails, evictVars
  <2>2. CASE Others
    BY <2>2 DEF Others, Nominate, AttachedByController, DetachedByController,
       NodeEdited, evictVars
  <2>3. CASE UNCHANGED vars
    BY <2>3 DEF vars, evictVars
  <2> QED BY <2>1, <2>2, <2>3 DEF Next
<1> QED BY <1>1, <1>2, <1>3, <1>4, <1>5, <1>6

(* A step of an eviction keeps what the drains rely on: it takes its pod   *)
(* from a list, or goes on with one that is not over.                      *)
LEMMA EvictionKeepsDrains ==
    ASSUME IInv, NEW p \in Pods, UNCHANGED ownVars,
           Caller(p) \/ \E n \in Nodes : p \in listed[n] /\ Begin(p)
    PROVE  LateInv' /\ DrainInv' /\ CopyInv'
<1> USE DEF IInv, EvictInv, ownVars
<1>1. /\ pc[p] # "done" /\ pc'[p] # "idle" /\ p \notin nominated
      /\ present' \subseteq present
      /\ \A q \in Pods \ {p} :
            /\ pc'[q] = pc[q] /\ result'[q] = result[q]
            /\ q \in present' <=> q \in present
  <2>1. p \notin nominated
    BY CallerFrame DEF LateInv
  <2> QED BY <2>1, CallerFrame
<1>2. LateInv'
  BY <1>1, NodeDrainAssumption DEF LateInv, TypeOK
<1>3. DrainInv'
  BY <1>1 DEF DrainInv, TypeOK
<1> QED BY <1>2, <1>3 DEF CopyInv

(* So does a step of another client, a pod that ends included. *)
LEMMA OthersKeepDrains ==
    ASSUME IInv, OtherClients, UNCHANGED ownVars
    PROVE  LateInv' /\ DrainInv' /\ CopyInv'
<1> USE DEF IInv, ownVars
<1>1. /\ UNCHANGED <<pc, result>>
      /\ \A p \in Pods : pc[p] = "idle" => (p \in present' <=> p \in present)
  BY DEF OtherClients, Terminates, ClaimGone, ClaimRecreated, StatusWritten, podVars
<1>2. LateInv'
  BY <1>1, NodeDrainAssumption DEF LateInv, TypeOK
<1> QED BY <1>1, <1>2 DEF DrainInv, CopyInv

(* The steps of a drain, and what each does to the invariant. *)
LEMMA CordonKeepsDrains ==
    ASSUME IInv, NEW n \in Nodes,
           CordonUnconnected(n) \/ CordonGet(n) \/ CordonPut(n) \/ CordonConflict(n)
    PROVE  LateInv' /\ DrainInv' /\ CopyInv'
<1> USE DEF IInv
<1>1. LateInv'
  BY DEF LateInv, CordonUnconnected, CordonGet, CordonPut, CordonConflict,
         evictState, evictVars
<1>2. CASE CordonUnconnected(n)
  <2>1. Proceed(n, "cordonGet", "list")
    BY <1>2 DEF CordonUnconnected
  <2>2. DrainInv' /\ CopyInv'
    BY <1>2, <2>1, ProceedSets
       DEF CordonUnconnected, DrainInv, CopyInv, Stages, evictState, nodeVars
  <2> QED BY <1>1, <2>2
<1>3. CASE CordonGet(n)
  <2>1. Proceed(n, "cordonGet", "cordonPut")
    BY <1>3 DEF CordonGet
  <2>2. DrainInv'
    BY <1>3, <2>1, ProceedSets
       DEF CordonGet, DrainInv, Stages, evictState, evictVars
  <2>3. CopyInv'
    BY <1>3, <2>1, ProceedSets DEF CordonGet, CopyInv, Stages, TypeOK, NodeObjects
  <2> QED BY <1>1, <2>2, <2>3
<1>4. CASE CordonPut(n)
  <2>1. Proceed(n, "cordonPut", "list")
    BY <1>4 DEF CordonPut
  <2>2. DrainInv'
    BY <1>4, <2>1, ProceedSets
       DEF CordonPut, DrainInv, Stages, evictState, evictVars
  <2>3. \A m \in Nodes \ {n} : node'[m] = node[m]
    BY <1>4 DEF CordonPut, TypeOK
  <2>4. CopyInv'
    BY <1>4, <2>1, <2>3, ProceedSets DEF CordonPut, CopyInv, Stages
  <2> QED BY <1>1, <2>2, <2>4
<1>5. CASE CordonConflict(n)
  <2>1. ReturnWith(n, "cordonPut", "error")
    BY <1>5 DEF CordonConflict
  <2>2. DrainInv' /\ CopyInv'
    BY <1>5, <2>1, ReturnSets
       DEF CordonConflict, DrainInv, CopyInv, evictState, evictVars, nodeVars
  <2> QED BY <1>1, <2>2
<1> QED BY <1>2, <1>3, <1>4, <1>5

(* A drain lists pods that are there, none that is only nominated.         *)
LEMMA ListPodsKeepsDrains ==
    ASSUME IInv, NEW n \in Nodes, ListPods(n)
    PROVE  LateInv' /\ DrainInv' /\ CopyInv'
<1> USE DEF IInv
<1>1. /\ Proceed(n, "list", "evicting")
      /\ listed' = [listed EXCEPT ![n] = OnNode(n)]
      /\ OnNode(n) \subseteq present
      /\ UNCHANGED <<evictVars, nodeVars, toDetach, verdict, unconnected, nominated>>
  BY DEF ListPods, OnNode
<1>2. listed'[n] = OnNode(n) /\ \A m \in Nodes \ {n} : listed'[m] = listed[m]
  BY <1>1 DEF TypeOK
<1>3. LateInv'
  BY <1>1, <1>2 DEF LateInv, evictVars, evictState
<1>4. DrainInv'
  BY <1>1, <1>2, ProceedSets DEF DrainInv, Stages, evictVars, evictState
<1>5. CopyInv'
  BY <1>1, ProceedSets DEF CopyInv, Stages, nodeVars
<1> QED BY <1>3, <1>4, <1>5

(* The loop over the listed pods, and the returns. *)
LEMMA StagesKeepDrains ==
    ASSUME IInv, NEW n \in Nodes,
           \/ EvictUnconnected(n) \/ EvictFailed(n) \/ AllEvicted(n)
           \/ DetachMissing(n) \/ Detached(n) \/ DrainFails(n)
    PROVE  LateInv' /\ DrainInv' /\ CopyInv'
<1> USE DEF IInv
<1>0. UNCHANGED <<evictState, nodeVars, listed, toDetach, nominated>>
  BY DEF EvictUnconnected, EvictFailed, AllEvicted, DetachMissing, Detached,
         DrainFails, evictVars
<1>1. LateInv'
  BY <1>0 DEF LateInv, evictState
<1>2. CASE AllEvicted(n)
  <2>1. Proceed(n, "evicting", "attachments")
    BY <1>2 DEF AllEvicted
  <2>2. DrainInv' /\ CopyInv'
    BY <1>0, <1>2, <2>1, ProceedSets
       DEF AllEvicted, DrainInv, CopyInv, Stages, At, evictState, nodeVars
  <2> QED BY <1>1, <2>2
<1>3. CASE ~AllEvicted(n)
  <2>1. PICK from \in Stages, v \in {"nil", "error"} :
            /\ ReturnWith(n, from, v)
            /\ \/ v = "error" /\ UNCHANGED unconnected
               \/ v = "nil" /\ unconnected' = unconnected \union {n}
               \/ v = "nil" /\ from = "detaching" /\ UNCHANGED unconnected
    BY <1>3 DEF EvictUnconnected, EvictFailed, DetachMissing, Detached, DrainFails, Stages
  <2>2. /\ at[n] = from /\ at'[n] = "returned" /\ verdict'[n] = v
        /\ \A m \in Nodes \ {n} : at'[m] = at[m] /\ verdict'[m] = verdict[m]
    BY <2>1, ReturnSets
  <2>3. DrainInv' /\ CopyInv'
    BY <1>0, <2>1, <2>2 DEF DrainInv, CopyInv, evictState, nodeVars
  <2> QED BY <1>1, <2>3
<1> QED BY <1>2, <1>3

(* The attachments listed are the node's; each removal shortens the list.  *)
LEMMA DetachKeepsDrains ==
    ASSUME IInv, NEW n \in Nodes,
           ListAttachments(n) \/ \E p \in Pods : Detach(n, p)
    PROVE  LateInv' /\ DrainInv' /\ CopyInv'
<1> USE DEF IInv
<1>0. UNCHANGED <<evictVars, nodeVars, listed, verdict, unconnected, nominated>>
  BY DEF ListAttachments, Detach
<1>1. LateInv'
  BY <1>0 DEF LateInv, evictState, evictVars
<1>2. CASE ListAttachments(n)
  <2>1. Proceed(n, "attachments", "detaching")
    BY <1>2 DEF ListAttachments
  <2>2. DrainInv' /\ CopyInv'
    BY <1>0, <1>2, <2>1, ProceedSets
       DEF ListAttachments, DrainInv, CopyInv, Stages, TypeOK, evictVars,
       evictState, nodeVars
  <2> QED BY <1>1, <2>2
<1>3. CASE \E p \in Pods : Detach(n, p)
  BY <1>0, <1>1, <1>3
     DEF Detach, DrainInv, CopyInv, TypeOK, evictVars, evictState, nodeVars
<1> QED BY <1>2, <1>3

(* The scheduler and the attach-detach controller. *)
LEMMA ControllersKeepDrains ==
    ASSUME IInv, NEW p \in Pods,
           \/ Nominate(p) \/ Bind(p)
           \/ AttachedByController(p) \/ DetachedByController(p)
    PROVE  LateInv' /\ DrainInv' /\ CopyInv'
<1> USE DEF IInv
<1>1. UNCHANGED <<pc, result, nodeVars, drainVars>>
  BY DEF Nominate, Bind, AttachedByController, DetachedByController, evictVars,
         evictState
<1>2. LateInv'
  BY <1>1 DEF LateInv, TypeOK, Nominate, Bind, AttachedByController,
              DetachedByController, At, evictVars, evictState, drainVars
<1> QED BY <1>1, <1>2 DEF DrainInv, CopyInv, drainVars, nodeVars

(* Every write of a node makes a later version. *)
LEMMA NodeEditedKeepsDrains ==
    ASSUME IInv, NEW n \in Nodes, NodeEdited(n)
    PROVE  LateInv' /\ DrainInv' /\ CopyInv'
<1> USE DEF IInv
<1>1. UNCHANGED <<evictState, copy, drainVars, nominated>>
  BY DEF NodeEdited
<1>2. LateInv' /\ DrainInv'
  BY <1>1 DEF LateInv, DrainInv, drainVars, evictState
<1>3. /\ node'[n].version = node[n].version + 1
      /\ \A m \in Nodes \ {n} : node'[m] = node[m]
  BY DEF NodeEdited, TypeOK, NodeObjects
<1>4. \A m \in Nodes : copy[m].version \in Nat /\ node[m].version \in Nat
  BY DEF TypeOK, NodeObjects
<1>5. CopyInv'
  BY <1>1, <1>3, <1>4 DEF CopyInv, drainVars
<1> QED BY <1>2, <1>5

(* Every step keeps the part of the invariant that speaks of drains. *)
LEMMA StepKeepsDrains ==
    ASSUME IInv, [Next]_vars
    PROVE  LateInv' /\ DrainInv' /\ CopyInv'
<1>1. CASE \E n \in Nodes : Drainer(n)
  <2>1. PICK n \in Nodes : Drainer(n)
    BY <1>1
  <2>2. ASSUME NEW p \in Pods, EvictNext(n, p)
        PROVE  LateInv' /\ DrainInv' /\ CopyInv'
    BY <2>2, EvictionKeepsDrains DEF EvictNext
  <2>3. CASE \/ CordonUnconnected(n) \/ CordonGet(n) \/ CordonPut(n)
             \/ CordonConflict(n)
    BY <2>3, CordonKeepsDrains
  <2>4. CASE ListPods(n)
    BY <2>4, ListPodsKeepsDrains
  <2>5. CASE ListAttachments(n)
    BY <2>5, DetachKeepsDrains
  <2>6. ASSUME NEW p \in Pods, Detach(n, p)
        PROVE  LateInv' /\ DrainInv' /\ CopyInv'
    BY <2>6, DetachKeepsDrains
  <2>7. CASE \/ EvictUnconnected(n) \/ EvictFailed(n) \/ AllEvicted(n)
             \/ DetachMissing(n) \/ Detached(n) \/ DrainFails(n)
    BY <2>7, StagesKeepDrains
  <2> QED BY <2>1, <2>2, <2>3, <2>4, <2>5, <2>6, <2>7 DEF Drainer
<1>2. ASSUME NEW p \in Pods, Evicting(p)
      PROVE  LateInv' /\ DrainInv' /\ CopyInv'
  BY <1>2, EvictionKeepsDrains DEF Evicting
<1>3. CASE Others
  BY <1>3, OthersKeepDrains, ControllersKeepDrains, NodeEditedKeepsDrains
     DEF Others
<1>4. CASE UNCHANGED vars
  BY <1>4 DEF IInv, LateInv, DrainInv, CopyInv, vars, ownVars, evictVars, evictState
<1> QED BY <1>1, <1>2, <1>3, <1>4 DEF Next

(* The writes of a node make a node. *)
LEMMA NodeWrites ==
    ASSUME NEW o \in NodeObjects
    PROVE  /\ [o EXCEPT !.unschedulable = TRUE, !.version = @ + 1] \in NodeObjects
           /\ [o EXCEPT !.unschedulable = FALSE, !.version = @ + 1] \in NodeObjects
           /\ [o EXCEPT !.tainted = TRUE, !.version = @ + 1] \in NodeObjects
<1>1. o.version + 1 \in Nat
  BY DEF NodeObjects
<1> QED BY <1>1, Zenon DEF NodeObjects

(* The types of the drains' variables. *)
LEMMA StepKeepsTypes ==
    ASSUME IInv, [Next]_vars
    PROVE  TypeOK'
<1> USE DEF IInv
<1>1. EvictTypeOK'
  BY StepKeepsEvictions DEF EvictInv
<1>2. CASE UNCHANGED ownVars
  BY <1>1, <1>2 DEF TypeOK, ownVars
<1>3. ASSUME NEW n \in Nodes, Drainer(n), ~UNCHANGED ownVars
      PROVE  TypeOK'
  <2>1. /\ \A from : \A to \in Stages : Proceed(n, from, to) => at' \in [Nodes -> Stages]
        /\ \A from : \A v \in {"nil", "error"} :
              ReturnWith(n, from, v) =>
                  /\ at' \in [Nodes -> Stages]
                  /\ verdict' \in [Nodes -> {"none", "nil", "error"}]
    BY ProceedSets, ReturnSets
  <2>2. at' \in [Nodes -> Stages] /\ verdict' \in [Nodes -> {"none", "nil", "error"}]
    BY <1>3, <2>1
       DEF TypeOK, Stages, Drainer, CordonUnconnected, CordonGet, CordonPut,
       CordonConflict, EvictUnconnected, ListPods, EvictNext, Detach, EvictFailed,
       AllEvicted, ListAttachments, DetachMissing, Detached, DrainFails
  <2>3. copy' \in [Nodes -> NodeObjects]
    BY <1>3
       DEF TypeOK, Drainer, CordonUnconnected, CordonGet, CordonPut,
       CordonConflict, EvictUnconnected, ListPods, EvictNext, Detach, EvictFailed,
       AllEvicted, ListAttachments, DetachMissing, Detached, DrainFails, nodeVars
  <2>4. node' \in [Nodes -> NodeObjects]
    <3>1. CASE CordonPut(n)
      <4>1. [copy[n] EXCEPT !.unschedulable = TRUE, !.version = @ + 1] \in NodeObjects
        BY NodeWrites DEF TypeOK
      <4> QED BY <3>1, <4>1 DEF CordonPut, TypeOK
    <3>2. CASE UNCHANGED node
      BY <3>2 DEF TypeOK
    <3> QED BY <1>3, <3>1, <3>2
       DEF Drainer, CordonUnconnected, CordonGet, CordonConflict,
       EvictUnconnected, ListPods, EvictNext, Detach, EvictFailed, AllEvicted,
       ListAttachments, DetachMissing, Detached, DrainFails, nodeVars
  <2>5. listed' \in [Nodes -> SUBSET Pods] /\ toDetach' \in [Nodes -> SUBSET Pods]
    BY <1>3
       DEF TypeOK, EvictTypeOK, OnNode, Drainer, CordonUnconnected, CordonGet,
       CordonPut, CordonConflict, EvictUnconnected, ListPods, EvictNext, Detach,
       EvictFailed, AllEvicted, ListAttachments, DetachMissing, Detached,
       DrainFails
  <2>6. /\ attachments' \subseteq Pods /\ unconnected' \subseteq Nodes
        /\ nominated' \subseteq Latecomers
    BY <1>3
       DEF TypeOK, Drainer, CordonUnconnected, CordonGet,
       CordonPut, CordonConflict, EvictUnconnected, ListPods, EvictNext, Detach,
       EvictFailed, AllEvicted, ListAttachments, DetachMissing, Detached,
       DrainFails
  <2> QED BY <1>1, <2>2, <2>3, <2>4, <2>5, <2>6 DEF TypeOK
<1>4. ASSUME NEW p \in Pods,
             \/ Nominate(p) \/ Bind(p)
             \/ AttachedByController(p) \/ DetachedByController(p)
      PROVE  TypeOK'
  BY <1>1, <1>4
     DEF TypeOK, EvictTypeOK, Nominate, Bind, AttachedByController,
     DetachedByController, nodeVars, drainVars
<1>5. ASSUME NEW n \in Nodes, NodeEdited(n) PROVE TypeOK'
  <2>1. node[n] \in NodeObjects
    BY DEF TypeOK
  <2>2. /\ [node[n] EXCEPT !.tainted = TRUE, !.version = @ + 1] \in NodeObjects
        /\ [node[n] EXCEPT !.unschedulable = FALSE, !.version = @ + 1] \in NodeObjects
    BY <2>1, NodeWrites
  <2>3. node' \in [Nodes -> NodeObjects]
    BY <1>5, <2>2 DEF NodeEdited, TypeOK
  <2> QED BY <1>1, <1>5, <2>3 DEF TypeOK, NodeEdited, drainVars
<1> QED BY <1>2, <1>3, <1>4, <1>5 DEF Next, Others, Evicting, vars

-----------------------------------------------------------------------------
(* Any pods, ReplicaSets and nodes: every state has the invariant.         *)
THEOREM DrainInvariant == Spec => []IInv
<1>1. IInv /\ [Next]_vars => IInv'
  BY StepKeepsEvictions, StepKeepsDrains, StepKeepsTypes DEF IInv
<1> QED BY InitInv, <1>1, PTL DEF Spec

(* Every variable of the evictions and the drains keeps its type; above    *)
(* all, a ReplicaSet of one replica is never written below one or above    *)
(* two, whatever its callers' stale writes do.                             *)
THEOREM TypeCorrect == Spec => []TypeOK
<1>1. IInv => TypeOK
  BY DEF IInv
<1> QED BY DrainInvariant, <1>1, PTL

(* When every eviction from a ReplicaSet has ended, none is left that      *)
(* could scale it back: it is back, or another client has written it.      *)
THEOREM ScalingBack == Spec => []ScaledBack
<1>1. IInv => ScaledBack
  BY DEF IInv, EvictInv, LiveInv, ScaledBack, Ended, BeforeScalingBack, At, CallersOf
<1> QED BY DrainInvariant, <1>1, PTL

(* A ReplicaSet left at two has been reported to one of the callers of     *)
(* EvictPod, as an error or a warning, whoever wrote it in between.        *)
THEOREM LeftUpTold == Spec => []LeftUpIsTold
<1>1. IInv => LeftUpIsTold
  BY DEF IInv, EvictInv, ToldInv, LeftUpIsTold, Ended, BeforeScalingBack, CallersOf
<1> QED BY DrainInvariant, <1>1, PTL

(* The second replica is there during the eviction, if no other eviction   *)
(* from the set can take it away.                                          *)
THEOREM SurgeIsHeld == Spec => []SurgeHeld
<1>1. IInv => SurgeHeld
  BY DEF IInv, EvictInv, HeldInv, SurgeHeld, At
<1> QED BY DrainInvariant, <1>1, PTL

(* The claim of a pod that exists is the one it was scheduled with, if no  *)
(* failed Get has passed the pod for gone.                                 *)
THEOREM ClaimsOutlivePods == Spec => []ClaimOutlivesPod
<1>1. IInv => ClaimOutlivesPod
  BY DEF IInv, EvictInv, EvictTypeOK, ClaimInv, ClaimOutlivesPod
<1> QED BY DrainInvariant, <1>1, PTL

(* An EvictPod that returns nil has seen its pod go and made it a new      *)
(* claim on a local volume.                                                *)
THEOREM NilRenewed == Spec => []NilMeansRenewed
<1>1. IInv => NilMeansRenewed
  BY DEF IInv, EvictInv, RenewInv, NilMeansRenewed, Leaving, At
<1> QED BY DrainInvariant, <1>1, PTL

(* A drain that returns nil has evicted every pod it listed, unless it had *)
(* no client.                                                              *)
THEOREM NilDrained == Spec => []NilMeansDrained
<1>1. IInv => NilMeansDrained
  BY DEF IInv, EvictInv, TypeOK, DrainInv, RenewInv, NilMeansDrained, Leaving, At
<1> QED BY DrainInvariant, <1>1, PTL

(* No attachment goes while the pod it serves is there, if the drain of    *)
(* the node listed the pod: it comes to the attachments only when all      *)
(* evictions returned nil, and the controller waits for the pod to go.     *)
THEOREM VolumesDetachedWhenEvicted == Spec => DetachedWhenEvicted
<1> DEFINE Kept ==
      \A p \in (attachments \ attachments') \cap present :
          p \in Skipped \union misled \/ p \notin listed[NodeOf[p]]
<1>1. ASSUME IInv, [Next]_vars PROVE [Kept]_attachments
  <2>1. ASSUME NEW n \in Nodes, NEW p \in Pods, Detach(n, p)
        PROVE  Kept
    <3>1. NodeOf[p] = n /\ at[n] = "detaching" /\ attachments' = attachments \ {p}
      BY <1>1, <2>1 DEF IInv, DrainInv, Detach
    <3>2. p \in listed[n] => pc[p] = "done" /\ result[p] = "nil"
      BY <1>1, <3>1 DEF IInv, DrainInv
    <3>3. p \in listed[n] \ Skipped => p \notin present \ misled
      BY <1>1, <3>2 DEF IInv, EvictInv, RenewInv, Leaving
    <3> QED BY <3>1, <3>3
  <2>2. ASSUME NEW p \in Pods, DetachedByController(p)
        PROVE  Kept
    BY <2>2 DEF DetachedByController
  <2>3. ASSUME NEW p \in Pods, AttachedByController(p)
        PROVE  Kept
    BY <2>3 DEF AttachedByController
  <2>4. CASE UNCHANGED attachments
    BY <2>4
  <2>5. \/ UNCHANGED attachments
        \/ \E n \in Nodes : \E p \in Pods : Detach(n, p)
        \/ \E p \in Pods : DetachedByController(p) \/ AttachedByController(p)
    <3>1. CASE \E n \in Nodes : Drainer(n)
      BY <3>1
         DEF Drainer, CordonUnconnected, CordonGet, CordonPut, CordonConflict,
         EvictUnconnected, ListPods, EvictNext, EvictFailed, AllEvicted,
         ListAttachments, DetachMissing, Detached, DrainFails, ownVars
    <3>2. CASE Others
      BY <3>2 DEF Others, Nominate, Bind, NodeEdited, ownVars
    <3>3. CASE (\E p \in Pods : Evicting(p)) \/ UNCHANGED vars
      BY <3>3 DEF Evicting, vars, ownVars
    <3> QED BY <1>1, <3>1, <3>2, <3>3 DEF Next
  <2> QED BY <2>1, <2>2, <2>3, <2>4, <2>5
<1> QED BY DrainInvariant, <1>1, PTL DEF Spec, DetachedWhenEvicted

(* A cordon writes the node back only if it is still as it was read, so it *)
(* brings back every taint that others have set.                           *)
THEOREM TaintsAreKept == Spec => TaintsKept
<1> DEFINE Kept == \A n \in Nodes : node[n].tainted => node'[n].tainted
<1>1. ASSUME IInv, [Next]_vars PROVE [Kept]_node
  <2>1. ASSUME NEW n \in Nodes, CordonPut(n)
        PROVE  Kept
    <3>1. /\ copy[n] = node[n] /\ node \in [Nodes -> NodeObjects]
          /\ node' = [node EXCEPT ![n] =
                        [node[n] EXCEPT !.unschedulable = TRUE, !.version = @ + 1]]
      BY <1>1, <2>1 DEF IInv, TypeOK, CopyInv, CordonPut
    <3>2. \A m \in Nodes \ {n} : node'[m] = node[m]
      BY <3>1
    <3>3. node'[n].tainted = node[n].tainted
      BY <3>1 DEF NodeObjects
    <3> QED BY <3>2, <3>3
  <2>2. ASSUME NEW n \in Nodes, NodeEdited(n)
        PROVE  Kept
    BY <1>1, <2>2 DEF NodeEdited, IInv, TypeOK, NodeObjects
  <2>3. UNCHANGED node \/ \E n \in Nodes : CordonPut(n) \/ NodeEdited(n)
    <3>1. CASE \E n \in Nodes : Drainer(n)
      BY <3>1
         DEF Drainer, CordonUnconnected, CordonGet, CordonConflict,
         EvictUnconnected, ListPods, EvictNext, Detach, EvictFailed, AllEvicted,
         ListAttachments, DetachMissing, Detached, DrainFails, ownVars, nodeVars
    <3>2. CASE Others
      BY <3>2 DEF Others, Nominate, Bind, AttachedByController,
         DetachedByController, ownVars, nodeVars
    <3>3. CASE (\E p \in Pods : Evicting(p)) \/ UNCHANGED vars
      BY <3>3 DEF Evicting, vars, ownVars
    <3> QED BY <1>1, <3>1, <3>2, <3>3 DEF Next
  <2> QED BY <2>1, <2>2, <2>3
<1> QED BY DrainInvariant, <1>1, PTL DEF Spec, TaintsKept
=============================================================================
