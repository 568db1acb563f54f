--------------------------- MODULE EvictPodsProofs ---------------------------
(***************************************************************************)
(* Proofs about EvictPods for any finite set of pods: type correctness,    *)
(* the inductive invariant, and the properties it implies.                 *)
(***************************************************************************)
EXTENDS EvictPods, PodServerProofs, FiniteSetTheorems, SequenceTheorems, TLAPS

(* A sequence with room for one element: what Send and Receive do to it. *)
LEMMA ShortSequence ==
    ASSUME NEW S, NEW s \in Seq(S), Len(s) <= 1
    PROVE  /\ s = <<>> => Len(s) = 0
           /\ Len(s) < 1 => s = <<>>
           /\ s # <<>> => Len(s) = 1 /\ Tail(s) = <<>> /\ Len(Tail(s)) = 0
           /\ \A x \in S : /\ Append(<<>>, x) # <<>>
                           /\ Len(Append(<<>>, x)) = 1
                           /\ Head(Append(<<>>, x)) = x
<1>1. Len(s) \in Nat /\ Len(<<>>) = 0 /\ (s # <<>> => Len(s) \in Nat \ {0})
  BY EmptySeq, LenProperties
<1>2. s # <<>> => Tail(s) \in Seq(S) /\ Len(Tail(s)) = Len(s) - 1
  BY HeadTailProperties
<1>3. s # <<>> => Tail(s) = <<>>
  BY <1>1, <1>2, EmptySeq
<1>4. ASSUME NEW x \in S
      PROVE  /\ Append(<<>>, x) # <<>>
             /\ Len(Append(<<>>, x)) = 1
             /\ Head(Append(<<>>, x)) = x
  <2>1. <<>> \in Seq(S)
    BY EmptySeq
  <2>2. Append(<<>>, x) \in Seq(S) /\ Len(Append(<<>>, x)) = 1
    BY <2>1, <1>1
  <2>3. Append(<<>>, x)[1] = x
    BY <2>1, <1>1
  <2> QED
    BY <2>2, <2>3, <1>1
<1> QED
  BY <1>1, <1>2, <1>3, <1>4

(* The ended goroutines are a finite set, no larger than the pods. *)
LEMMA SentFinite ==
    /\ IsFiniteSet(Sent) /\ Cardinality(Sent) \in Nat
    /\ IsFiniteSet(Pods) /\ Cardinality(Pods) \in Nat
    /\ Cardinality(Sent) <= Cardinality(Pods)
    /\ Cardinality(Sent) = Cardinality(Pods) => Sent = Pods
<1>1. Sent \in SUBSET Pods /\ IsFiniteSet(Pods)
  BY PodsAssumption DEF Sent
<1>2. IsFiniteSet(Sent) /\ Cardinality(Sent) <= Cardinality(Pods)
  BY <1>1, FS_Subset
<1>3. Cardinality(Pods) = Cardinality(Sent) => Pods = Sent
  BY <1>1, FS_Subset
<1> QED
  BY <1>1, <1>2, <1>3, FS_CardinalityType

-----------------------------------------------------------------------------
(* Every state of the model is well typed. *)
LEMMA InitTypeOK == Init => TypeOK
<1> SUFFICES ASSUME Init PROVE TypeOK
  OBVIOUS
<1>1. ServerTypeOK
  BY DEF Init, ServerInit, ServerTypeOK, Objects
<1>2. returnCh \in Seq(Pods)
  BY EmptySeq DEF Init
<1>3. /\ pc \in [Pods -> Locations]
      /\ result \in [Pods -> Results]
      /\ told \in [Pods -> Nat]
  BY DEF Init, Locations, Results
<1>4. /\ doneCount \in Nat
      /\ errors \subseteq Pods
      /\ expired \in BOOLEAN
      /\ returned \in BOOLEAN
  BY DEF Init
<1> QED
  BY <1>1, <1>2, <1>3, <1>4 DEF TypeOK

(* Every step keeps the types. *)
LEMMA NextTypeOK == TypeOK /\ [Next]_vars => TypeOK'
<1> SUFFICES ASSUME TypeOK, [Next]_vars
             PROVE  TypeOK'
  OBVIOUS
<1> USE DEF TypeOK, Locations, Results, workerVars, callerVars, At, Goto,
            Conclude
<1>s. ServerTypeOK'
  <2>1. ASSUME NEW p \in Pods, Worker(p)
        PROVE  \/ UNCHANGED serverVars \/ RemoveByName(p) \/ LooksGone(p)
               \/ LooksOverdue(p) \/ LooksPending(p)
    BY <2>1
    DEF Worker, CheckContext, Evict, EvictAccepted, EvictNotFound,
        EvictRefused, EvictFails, WakeUp, Poll, PollGone, PollOverdue,
        PollFound, StillPending, Send
  <2>2. CASE Receive \/ Return \/ Expire \/ UNCHANGED vars
    BY <2>2, ServerStepTypeOK
    DEF Receive, Return, Expire, vars, serverVars
  <2>3. CASE Others
    BY <2>3, ServerStepTypeOK DEF Others
  <2> QED
    BY <2>1, <2>2, <2>3, ServerStepTypeOK DEF Next
<1> USE <1>s
<1>1. ASSUME NEW p \in Pods, CheckContext(p) PROVE TypeOK'
  BY <1>1 DEF CheckContext
<1>2. ASSUME NEW p \in Pods, Evict(p) PROVE TypeOK'
  <2>1. CASE EvictAccepted(p)
    BY <2>1 DEF EvictAccepted
  <2>2. CASE EvictNotFound(p)
    BY <2>2 DEF EvictNotFound
  <2>3. CASE EvictRefused(p)
    BY <2>3 DEF EvictRefused
  <2>4. CASE EvictFails(p)
    BY <2>4 DEF EvictFails
  <2> QED
    BY <1>2, <2>1, <2>2, <2>3, <2>4 DEF Evict
<1>3. ASSUME NEW p \in Pods, WakeUp(p) PROVE TypeOK'
  BY <1>3 DEF WakeUp
<1>4. ASSUME NEW p \in Pods, Poll(p) PROVE TypeOK'
  <2>1. CASE PollGone(p)
    <3>1. told' \in [Pods -> Nat]
      BY <2>1 DEF PollGone
    <3> QED
      BY <2>1, <3>1 DEF PollGone
  <2>2. CASE PollOverdue(p)
    BY <2>2 DEF PollOverdue
  <2>3. CASE PollFound(p)
    BY <2>3 DEF PollFound
  <2> QED
    BY <1>4, <2>1, <2>2, <2>3 DEF Poll
<1>5. ASSUME NEW p \in Pods, StillPending(p) PROVE TypeOK'
  BY <1>5 DEF StillPending
<1>6. ASSUME NEW p \in Pods, Send(p) PROVE TypeOK'
  BY <1>6 DEF Send
<1>7. CASE Receive
  <2>1. Head(returnCh) \in Pods /\ Tail(returnCh) \in Seq(Pods)
    BY <1>7 DEF Receive
  <2> QED
    BY <1>7, <2>1 DEF Receive
<1>8. CASE Return
  BY <1>8 DEF Return
<1>9. CASE Expire
  BY <1>9 DEF Expire
<1>10. CASE Others
  BY <1>10 DEF Others
<1>11. CASE UNCHANGED vars
  BY <1>11 DEF vars
<1> QED
  BY <1>1, <1>2, <1>3, <1>4, <1>5, <1>6, <1>7, <1>8, <1>9, <1>10, <1>11
  DEF Next, Worker

(* Every state of evictPods is well typed, for every finite set of pods. *)
THEOREM TypeCorrect == Spec => []TypeOK
<1> QED
  BY InitTypeOK, NextTypeOK, PTL DEF Spec

-----------------------------------------------------------------------------
(* The inductive invariant.                                                *)

(* The initial states satisfy the invariant. *)
LEMMA InitIInv == Init => IInv
<1> SUFFICES ASSUME Init PROVE IInv
  OBVIOUS
<1>1. Sent = {}
  BY DEF Init, Sent
<1>2. Cardinality({}) = 0 /\ Len(returnCh) = 0
  BY FS_EmptySet, EmptySeq DEF Init
<1>3. CountInv /\ ChannelInv /\ ErrorsInv /\ ReturnInv
  BY <1>1, <1>2
  DEF Init, CountInv, ChannelInv, ChannelCap, ErrorsInv, ReturnInv
<1>4. ResultInv /\ ToldOnce
  BY DEF Init, ResultInv, ToldOnce
<1>5. TruthInv
  BY DEF Init, TruthInv
<1> QED
  BY <1>3, <1>4, <1>5 DEF IInv

(* What a goroutine does before it sends disturbs neither the count nor    *)
(* the channel nor the collected errors.                                   *)
LEMMA LocalStep ==
    ASSUME TypeOK, CountInv, ChannelInv, ErrorsInv, ReturnInv,
           NEW p \in Pods, pc[p] \notin {"send", "sent"},
           NEW there \in Locations \ {"sent"}, Goto(p, there),
           \A q \in Pods \ {p} : result'[q] = result[q],
           UNCHANGED <<returnCh, doneCount, errors, returned>>
    PROVE  CountInv' /\ ChannelInv' /\ ErrorsInv' /\ ReturnInv'
<1> USE DEF TypeOK, Goto
<1>1. Sent' = Sent /\ p \notin Sent
  BY DEF Sent
<1>2. CountInv'
  BY <1>1 DEF CountInv
<1>3. ChannelInv'
  <2>1. returnCh # <<>> => Head(returnCh) \in Pods
    BY HeadTailProperties
  <2> QED
    BY <2>1 DEF ChannelInv
<1>4. ErrorsInv'
  <2>1. \A q \in Sent : result'[q] = result[q]
    BY <1>1 DEF Sent
  <2> QED
    BY <1>1, <2>1 DEF ErrorsInv, InChannel
<1>5. ReturnInv'
  BY DEF ReturnInv
<1> QED
  BY <1>2, <1>3, <1>4, <1>5

(* Every step keeps the invariant. *)
LEMMA NextIInv == TypeOK /\ IInv /\ [Next]_vars => IInv'
<1> SUFFICES ASSUME TypeOK, IInv, [Next]_vars
             PROVE  IInv'
  OBVIOUS
<1>t. TypeOK'
  BY NextTypeOK
<1>i. CountInv /\ ChannelInv /\ ResultInv /\ ErrorsInv /\ ReturnInv
      /\ ToldOnce /\ TruthInv
  BY DEF IInv
<1> USE DEF TypeOK, ServerTypeOK, Objects, Locations, Results, serverVars,
            workerVars, callerVars, At, Goto, Conclude
<1>1. ASSUME NEW p \in Pods, CheckContext(p) PROVE IInv'
  <2>1. CountInv' /\ ChannelInv' /\ ErrorsInv' /\ ReturnInv'
    <3>1. CASE expired
      <4>1. Goto(p, "send") /\ \A q \in Pods \ {p} : result'[q] = result[q]
        BY <1>1, <3>1 DEF CheckContext
      <4>2. pc[p] \notin {"send", "sent"}
            /\ UNCHANGED <<returnCh, doneCount, errors, returned>>
        BY <1>1 DEF CheckContext
      <4> QED
        BY <1>i, <4>1, <4>2, LocalStep
    <3>2. CASE ~expired
      BY <1>i, <1>1, <3>2, LocalStep DEF CheckContext
    <3> QED
      BY <3>1, <3>2
  <2>2. ResultInv' /\ ToldOnce'
    BY <1>i, <1>1 DEF CheckContext, ResultInv, ToldOnce
  <2>3. TruthInv'
    BY <1>i, <1>1 DEF CheckContext, TruthInv, Removed
  <2> QED
    BY <2>1, <2>2, <2>3 DEF IInv
<1>2. ASSUME NEW p \in Pods, Evict(p) PROVE IInv'
  <2>1. CASE EvictAccepted(p)
    <3>1. CountInv' /\ ChannelInv' /\ ErrorsInv' /\ ReturnInv'
      BY <1>i, <2>1, LocalStep DEF EvictAccepted
    <3>2. ResultInv' /\ ToldOnce'
      BY <1>i, <2>1 DEF EvictAccepted, ResultInv, ToldOnce
    <3>3. TruthInv'
      BY <1>i, <2>1, RequestForward DEF EvictAccepted, TruthInv, Forward
    <3> QED
      BY <3>1, <3>2, <3>3 DEF IInv
  <2>2. CASE EvictNotFound(p)
    <3>1. CountInv' /\ ChannelInv' /\ ErrorsInv' /\ ReturnInv'
      BY <1>i, <2>2, LocalStep DEF EvictNotFound
    <3>2. ResultInv' /\ ToldOnce'
      BY <1>i, <2>2 DEF EvictNotFound, ResultInv, ToldOnce
    <3>3. TruthInv'
      BY <1>i, <2>2 DEF EvictNotFound, TruthInv, Removed
    <3> QED
      BY <3>1, <3>2, <3>3 DEF IInv
  <2>3. CASE EvictRefused(p)
    <3>1. CountInv' /\ ChannelInv' /\ ErrorsInv' /\ ReturnInv'
      BY <1>i, <2>3, LocalStep DEF EvictRefused
    <3>2. ResultInv' /\ ToldOnce'
      BY <1>i, <2>3 DEF EvictRefused, ResultInv, ToldOnce
    <3>3. TruthInv'
      BY <1>i, <2>3 DEF EvictRefused, TruthInv, Removed
    <3> QED
      BY <3>1, <3>2, <3>3 DEF IInv
  <2>4. CASE EvictFails(p)
    <3>1. CountInv' /\ ChannelInv' /\ ErrorsInv' /\ ReturnInv'
      BY <1>i, <2>4, LocalStep DEF EvictFails
    <3>2. ResultInv' /\ ToldOnce'
      BY <1>i, <2>4 DEF EvictFails, ResultInv, ToldOnce
    <3>3. \A q \in Pods : Forward(q)
      BY <2>4, RequestForward, SameForward DEF EvictFails
    <3>4. TruthInv'
      BY <1>i, <2>4, <3>3 DEF EvictFails, TruthInv, Forward
    <3> QED
      BY <3>1, <3>2, <3>4 DEF IInv
  <2> QED
    BY <1>2, <2>1, <2>2, <2>3, <2>4 DEF Evict
<1>3. ASSUME NEW p \in Pods, WakeUp(p) PROVE IInv'
  <2>1. CountInv' /\ ChannelInv' /\ ErrorsInv' /\ ReturnInv'
    BY <1>i, <1>3, LocalStep DEF WakeUp
  <2>2. ResultInv' /\ ToldOnce'
    BY <1>i, <1>3 DEF WakeUp, ResultInv, ToldOnce
  <2>3. TruthInv'
    BY <1>i, <1>3 DEF WakeUp, TruthInv, Removed
  <2> QED
    BY <2>1, <2>2, <2>3 DEF IInv
<1>4. ASSUME NEW p \in Pods, Poll(p) PROVE IInv'
  <2>1. CASE PollGone(p)
    <3>1. CountInv' /\ ChannelInv' /\ ErrorsInv' /\ ReturnInv'
      BY <1>i, <2>1, LocalStep DEF PollGone
    <3>2. result[p] = "none" /\ told[p] = 0
      BY <1>i, <2>1 DEF PollGone, ResultInv, ToldOnce
    <3>3. ResultInv'
      BY <1>i, <2>1 DEF PollGone, ResultInv
    <3>4. ToldOnce'
      BY <1>i, <2>1, <3>2 DEF PollGone, ToldOnce
    <3>5. UNCHANGED obj /\ misled \subseteq misled'
          /\ (Removed(p) \/ p \in misled')
      BY <2>1, LooksGoneIsGone DEF PollGone
    <3>6. TruthInv'
      BY <1>i, <2>1, <3>5 DEF PollGone, TruthInv, Removed
    <3> QED
      BY <3>1, <3>3, <3>4, <3>6 DEF IInv
  <2>2. CASE PollOverdue(p)
    <3>1. CountInv' /\ ChannelInv' /\ ErrorsInv' /\ ReturnInv'
      BY <1>i, <2>2, LocalStep DEF PollOverdue
    <3>2. ResultInv' /\ ToldOnce'
      BY <1>i, <2>2 DEF PollOverdue, ResultInv, ToldOnce
    <3>3. obj[p] = "overdue" /\ UNCHANGED serverVars
      BY <2>2, LooksOverdueIsOverdue DEF PollOverdue
    <3>4. TruthInv'
      BY <1>i, <2>2, <3>3 DEF PollOverdue, TruthInv, Removed
    <3> QED
      BY <3>1, <3>2, <3>4 DEF IInv
  <2>3. CASE PollFound(p)
    <3>1. CountInv' /\ ChannelInv' /\ ErrorsInv' /\ ReturnInv'
      BY <1>i, <2>3, LocalStep DEF PollFound
    <3>2. ResultInv' /\ ToldOnce'
      BY <1>i, <2>3 DEF PollFound, ResultInv, ToldOnce
    <3>3. TruthInv'
      BY <1>i, <2>3 DEF PollFound, LooksPending, TruthInv, Removed
    <3> QED
      BY <3>1, <3>2, <3>3 DEF IInv
  <2> QED
    BY <1>4, <2>1, <2>2, <2>3 DEF Poll
<1>5. ASSUME NEW p \in Pods, StillPending(p) PROVE IInv'
  <2>1. CountInv' /\ ChannelInv' /\ ErrorsInv' /\ ReturnInv'
    <3>1. CASE expired
      <4>1. Goto(p, "send") /\ \A q \in Pods \ {p} : result'[q] = result[q]
        BY <1>5, <3>1 DEF StillPending
      <4>2. pc[p] \notin {"send", "sent"}
            /\ UNCHANGED <<returnCh, doneCount, errors, returned>>
        BY <1>5 DEF StillPending
      <4> QED
        BY <1>i, <4>1, <4>2, LocalStep
    <3>2. CASE ~expired
      BY <1>i, <1>5, <3>2, LocalStep DEF StillPending
    <3> QED
      BY <3>1, <3>2
  <2>2. ResultInv' /\ ToldOnce'
    BY <1>i, <1>5 DEF StillPending, ResultInv, ToldOnce
  <2>3. TruthInv'
    BY <1>i, <1>5 DEF StillPending, TruthInv, Removed
  <2> QED
    BY <2>1, <2>2, <2>3 DEF IInv
<1>6. ASSUME NEW p \in Pods, Send(p) PROVE IInv'
  <2>1. /\ returnCh = <<>> /\ Len(returnCh) = 0
        /\ returnCh' # <<>> /\ Len(returnCh') = 1 /\ Head(returnCh') = p
    BY <1>6, <1>i, ShortSequence DEF Send, ChannelInv, ChannelCap
  <2>2. p \notin Sent /\ Sent' = Sent \union {p}
    BY <1>6 DEF Send, Sent
  <2>3. Cardinality(Sent') = Cardinality(Sent) + 1
    BY <2>2, SentFinite, FS_AddElement
  <2>4. CountInv'
    BY <1>6, <1>i, <2>1, <2>3, SentFinite DEF Send, CountInv
  <2>5. ChannelInv'
    BY <1>6, <2>1 DEF Send, ChannelInv, ChannelCap
  <2>6. ErrorsInv'
    BY <1>6, <1>i, <2>1, <2>2 DEF Send, ErrorsInv, InChannel
  <2>7. ResultInv' /\ ToldOnce' /\ ReturnInv'
    BY <1>6, <1>i DEF Send, ResultInv, ToldOnce, ReturnInv
  <2>8. TruthInv'
    BY <1>6, <1>i DEF Send, TruthInv, Removed
  <2> QED
    BY <2>4, <2>5, <2>6, <2>7, <2>8 DEF IInv
<1>7. CASE Receive
  <2>1. /\ Len(returnCh) = 1 /\ Head(returnCh) \in Pods
        /\ returnCh' = <<>> /\ Len(returnCh') = 0
    BY <1>7, <1>i, ShortSequence, HeadTailProperties
    DEF Receive, ChannelInv, ChannelCap
  <2>2. Sent' = Sent /\ Head(returnCh) \in Sent
    BY <1>7, <1>i, <2>1 DEF Receive, Sent, ChannelInv
  <2>3. CountInv'
    <3>1. doneCount' = doneCount + 1 /\ doneCount + 1 = Cardinality(Sent)
      BY <1>7, <1>i, <2>1 DEF Receive, CountInv
    <3>2. Cardinality(Sent)' = Cardinality(Sent)
      BY <2>2
    <3>3. Len(returnCh)' = 0
      BY <2>1
    <3> QED
      BY <3>1, <3>2, <3>3, SentFinite DEF CountInv
  <2>4. ChannelInv'
    BY <2>1 DEF ChannelInv, ChannelCap
  <2>5. ErrorsInv'
    BY <1>7, <1>i, <2>1, <2>2 DEF Receive, ErrorsInv, InChannel
  <2>6. ResultInv' /\ ToldOnce' /\ ReturnInv'
    BY <1>7, <1>i DEF Receive, ResultInv, ToldOnce, ReturnInv
  <2>7. TruthInv'
    BY <1>7, <1>i DEF Receive, TruthInv, Removed
  <2> QED
    BY <2>3, <2>4, <2>5, <2>6, <2>7 DEF IInv
<1>8. CASE Return
  BY <1>8, <1>i DEF Return, IInv, CountInv, ChannelInv, ResultInv, ErrorsInv,
     InChannel, ReturnInv, ToldOnce, TruthInv, Removed, Sent
<1>9. CASE Expire
  BY <1>9, <1>i DEF Expire, IInv, CountInv, ChannelInv, ResultInv, ErrorsInv,
     InChannel, ReturnInv, ToldOnce, TruthInv, Removed, Sent
<1>10. CASE Others
  <2>1. /\ CountInv' /\ ChannelInv' /\ ResultInv' /\ ErrorsInv' /\ ReturnInv'
        /\ ToldOnce'
    BY <1>10, <1>i DEF Others, CountInv, ChannelInv, ResultInv, ErrorsInv,
       InChannel, ReturnInv, ToldOnce, Sent
  <2>2. TruthInv'
    BY <1>10, <1>i, OthersForward DEF Others, TruthInv, Forward
  <2> QED
    BY <2>1, <2>2 DEF IInv
<1>11. CASE UNCHANGED vars
  BY <1>11, <1>i DEF vars, IInv, CountInv, ChannelInv, ResultInv, ErrorsInv,
     InChannel, ReturnInv, ToldOnce, TruthInv, Removed, Sent
<1> QED
  BY <1>1, <1>2, <1>3, <1>4, <1>5, <1>6, <1>7, <1>8, <1>9, <1>10, <1>11
  DEF Next, Worker

(* The inductive invariant holds of every behaviour, for every finite set  *)
(* of pods.                                                                *)
THEOREM Invariance == Spec => [](TypeOK /\ IInv)
<1> QED
  BY InitTypeOK, InitIInv, NextTypeOK, NextIInv, PTL DEF Spec

-----------------------------------------------------------------------------
(* What the invariant gives.                                               *)

(* The results received and those sent agree. *)
LEMMA InvNoLeak == TypeOK /\ IInv => NoGoroutineLeft
<1> SUFFICES ASSUME TypeOK, IInv, returned
             PROVE  (\A p \in Pods : pc[p] = "sent") /\ returnCh = <<>>
  BY DEF NoGoroutineLeft
<1>1. Len(returnCh) \in Nat /\ doneCount \in Nat
  BY LenProperties DEF TypeOK
<1>2. doneCount = Cardinality(Pods)
      /\ doneCount + Len(returnCh) = Cardinality(Sent)
  BY DEF IInv, ReturnInv, CountInv
<1>3. Len(returnCh) = 0 /\ Cardinality(Sent) = Cardinality(Pods)
  BY <1>1, <1>2, SentFinite
<1>4. returnCh = <<>>
  BY <1>3, EmptySeq DEF TypeOK
<1>5. Sent = Pods
  BY <1>3, SentFinite
<1> QED
  BY <1>4, <1>5 DEF Sent

(* evictPods returns only when every goroutine has ended and the channel   *)
(* is empty: drain.go starts goroutines it never joins, and its count of   *)
(* results is what makes up for a WaitGroup.                               *)
THEOREM NoLeak == Spec => []NoGoroutineLeft
<1> QED
  BY InvNoLeak, Invariance, PTL

(* All results are in when evictPods returns. *)
LEMMA InvVerdict == TypeOK /\ IInv /\ NoGoroutineLeft => VerdictExact
<1> SUFFICES ASSUME TypeOK, IInv, NoGoroutineLeft, returned
             PROVE  errors = Failed
  BY DEF VerdictExact
<1>1. Sent = Pods /\ \A p \in Pods : ~InChannel(p)
  BY DEF NoGoroutineLeft, Sent, InChannel
<1> QED
  BY <1>1 DEF IInv, ErrorsInv, Failed

(* The error returned aggregates exactly the goroutines that failed.       *)
THEOREM ExactVerdict == Spec => []VerdictExact
<1> QED
  BY InvVerdict, InvNoLeak, Invariance, PTL

(* No result is a failure when the verdict is nil. *)
LEMMA InvNil == TypeOK /\ IInv /\ VerdictExact /\ NoGoroutineLeft => NilMeansGone
<1> SUFFICES ASSUME TypeOK, IInv, VerdictExact, NoGoroutineLeft,
                    returned, errors = {}, NEW p \in Pods
             PROVE  Removed(p) \/ obj[p] = "overdue" \/ p \in misled
  BY DEF NilMeansGone
<1>1. result[p] # "failed"
  BY DEF VerdictExact, Failed
<1>2. result[p] # "none"
  BY DEF NoGoroutineLeft, IInv, ResultInv
<1>3. result[p] \in {"removed", "skipped"}
  BY <1>1, <1>2 DEF TypeOK, Results
<1> QED
  BY <1>3 DEF IInv, TruthInv

(* A nil result is the truth: all pods are gone, or overdue and            *)
(* deliberately not waited for, or a Get of them failed.                   *)
THEOREM NilIsTruthful == Spec => []NilMeansGone
<1> QED
  BY InvNil, InvVerdict, InvNoLeak, Invariance, PTL

(* OnPodDeletedOrEvicted is called at most once for a pod, and only for    *)
(* one whose result is then nil.                                           *)
THEOREM CallbackOnce == Spec => []ToldOnce
<1> QED
  BY Invariance, PTL DEF IInv

-----------------------------------------------------------------------------
(* The refinement.                                                         *)

(* The initial states are initial states of PodRemoval. *)
LEMMA InitRefines == Init => Removal!Init
  BY DEF Init, ServerInit, Removed, Removal!Init

(* The part of a state PodRemoval sees. *)
seen == <<obj, misled, result, told, returned, errors>>

(* A step that changes nothing of it is none of PodRemoval's. *)
LEMMA SeenStutter == UNCHANGED seen => UNCHANGED Removal!vars
  BY DEF seen, Removal!vars, Removed

(* A goroutine gives up on its pod, or stops waiting for it. *)
LEMMA GiveUpRefines ==
    ASSUME TypeOK, ~returned, NEW p \in Pods, result[p] = "none",
           NEW r \in {"skipped", "failed"},
           result' = [result EXCEPT ![p] = r],
           \A q \in Pods : Removed(q)' <=> Removed(q),
           UNCHANGED <<misled, told, returned, errors>>
    PROVE  Removal!GiveUp(p)
  BY DEF TypeOK, Removal!GiveUp

(* A goroutine that saw its pod gone. *)
LEMMA RemoveRefines ==
    ASSUME TypeOK, ~returned, NEW p \in Pods, result[p] = "none",
           \/ Removed(p) /\ misled' = misled
           \/ misled' = misled \union {p},
           result' = [result EXCEPT ![p] = "removed"],
           \/ told' = told
           \/ told' = [told EXCEPT ![p] = @ + 1],
           UNCHANGED <<obj, returned, errors>>
    PROVE  Removal!Remove(p)
<1> DEFINE telling == {q \in Pods : told[q] > 0}
<1>1. telling' \in {telling, telling \union {p}}
  BY DEF TypeOK
<1>2. {q \in Pods : ~Removed(q)}' = {q \in Pods : ~Removed(q)}
  BY DEF Removed
<1> QED
  BY <1>1, <1>2 DEF TypeOK, Removal!Remove

(* A step of a goroutine settles its pod, or is not visible. *)
LEMMA WorkerRefines ==
    ASSUME TypeOK, IInv, NoGoroutineLeft, NEW p \in Pods, Worker(p)
    PROVE  Removal!Next \/ UNCHANGED Removal!vars
<1>1. /\ ~returned
      /\ pc[p] # "send" => result[p] = "none"
      /\ UNCHANGED <<returned, errors>>
  BY DEF Worker, NoGoroutineLeft, TypeOK, CheckContext, Evict, EvictAccepted,
     EvictNotFound, EvictRefused, EvictFails, WakeUp, Poll, PollGone,
     PollOverdue, PollFound, StillPending, Send, At, IInv, ResultInv,
     Locations, callerVars
<1>2. Removal!GiveUp(p) => Removal!Next
  BY DEF Removal!Next
<1>3. Removal!Remove(p) => Removal!Next
  BY DEF Removal!Next
<1> USE DEF At, Goto, Conclude, serverVars, callerVars
<1>4. CASE CheckContext(p)
  <2>1. CASE expired
    BY <1>1, <1>2, <1>4, <2>1, GiveUpRefines DEF CheckContext, Removed
  <2>2. CASE ~expired
    BY <1>1, <1>4, <2>2, SeenStutter DEF CheckContext, seen
  <2> QED
    BY <2>1, <2>2
<1>5. CASE EvictAccepted(p)
  <2>1. UNCHANGED misled /\ \A q \in Pods : Removed(q)' <=> Removed(q)
    BY <1>5, RequestForward DEF EvictAccepted, TypeOK
  <2> QED
    BY <1>1, <1>5, <2>1 DEF EvictAccepted, Removal!vars
<1>6. CASE EvictNotFound(p)
  BY <1>1, <1>3, <1>6, RemoveRefines DEF EvictNotFound, Removed
<1>7. CASE EvictRefused(p)
  BY <1>1, <1>7, SeenStutter DEF EvictRefused, seen
<1>8. CASE EvictFails(p)
  <2>1. UNCHANGED misled /\ \A q \in Pods : Removed(q)' <=> Removed(q)
    BY <1>8, RequestForward DEF EvictFails, TypeOK, Removed
  <2> QED
    BY <1>1, <1>2, <1>8, <2>1, GiveUpRefines DEF EvictFails
<1>9. CASE WakeUp(p)
  BY <1>1, <1>9, SeenStutter DEF WakeUp, seen
<1>10. CASE PollGone(p)
  <2>1. UNCHANGED obj /\ \/ Removed(p) /\ misled' = misled
                         \/ misled' = misled \union {p}
    BY <1>10, LooksGoneIsGone DEF PollGone
  <2> QED
    BY <1>1, <1>3, <1>10, <2>1, RemoveRefines DEF PollGone
<1>11. CASE PollOverdue(p)
  BY <1>1, <1>2, <1>11, LooksOverdueIsOverdue, GiveUpRefines
  DEF PollOverdue, Removed
<1>12. CASE PollFound(p)
  BY <1>1, <1>12, SeenStutter DEF PollFound, LooksPending, seen
<1>13. CASE StillPending(p)
  <2>1. CASE expired
    BY <1>1, <1>2, <1>13, <2>1, GiveUpRefines DEF StillPending, Removed
  <2>2. CASE ~expired
    BY <1>1, <1>13, <2>2, SeenStutter DEF StillPending, seen
  <2> QED
    BY <2>1, <2>2
<1>14. CASE Send(p)
  BY <1>1, <1>14, SeenStutter DEF Send, seen
<1> QED
  BY <1>4, <1>5, <1>6, <1>7, <1>8, <1>9, <1>10, <1>11, <1>12, <1>13, <1>14
  DEF Worker, Evict, Poll

(* The call returns nil if and only if every pod is settled as done. *)
LEMMA ReturnRefines ==
    ASSUME TypeOK, IInv, NoGoroutineLeft', VerdictExact', Return
    PROVE  Removal!Next
<1>1. /\ ~returned /\ returned' = TRUE
      /\ UNCHANGED <<obj, misled, result, told, errors, pc>>
  BY DEF Return, serverVars, workerVars
<1>2. errors = Failed /\ \A p \in Pods : result[p] # "none"
  BY <1>1 DEF NoGoroutineLeft, VerdictExact, Failed, IInv, ResultInv
<1>3. errors = {} <=> \A p \in Pods : result[p] \in {"removed", "skipped"}
  BY <1>2 DEF Failed, TypeOK, Results
<1>4. Removal!Return
  BY <1>1, <1>3 DEF Removal!Return, Removal!Done, Removed
<1> QED
  BY <1>4 DEF Removal!Next

(* Another client's step makes a pod vanish or is not visible. *)
LEMMA OthersRefines ==
    ASSUME TypeOK, Others
    PROVE  Removal!Next \/ UNCHANGED Removal!vars
<1> DEFINE present == {q \in Pods : ~Removed(q)}
<1>1. UNCHANGED <<result, told, returned, errors>>
  BY DEF Others, workerVars, callerVars
<1>2. /\ misled' = misled
      /\ \/ present' = present
         \/ \E p \in present : present' = present \ {p}
  BY OthersVanish DEF Others, TypeOK
<1>3. CASE present' = present
  BY <1>1, <1>2, <1>3 DEF Removal!vars
<1>4. ASSUME NEW p \in present, present' = present \ {p}
      PROVE  Removal!Next
  <2>1. Removal!Vanish(p)
    BY <1>1, <1>2, <1>4 DEF Removal!Vanish
  <2> QED
    BY <2>1 DEF Removal!Next
<1> QED
  BY <1>2, <1>3, <1>4

(* Every step of evictPods is one PodRemoval allows, or not visible. *)
LEMMA StepRefines ==
    ASSUME TypeOK, IInv, NoGoroutineLeft, NoGoroutineLeft', VerdictExact',
           [Next]_vars
    PROVE  [Removal!Next]_(Removal!vars)
<1>1. ASSUME NEW p \in Pods, Worker(p)
      PROVE  Removal!Next \/ UNCHANGED Removal!vars
  BY <1>1, WorkerRefines
<1>2. CASE Receive
  BY <1>2 DEF Receive, Removal!vars, Removed, serverVars, workerVars
<1>3. CASE Return
  BY <1>3, ReturnRefines
<1>4. CASE Expire
  BY <1>4, SeenStutter DEF Expire, seen, serverVars, workerVars, callerVars
<1>5. CASE Others
  BY <1>5, OthersRefines
<1>6. CASE UNCHANGED vars
  BY <1>6, SeenStutter DEF vars, seen
<1> QED
  BY <1>1, <1>2, <1>3, <1>4, <1>5, <1>6 DEF Next

(* Eviction keeps the promise of DeleteOrEvictPods, with two hundred pods  *)
(* as with two.                                                            *)
THEOREM Refinement == Spec => ImplementsRemoval
<1> QED
  BY StepRefines, InitRefines, Invariance, NoLeak, ExactVerdict, PTL
  DEF Spec, ImplementsRemoval, Removal!Spec
=============================================================================
