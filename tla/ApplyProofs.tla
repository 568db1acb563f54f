----------------------------- MODULE ApplyProofs -----------------------------
(***************************************************************************)
(* Proofs about Apply for any set of appliers, any contents and shapes,    *)
(* and any number of other clients' edits.                                 *)
(***************************************************************************)
EXTENDS Apply, TLAPS

(* "No object" is not taken for an object. *)
LEMMA NoObjectIsNone == NoObject \notin Objects
  BY DEF NoObject, Objects

(* The initial states are well typed. *)
LEMMA InitTypeOK == Init => TypeOK
<1> SUFFICES ASSUME Init PROVE TypeOK
  OBVIOUS
<1>1. obj \in Objects \union {NoObject}
  <2>1. \A s \in Specs :
           [spec |-> s, version |-> 1, deleting |-> FALSE] \in Objects
    BY DEF Objects
  <2> QED
    BY <2>1 DEF Init
<1>2. held \in [Appliers -> BOOLEAN]
  BY DEF Init
<1> QED
  BY <1>1, <1>2, ApplyAssumption DEF Init, TypeOK

(* What a write and a removal leave on the server. *)
LEMMA WriteTypeOK ==
    ASSUME TypeOK, NEW s \in Specs, Write(s)
    PROVE  /\ obj' \in Objects /\ obj'.spec = s /\ clock' = clock + 1
           /\ obj'.version = clock + 1
  BY DEF TypeOK, Write, Objects, Exists

(* A removal leaves nothing, or the object with the next version. *)
LEMMA RemoveTypeOK ==
    ASSUME TypeOK, Exists, Remove
    PROVE  /\ obj' \in Objects \union {NoObject} /\ clock' = clock + 1
           /\ obj' # NoObject => obj'.version = clock + 1
<1>1. obj \in Objects /\ clock + 1 \in Nat \ {0} /\ clock' = clock + 1
  BY DEF TypeOK, Exists, Remove
<1>2. CASE obj' = NoObject
  BY <1>1, <1>2
<1>3. CASE obj' = [obj EXCEPT !.deleting = TRUE, !.version = clock + 1]
  BY <1>1, <1>3 DEF Objects
<1> QED
  BY <1>2, <1>3 DEF Remove

(* What the server may do in a step: nothing, write, or remove. *)
LEMMA ServerStep ==
    ASSUME TypeOK, [Next]_vars
    PROVE  /\ obj' \in Objects \union {NoObject}
           /\ clock' \in Nat /\ clock <= clock'
           /\ obj' # obj /\ obj' # NoObject =>
                 obj'.version = clock + 1 /\ clock' = clock + 1
<1>1. Desired \in [Appliers -> Specs]
  BY ApplyAssumption
<1>2. ASSUME UNCHANGED <<obj, clock>>
      PROVE  /\ obj' \in Objects \union {NoObject}
             /\ clock' \in Nat /\ clock <= clock' /\ obj' = obj
  BY <1>2 DEF TypeOK
<1>3. ASSUME NEW a \in Appliers, Applier(a)
      PROVE  \/ UNCHANGED <<obj, clock>>
             \/ Write(Desired[a])
             \/ Exists /\ Remove
  BY <1>3
  DEF Applier, Get, Create, UpdateRefused, UpdateAccepted, UpdateImmutable,
      Delete, Recreate, RequestFails, serverVars
<1>4. CASE Others
  BY <1>4, WriteTypeOK, RemoveTypeOK DEF Others, Edit, TypeOK
<1>5. CASE UNCHANGED vars
  BY <1>2, <1>5 DEF vars
<1>6. ASSUME NEW a \in Appliers, Applier(a)
      PROVE  /\ obj' \in Objects \union {NoObject}
             /\ clock' \in Nat /\ clock <= clock'
             /\ obj' # obj /\ obj' # NoObject =>
                   obj'.version = clock + 1 /\ clock' = clock + 1
  <2>1. CASE UNCHANGED <<obj, clock>>
    BY <1>2, <2>1
  <2>2. CASE Write(Desired[a])
    <3>1. Desired[a] \in Specs
      BY <1>1
    <3> QED
      BY <2>2, <3>1, WriteTypeOK DEF TypeOK
  <2>3. CASE Exists /\ Remove
    BY <2>3, RemoveTypeOK DEF TypeOK
  <2> QED
    BY <1>3, <1>6, <2>1, <2>2, <2>3
<1> QED
  BY <1>4, <1>5, <1>6, <1>2 DEF Next

(* Every step keeps the types. *)
LEMMA NextTypeOK == TypeOK /\ [Next]_vars => TypeOK'
<1> SUFFICES ASSUME TypeOK, [Next]_vars PROVE TypeOK'
  OBVIOUS
<1>1. obj' \in Objects \union {NoObject} /\ clock' \in Nat
  BY ServerStep
<1>2. edits' \in 0..MaxEdits
  BY ApplyAssumption
  DEF TypeOK, Next, Applier, Get, Create, UpdateRefused, UpdateAccepted,
      UpdateImmutable, Delete, Recreate, RequestFails, serverVars, Others,
      vars
<1>3. held' \in [Appliers -> BOOLEAN] /\ remains' \subseteq Appliers
  BY DEF TypeOK, Next, Observe, vars
<1>4. /\ pc' \in [Appliers ->
                    {"get", "create", "update", "delete", "recreate", "done"}]
      /\ result' \in [Appliers -> {"none", "nil", "error", "bare"}]
      /\ blind' \subseteq Appliers
  BY DEF TypeOK, Next, Applier, Get, Create, UpdateRefused, UpdateAccepted,
     UpdateImmutable, Delete, Recreate, RequestFails, serverVars, Others,
     vars, Goto, Return
<1>5. existing' \in [Appliers -> Objects \union {NoObject}]
  BY DEF TypeOK, Next, Applier, Get, Create, UpdateRefused, UpdateAccepted,
     UpdateImmutable, Delete, Recreate, RequestFails, serverVars, Others,
     vars
<1> QED
  BY <1>1, <1>2, <1>3, <1>4, <1>5 DEF TypeOK

(* Every state of the model is well typed. *)
THEOREM TypeCorrect == Spec => []TypeOK
<1> QED
  BY InitTypeOK, NextTypeOK, PTL DEF Spec

-----------------------------------------------------------------------------
(* A nil result.                                                           *)

(* nil from Apply means that the object had the content applied at some    *)
(* moment of the call, for any number of appliers and other clients.       *)
THEOREM NilIsTruthful == Spec => []NilMeansApplied
<1>1. Init => NilMeansApplied
  BY DEF Init, NilMeansApplied
<1>2. TypeOK /\ NilMeansApplied /\ [Next]_vars => NilMeansApplied'
  <2> SUFFICES ASSUME TypeOK, NilMeansApplied, [Next]_vars,
                      NEW a \in Appliers, result'[a] = "nil"
               PROVE  held'[a]
    BY DEF NilMeansApplied
  <2>1. CASE UNCHANGED vars
    BY <2>1 DEF vars, NilMeansApplied
  <2>2. CASE Next /\ result[a] = "nil"
    BY <2>2 DEF Next, Observe, NilMeansApplied, TypeOK
  <2>3. CASE Next /\ result[a] # "nil"
    <3>1. PICK b \in Appliers : Applier(b)
      BY <2>3 DEF Next, Others
    <3>2. b = a
      BY <3>1, <2>3
      DEF Applier, Get, Create, UpdateRefused, UpdateAccepted,
          UpdateImmutable, Delete, Recreate, RequestFails, Return, TypeOK
    <3>3. Get(a) \/ Create(a) \/ UpdateAccepted(a) \/ Recreate(a)
      BY <3>1, <3>2, <2>3
      DEF Applier, UpdateRefused, UpdateImmutable, Delete, RequestFails,
          Return, TypeOK
    <3>4. pc[a] # "done" /\ obj'.spec = Desired[a]
      <4>1. CASE Get(a)
        BY <4>1, <2>3 DEF Get, Return, At, serverVars, TypeOK
      <4>2. CASE ~Get(a)
        <5>1. Desired[a] \in Specs
          BY ApplyAssumption
        <5>2. pc[a] # "done" /\ Write(Desired[a])
          BY <3>3, <4>2, <2>3
          DEF Create, UpdateAccepted, Recreate, Return, At, TypeOK
        <5> QED
          BY <5>1, <5>2, WriteTypeOK
      <4> QED
        BY <4>1, <4>2
    <3> QED
      BY <2>3, <3>4 DEF Next, Observe
  <2> QED
    BY <2>1, <2>2, <2>3
<1> QED
  BY <1>1, <1>2, TypeCorrect, PTL DEF Spec

-----------------------------------------------------------------------------
(* Overwriting.                                                            *)

(* A version names one content: what was read under the server's version   *)
(* is what the server holds.                                               *)
VersionInv ==
    /\ obj # NoObject => obj.version <= clock
    /\ \A a \in Appliers :
          existing[a] # NoObject =>
              /\ existing[a].version <= clock
              /\ obj # NoObject /\ obj.version = existing[a].version =>
                    obj.spec = existing[a].spec

(* Whoever is to delete has read an object it may replace. *)
ReplaceInv ==
    \A a \in Appliers :
        /\ pc[a] = "update" => existing[a] # NoObject
        /\ pc[a] \in {"delete", "recreate"} =>
              Replaceable /\ Shape[existing[a].spec] # Shape[Desired[a]]
        /\ a \in blind => pc[a] \in {"recreate", "done"}

(* Every step keeps VersionInv: a version names one content for ever. *)
LEMMA NextVersionInv == TypeOK /\ VersionInv /\ [Next]_vars => VersionInv'
<1> SUFFICES ASSUME TypeOK, VersionInv, [Next]_vars PROVE VersionInv'
  OBVIOUS
<1>1. /\ obj' \in Objects \union {NoObject}
      /\ clock' \in Nat /\ clock <= clock'
      /\ obj' # obj /\ obj' # NoObject =>
            obj'.version = clock + 1 /\ clock' = clock + 1
  BY ServerStep
<1>2. ASSUME NEW a \in Appliers
      PROVE  existing'[a] \in {existing[a], NoObject, obj}
             /\ (existing'[a] # existing[a] => obj' = obj)
  BY DEF TypeOK, Next, Applier, Get, Create, UpdateRefused, UpdateAccepted,
     UpdateImmutable, Delete, Recreate, RequestFails, serverVars, Others,
     vars
<1>3. obj' # NoObject => obj'.version <= clock'
  BY <1>1 DEF VersionInv, TypeOK, Objects
<1>4. ASSUME NEW a \in Appliers, existing'[a] # NoObject
      PROVE  /\ existing'[a].version <= clock'
             /\ obj' # NoObject /\ obj'.version = existing'[a].version =>
                   obj'.spec = existing'[a].spec
  <2>1. CASE existing'[a] = existing[a]
    <3>1. /\ existing[a].version \in Nat
          /\ existing[a].version <= clock
          /\ obj # NoObject /\ obj.version = existing[a].version =>
                obj.spec = existing[a].spec
      BY <1>4, <2>1 DEF VersionInv, TypeOK, Objects
    <3> QED
      BY <1>1, <2>1, <3>1 DEF TypeOK
  <2>2. CASE existing'[a] # existing[a]
    BY <1>1, <1>2, <1>3, <1>4, <2>2 DEF TypeOK, Objects
  <2> QED
    BY <2>1, <2>2
<1> QED
  BY <1>3, <1>4 DEF VersionInv

(* Every step keeps ReplaceInv: a content whose update was refused as      *)
(* immutable differs in shape from the one read, because the version was   *)
(* the same.                                                               *)
LEMMA NextReplaceInv ==
    TypeOK /\ VersionInv /\ ReplaceInv /\ [Next]_vars => ReplaceInv'
<1> SUFFICES ASSUME TypeOK, VersionInv, ReplaceInv, [Next]_vars,
                    NEW a \in Appliers
             PROVE  /\ pc'[a] = "update" => existing'[a] # NoObject
                    /\ pc'[a] \in {"delete", "recreate"} =>
                          /\ Replaceable
                          /\ Shape[existing'[a].spec] # Shape[Desired[a]]
                    /\ a \in blind' => pc'[a] \in {"recreate", "done"}
  BY DEF ReplaceInv
<1> USE DEF ReplaceInv, TypeOK, Goto, Return, At, serverVars
<1>1. CASE UNCHANGED vars \/ Others
  BY <1>1 DEF vars, Others
<1>2. ASSUME NEW b \in Appliers, Applier(b), b # a
      PROVE  /\ pc'[a] = pc[a] /\ existing'[a] = existing[a]
             /\ a \in blind' <=> a \in blind
  BY <1>2
  DEF Applier, Get, Create, UpdateRefused, UpdateAccepted, UpdateImmutable,
      Delete, Recreate, RequestFails
<1>3. CASE Get(a)
  BY <1>3 DEF Get
<1>4. CASE Create(a) \/ UpdateRefused(a) \/ Recreate(a) \/ RequestFails(a)
  BY <1>4 DEF Create, UpdateRefused, Recreate, RequestFails
<1>5. CASE UpdateAccepted(a)
  BY <1>5 DEF UpdateAccepted
<1>6. CASE UpdateImmutable(a)
  <2>1. obj.spec = existing[a].spec
    BY <1>6 DEF UpdateImmutable, Fresh, Exists, VersionInv
  <2> QED
    BY <1>6, <2>1 DEF UpdateImmutable
<1>7. CASE Delete(a)
  BY <1>7 DEF Delete
<1> QED
  BY <1>1, <1>2, <1>3, <1>4, <1>5, <1>6, <1>7 DEF Next, Applier

(* Only a replacement can destroy an edit that was not read: an update     *)
(* never does, for any number of appliers and other clients.               *)
THEOREM UpdatesAreNotBlind == Spec => []NoBlindOverwrite
<1>1. Init => VersionInv /\ ReplaceInv /\ NoBlindOverwrite
  BY DEF Init, VersionInv, ReplaceInv, NoBlindOverwrite, NoObject
<1>2. ASSUME TypeOK, ReplaceInv, NoBlindOverwrite, [Next]_vars
      PROVE  NoBlindOverwrite'
  <2>0. blind' \subseteq Appliers
    BY <1>2, NextTypeOK DEF TypeOK
  <2> SUFFICES ASSUME NEW a \in Appliers, a \in blind'
               PROVE  Replaceable
                      /\ Shape[existing'[a].spec] # Shape[Desired[a]]
    BY <2>0 DEF NoBlindOverwrite
  <2>1. CASE a \in blind
    <3>1. existing'[a] = existing[a]
      BY <1>2, <2>1
      DEF TypeOK, ReplaceInv, Next, Applier, Get, Create, UpdateRefused,
          UpdateAccepted, UpdateImmutable, Delete, Recreate, RequestFails,
          Others, vars, At
    <3> QED
      BY <1>2, <2>1, <3>1 DEF NoBlindOverwrite
  <2>2. CASE a \notin blind
    <3>1. Delete(a)
      BY <1>2, <2>2
      DEF TypeOK, Next, Applier, Get, Create, UpdateRefused, UpdateAccepted,
          UpdateImmutable, Delete, Recreate, RequestFails, Others, vars
    <3> QED
      BY <1>2, <3>1 DEF Delete, ReplaceInv, At
  <2> QED
    BY <2>1, <2>2
<1> QED
  BY <1>1, <1>2, NextVersionInv, NextReplaceInv, TypeCorrect, PTL DEF Spec
=============================================================================
