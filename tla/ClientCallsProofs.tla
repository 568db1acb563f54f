------------------------- MODULE ClientCallsProofs -------------------------
(***************************************************************************)
(* Proofs about the parts of the client that share no state: each part has *)
(* an inductive invariant of its own, and a step of the client is a step   *)
(* of one part or leaves it alone.                                         *)
(***************************************************************************)
EXTENDS MCClientCalls, FiniteSetTheorems, WellFoundedInduction, TLAPS

-----------------------------------------------------------------------------
(* EnvCache: values with the times at which references held them.          *)

(* At some time since t, a reference of this key held the value. *)
HeldSince(k, v, t) ==
    \E r \in Refs : KeyOf[r] = k /\ (value[r] = v \/ lastHeld[r][v] >= t)

(* Nothing was held in the future. *)
ClockInv == \A r \in Refs, v \in EnvValues : lastHeld[r][v] <= time

(* A fetch is in time, and its answer was held since it began. *)
AnswerInv ==
    \A p \in Readers :
        call[p] # NoCall =>
            /\ call[p].since <= time /\ time <= call[p].since + FetchTime
            /\ call[p].stage = "set" =>
                  /\ call[p].answer # NoValue
                  /\ HeldSince(KeyOf[call[p].ref], call[p].answer, call[p].since)

(* An entry was held at most a fetch before it was made, and lives for the *)
(* longest expiry at most.                                                 *)
CachedInv ==
    \A k \in Keys :
        cached[k] # NoEntry =>
            /\ cached[k].until <= time + Longest
            /\ IF cached[k].until = -1 THEN k \in eternal
               ELSE HeldSince(k, cached[k].value,
                              cached[k].until - Longest - FetchTime)

EnvInv == EnvTypeOK /\ ClockInv /\ AnswerInv /\ CachedInv /\ BoundedStaleness

(* Every set of numbers that is not empty has a least. *)
LEMMA LeastNatural ==
    ASSUME NEW S \in SUBSET Nat, S # {}
    PROVE  \E a \in S : \A b \in S : a <= b
<1>1. IsWellFoundedOn({ss \in Nat \X Nat : ss[1] < ss[2]}, Nat)
  BY NatLessThanWellFounded, Zenon DEF OpToRel
<1>2. \E a \in S : \A b \in S : <<b, a>> \notin {ss \in Nat \X Nat : ss[1] < ss[2]}
  BY <1>1, WFMin
<1>3. \A a, b \in Nat : <<b, a>> \notin {ss \in Nat \X Nat : ss[1] < ss[2]} => a <= b
  OBVIOUS
<1> QED BY <1>2, <1>3

(* The age of a value is that of the reference that held it last. *)
LEMMA AgeIsLeast ==
    ASSUME EnvTypeOK, ClockInv, NEW r \in Refs, NEW v \in EnvValues
    PROVE  /\ AgeOf(KeyOf[r], v) \in Nat
           /\ \A s \in Refs :
                 KeyOf[s] = KeyOf[r] =>
                     AgeOf(KeyOf[r], v)
                         <= (IF value[s] = v THEN 0 ELSE time - lastHeld[s][v])
<1> DEFINE Since(s) == IF value[s] = v THEN 0 ELSE time - lastHeld[s][v]
           ages == {Since(s) : s \in {x \in Refs : KeyOf[x] = KeyOf[r]}}
<1>1. \A s \in Refs : Since(s) \in Nat
  BY EnvCacheAssumption DEF EnvTypeOK, ClockInv
<1>2. ages \in SUBSET Nat /\ ages # {}
  BY <1>1
<1>3. \E a \in ages : \A b \in ages : a <= b
  <2> HIDE DEF ages
  <2> QED BY <1>2, LeastNatural
<1>4. AgeOf(KeyOf[r], v) = CHOOSE a \in ages : \A b \in ages : a <= b
  BY DEF AgeOf
<1>5. AgeOf(KeyOf[r], v) \in ages /\ \A b \in ages : AgeOf(KeyOf[r], v) <= b
  <2> HIDE DEF ages
  <2> QED BY <1>3, <1>4
<1> QED BY <1>1, <1>5

(* No caller's expiry is longer than the longest. *)
LEMMA LongestIsLongest ==
    /\ Longest \in Nat /\ DefaultExpiry <= Longest
    /\ \A e \in Expiries : e <= Longest
<1> DEFINE chosen == {DefaultExpiry} \union Expiries
<1>0. DefaultExpiry \in Nat /\ Expiries \subseteq Int
  BY EnvCacheAssumption
<1>1. \E e \in chosen : \A f \in chosen : f <= e
  <2>1. PICK e \in Expiries \union {0} : \A f \in Expiries : f <= e
    BY EnvCacheAssumption
  <2>2. CASE DefaultExpiry >= e
    <3>1. \A f \in chosen : f <= DefaultExpiry
      BY <1>0, <2>1, <2>2
    <3> QED BY <3>1
  <2>3. CASE ~(DefaultExpiry >= e)
    <3>1. e \in chosen /\ \A f \in chosen : f <= e
      BY <1>0, <2>1, <2>3
    <3> QED BY <3>1
  <2> QED BY <2>2, <2>3
<1>2. Longest = CHOOSE e \in chosen : \A f \in chosen : f <= e
  BY DEF Longest
<1>3. Longest \in chosen /\ \A f \in chosen : f <= Longest
  <2> HIDE DEF chosen
  <2> QED BY <1>1, <1>2
<1> QED BY <1>0, <1>3

(* A value held since t has at most the age of t. *)
LEMMA HeldIsYoung ==
    ASSUME EnvTypeOK, ClockInv, NEW r \in Refs, NEW v \in EnvValues, NEW t \in Int,
           NEW old \in Nat, HeldSince(KeyOf[r], v, t), time <= t + old
    PROVE  AgeOf(KeyOf[r], v) <= old
<1>1. PICK s \in Refs : KeyOf[s] = KeyOf[r] /\ (value[s] = v \/ lastHeld[s][v] >= t)
  BY DEF HeldSince
<1>2. lastHeld[s][v] \in Int /\ time \in Int
  BY DEF EnvTypeOK
<1> QED BY <1>1, <1>2, AgeIsLeast

(* What was held once has been held, whoever writes afterwards. *)
LEMMA HeldStays ==
    ASSUME EnvTypeOK, ClockInv, NEW k \in Keys, NEW v \in EnvValues, NEW t \in Int,
           HeldSince(k, v, t), t <= time,
           UNCHANGED <<value, lastHeld>> \/ EnvChanges
    PROVE  HeldSince(k, v, t)'
<1>1. CASE UNCHANGED <<value, lastHeld>>
  BY <1>1 DEF HeldSince
<1>2. CASE EnvChanges
  <2>1. PICK r \in Refs : KeyOf[r] = k /\ (value[r] = v \/ lastHeld[r][v] >= t)
    BY DEF HeldSince
  <2>2. PICK s \in Refs, w \in EnvValues :
            /\ value' = [value EXCEPT ![s] = w]
            /\ lastHeld' = IF value[s] = NoValue THEN lastHeld
                           ELSE [lastHeld EXCEPT ![s][value[s]] = time]
    BY <1>2 DEF EnvChanges
  <2>3. value'[r] = v \/ lastHeld'[r][v] >= t
    BY <2>1, <2>2, EnvCacheAssumption DEF EnvTypeOK
  <2> QED BY <2>1, <2>3 DEF HeldSince
<1> QED BY <1>1, <1>2

(* What was held since a time was held since any earlier one. *)
LEMMA HeldEarlier ==
    ASSUME EnvTypeOK, NEW k, NEW v \in EnvValues, NEW t \in Int, NEW u \in Int,
           u <= t, HeldSince(k, v, t)
    PROVE  HeldSince(k, v, u)
BY DEF HeldSince, EnvTypeOK

Calls == [stage : {"fetch", "set"}, ref : Refs, expiry : Expiries,
          since : 0 .. Horizon, answer : EnvValues \union {NoValue}]

(* A call in progress, and an entry that is there. *)
LEMMA CallType ==
    ASSUME EnvTypeOK, NEW p \in Readers
    PROVE  /\ call[p] # NoCall => call[p] \in Calls
           /\ call[p].stage \in {"fetch", "set"} => call[p] # NoCall
           /\ call \in [Readers -> {NoCall} \union Calls]
BY DEF EnvTypeOK, Calls, NoCall

(* An entry has a value and a time. *)
LEMMA EntryType ==
    ASSUME EnvTypeOK, NEW k \in Keys, cached[k] # NoEntry
    PROVE  cached[k].value \in EnvValues /\ cached[k].until \in Int
BY DEF EnvTypeOK, Entries

(* Before any call. *)
LEMMA EnvInitInv == EnvInit => EnvInv
<1> SUFFICES ASSUME EnvInit PROVE EnvInv
  OBVIOUS
<1> USE EnvCacheAssumption DEF EnvInit
<1>1. lastHeld \in [Refs -> [EnvValues -> Int]]
  OBVIOUS
<1>2. EnvTypeOK
  BY <1>1 DEF EnvTypeOK
<1>3. ClockInv /\ AnswerInv /\ CachedInv
  BY DEF ClockInv, AnswerInv, CachedInv
<1>4. BoundedStaleness
  BY LongestIsLongest DEF BoundedStaleness
<1> QED BY <1>2, <1>3, <1>4 DEF EnvInv

(* A valid entry is as young as its expiry and a fetch. *)
LEMMA HitKeeps ==
    ASSUME EnvInv, NEW p \in Readers, Hit(p)
    PROVE  EnvInv'
<1> USE DEF EnvInv
<1>1. PICK r \in Refs :
          /\ Valid(KeyOf[r])
          /\ age' = [age EXCEPT ![p] = AgeOf(KeyOf[r], cached[KeyOf[r]].value)]
  BY DEF Hit
<1>2. UNCHANGED <<time, value, envChanges, cached, call, lastHeld, eternal>>
  BY DEF Hit
<1> DEFINE k == KeyOf[r]
<1>3. /\ k \in Keys /\ cached[k] # NoEntry
      /\ cached[k].until = -1 \/ time <= cached[k].until
      /\ cached[k].value \in EnvValues /\ cached[k].until \in Int
  BY <1>1, EntryType DEF Valid, Keys
<1>4. AgeOf(k, cached[k].value) \in Nat
  BY <1>3, AgeIsLeast
<1>5. AgeOf(k, cached[k].value) <= Longest + FetchTime \/ eternal # {}
  <2>1. CASE k \in eternal
    BY <2>1
  <2>2. CASE k \notin eternal
    <3>1. /\ time <= cached[k].until
          /\ HeldSince(k, cached[k].value, cached[k].until - Longest - FetchTime)
      BY <1>3, <2>2 DEF CachedInv
    <3>2. time \in Int /\ Longest \in Nat /\ FetchTime \in Nat
      BY LongestIsLongest, EnvCacheAssumption DEF EnvTypeOK
    <3>3. /\ cached[k].until - Longest - FetchTime \in Int
          /\ Longest + FetchTime \in Nat
          /\ time <= (cached[k].until - Longest - FetchTime) + (Longest + FetchTime)
      BY <1>3, <3>1, <3>2
    <3> QED BY <1>3, <3>1, <3>3, HeldIsYoung
  <2> QED BY <2>1, <2>2
<1>6. EnvTypeOK'
  <2>1. age' \in [Readers -> Nat]
    BY <1>1, <1>4 DEF EnvTypeOK
  <2> QED BY <1>2, <2>1 DEF EnvTypeOK
<1>7. ClockInv' /\ AnswerInv' /\ CachedInv'
  BY <1>2 DEF ClockInv, AnswerInv, CachedInv, HeldSince
<1>8. BoundedStaleness'
  BY <1>1, <1>2, <1>4, <1>5, LongestIsLongest, EnvCacheAssumption
     DEF BoundedStaleness, EnvTypeOK
<1> QED BY <1>6, <1>7, <1>8

(* A call that looks the value up, and the answer of the server. *)
LEMMA FetchKeeps ==
    ASSUME EnvInv, NEW p \in Readers, Miss(p) \/ Fetch(p) \/ FetchFails(p)
    PROVE  EnvInv'
<1> USE DEF EnvInv
<1>1. UNCHANGED <<time, value, envChanges, cached, age, lastHeld, eternal>>
  BY DEF Miss, Fetch, FetchFails
<1>2. /\ call'[p] \in {NoCall} \union Calls
      /\ call'[p] # NoCall =>
            /\ call'[p].since <= time /\ time <= call'[p].since + FetchTime
            /\ call'[p].stage = "set" =>
                  /\ call'[p].answer # NoValue
                  /\ HeldSince(KeyOf[call'[p].ref], call'[p].answer, call'[p].since)
      /\ \A q \in Readers \ {p} : call'[q] = call[q]
      /\ call' \in [Readers -> {NoCall} \union Calls]
  <2>1. CASE Miss(p)
    <3>1. PICK r \in Refs, e \in Expiries :
              call' = [call EXCEPT ![p] =
                          [stage |-> "fetch", ref |-> r, expiry |-> e,
                           since |-> time, answer |-> NoValue]]
      BY <2>1 DEF Miss
    <3> DEFINE new == [stage |-> "fetch", ref |-> r, expiry |-> e,
                       since |-> time, answer |-> NoValue]
    <3>2. new \in Calls
      BY DEF Calls, EnvTypeOK
    <3>3. /\ new.since <= time /\ time <= new.since + FetchTime
          /\ new.stage # "set"
      BY EnvCacheAssumption DEF EnvTypeOK
    <3> HIDE DEF new
    <3> QED BY <3>1, <3>2, <3>3, CallType DEF new
  <2>2. CASE Fetch(p)
    <3>1. /\ call[p] \in Calls /\ call[p] # NoCall
          /\ value[call[p].ref] # NoValue
          /\ call' = [call EXCEPT ![p].stage = "set",
                                  ![p].answer = value[call[p].ref]]
      BY <2>2, CallType DEF Fetch
    <3> DEFINE new == [call[p] EXCEPT !.stage = "set",
                                      !.answer = value[call[p].ref]]
    <3>2. value[call[p].ref] \in EnvValues \union {NoValue} /\ call[p].ref \in Refs
      BY <3>1 DEF EnvTypeOK, Calls
    <3>3. new \in Calls
      BY <3>1, <3>2, Zenon DEF Calls
    <3>4. /\ new.since = call[p].since /\ new.ref = call[p].ref
          /\ new.answer = value[call[p].ref]
      BY <3>1 DEF Calls
    <3>5. call' = [call EXCEPT ![p] = new]
      BY <3>1, CallType
    <3>6. HeldSince(KeyOf[new.ref], new.answer, new.since)
      BY <3>2, <3>4 DEF HeldSince
    <3>7. new.since <= time /\ time <= new.since + FetchTime /\ new.answer # NoValue
      BY <3>1, <3>4 DEF AnswerInv
    <3> HIDE DEF new
    <3> QED BY <3>3, <3>5, <3>6, <3>7, CallType
  <2>3. CASE FetchFails(p)
    BY <2>3, CallType DEF FetchFails
  <2> QED BY <2>1, <2>2, <2>3
<1>3. EnvTypeOK'
  BY <1>1, <1>2 DEF EnvTypeOK, Calls
<1>4. AnswerInv'
  BY <1>1, <1>2 DEF AnswerInv, HeldSince
<1> QED BY <1>1, <1>3, <1>4 DEF ClockInv, CachedInv, BoundedStaleness, HeldSince

(* An answer was held since its fetch began, a fetch ago at most, and is   *)
(* kept for an expiry at most.                                             *)
LEMMA SetKeepsEnv ==
    ASSUME EnvInv, NEW p \in Readers, Set(p)
    PROVE  EnvInv'
<1> USE DEF EnvInv
<1> DEFINE k == KeyOf[call[p].ref]
           v == call[p].answer
           e == call[p].expiry
           t == call[p].since
<1>1. /\ call[p].stage = "set"
      /\ cached' = [cached EXCEPT ![k] = [value |-> v, until |-> Until(e)]]
      /\ age' = [age EXCEPT ![p] = AgeOf(k, v)]
      /\ eternal' = IF e < 0 THEN eternal \union {k} ELSE eternal
      /\ call' = [call EXCEPT ![p] = NoCall]
      /\ UNCHANGED <<time, value, envChanges, lastHeld>>
  BY DEF Set
<1>2. /\ call[p] \in Calls /\ call[p] # NoCall /\ call[p].ref \in Refs /\ k \in Keys
      /\ e \in Expiries /\ v \in EnvValues /\ t \in Nat /\ time \in Nat
      /\ t <= time /\ time <= t + FetchTime /\ HeldSince(k, v, t)
  BY <1>1, CallType DEF Calls, Keys, AnswerInv, EnvTypeOK
<1>3. /\ AgeOf(k, v) \in Nat /\ AgeOf(k, v) <= FetchTime
  BY <1>2, AgeIsLeast, HeldIsYoung, EnvCacheAssumption
<1>4. /\ Until(e) \in Int /\ Until(e) <= time + Longest
      /\ Until(e) = -1 => e < 0
  <2>1. /\ e \in Int /\ e <= Longest /\ Longest \in Nat /\ time \in Nat
        /\ DefaultExpiry \in Nat /\ DefaultExpiry <= Longest
    BY <1>2, LongestIsLongest, EnvCacheAssumption
  <2> HIDE DEF e
  <2> QED BY <2>1 DEF Until
<1>5. HeldSince(k, v, Until(e) - Longest - FetchTime)
  <2>1. /\ Until(e) - Longest - FetchTime \in Int
        /\ Until(e) - Longest - FetchTime <= t
    BY <1>2, <1>4, LongestIsLongest, EnvCacheAssumption
  <2> QED BY <1>2, <2>1, HeldEarlier
<1> HIDE DEF k, v, e, t
<1>6. EnvTypeOK'
  <2>1. call' \in [Readers -> {NoCall} \union Calls]
    BY <1>1, CallType
  <2>2. [value |-> v, until |-> Until(e)] \in Entries
    BY <1>2, <1>4 DEF Entries
  <2>3. cached' \in [Keys -> Entries \union {NoEntry}]
    BY <1>1, <1>2, <2>2 DEF EnvTypeOK
  <2>4. age' \in [Readers -> Nat] /\ eternal' \subseteq Keys
    BY <1>1, <1>2, <1>3 DEF EnvTypeOK
  <2> QED BY <1>1, <2>1, <2>3, <2>4 DEF EnvTypeOK, Calls
<1>7. ClockInv'
  BY <1>1 DEF ClockInv
<1>8. AnswerInv'
  <2>1. \A q \in Readers : call'[q] = NoCall \/ call'[q] = call[q]
    BY <1>1, CallType
  <2> QED BY <1>1, <2>1 DEF AnswerInv, HeldSince
<1>9. CachedInv'
  <2>1. /\ cached'[k].value = v /\ cached'[k].until = Until(e)
        /\ \A j \in Keys \ {k} : cached'[j] = cached[j]
        /\ eternal \subseteq eternal' /\ (e < 0 => k \in eternal')
    BY <1>1, <1>2 DEF EnvTypeOK
  <2>2. \A j \in Keys \ {k} :
            cached'[j] # NoEntry =>
              /\ cached'[j].until <= time + Longest
              /\ IF cached'[j].until = -1 THEN j \in eternal'
                 ELSE HeldSince(j, cached'[j].value,
                                cached'[j].until - Longest - FetchTime)
    BY <2>1 DEF CachedInv
  <2>3. /\ cached'[k].until <= time + Longest
        /\ IF cached'[k].until = -1 THEN k \in eternal'
           ELSE HeldSince(k, cached'[k].value,
                          cached'[k].until - Longest - FetchTime)
    BY <1>4, <1>5, <2>1
  <2> QED BY <1>1, <2>2, <2>3 DEF CachedInv, HeldSince
<1>10. BoundedStaleness'
  <2>1. age'[p] <= Longest + FetchTime /\ \A q \in Readers \ {p} : age'[q] = age[q]
    BY <1>1, <1>3, LongestIsLongest, EnvCacheAssumption DEF EnvTypeOK
  <2>2. age'[p] \in Nat /\ Longest + FetchTime \in Nat /\ (eternal # {} => eternal' # {})
    BY <1>1, <1>6, LongestIsLongest, EnvCacheAssumption DEF EnvTypeOK
  <2> QED BY <2>1, <2>2 DEF BoundedStaleness
<1> QED BY <1>6, <1>7, <1>8, <1>9, <1>10

(* The clock stands still while a fetch is at its deadline. *)
LEMMA TickKeeps ==
    ASSUME EnvInv, Tick
    PROVE  EnvInv'
<1> USE DEF EnvInv
<1>1. /\ time' = time + 1 /\ time < Horizon
      /\ \A q \in Readers : call[q] = NoCall \/ time < call[q].since + FetchTime
      /\ UNCHANGED <<value, envChanges, cached, call, age, lastHeld, eternal>>
  BY DEF Tick
<1>2. time \in Nat /\ time' \in 0 .. Horizon
  BY <1>1, EnvCacheAssumption DEF EnvTypeOK
<1>3. \A q \in Readers : call[q] # NoCall =>
          call[q].since \in Nat /\ call[q].since + FetchTime \in Nat
  BY CallType, EnvCacheAssumption DEF Calls
<1>4. EnvTypeOK'
  BY <1>1, <1>2 DEF EnvTypeOK
<1>5. ClockInv'
  BY <1>1, <1>2 DEF ClockInv, EnvTypeOK
<1>6. AnswerInv'
  BY <1>1, <1>2, <1>3 DEF AnswerInv, HeldSince
<1>7. CachedInv'
  BY <1>1, <1>2, EntryType, LongestIsLongest DEF CachedInv, HeldSince
<1> QED BY <1>1, <1>4, <1>5, <1>6, <1>7 DEF BoundedStaleness

(* A value overwritten was held until now. *)
LEMMA EnvChangesKeep ==
    ASSUME EnvInv, EnvChanges
    PROVE  EnvInv'
<1> USE DEF EnvInv
<1>1. PICK s \in Refs, w \in EnvValues :
          /\ value' = [value EXCEPT ![s] = w]
          /\ lastHeld' = IF value[s] = NoValue THEN lastHeld
                         ELSE [lastHeld EXCEPT ![s][value[s]] = time]
  BY DEF EnvChanges
<1>2. /\ envChanges' \in 0 .. MaxEnvChanges
      /\ UNCHANGED <<time, cached, call, age, eternal>>
  BY EnvCacheAssumption DEF EnvChanges, EnvTypeOK
<1>3. /\ value' \in [Refs -> EnvValues \union {NoValue}]
      /\ lastHeld' \in [Refs -> [EnvValues -> Int]]
      /\ \A r \in Refs, v \in EnvValues : lastHeld'[r][v] \in {lastHeld[r][v], time}
  BY <1>1 DEF EnvTypeOK
<1>4. EnvTypeOK'
  BY <1>2, <1>3 DEF EnvTypeOK
<1>5. ClockInv'
  BY <1>2, <1>3 DEF ClockInv, EnvTypeOK
<1>6. AnswerInv'
  <2> SUFFICES ASSUME NEW p \in Readers, call[p] # NoCall, call[p].stage = "set",
                      call[p].answer # NoValue
               PROVE  HeldSince(KeyOf[call[p].ref], call[p].answer, call[p].since)'
    BY <1>2 DEF AnswerInv, HeldSince
  <2>1. /\ KeyOf[call[p].ref] \in Keys /\ call[p].answer \in EnvValues
        /\ call[p].since \in Int
    BY CallType DEF Calls, Keys
  <2>2. /\ HeldSince(KeyOf[call[p].ref], call[p].answer, call[p].since)
        /\ call[p].since <= time
    BY DEF AnswerInv
  <2>3. \A k \in Keys, v \in EnvValues, t \in Int :
            HeldSince(k, v, t) /\ t <= time => HeldSince(k, v, t)'
    BY HeldStays
  <2>4. \E r \in Refs : KeyOf[r] = KeyOf[call[p].ref]
              /\ (value'[r] = call[p].answer
                  \/ lastHeld'[r][call[p].answer] >= call[p].since)
    BY <2>1, <2>2, <2>3 DEF HeldSince
  <2> QED BY <1>2, <2>4 DEF HeldSince
<1>7. CachedInv'
  <2> SUFFICES ASSUME NEW k \in Keys, cached[k] # NoEntry, cached[k].until # -1
               PROVE  HeldSince(k, cached[k].value,
                                cached[k].until - Longest - FetchTime)'
    BY <1>2 DEF CachedInv, HeldSince
  <2>1. /\ cached[k].value \in EnvValues /\ cached[k].until \in Int
        /\ cached[k].until <= time + Longest /\ time \in Int
        /\ HeldSince(k, cached[k].value, cached[k].until - Longest - FetchTime)
    BY EntryType DEF CachedInv, EnvTypeOK
  <2>2. /\ cached[k].until - Longest - FetchTime \in Int
        /\ cached[k].until - Longest - FetchTime <= time
    BY <2>1, LongestIsLongest, EnvCacheAssumption
  <2>3. \A v \in EnvValues, t \in Int :
            HeldSince(k, v, t) /\ t <= time => HeldSince(k, v, t)'
    BY HeldStays
  <2> DEFINE t == cached[k].until - Longest - FetchTime
  <2>4. \E r \in Refs :
            KeyOf[r] = k /\ (value'[r] = cached[k].value
                              \/ lastHeld'[r][cached[k].value] >= t)
    BY <2>1, <2>2, <2>3 DEF HeldSince
  <2> QED BY <1>2, <2>4 DEF HeldSince
<1> QED BY <1>2, <1>4, <1>5, <1>6, <1>7 DEF BoundedStaleness

(* Every step of the cache and of the server's values. *)
LEMMA EnvStep == EnvInv /\ [EnvNext]_envVars => EnvInv'
<1> SUFFICES ASSUME EnvInv, [EnvNext]_envVars PROVE EnvInv'
  OBVIOUS
<1>1. CASE UNCHANGED envVars
  BY <1>1 DEF envVars, EnvInv, EnvTypeOK, ClockInv, AnswerInv, CachedInv,
              BoundedStaleness, HeldSince
<1>2. CASE EnvNext
  BY <1>2, HitKeeps, FetchKeeps, SetKeepsEnv, TickKeeps, EnvChangesKeep
     DEF EnvNext, Reader
<1> QED BY <1>1, <1>2

-----------------------------------------------------------------------------
(* RestMapper: what a mapper that says NoMatch proves about the server.    *)

(* A call has flushed the mapper it used, and not set another since, or    *)
(* its two minutes passed after it had.                                    *)
PastFlush(c) == step[c] \in {"test", "sleep"} \/ overdue[c]

(* A call knows of the type being absent now. *)
SeenInv == \A c \in Lookups : ~served /\ step[c] # "idle" => absent[c]

(* A mapper that lacks the type and that a call can get after its flush    *)
(* was loaded during the call.                                             *)
StaleInv ==
    \A c \in Lookups, m \in Mappers :
        PastFlush(c) /\ m \in {restMapper, rm[c]} /\ heap[m].view = "without" =>
            absent[c]

(* So a call that is about to find its time is up has seen it absent. *)
OverdueInv ==
    \A c \in Lookups :
        /\ overdue[c] /\ step[c] \in {"flush", "test"} => absent[c]
        /\ step[c] = "idle" => ~overdue[c]

(* Where a nil mapper comes from, and where a mapper and a result are kept. *)
FieldInv ==
    \A c \in Lookups :
        /\ step[c] = "read" /\ restMapper = NoMapper => flushed[c]
        /\ step[c] = "map" /\ rm[c] = NoMapper => flushed[c]
        /\ rm[c] # NoMapper => step[c] \in {"map", "flush"}
        /\ mapped[c] # "none" => step[c] = "done"

MapperInv ==
    MapperTypeOK /\ SeenInv /\ StaleInv /\ OverdueInv /\ FieldInv /\ TruthfulMapping

(* Before any lookup. *)
LEMMA MapperInitInv == MapperInit => MapperInv
<1> SUFFICES ASSUME MapperInit PROVE MapperInv
  OBVIOUS
<1> USE RestMapperAssumption DEF MapperInit
<1>1. heap \in [Mappers -> [view : Views, fresh : BOOLEAN]]
  <2>1. [view |-> "unloaded", fresh |-> TRUE] \in [view : Views, fresh : BOOLEAN]
    BY Zenon DEF Views
  <2> QED BY <2>1
<1>2. MapperTypeOK
  <2>1. served \in BOOLEAN
    BY Zenon
  <2>2. /\ overdue \in [Lookups -> BOOLEAN] /\ absent \in [Lookups -> BOOLEAN]
        /\ flushed \in [Lookups -> BOOLEAN]
    BY Zenon
  <2>3. typeChanges \in 0 .. MaxTypeChanges
    OBVIOUS
  <2> QED BY <1>1, <2>1, <2>2, <2>3 DEF MapperTypeOK
<1>3. /\ SeenInv /\ StaleInv /\ OverdueInv /\ FieldInv /\ TruthfulMapping
  BY DEF SeenInv, StaleInv, OverdueInv, FieldInv, TruthfulMapping, PastFlush
<1> QED BY <1>2, <1>3 DEF MapperInv

(* While a call has no mapper in use, one is free: the others and the      *)
(* field hold at most as many as there are calls.                          *)
LEMMA OneIsFree ==
    ASSUME MapperTypeOK, NEW c \in Lookups, rm[c] = NoMapper
    PROVE  Free # {}
<1> DEFINE D == Lookups \ {c}
           f == [d \in D |-> rm[d]]
           T == {rm[d] : d \in D}
<1>1. /\ IsFiniteSet(D) /\ Cardinality(D) = Cardinality(Lookups) - 1
      /\ Cardinality(Lookups) \in Nat /\ Cardinality(Mappers) \in Nat
  BY RestMapperAssumption, FS_RemoveElement, FS_CardinalityType
<1>2. IsFiniteSet(T) /\ Cardinality(T) <= Cardinality(D)
  <2>1. f \in Surjection(D, T)
    BY DEF Surjection
  <2> QED BY <1>1, <2>1, FS_Surjection
<1>3. /\ IsFiniteSet(T \union {restMapper})
      /\ Cardinality(T \union {restMapper}) <= Cardinality(Lookups)
  <2>1. Cardinality(T) \in Nat
    BY <1>2, FS_CardinalityType
  <2>2. /\ IsFiniteSet(T \union {restMapper})
        /\ Cardinality(T \union {restMapper}) <= Cardinality(T) + 1
    <3> HIDE DEF T
    <3>1. /\ IsFiniteSet(T \union {restMapper})
          /\ Cardinality(T \union {restMapper})
                = IF restMapper \in T THEN Cardinality(T) ELSE Cardinality(T) + 1
      BY <1>2, FS_AddElement
    <3> QED BY <2>1, <3>1
  <2>3. Cardinality(T \union {restMapper}) \in Nat
    BY <2>2, FS_CardinalityType
  <2> HIDE DEF T
  <2> QED BY <1>1, <1>2, <2>1, <2>2, <2>3
<1>4. ~ Mappers \subseteq T \union {restMapper}
  <2> SUFFICES ASSUME Mappers \subseteq T \union {restMapper} PROVE FALSE
    OBVIOUS
  <2>1. Cardinality(Mappers) <= Cardinality(T \union {restMapper})
    BY <1>3, FS_Subset
  <2>2. Cardinality(T \union {restMapper}) \in Nat
    BY <1>3, FS_CardinalityType
  <2> HIDE DEF T
  <2> QED BY <1>1, <1>3, <2>1, <2>2, RestMapperAssumption
<1> QED BY <1>4, RestMapperAssumption DEF Free, MapperTypeOK

(* One call goes from a place to the next. *)
LEMMA MoveSets ==
    ASSUME MapperTypeOK, NEW c \in Lookups, NEW from,
           NEW to \in {"idle", "get", "read", "create", "map", "flush", "test",
                       "sleep", "done"},
           Move(c, from, to)
    PROVE  /\ step[c] = from /\ step'[c] = to
           /\ \A d \in Lookups \ {c} : step'[d] = step[d]
           /\ step' \in [Lookups -> {"idle", "get", "read", "create", "map", "flush",
                                     "test", "sleep", "done"}]
BY DEF MapperTypeOK, Move

(* A call begins: what the server lacks then is lacking during the call. *)
LEMMA BeginKeepsMapping ==
    ASSUME MapperInv, NEW c \in Lookups, Begin(c)
    PROVE  MapperInv'
<1> USE DEF MapperInv
<1>1. /\ Move(c, "idle", "get")
      /\ absent' = [absent EXCEPT ![c] = ~served]
      /\ UNCHANGED <<served, typeChanges, disk, heap, restMapper, rm, overdue,
                     mapped, flushed>>
  BY DEF Begin, mapperServer
<1>2. /\ step[c] = "idle" /\ step'[c] = "get"
      /\ \A d \in Lookups \ {c} : step'[d] = step[d]
      /\ step' \in [Lookups -> {"idle", "get", "read", "create", "map", "flush",
                                "test", "sleep", "done"}]
  BY <1>1, MoveSets
<1>3. /\ absent'[c] <=> ~served
      /\ \A d \in Lookups \ {c} : absent'[d] <=> absent[d]
  BY <1>1 DEF MapperTypeOK
<1>4. absent' \in [Lookups -> BOOLEAN]
  BY <1>1, Zenon DEF MapperTypeOK
<1>5. MapperTypeOK'
  BY <1>1, <1>2, <1>4 DEF MapperTypeOK
<1>6. SeenInv'
  BY <1>1, <1>2, <1>3 DEF SeenInv
<1>7. StaleInv' /\ OverdueInv'
  BY <1>1, <1>2, <1>3 DEF StaleInv, OverdueInv, PastFlush
<1>8. FieldInv' /\ TruthfulMapping'
  BY <1>1, <1>2, <1>3 DEF FieldInv, TruthfulMapping
<1> QED BY <1>5, <1>6, <1>7, <1>8

(* A call tests and reads the field, waits, or returns. *)
LEMMA CallKeepsMapping ==
    ASSUME MapperInv, NEW c \in Lookups,
           \/ TestField(c) \/ ReadField(c) \/ MapFails(c) \/ Panic(c)
           \/ TestTime(c) \/ Sleep(c)
    PROVE  MapperInv'
<1> USE DEF MapperInv
<1>1. UNCHANGED <<served, typeChanges, disk, heap, restMapper, absent>>
  BY DEF TestField, ReadField, MapFails, Panic, TestTime, Sleep, mapperServer
<1>2. PICK from, to :
          /\ Move(c, from, to)
          /\ \/ TestField(c) /\ from = "get"
                /\ to = IF restMapper # NoMapper THEN "read" ELSE "create"
             \/ ReadField(c) /\ from = "read" /\ to = "map"
             \/ (MapFails(c) \/ Panic(c)) /\ from = "map" /\ to = "done"
             \/ TestTime(c) /\ from = "test"
                /\ to = IF overdue[c] THEN "done" ELSE "sleep"
             \/ Sleep(c) /\ from = "sleep" /\ to = "get"
  BY DEF TestField, ReadField, MapFails, Panic, TestTime, Sleep, Finish
<1>3. /\ step[c] = from /\ step'[c] = to
      /\ \A d \in Lookups \ {c} : step'[d] = step[d]
      /\ step' \in [Lookups -> {"idle", "get", "read", "create", "map", "flush",
                                "test", "sleep", "done"}]
  BY <1>2, MoveSets
<1>4. /\ rm' \in [Lookups -> Mappers \union {NoMapper}]
      /\ mapped' \in [Lookups -> {"none", "mapping", "error", "timeout", "panic"}]
      /\ \A d \in Lookups \ {c} : rm'[d] = rm[d] /\ mapped'[d] = mapped[d]
  BY DEF MapperTypeOK, TestField, ReadField, MapFails, Panic, TestTime, Sleep, Finish
<1>5. /\ overdue' \in [Lookups -> BOOLEAN] /\ flushed' \in [Lookups -> BOOLEAN]
      /\ \A d \in Lookups \ {c} :
            (overdue'[d] <=> overdue[d]) /\ (flushed'[d] <=> flushed[d])
  <2>1. /\ UNCHANGED overdue
           \/ \E late \in BOOLEAN : overdue' = [overdue EXCEPT ![c] = overdue[c] \/ late]
        /\ UNCHANGED flushed \/ flushed' = [flushed EXCEPT ![c] = FALSE]
    BY DEF TestField, ReadField, MapFails, Panic, TestTime, Sleep
  <2>2. overdue \in [Lookups -> BOOLEAN] /\ flushed \in [Lookups -> BOOLEAN]
    BY DEF MapperTypeOK
  <2>3. overdue' \in [Lookups -> BOOLEAN] /\ flushed' \in [Lookups -> BOOLEAN]
    BY <2>1, <2>2, Zenon
  <2>4. \A d \in Lookups \ {c} :
            (overdue'[d] <=> overdue[d]) /\ (flushed'[d] <=> flushed[d])
    BY <2>1, <2>2
  <2> QED BY <2>3, <2>4
<1>6. MapperTypeOK'
  BY <1>1, <1>3, <1>4, <1>5 DEF MapperTypeOK
<1>7. SeenInv'
  BY <1>1, <1>2, <1>3 DEF SeenInv
<1>8. /\ overdue'[c] => overdue[c] \/ step[c] = "sleep"
      /\ overdue'[c] /\ to \in {"flush", "test"} => overdue[c]
      /\ rm'[c] \in {rm[c], restMapper, NoMapper}
  BY <1>2, <1>3
     DEF MapperTypeOK, TestField, ReadField, MapFails, Panic, TestTime, Sleep, Finish
<1>9. StaleInv' /\ OverdueInv'
  <2>1. PastFlush(c)' => PastFlush(c)
    BY <1>2, <1>3, <1>8 DEF PastFlush
  <2>2. \A d \in Lookups \ {c} : PastFlush(d)' <=> PastFlush(d)
    BY <1>3, <1>5 DEF PastFlush
  <2>3. StaleInv'
    BY <1>1, <1>4, <1>8, <2>1, <2>2, RestMapperAssumption DEF StaleInv
  <2>4. OverdueInv'
    BY <1>1, <1>2, <1>3, <1>5, <1>8 DEF OverdueInv
  <2> QED BY <2>3, <2>4
<1>10. FieldInv' /\ TruthfulMapping'
  <2>1. CASE TestField(c)
    BY <1>1, <1>2, <1>3, <1>4, <1>5, <2>1
       DEF TestField, FieldInv, TruthfulMapping, Move
  <2>2. CASE ReadField(c)
    BY <1>1, <1>2, <1>3, <1>4, <1>5, <2>2
       DEF ReadField, FieldInv, TruthfulMapping, Move, MapperTypeOK
  <2>3. CASE MapFails(c) \/ Panic(c)
    BY <1>1, <1>2, <1>3, <1>4, <1>5, <2>3
       DEF MapFails, Panic, Finish, FieldInv, TruthfulMapping, Move, MapperTypeOK
  <2>4. CASE TestTime(c)
    BY <1>1, <1>2, <1>3, <1>4, <1>5, <2>4
       DEF TestTime, FieldInv, TruthfulMapping, OverdueInv, Move, MapperTypeOK
  <2>5. CASE Sleep(c)
    BY <1>1, <1>2, <1>3, <1>4, <1>5, <2>5
       DEF Sleep, FieldInv, TruthfulMapping, Move
  <2> QED BY <2>1, <2>2, <2>3, <2>4, <2>5
<1> QED BY <1>6, <1>7, <1>9, <1>10

(* A call sets the field to a mapper that nobody has and that has loaded   *)
(* nothing.                                                                *)
LEMMA CreateKeepsMapping ==
    ASSUME MapperInv, NEW c \in Lookups, Create(c)
    PROVE  MapperInv'
<1> USE DEF MapperInv
<1>1. PICK m \in Free :
          /\ restMapper' = m
          /\ heap' = [heap EXCEPT ![m] = [view |-> "unloaded", fresh |-> TRUE]]
  <2>1. step[c] = "create"
    BY DEF Create, Move
  <2>2. rm[c] = NoMapper
    BY <2>1 DEF FieldInv
  <2>3. Free # {}
    BY <2>2, OneIsFree
  <2>4. (CHOOSE m \in Free : TRUE) \in Free
    BY <2>3
  <2> QED BY <2>4 DEF Create
<1>2. UNCHANGED <<served, typeChanges, disk, rm, overdue, mapped, absent, flushed>>
  BY DEF Create, mapperServer
<1>3. /\ step[c] = "create" /\ step'[c] = "read"
      /\ \A d \in Lookups \ {c} : step'[d] = step[d]
      /\ step' \in [Lookups -> {"idle", "get", "read", "create", "map", "flush",
                                "test", "sleep", "done"}]
  BY MoveSets DEF Create
<1>4. /\ m \in Mappers /\ m # NoMapper /\ \A d \in Lookups : rm[d] # m
      /\ heap'[m].view = "unloaded"
      /\ \A n \in Mappers \ {m} : heap'[n] = heap[n]
  BY <1>1, RestMapperAssumption DEF Free, MapperTypeOK
<1>5. heap' \in [Mappers -> [view : Views, fresh : BOOLEAN]]
  <2>1. [view |-> "unloaded", fresh |-> TRUE] \in [view : Views, fresh : BOOLEAN]
    BY Zenon DEF Views
  <2>2. heap \in [Mappers -> [view : Views, fresh : BOOLEAN]]
    BY DEF MapperTypeOK
  <2> QED BY <1>1, <1>4, <2>1, <2>2, Zenon
<1>6. MapperTypeOK'
  BY <1>1, <1>2, <1>3, <1>4, <1>5 DEF MapperTypeOK
<1>7. SeenInv' /\ OverdueInv'
  BY <1>2, <1>3 DEF SeenInv, OverdueInv
<1>8. StaleInv'
  <2>1. \A d \in Lookups : PastFlush(d)' => PastFlush(d)
    BY <1>2, <1>3 DEF PastFlush
  <2> QED BY <1>1, <1>2, <1>4, <2>1 DEF StaleInv
<1>9. FieldInv' /\ TruthfulMapping'
  BY <1>1, <1>2, <1>3, <1>4 DEF FieldInv, TruthfulMapping
<1> QED BY <1>6, <1>7, <1>8, <1>9

(* What a mapper that lacks the type after it was asked had loaded, it had *)
(* from the server; or the server lacks the type now.                      *)
LEMMA LoadedWithout ==
    ASSUME MapperTypeOK, NEW m \in Mappers
    PROVE  /\ Loaded(m) \in [view : Views, fresh : BOOLEAN]
           /\ Loaded(m).view \in {"with", "without"}
           /\ Loaded(m).view = "without" => heap[m].view = "without" \/ ~served
<1>1. /\ heap[m] \in [view : Views, fresh : BOOLEAN]
      /\ heap[m].view \in Views
  BY DEF MapperTypeOK
<1>2. Live \in {"with", "without"} /\ (Live = "without" => ~served)
  BY DEF Live
<1>3. /\ [view |-> "with", fresh |-> FALSE] \in [view : Views, fresh : BOOLEAN]
      /\ [view |-> Live, fresh |-> TRUE] \in [view : Views, fresh : BOOLEAN]
  BY <1>2, Zenon DEF Views
<1>4. \/ Loaded(m) = [view |-> "with", fresh |-> FALSE]
      \/ Loaded(m) = heap[m] /\ heap[m].view \in {"with", "without"}
      \/ Loaded(m) = [view |-> Live, fresh |-> TRUE]
  BY DEF Loaded
<1>5. Loaded(m) \in [view : Views, fresh : BOOLEAN]
  BY <1>1, <1>3, <1>4, Zenon
<1> QED BY <1>2, <1>4, <1>5

(* A call asks its mapper. *)
LEMMA MapKeepsMapping ==
    ASSUME MapperInv, NEW c \in Lookups, Map(c)
    PROVE  MapperInv'
<1> USE DEF MapperInv
<1> DEFINE loaded == Loaded(rm[c])
<1>1. /\ rm[c] \in Mappers
      /\ heap' = [heap EXCEPT ![rm[c]] = loaded]
      /\ UNCHANGED <<served, typeChanges, restMapper, overdue, absent, flushed>>
      /\ disk' = IF loaded # heap[rm[c]] /\ loaded.fresh THEN loaded.view ELSE disk
  BY DEF Map, MapperTypeOK
<1>2. /\ loaded \in [view : Views, fresh : BOOLEAN]
      /\ loaded.view \in {"with", "without"}
      /\ loaded.view = "without" => heap[rm[c]].view = "without" \/ ~served
  BY <1>1, LoadedWithout
<1>3. \/ /\ loaded.view = "with"
         /\ Finish(c, "mapping")
      \/ /\ loaded.view = "without"
         /\ Move(c, "map", "flush") /\ UNCHANGED <<mapped, rm>>
  BY <1>2 DEF Map
<1> HIDE DEF loaded
<1>4. PICK to \in {"flush", "done"} : Move(c, "map", to)
  BY <1>3 DEF Finish
<1>5. /\ step[c] = "map" /\ step'[c] = to
      /\ \A d \in Lookups \ {c} : step'[d] = step[d]
      /\ step' \in [Lookups -> {"idle", "get", "read", "create", "map", "flush",
                                "test", "sleep", "done"}]
  BY <1>4, MoveSets
<1>6. to = "flush" => loaded.view = "without" /\ UNCHANGED <<mapped, rm>>
  BY <1>3, <1>5, MoveSets DEF Finish
<1>7. /\ rm' \in [Lookups -> Mappers \union {NoMapper}]
      /\ mapped' \in [Lookups -> {"none", "mapping", "error", "timeout", "panic"}]
      /\ \A d \in Lookups \ {c} : rm'[d] = rm[d] /\ mapped'[d] = mapped[d]
      /\ rm'[c] \in {rm[c], NoMapper} /\ mapped'[c] \in {mapped[c], "mapping"}
      /\ to = "done" => rm'[c] = NoMapper
  <2>1. CASE Finish(c, "mapping")
    BY <2>1 DEF Finish, MapperTypeOK
  <2>2. CASE Move(c, "map", "flush") /\ UNCHANGED <<mapped, rm>>
    <3>1. to = "flush"
      BY <1>5, <2>2, MoveSets
    <3> QED BY <2>2, <3>1 DEF MapperTypeOK
  <2> QED BY <1>3, <2>1, <2>2
<1>8. MapperTypeOK'
  <2>1. disk' \in {"none", "with", "without"}
    BY <1>1, <1>2 DEF MapperTypeOK
  <2>2. heap' \in [Mappers -> [view : Views, fresh : BOOLEAN]]
    <3>1. heap \in [Mappers -> [view : Views, fresh : BOOLEAN]]
      BY DEF MapperTypeOK
    <3> QED BY <1>1, <1>2, <3>1, Zenon
  <2> QED BY <1>1, <1>5, <1>7, <2>1, <2>2 DEF MapperTypeOK
<1>9. SeenInv'
  BY <1>1, <1>5 DEF SeenInv
<1>10. \A d \in Lookups :
          PastFlush(d) /\ rm[c] \in {restMapper, rm[d]} /\ loaded.view = "without"
              => absent[d]
  <2> SUFFICES ASSUME NEW d \in Lookups, PastFlush(d),
                      rm[c] \in {restMapper, rm[d]}, loaded.view = "without"
               PROVE  absent[d]
    OBVIOUS
  <2>1. CASE heap[rm[c]].view = "without"
    BY <1>1, <2>1 DEF StaleInv
  <2>2. CASE ~served
    BY <2>2 DEF SeenInv, OverdueInv, PastFlush
  <2> QED BY <1>2, <2>1, <2>2
<1>11. StaleInv'
  <2>1. \A d \in Lookups : PastFlush(d)' => PastFlush(d)
    BY <1>1, <1>5 DEF PastFlush
  <2>2. /\ heap'[rm[c]] = loaded
        /\ \A m \in Mappers \ {rm[c]} : heap'[m] = heap[m]
    BY <1>1 DEF MapperTypeOK
  <2>3. \A d \in Lookups : rm'[d] \in {rm[d], NoMapper}
    BY <1>7
  <2> SUFFICES ASSUME NEW d \in Lookups, NEW m \in Mappers, PastFlush(d)',
                      m \in {restMapper, rm'[d]}, heap'[m].view = "without"
               PROVE  absent[d]
    BY <1>1 DEF StaleInv
  <2>4. PastFlush(d) /\ m \in {restMapper, rm[d]}
    BY <2>1, <2>3, RestMapperAssumption
  <2> QED BY <1>10, <2>2, <2>4 DEF StaleInv
<1>12. OverdueInv'
  <2>1. to = "flush" /\ overdue[c] => absent[c]
    BY <1>6, <1>10 DEF PastFlush
  <2> QED BY <1>1, <1>5, <2>1 DEF OverdueInv
<1>13. FieldInv' /\ TruthfulMapping'
  BY <1>1, <1>5, <1>6, <1>7 DEF FieldInv, TruthfulMapping
<1> QED BY <1>8, <1>9, <1>11, <1>12, <1>13

(* A call, or another one of the client, sets the field to nil. *)
LEMMA FlushKeepsMapping ==
    ASSUME MapperInv,
           \/ \E c \in Lookups : Flush(c)
           \/ ResetRestMapper
    PROVE  MapperInv'
<1> USE DEF MapperInv
<1>1. /\ restMapper' = NoMapper
      /\ UNCHANGED <<served, typeChanges, disk, heap, overdue, mapped, absent>>
  BY DEF Flush, ResetRestMapper, mapperServer
<1>2. /\ step' \in [Lookups -> {"idle", "get", "read", "create", "map", "flush",
                                "test", "sleep", "done"}]
      /\ \A d \in Lookups : \/ step'[d] = step[d] /\ rm'[d] = rm[d]
                           \/ /\ step[d] = "flush" /\ step'[d] = "test"
                              /\ rm'[d] = NoMapper
      /\ rm' \in [Lookups -> Mappers \union {NoMapper}]
  BY DEF Flush, ResetRestMapper, Move, MapperTypeOK
<1>3. /\ \A d \in Lookups :
            flushed[d] \/ step'[d] = "read" => flushed'[d]
      /\ flushed' \in [Lookups -> BOOLEAN]
  <2>1. CASE ResetRestMapper
    BY <2>1 DEF ResetRestMapper
  <2>2. CASE \E c \in Lookups : Flush(c)
    <3>1. PICK c \in Lookups : Flush(c)
      BY <2>2
    <3>2. step'[c] = "test" /\ \A d \in Lookups \ {c} : step'[d] = step[d]
      BY <3>1, MoveSets DEF Flush
    <3> QED BY <3>1, <3>2 DEF Flush
  <2> QED BY <2>1, <2>2
<1>4. MapperTypeOK'
  BY <1>1, <1>2, <1>3 DEF MapperTypeOK
<1>5. SeenInv' /\ OverdueInv'
  BY <1>1, <1>2 DEF SeenInv, OverdueInv
<1>6. StaleInv'
  <2> SUFFICES ASSUME NEW d \in Lookups, NEW m \in Mappers, PastFlush(d)',
                      m = rm'[d], heap[m].view = "without"
               PROVE  absent[d]
    BY <1>1, RestMapperAssumption DEF StaleInv
  <2>1. rm'[d] # NoMapper
    BY RestMapperAssumption
  <2> QED BY <1>1, <1>2, <2>1 DEF StaleInv, PastFlush
<1>7. FieldInv' /\ TruthfulMapping'
  BY <1>1, <1>2, <1>3 DEF FieldInv, TruthfulMapping
<1> QED BY <1>4, <1>5, <1>6, <1>7

(* The type comes or goes, or the files change. *)
LEMMA ServerKeepsMapping ==
    ASSUME MapperInv, TypeChanges \/ DiskChanges
    PROVE  MapperInv'
<1> USE DEF MapperInv
<1>1. CASE TypeChanges
  <2>1. /\ UNCHANGED <<disk, heap, restMapper, step, rm, overdue, mapped, flushed>>
        /\ (~served' => served)
        /\ \A c \in Lookups : absent'[c] <=> (absent[c] \/ served)
    BY <1>1 DEF TypeChanges
  <2>2. served' \in BOOLEAN /\ absent' \in [Lookups -> BOOLEAN]
    BY <1>1, Zenon DEF TypeChanges
  <2>3. typeChanges' \in 0 .. MaxTypeChanges
    BY <1>1, RestMapperAssumption DEF TypeChanges, MapperTypeOK
  <2> QED BY <2>1, <2>2, <2>3 DEF MapperTypeOK, SeenInv, StaleInv, OverdueInv, FieldInv,
                      TruthfulMapping, PastFlush
<1>2. CASE DiskChanges
  BY <1>2 DEF DiskChanges, Live, MapperTypeOK, SeenInv, StaleInv, OverdueInv, FieldInv,
              TruthfulMapping, PastFlush
<1> QED BY <1>1, <1>2

(* Every step of the mapper's part. *)
LEMMA MapperStep == MapperInv /\ [MapperNext]_mapperVars => MapperInv'
<1> SUFFICES ASSUME MapperInv, [MapperNext]_mapperVars PROVE MapperInv'
  OBVIOUS
<1>1. CASE UNCHANGED mapperVars
  BY <1>1 DEF mapperVars, MapperInv, MapperTypeOK, SeenInv, StaleInv, OverdueInv,
              FieldInv, TruthfulMapping, PastFlush
<1>2. CASE MapperNext
  BY <1>2, BeginKeepsMapping, CallKeepsMapping, CreateKeepsMapping, MapKeepsMapping,
     FlushKeepsMapping, ServerKeepsMapping DEF MapperNext, Lookup
<1> QED BY <1>1, <1>2

-----------------------------------------------------------------------------
(* RestConfig: the configuration that all calls share.                     *)

(* A call that no other overlaps is the only one that runs, and the shared *)
(* configuration holds what it has written so far.                         *)
AloneInv ==
    \A b \in Running \ mixed :
        /\ Running = {b}
        /\ turn[b] \in {"path", "build"} => config.group = want[b]
        /\ turn[b] = "build" => config.path = Path(want[b])

WantInv == \A b \in Builders : turn[b] # "idle" => want[b] \in Groups

ConfigInv == ConfigTypeOK /\ WantInv /\ AloneInv /\ ClientForGroup

-----------------------------------------------------------------------------

(* The path of a group is one of the two that configurations have. *)
LEMMA PathType == \A g : Path(g) \in {"/api", "/apis"}
BY DEF Path

(* Before any call the invariant holds. *)
LEMMA ConfigInitInv == ConfigInit => ConfigInv
BY DEF ConfigInit, ConfigInv, ConfigTypeOK, WantInv, AloneInv, ClientForGroup,
       Running, Configs

(* A call that begins beside others marks them and itself as mixed; one    *)
(* that begins alone has nothing to preserve yet.                          *)
LEMMA BeginKeepsConfig ==
    ASSUME ConfigInv, NEW b \in Builders, BeginClient(b)
    PROVE  ConfigInv'
<1> USE DEF ConfigInv
<1>1. PICK g \in Groups : want' = [want EXCEPT ![b] = g]
  BY DEF BeginClient
<1>2. /\ turn[b] = "idle" /\ turn' = [turn EXCEPT ![b] = "reset"]
      /\ mixed' = mixed \union (IF Running = {} THEN {} ELSE Running \union {b})
      /\ UNCHANGED <<config, client>>
  BY DEF BeginClient, Turn
<1>3. ConfigTypeOK'
  BY <1>1, <1>2 DEF ConfigTypeOK, Running
<1>4. WantInv'
  BY <1>1, <1>2 DEF ConfigTypeOK, WantInv
<1>5. Running' = Running \union {b}
  BY <1>2 DEF ConfigTypeOK, Running
<1>6. AloneInv'
  <2>1. CASE Running = {}
    BY <1>2, <1>5, <2>1 DEF ConfigTypeOK, AloneInv
  <2>2. CASE Running # {}
    BY <1>2, <1>5, <2>2 DEF AloneInv
  <2> QED BY <2>1, <2>2
<1>7. ClientForGroup'
  BY <1>1, <1>2 DEF ConfigTypeOK, ClientForGroup
<1> QED BY <1>3, <1>4, <1>6, <1>7

(* A write to the shared configuration by a call that runs: it disturbs    *)
(* only calls that are mixed, for a call alone is the one that writes.     *)
LEMMA WriteKeepsConfig ==
    ASSUME ConfigInv, NEW b \in Builders, ResetConfig(b) \/ SetGroup(b) \/ SetPath(b)
    PROVE  ConfigInv'
<1> USE DEF ConfigInv
<1>1. UNCHANGED <<want, client, mixed>>
  BY DEF ResetConfig, SetGroup, SetPath
<1>2. /\ turn[b] \in {"reset", "group", "path"}
      /\ turn' = [turn EXCEPT ![b] = CASE turn[b] = "reset" -> "group"
                                       [] turn[b] = "group" -> "path"
                                       [] turn[b] = "path" -> "build"]
  BY DEF ResetConfig, SetGroup, SetPath, Turn
<1>3. turn'[b] \in {"group", "path", "build"} /\ want[b] \in Groups
  BY <1>2 DEF ConfigTypeOK, WantInv
<1>4. config' \in Configs
  BY <1>3, PathType DEF ConfigTypeOK, Configs, ResetConfig, SetGroup, SetPath
<1>5. ConfigTypeOK'
  BY <1>1, <1>2, <1>3, <1>4 DEF ConfigTypeOK
<1>6. WantInv'
  BY <1>1, <1>2, <1>3 DEF ConfigTypeOK, WantInv
<1>7. Running' = Running /\ b \in Running
  BY <1>2, <1>3 DEF ConfigTypeOK, Running
<1>8. AloneInv'
  <2> SUFFICES ASSUME NEW a \in Running \ mixed
               PROVE  /\ Running = {a}
                      /\ turn'[a] \in {"path", "build"} => config'.group = want[a]
                      /\ turn'[a] = "build" => config'.path = Path(want[a])
    BY <1>1, <1>7 DEF AloneInv
  <2>1. Running = {a} /\ a = b
    BY <1>7 DEF AloneInv
  <2>2. CASE ResetConfig(b)
    BY <1>2, <2>1, <2>2 DEF ResetConfig, Turn, ConfigTypeOK
  <2>3. CASE SetGroup(b)
    BY <1>2, <2>1, <2>3 DEF SetGroup, Turn, ConfigTypeOK, Configs
  <2>4. CASE SetPath(b)
    BY <2>1, <2>4 DEF SetPath, Turn, ConfigTypeOK, Configs, AloneInv
  <2> QED BY <2>1, <2>2, <2>3, <2>4
<1>9. ClientForGroup'
  BY <1>1, <1>2, <1>3 DEF ConfigTypeOK, ClientForGroup
<1> QED BY <1>5, <1>6, <1>8, <1>9

(* The client built alone is that of the configuration the call wrote. *)
LEMMA BuildKeepsConfig ==
    ASSUME ConfigInv, NEW b \in Builders, Build(b)
    PROVE  ConfigInv'
<1> USE DEF ConfigInv
<1>1. /\ turn[b] = "build" /\ turn' = [turn EXCEPT ![b] = "done"]
      /\ client' = [client EXCEPT ![b] = config]
      /\ UNCHANGED <<config, want, mixed>>
  BY DEF Build, Turn
<1>2. ConfigTypeOK'
  BY <1>1 DEF ConfigTypeOK
<1>3. WantInv'
  BY <1>1 DEF ConfigTypeOK, WantInv
<1>4. Running' = Running \ {b} /\ b \in Running
  BY <1>1 DEF ConfigTypeOK, Running
<1>5. AloneInv'
  BY <1>1, <1>4 DEF AloneInv, ConfigTypeOK
<1>6. b \notin mixed => config = [group |-> want[b], path |-> Path(want[b])]
  BY <1>1, <1>4 DEF AloneInv, ConfigTypeOK, Configs
<1>7. ClientForGroup'
  BY <1>1, <1>6 DEF ConfigTypeOK, ClientForGroup
<1> QED BY <1>2, <1>3, <1>5, <1>7

(* Every step of the part of the shared configuration. *)
LEMMA ConfigStep == ConfigInv /\ [ConfigNext]_configVars => ConfigInv'
<1> SUFFICES ASSUME ConfigInv, [ConfigNext]_configVars PROVE ConfigInv'
  OBVIOUS
<1>1. CASE UNCHANGED configVars
  BY <1>1 DEF configVars, ConfigInv, ConfigTypeOK, WantInv, AloneInv, ClientForGroup,
              Running
<1>2. CASE ConfigNext
  BY <1>2, BeginKeepsConfig, WriteKeepsConfig, BuildKeepsConfig DEF ConfigNext
<1> QED BY <1>1, <1>2

-----------------------------------------------------------------------------
(* Conditions: the statuses that controllers write.                        *)

(* Versions are given out in order: the object has the last one, and an    *)
(* item in hand at most that.                                              *)
VersionInv ==
    /\ stored # Gone => stored.version = version
    /\ \A c \in Controllers : item[c] # Gone => item[c].version <= version

(* An item with the version of the object differs from it only in what its *)
(* controller has set since it was read.                                   *)
AgreeInv ==
    \A c \in Controllers :
        item[c] # Gone /\ stored # Gone /\ item[c].version = stored.version =>
            \A t \in Types \ asked[c] : item[c].conds[t] = stored.conds[t]

(* What an item in hand says, the object has said, or the update failed. *)
ShownInv ==
    \A c \in Controllers, t \in Types :
        \/ item[c].conds[t] = Absent
        \/ item[c].conds[t] \in shown[c][t]
        \/ t \in unsaved[c]

ConditionsInv == ConditionsTypeOK /\ VersionInv /\ AgreeInv /\ ShownInv /\ NilMeansSet

-----------------------------------------------------------------------------

(* An object that is there has a version, and no other is Gone. *)
LEMMA GoneIsNoItem == \A i \in Items : i # Gone
BY DEF Items, Gone

(* The conditions of an item, or of none. *)
LEMMA CondsType ==
    ASSUME NEW i \in Items \union {Gone}
    PROVE  i.conds \in [Types -> Statuses \union {Absent}]
BY DEF Items, Gone

(* The statuses that conditions say, by type. *)
LEMMA SaysType ==
    ASSUME NEW conds \in [Types -> Statuses \union {Absent}]
    PROVE  /\ Says(conds) \in [Types -> SUBSET Statuses]
           /\ \A t \in Types : conds[t] # Absent => conds[t] \in Says(conds)[t]
BY ConditionsAssumption DEF Says

(* Before the first step the invariant holds. *)
LEMMA ConditionsInitInv == ConditionsInit => ConditionsInv
BY ConditionsAssumption
   DEF ConditionsInit, ConditionsInv, ConditionsTypeOK, VersionInv, AgreeInv, ShownInv,
       NilMeansSet, Items, Gone, NotSaid

(* Reading the object anew starts the history of the item afresh. *)
LEMMA RefreshKeepsConditions ==
    ASSUME ConditionsInv, NEW c \in Controllers, Refresh(c)
    PROVE  ConditionsInv'
<1> USE DEF ConditionsInv
<1>1. /\ item' = [item EXCEPT ![c] = stored]
      /\ said' = [said EXCEPT ![c] = NotSaid]
      /\ shown' = [shown EXCEPT ![c] = Says(stored.conds)]
      /\ asked' = [asked EXCEPT ![c] = {}]
      /\ unsaved' = [unsaved EXCEPT ![c] = {}]
      /\ UNCHANGED <<stored, version, writer>>
  BY DEF Refresh
<1>2. /\ Says(stored.conds) \in [Types -> SUBSET Statuses]
      /\ \A t \in Types : stored.conds[t] # Absent =>
                              stored.conds[t] \in Says(stored.conds)[t]
  BY CondsType, SaysType DEF ConditionsTypeOK
<1>3. ConditionsTypeOK'
  BY <1>1, <1>2 DEF ConditionsTypeOK
<1>4. VersionInv'
  BY <1>1, ConditionsAssumption DEF ConditionsTypeOK, VersionInv
<1>5. AgreeInv'
  BY <1>1 DEF ConditionsTypeOK, AgreeInv
<1>6. ShownInv'
  BY <1>1, <1>2 DEF ConditionsTypeOK, ShownInv
<1>7. NilMeansSet'
  BY <1>1 DEF ConditionsTypeOK, NilMeansSet, NotSaid
<1> QED BY <1>3, <1>4, <1>5, <1>6, <1>7

(* A write to the object adds to what every item's history has seen, and  *)
(* takes a version that no item in hand has.                               *)
LEMMA StoreFacts ==
    ASSUME ConditionsTypeOK, VersionInv, NEW w,
           NEW conds \in [Types -> Statuses \union {Absent}], Store(w, conds)
    PROVE  /\ version' \in 1 .. MaxVersions /\ version' = version + 1
           /\ stored' \in Items /\ stored' # Gone
           /\ stored'.conds = conds /\ stored'.version = version'
           /\ writer' = w
           /\ shown' \in [Controllers -> [Types -> SUBSET Statuses]]
           /\ \A d \in Controllers, t \in Types : shown[d][t] \subseteq shown'[d][t]
           /\ \A d \in Controllers, t \in Types :
                  conds[t] # Absent => conds[t] \in shown'[d][t]
           /\ \A d \in Controllers :
                  item[d] # Gone => item[d].version < stored'.version
<1>1. /\ version' = version + 1 /\ version < MaxVersions
      /\ stored' = [conds |-> conds, version |-> version']
      /\ writer' = w
      /\ shown' = [d \in Controllers |->
                      [t \in Types |-> shown[d][t] \union Says(conds)[t]]]
  BY DEF Store
<1>2. version' \in 1 .. MaxVersions
  BY <1>1, ConditionsAssumption DEF ConditionsTypeOK
<1>3. stored' \in Items /\ stored' # Gone
  BY <1>1, <1>2, GoneIsNoItem DEF Items
<1>4. /\ Says(conds) \in [Types -> SUBSET Statuses]
      /\ \A t \in Types : conds[t] # Absent => conds[t] \in Says(conds)[t]
  BY SaysType
<1>5. shown' \in [Controllers -> [Types -> SUBSET Statuses]]
  BY <1>1, <1>4 DEF ConditionsTypeOK
<1>6. \A d \in Controllers, t \in Types : shown[d][t] \subseteq shown'[d][t]
  BY <1>1
<1>7. \A d \in Controllers, t \in Types :
          conds[t] # Absent => conds[t] \in shown'[d][t]
  BY <1>1, <1>4
<1>8. \A d \in Controllers : item[d] # Gone => item[d].version < stored'.version
  BY <1>1, ConditionsAssumption DEF VersionInv, ConditionsTypeOK, Items
<1> QED BY <1>1, <1>2, <1>3, <1>5, <1>6, <1>7, <1>8

(* Setting a condition, by any of its ways. *)
LEMMA SetKeepsConditions ==
    ASSUME ConditionsInv, NEW c \in Controllers, NEW t \in Types, NEW s \in Statuses,
           SetCondition(c, t, s)
    PROVE  ConditionsInv'
<1> USE DEF ConditionsInv
<1>1. CASE SetNothing(c, t, s)
  <2>1. /\ said' = [said EXCEPT ![c] = [result |-> "error", type |-> t, status |-> s]]
        /\ UNCHANGED <<stored, version, writer, item, shown, asked, unsaved>>
    BY <1>1 DEF SetNothing, Say
  <2> QED BY <2>1 DEF ConditionsTypeOK, VersionInv, AgreeInv, ShownInv, NilMeansSet
<1>2. CASE SetUnchanged(c, t, s)
  <2>1. /\ item[c].conds[t] = s
        /\ said' = [said EXCEPT ![c] = [result |-> "nil", type |-> t, status |-> s]]
        /\ UNCHANGED <<stored, version, writer, item, shown, asked, unsaved>>
    BY <1>2 DEF SetUnchanged, Say
  <2>2. s \in shown[c][t] \/ t \in unsaved[c]
    BY <2>1, ConditionsAssumption DEF ShownInv
  <2> QED BY <2>1, <2>2 DEF ConditionsTypeOK, VersionInv, AgreeInv, ShownInv,
                            NilMeansSet
<1>3. CASE SetStored(c, t, s) \/ SetRefused(c, t, s)
  <2>1. /\ item[c] # Gone /\ item[c] \in Items
        /\ item' = [item EXCEPT ![c].conds[t] = s]
        /\ asked' = [asked EXCEPT ![c] = @ \union {t}]
    BY <1>3 DEF SetStored, SetRefused, Change, ConditionsTypeOK
  <2>2. /\ item'[c] \in Items /\ item'[c] # Gone
        /\ item'[c].version = item[c].version
        /\ item'[c].conds = [item[c].conds EXCEPT ![t] = s]
        /\ \A d \in Controllers \ {c} : item'[d] = item[d]
        /\ item' \in [Controllers -> Items \union {Gone}]
    BY <2>1, GoneIsNoItem DEF ConditionsTypeOK, Items
  <2>3. /\ asked' \in [Controllers -> SUBSET Types]
        /\ asked'[c] = asked[c] \union {t}
        /\ \A d \in Controllers \ {c} : asked'[d] = asked[d]
    BY <2>1 DEF ConditionsTypeOK
  <2>4. CASE SetStored(c, t, s)
    <3>1. /\ Store(c, item'[c].conds)
          /\ \/ Say(c, "nil", t, s) /\ UNCHANGED unsaved
             \/ /\ Say(c, "error", t, s)
                /\ unsaved' = [unsaved EXCEPT ![c] = @ \union {t}]
      BY <2>4 DEF SetStored
    <3>2. item'[c].conds \in [Types -> Statuses \union {Absent}]
      BY <2>2 DEF Items
    <3>3. /\ version' \in 1 .. MaxVersions /\ version' = version + 1
          /\ stored' \in Items /\ stored' # Gone
          /\ stored'.conds = item'[c].conds /\ stored'.version = version'
          /\ writer' = c
          /\ shown' \in [Controllers -> [Types -> SUBSET Statuses]]
          /\ \A d \in Controllers, u \in Types : shown[d][u] \subseteq shown'[d][u]
          /\ \A d \in Controllers, u \in Types :
                 item'[c].conds[u] # Absent => item'[c].conds[u] \in shown'[d][u]
          /\ \A d \in Controllers :
                 item[d] # Gone => item[d].version < stored'.version
      BY <3>1, <3>2, StoreFacts
    <3>4. \A d \in Controllers : unsaved[d] \subseteq unsaved'[d]
      BY <3>1 DEF ConditionsTypeOK
    <3>5. ConditionsTypeOK'
      <4> DEFINE Told == [result : {"nil", "error"}, type : Types, status : Statuses]
      <4>1. PICK r \in {"nil", "error"} :
                said' = [said EXCEPT ![c] = [result |-> r, type |-> t, status |-> s]]
        BY <3>1 DEF Say
      <4>2. unsaved' \in [Controllers -> SUBSET Types]
        BY <3>1 DEF ConditionsTypeOK
      <4>3. [result |-> r, type |-> t, status |-> s] \in Told
        OBVIOUS
      <4>4. said \in [Controllers -> {NotSaid} \union Told]
        BY DEF ConditionsTypeOK
      <4> HIDE DEF Told
      <4>5. said' \in [Controllers -> {NotSaid} \union Told]
        BY <4>1, <4>3, <4>4
      <4>6. stored' \in Items \union {Gone} /\ writer' \in Controllers \union {Absent}
        BY <3>3
      <4> QED BY <2>2, <2>3, <3>3, <4>2, <4>5, <4>6 DEF ConditionsTypeOK, Told
    <3>6. \A d \in Controllers : item'[d] # Gone => item'[d].version < version'
      BY <2>1, <2>2, <3>3
    <3>7. VersionInv' /\ AgreeInv'
      BY <3>3, <3>5, <3>6, ConditionsAssumption
         DEF VersionInv, AgreeInv, ConditionsTypeOK, Items
    <3>8. ShownInv'
      BY <2>2, <3>3, <3>4 DEF ShownInv
    <3>9. said'[c].type = t /\ said'[c].status = s
          /\ \A d \in Controllers \ {c} : said'[d] = said[d]
      BY <3>1 DEF Say, ConditionsTypeOK
    <3>10. item'[c].conds[t] = s /\ s # Absent
      BY <2>2, ConditionsAssumption DEF Items
    <3>11. \A d \in Controllers \ {c} : said[d].result = "nil" => said[d].type \in Types
      BY DEF ConditionsTypeOK, NotSaid
    <3>12. NilMeansSet'
      BY <3>3, <3>4, <3>9, <3>10, <3>11 DEF NilMeansSet
    <3> QED BY <3>5, <3>7, <3>8, <3>12
  <2>5. CASE SetRefused(c, t, s)
    <3>1. /\ said' = [said EXCEPT ![c] = [result |-> "error", type |-> t, status |-> s]]
          /\ unsaved' = [unsaved EXCEPT ![c] = @ \union {t}]
          /\ UNCHANGED <<stored, version, writer, shown>>
      BY <2>5 DEF SetRefused, Say
    <3>2. ConditionsTypeOK'
      BY <2>2, <2>3, <3>1 DEF ConditionsTypeOK
    <3>3. VersionInv'
      BY <2>1, <2>2, <3>1 DEF VersionInv
    <3>4. AgreeInv'
      BY <2>1, <2>2, <2>3, <3>1 DEF AgreeInv, Items
    <3>5. ShownInv'
      BY <2>2, <3>1 DEF ShownInv, ConditionsTypeOK, Items
    <3>6. NilMeansSet'
      BY <3>1 DEF NilMeansSet, ConditionsTypeOK
    <3> QED BY <3>2, <3>3, <3>4, <3>5, <3>6
  <2> QED BY <1>3, <2>4, <2>5
<1> QED BY <1>1, <1>2, <1>3 DEF SetCondition

(* The object goes. *)
LEMMA GoesKeepsConditions == ASSUME ConditionsInv, ObjectGoes PROVE ConditionsInv'
BY DEF ObjectGoes, ConditionsInv, ConditionsTypeOK, VersionInv, AgreeInv, ShownInv,
       NilMeansSet

(* The object comes back, with a version that no item in hand has. *)
LEMMA ComesKeepsConditions == ASSUME ConditionsInv, ObjectComes PROVE ConditionsInv'
<1> USE DEF ConditionsInv
<1>1. /\ Store(Absent, [t \in Types |-> Absent])
      /\ UNCHANGED <<item, said, asked, unsaved>>
  BY DEF ObjectComes
<1>2. [t \in Types |-> Absent] \in [Types -> Statuses \union {Absent}]
  OBVIOUS
<1>3. /\ version' \in 1 .. MaxVersions /\ version' = version + 1
      /\ stored' \in Items /\ stored' # Gone /\ stored'.version = version'
      /\ writer' = Absent
      /\ shown' \in [Controllers -> [Types -> SUBSET Statuses]]
      /\ \A d \in Controllers, u \in Types : shown[d][u] \subseteq shown'[d][u]
      /\ \A d \in Controllers : item[d] # Gone => item[d].version < stored'.version
  BY <1>1, <1>2, StoreFacts
<1>4. ConditionsTypeOK'
  BY <1>1, <1>3 DEF ConditionsTypeOK
<1>5. VersionInv' /\ AgreeInv'
  BY <1>1, <1>3, ConditionsAssumption
     DEF VersionInv, AgreeInv, ConditionsTypeOK, Items
<1>6. ShownInv'
  BY <1>1, <1>3 DEF ShownInv
<1>7. \A d \in Controllers : said[d].result = "nil" => said[d].type \in Types
  BY DEF ConditionsTypeOK, NotSaid
<1>8. NilMeansSet'
  BY <1>1, <1>3, <1>7 DEF NilMeansSet
<1> QED BY <1>4, <1>5, <1>6, <1>8

(* Every step of the controllers. *)
LEMMA ConditionsStep ==
    ConditionsInv /\ [ConditionsNext]_conditionVars => ConditionsInv'
<1> SUFFICES ASSUME ConditionsInv, [ConditionsNext]_conditionVars PROVE ConditionsInv'
  OBVIOUS
<1>1. CASE UNCHANGED conditionVars
  BY <1>1 DEF conditionVars, ConditionsInv, ConditionsTypeOK, VersionInv, AgreeInv,
              ShownInv, NilMeansSet
<1>2. CASE ConditionsNext
  BY <1>2, RefreshKeepsConditions, SetKeepsConditions, GoesKeepsConditions,
     ComesKeepsConditions DEF ConditionsNext
<1> QED BY <1>1, <1>2

(* A write of a controller leaves the conditions it did not set. *)
KeepsOthers ==
    \A c \in Controllers :
        writer' = c /\ version' # version =>
            \A t \in Types \ asked'[c] : stored'.conds[t] = stored.conds[t]

(* The step that writes sends what it read, but for what it sets. *)
LEMMA WritesKeepOthers == ConditionsInv /\ ConditionsNext => KeepsOthers
<1> SUFFICES ASSUME ConditionsInv, ConditionsNext, NEW c \in Controllers,
                    writer' = c, version' # version,
                    NEW t \in Types \ asked'[c]
             PROVE  stored'.conds[t] = stored.conds[t]
  BY DEF KeepsOthers
<1>1. PICK d \in Controllers, u \in Types, s \in Statuses : SetStored(d, u, s)
  BY ConditionsAssumption
     DEF ConditionsNext, Refresh, SetCondition, SetNothing, SetUnchanged,
         SetRefused, ObjectGoes, ObjectComes, Store
<1>2. /\ c = d /\ stored # Gone /\ stored.version = item[c].version
      /\ item[c] # Gone /\ item[c] \in Items
      /\ item' = [item EXCEPT ![c].conds[u] = s]
      /\ asked' = [asked EXCEPT ![c] = @ \union {u}]
      /\ stored' = [conds |-> item'[c].conds, version |-> version']
  BY <1>1 DEF SetStored, Change, Store, ConditionsInv, ConditionsTypeOK
<1>3. t # u /\ t \notin asked[c]
  BY <1>2 DEF ConditionsInv, ConditionsTypeOK
<1>4. item'[c].conds[t] = item[c].conds[t]
  BY <1>2, <1>3 DEF ConditionsInv, ConditionsTypeOK, Items
<1> QED BY <1>2, <1>3, <1>4 DEF ConditionsInv, AgreeInv

-----------------------------------------------------------------------------
(* Ensure: objects created if missing.                                     *)

(* No edition is given twice, so that the object that has the edition a    *)
(* call found is the object it found.                                      *)
EditionInv ==
    /\ thing.edition <= editions
    /\ \A c \in Callers :
          /\ found[c].edition <= editions
          /\ thing # Nothing /\ thing.edition = found[c].edition => thing = found[c]

(* What a call applies follows from what its first Get returned, or it has *)
(* not seen the object.                                                    *)
WishInv(c) ==
    \/ c \in unseeing
    \/ job.kind = "namespace" /\ wish[c] = Merged(before[c])
    \/ job.kind = "secret" /\ job.name = "same" /\ before[c] = Nothing
    \/ job.kind = "secret" /\ job.name = "own"

PlaceInv ==
    /\ job = NoJob => lost = {} /\ \A c \in Callers : place[c] = "look"
    /\ \A x \in lost : place[x[1]] = "done"
    /\ \A c \in Callers :
          /\ place[c] = "update" => found[c] # Nothing
          /\ place[c] \in {"get", "update"} =>
                job.kind \in {"secret", "namespace"} /\ WishInv(c)

EnsureInv == EnsureTypeOK /\ EditionInv /\ PlaceInv /\ EnsureKeepsOthers

(* Nothing is no thing, and none has its edition. *)
LEMMA ThingFacts ==
    /\ Nothing \notin Things
    /\ \A t \in Things \union {Nothing} :
          /\ t.edition \in Nat /\ t.content \in Contents
          /\ t.content.data \subseteq EntryNames /\ t.content.notes \subseteq EntryNames
BY DEF Things, Nothing, Contents

(* A caller goes from a place to the next, with a result if it ends. *)
LEMMA AdvanceSets ==
    ASSUME EnsureTypeOK, NEW c \in Callers, NEW from,
           NEW to \in {"look", "get", "create", "update", "done"},
           Advance(c, from, to)
    PROVE  /\ place[c] = from /\ place'[c] = to
           /\ \A d \in Callers \ {c} : place'[d] = place[d]
           /\ place' \in [Callers -> {"look", "get", "create", "update", "done"}]
BY DEF EnsureTypeOK, Advance

(* The annotations given, and what a namespace keeps, are entries. *)
LEMMA WishType ==
    ASSUME EnsureTypeOK
    PROVE  /\ GivenNotes \subseteq EntryNames
           /\ [data |-> Own, notes |-> {}] \in Contents
           /\ [data |-> Own, notes |-> GivenNotes] \in Contents
           /\ \A t \in Things \union {Nothing} : Merged(t) \in Contents
<1>1. job.notes = Nil \/ job.notes \subseteq EntryNames
  BY EnsureAssumption DEF EnsureTypeOK, Jobs, NoJob
<1>2. GivenNotes \subseteq EntryNames
  BY <1>1 DEF GivenNotes
<1>3. \A t \in Things \union {Nothing} : Merged(t) \in Contents
  BY <1>1, ThingFacts, EnsureAssumption DEF Merged, Contents
<1> QED BY <1>2, <1>3, EnsureAssumption DEF Contents

(* Before any call. *)
LEMMA EnsureInitInv == EnsureInit => EnsureInv
<1> SUFFICES ASSUME EnsureInit PROVE EnsureInv
  OBVIOUS
<1>1. Nothing.content \in Contents /\ Nothing.edition = 0
  BY DEF Nothing, Contents
<1>2. EnsureTypeOK
  BY <1>1, EnsureAssumption DEF EnsureInit, EnsureTypeOK
<1>3. EditionInv /\ PlaceInv /\ EnsureKeepsOthers
  BY <1>1 DEF EnsureInit, EditionInv, PlaceInv, EnsureKeepsOthers
<1> QED BY <1>2, <1>3 DEF EnsureInv

(* What is called is chosen. *)
LEMMA ChooseKeepsEnsure ==
    ASSUME EnsureInv, ChooseJob
    PROVE  EnsureInv'
<1> USE DEF EnsureInv
<1>1. /\ job = NoJob /\ job' \in Jobs
      /\ UNCHANGED <<thing, editions, otherWrites, place, before, found, wish,
                     outcome, unseeing, lost>>
  BY DEF ChooseJob, ensureServer
<1>2. lost = {} /\ \A c \in Callers : place[c] = "look"
  BY <1>1 DEF PlaceInv
<1>3. job' # NoJob
  BY <1>1 DEF Jobs, NoJob
<1>4. EnsureTypeOK'
  BY <1>1 DEF EnsureTypeOK
<1>5. EditionInv'
  BY <1>1 DEF EditionInv
<1>6. PlaceInv' /\ EnsureKeepsOthers'
  BY <1>1, <1>2, <1>3 DEF PlaceInv, EnsureKeepsOthers
<1> QED BY <1>4, <1>5, <1>6

(* Others create, edit or delete the object. *)
LEMMA OthersKeepEnsure ==
    ASSUME EnsureInv, OtherWrites
    PROVE  EnsureInv'
<1> USE DEF EnsureInv
<1>1. /\ UNCHANGED <<job, place, before, found, wish, outcome, unseeing, lost>>
      /\ otherWrites' \in 0 .. MaxOtherWrites
  BY EnsureAssumption DEF OtherWrites, EnsureTypeOK
<1>2. \/ \E content \in Contents : Put(content)
      \/ thing' = Nothing /\ UNCHANGED editions
  BY EnsureAssumption DEF OtherWrites, Contents
<1>3. /\ thing' \in Things \union {Nothing} /\ editions' \in Nat
      /\ thing'.edition <= editions' /\ editions <= editions'
      /\ thing' # Nothing => thing'.edition > editions
  BY <1>2 DEF Put, Things, Nothing, EnsureTypeOK
<1>4. EnsureTypeOK'
  BY <1>1, <1>3 DEF EnsureTypeOK
<1>5. EditionInv'
  <2>1. \A c \in Callers : found[c].edition \in Nat
    BY ThingFacts DEF EnsureTypeOK
  <2>2. editions \in Nat /\ thing'.edition \in Nat
    BY <1>3, ThingFacts DEF EnsureTypeOK
  <2> QED BY <1>1, <1>3, <2>1, <2>2 DEF EditionInv
<1>6. PlaceInv' /\ EnsureKeepsOthers'
  BY <1>1 DEF PlaceInv, WishInv, Merged, EnsureKeepsOthers
<1> QED BY <1>4, <1>5, <1>6

(* The first Get. *)
LEMMA LookKeepsEnsure ==
    ASSUME EnsureInv, NEW c \in Callers, Look(c)
    PROVE  EnsureInv'
<1> USE DEF EnsureInv
<1>1. /\ job # NoJob /\ job \in Jobs
      /\ before' = [before EXCEPT ![c] = thing]
      /\ UNCHANGED <<thing, editions, otherWrites, job, found, lost>>
  BY DEF Look, ensureServer, EnsureTypeOK
<1>2. PICK to \in {"get", "create", "done"} : Advance(c, "look", to)
  BY DEF Look, LookForSecret, LookForNamespace, LookForOther, LookFails, End
<1>3. /\ place[c] = "look" /\ place'[c] = to
      /\ \A d \in Callers \ {c} : place'[d] = place[d]
      /\ place' \in [Callers -> {"look", "get", "create", "update", "done"}]
  BY <1>2, AdvanceSets
<1>4. /\ wish' \in [Callers -> Contents]
      /\ \A d \in Callers \ {c} : wish'[d] = wish[d]
      /\ outcome' \in [Callers -> {"none", "nil", "error"}]
      /\ unseeing' \in {unseeing, unseeing \union {c}}
  <2>1. \/ UNCHANGED wish
        \/ \E w \in Contents : wish' = [wish EXCEPT ![c] = w]
    BY WishType
       DEF Look, LookForSecret, LookForNamespace, LookForOther, LookFails, EnsureTypeOK
  <2>2. \/ UNCHANGED outcome
        \/ \E r \in {"nil", "error"} : outcome' = [outcome EXCEPT ![c] = r]
    BY DEF Look, LookForSecret, LookForNamespace, LookForOther, LookFails, End
  <2>3. unseeing' \in {unseeing, unseeing \union {c}}
    BY DEF Look, LookForSecret, LookForNamespace, LookForOther, LookFails
  <2> QED BY <2>1, <2>2, <2>3 DEF EnsureTypeOK
<1>5. EnsureTypeOK'
  BY <1>1, <1>3, <1>4 DEF EnsureTypeOK
<1>6. EditionInv'
  BY <1>1 DEF EditionInv
<1>7. /\ before'[c] = thing
      /\ \A d \in Callers \ {c} : before'[d] = before[d]
  BY <1>1 DEF EnsureTypeOK
<1>8. to = "get" => job.kind \in {"secret", "namespace"} /\ WishInv(c)'
  <2> SUFFICES ASSUME to = "get"
               PROVE  job.kind \in {"secret", "namespace"} /\ WishInv(c)'
    OBVIOUS
  <2>1. CASE LookForSecret(c)
    <3>1. Advance(c, "look", "get") => job.name # "taken" /\ ~(job.name = "same" /\ thing # Nothing)
      BY <2>1, <1>3, AdvanceSets DEF LookForSecret, End
    <3>2. job.name \in {"own", "same", "taken"}
      BY <1>1 DEF Jobs
    <3> QED BY <2>1, <3>1, <3>2, <1>1, <1>2, <1>7 DEF LookForSecret, WishInv
  <2>2. CASE LookForNamespace(c)
    <3>1. wish'[c] = Merged(thing) /\ job.kind = "namespace"
      BY <2>2 DEF LookForNamespace, EnsureTypeOK
    <3> QED BY <3>1, <1>1, <1>7 DEF WishInv, Merged
  <2>3. CASE LookForOther(c)
    BY <2>3, <1>3, AdvanceSets DEF LookForOther, End
  <2>4. CASE LookFails(c)
    <3>1. c \in unseeing' /\ job.kind \notin {"claim", "ingress"}
      BY <2>4, <1>3, AdvanceSets DEF LookFails, End
    <3>2. job.kind \in {"secret", "namespace"}
      BY <1>1, <3>1 DEF Jobs
    <3> QED BY <3>1, <3>2 DEF WishInv
  <2> QED BY <2>1, <2>2, <2>3, <2>4 DEF Look
<1>9. PlaceInv'
  <2>1. \A d \in Callers \ {c} : WishInv(d) => WishInv(d)'
    BY <1>1, <1>4, <1>7 DEF WishInv, Merged
  <2>2. \A x \in lost : x[1] # c /\ x[1] \in Callers
    BY <1>3 DEF PlaceInv, EnsureTypeOK
  <2> QED BY <1>1, <1>3, <1>8, <2>1, <2>2 DEF PlaceInv
<1>10. EnsureKeepsOthers'
  <2>1. \A x \in lost : x[1] # c /\ x[1] \in Callers
    BY <1>3 DEF PlaceInv, EnsureTypeOK
  <2> QED BY <1>1, <1>4, <1>7, <2>1 DEF EnsureKeepsOthers
<1> QED BY <1>5, <1>6, <1>9, <1>10

(* The Get of Apply. *)
LEMMA GetKeepsEnsure ==
    ASSUME EnsureInv, NEW c \in Callers, GetAgain(c)
    PROVE  EnsureInv'
<1> USE DEF EnsureInv
<1>1. UNCHANGED <<thing, editions, otherWrites, job, before, wish, unseeing, lost>>
  BY DEF GetAgain, ensureServer
<1>2. PICK answer \in {thing, Nothing} :
          /\ found' = [found EXCEPT ![c] = answer]
          /\ IF answer = Nothing
             THEN Advance(c, "get", "create") /\ UNCHANGED outcome
             ELSE IF answer.content = wish[c] THEN End(c, "get", "nil")
             ELSE Advance(c, "get", "update") /\ UNCHANGED outcome
  BY DEF GetAgain
<1>3. PICK to \in {"create", "update", "done"} :
          /\ Advance(c, "get", to)
          /\ to = "update" => answer # Nothing
  BY <1>2 DEF End
<1>4. /\ place[c] = "get" /\ place'[c] = to
      /\ \A d \in Callers \ {c} : place'[d] = place[d]
      /\ place' \in [Callers -> {"look", "get", "create", "update", "done"}]
  BY <1>3, AdvanceSets
<1>5. /\ found'[c] = answer
      /\ \A d \in Callers \ {c} : found'[d] = found[d]
      /\ found' \in [Callers -> Things \union {Nothing}]
  BY <1>2 DEF EnsureTypeOK
<1>6. outcome' \in [Callers -> {"none", "nil", "error"}]
  BY <1>2 DEF End, EnsureTypeOK
<1>7. EnsureTypeOK'
  BY <1>1, <1>4, <1>5, <1>6 DEF EnsureTypeOK
<1>8. EditionInv'
  <2>1. thing # Nothing => thing.edition # 0
    BY DEF EnsureTypeOK, Things
  <2>2. Nothing.edition = 0 /\ editions \in Nat
    BY DEF Nothing, EnsureTypeOK
  <2> QED BY <1>1, <1>5, <2>1, <2>2 DEF EditionInv
<1>9. \A x \in lost : x[1] # c /\ x[1] \in Callers
  BY <1>4 DEF PlaceInv, EnsureTypeOK
<1>10. PlaceInv'
  <2>1. \A d \in Callers : WishInv(d) => WishInv(d)'
    BY <1>1 DEF WishInv, Merged
  <2>2. job # NoJob
    BY <1>4 DEF PlaceInv
  <2> QED BY <1>1, <1>3, <1>4, <1>5, <1>9, <2>1, <2>2 DEF PlaceInv
<1>11. EnsureKeepsOthers'
  BY <1>1, <1>5, <1>9 DEF EnsureKeepsOthers
<1> QED BY <1>7, <1>8, <1>10, <1>11

(* What an update takes from the object the call found, another removed    *)
(* from what the call saw first, or the call means to remove.              *)
LEMMA LossIsExcused ==
    ASSUME EnsureInv, NEW c \in Callers, place[c] = "update",
           thing # Nothing, thing.edition = found[c].edition,
           NEW x \in Lost(c, thing.content, wish[c])
    PROVE  /\ x[1] = c /\ x \in Callers \X {"data", "notes"}
           /\ job.kind \in {"secret", "namespace"}
           /\ \/ c \in unseeing
              \/ before[c] # found[c]
              \/ job.kind = "secret" /\ job.name = "own"
              \/ job.kind = "namespace" /\ x[2] = "notes" /\ job.notes = Nil
<1> USE DEF EnsureInv
<1>1. x \in {<<c, "data">>, <<c, "notes">>}
  BY DEF Lost
<1>2. thing = found[c] /\ found[c] # Nothing
  BY DEF EditionInv
<1>3. job.kind \in {"secret", "namespace"} /\ WishInv(c)
  BY DEF PlaceInv
<1>4. ASSUME before[c] = found[c], job.kind = "namespace", wish[c] = Merged(before[c])
      PROVE  x[2] = "notes" /\ job.notes = Nil
  <2>1. wish[c] = Merged(thing)
    BY <1>2, <1>4
  <2>2. thing.content.data \subseteq wish[c].data
    BY <2>1 DEF Merged
  <2>3. job.notes # Nil => thing.content.notes \subseteq wish[c].notes
    BY <2>1 DEF Merged
  <2> QED BY <1>1, <2>2, <2>3 DEF Lost
<1> QED BY <1>1, <1>2, <1>3, <1>4 DEF WishInv

(* An update, a creation, or a request that fails. *)
LEMMA WriteKeepsEnsure ==
    ASSUME EnsureInv, NEW c \in Callers,
           UpdateThing(c) \/ CreateThing(c) \/ EnsureRequestFails(c)
    PROVE  EnsureInv'
<1> USE DEF EnsureInv
<1>1. UNCHANGED <<otherWrites, job, before, found, wish, unseeing>>
  BY DEF UpdateThing, CreateThing, EnsureRequestFails, ensureServer
<1>2. PICK from \in {"create", "update"} : \E r \in {"nil", "error"} : End(c, from, r)
  BY DEF UpdateThing, CreateThing, EnsureRequestFails
<1>3. /\ place[c] = from /\ place'[c] = "done"
      /\ \A d \in Callers \ {c} : place'[d] = place[d]
      /\ place' \in [Callers -> {"look", "get", "create", "update", "done"}]
  BY <1>2, AdvanceSets DEF End
<1>4. outcome' \in [Callers -> {"none", "nil", "error"}]
  BY <1>2 DEF End, EnsureTypeOK
<1>5. \/ Put(wish[c])
      \/ UNCHANGED <<thing, editions>>
  BY DEF UpdateThing, CreateThing, EnsureRequestFails, ensureServer
<1>6. \A x \in lost' \ lost :
          /\ place[c] = "update" /\ thing # Nothing /\ thing.edition = found[c].edition
          /\ x \in Lost(c, thing.content, wish[c])
  BY <1>3, AdvanceSets DEF UpdateThing, CreateThing, EnsureRequestFails, End
<1>7. lost \subseteq lost'
  BY DEF UpdateThing, CreateThing, EnsureRequestFails
<1>8. \A x \in lost' \ lost :
          /\ x[1] = c /\ x \in Callers \X {"data", "notes"}
          /\ job.kind \in {"secret", "namespace"}
          /\ \/ c \in unseeing
             \/ before[c] # found[c]
             \/ job.kind = "secret" /\ job.name = "own"
             \/ job.kind = "namespace" /\ x[2] = "notes" /\ job.notes = Nil
  BY <1>6, LossIsExcused
<1>9. /\ thing' \in Things \union {Nothing} /\ editions' \in Nat
      /\ thing'.edition <= editions' /\ editions <= editions'
      /\ thing' = thing \/ thing'.edition > editions
  <2>1. wish[c] \in Contents /\ editions \in Nat
    BY DEF EnsureTypeOK
  <2>2. CASE Put(wish[c])
    BY <2>1, <2>2 DEF Put, Things
  <2>3. CASE UNCHANGED <<thing, editions>>
    BY <2>1, <2>3 DEF EnsureTypeOK, EditionInv
  <2> QED BY <1>5, <2>2, <2>3
<1>10. EnsureTypeOK'
  <2>1. lost' \subseteq Callers \X {"data", "notes"}
    BY <1>8 DEF EnsureTypeOK
  <2> QED BY <1>1, <1>3, <1>4, <1>9, <2>1 DEF EnsureTypeOK
<1>11. EditionInv'
  <2>1. \A d \in Callers : found[d].edition \in Nat
    BY ThingFacts DEF EnsureTypeOK
  <2>2. editions \in Nat /\ thing'.edition \in Nat
    BY <1>9, ThingFacts DEF EnsureTypeOK
  <2> QED BY <1>1, <1>9, <2>1, <2>2 DEF EditionInv
<1>12. \A x \in lost : x[1] # c /\ x[1] \in Callers
  BY <1>3 DEF PlaceInv, EnsureTypeOK
<1>13. PlaceInv'
  <2>1. \A d \in Callers : WishInv(d) => WishInv(d)'
    BY <1>1 DEF WishInv, Merged
  <2>2. job # NoJob
    BY <1>3 DEF PlaceInv
  <2>3. \A x \in lost' : place'[x[1]] = "done"
    BY <1>3, <1>8, <1>12 DEF PlaceInv
  <2> QED BY <1>1, <1>3, <2>1, <2>2, <2>3 DEF PlaceInv
<1>14. EnsureKeepsOthers'
  BY <1>1, <1>8 DEF EnsureKeepsOthers
<1> QED BY <1>10, <1>11, <1>13, <1>14

(* Every step of the calls that create what is missing. *)
LEMMA EnsureStep == EnsureInv /\ [EnsureNext]_ensureVars => EnsureInv'
<1> SUFFICES ASSUME EnsureInv, [EnsureNext]_ensureVars PROVE EnsureInv'
  OBVIOUS
<1>1. CASE UNCHANGED ensureVars
  BY <1>1 DEF ensureVars, EnsureInv, EnsureTypeOK, EditionInv, PlaceInv, WishInv, Merged,
              EnsureKeepsOthers
<1>2. CASE EnsureNext
  BY <1>2, ChooseKeepsEnsure, OthersKeepEnsure, LookKeepsEnsure, GetKeepsEnsure,
     WriteKeepsEnsure DEF EnsureNext
<1> QED BY <1>1, <1>2

-----------------------------------------------------------------------------
(* Defaults: each function applied to what it made.                        *)

(* Fill keeps the fields that are there and takes defaults for those unset. *)
LEMMA FillFields ==
    ASSUME NEW o, NEW d
    PROVE  /\ DOMAIN Fill(o, d) = DOMAIN o
           /\ \A f \in DOMAIN o :
                 Fill(o, d)[f] = IF f \in DOMAIN d /\ o[f] = Unset THEN d[f] ELSE o[f]
           /\ Fill(o, d) = [f \in DOMAIN o |-> Fill(o, d)[f]]
  BY DEF Fill

(* What is filled has nothing more to fill. *)
LEMMA FillTwice ==
    ASSUME NEW o, NEW d
    PROVE  Fill(Fill(o, d), d) = Fill(o, d)
<1> DEFINE once == Fill(o, d)
           twice == Fill(once, d)
<1>1. /\ DOMAIN once = DOMAIN o
      /\ \A f \in DOMAIN o :
            once[f] = IF f \in DOMAIN d /\ o[f] = Unset THEN d[f] ELSE o[f]
      /\ once = [f \in DOMAIN o |-> once[f]]
  BY FillFields
<1>2. /\ DOMAIN twice = DOMAIN once
      /\ \A f \in DOMAIN once :
            twice[f] = IF f \in DOMAIN d /\ once[f] = Unset THEN d[f] ELSE once[f]
      /\ twice = [f \in DOMAIN once |-> twice[f]]
  BY FillFields
<1> HIDE DEF once, twice
<1>3. \A f \in DOMAIN o : twice[f] = once[f]
  BY <1>1, <1>2
<1>4. twice = once
  BY <1>1, <1>2, <1>3
<1> QED BY <1>4 DEF once, twice

(* Fill keeps the fields given. *)
LEMMA FillKeeps ==
    ASSUME NEW o, NEW d
    PROVE  Keeps(o, Fill(o, d))
  BY FillFields DEF Keeps

(* Ports are complete once they have their defaults. *)
LEMMA PortsTwice ==
    ASSUME NEW l
    PROVE  Each(DefaultsPort, Each(DefaultsPort, l)) = Each(DefaultsPort, l)
<1>1. \A p : DefaultsPort(DefaultsPort(p)) = DefaultsPort(p)
  BY FillTwice DEF DefaultsPort
<1> QED BY <1>1, Zenon DEF Each

(* So are the variables of an environment. *)
LEMMA EnvTwice ==
    ASSUME NEW l
    PROVE  Each(DefaultsEnv, Each(DefaultsEnv, l)) = Each(DefaultsEnv, l)
<1>1. \A e : DefaultsEnv(DefaultsEnv(e)) = DefaultsEnv(e)
  BY FillTwice DEF DefaultsEnv
<1> QED BY <1>1 DEF Each

(* So are volumes. *)
LEMMA VolumesTwice ==
    ASSUME NEW l
    PROVE  Each(DefaultsVolume, Each(DefaultsVolume, l)) = Each(DefaultsVolume, l)
<1>1. \A v : DefaultsVolume(DefaultsVolume(v)) = DefaultsVolume(v)
  BY FillTwice DEF DefaultsVolume
<1> QED BY <1>1 DEF Each

(* A probe is complete once it has its defaults. *)
LEMMA ProbeTwice ==
    ASSUME NEW p
    PROVE  DefaultsProbe(DefaultsProbe(p)) = DefaultsProbe(p)
<1>1. CASE p = Unset
  BY <1>1 DEF DefaultsProbe
<1>2. CASE p # Unset
  <2> DEFINE d == [failureThreshold |-> 3, periodSeconds |-> 10,
                   successThreshold |-> 1, timeoutSeconds |-> 1, scheme |-> "HTTP"]
  <2>1. DefaultsProbe(p) = Fill(p, d)
    BY <1>2 DEF DefaultsProbe
  <2>2. \A q : DefaultsProbe(q) = IF q = Unset THEN Unset ELSE Fill(q, d)
    BY DEF DefaultsProbe
  <2>3. Fill(Fill(p, d), d) = Fill(p, d)
    BY FillTwice
  <2> HIDE DEF d
  <2> QED BY <2>1, <2>2, <2>3
<1> QED BY <1>1, <1>2

(* The fields of a container with its defaults. *)
LEMMA ContainerFields ==
    ASSUME NEW c, IsContainer(c)
    PROVE  LET m == DefaultsContainer(c)
           IN  /\ DOMAIN m = DOMAIN c
               /\ m = [f \in DOMAIN c |-> m[f]]
               /\ m.ports = Each(DefaultsPort, c.ports)
               /\ m.env = Each(DefaultsEnv, c.env)
               /\ m.livenessProbe = DefaultsProbe(c.livenessProbe)
               /\ m.readinessProbe = DefaultsProbe(c.readinessProbe)
               /\ m.imagePullPolicy = IF c.imagePullPolicy = Unset THEN "IfNotPresent"
                                      ELSE c.imagePullPolicy
               /\ m.terminationMessagePolicy =
                     IF c.terminationMessagePolicy = Unset THEN "File"
                     ELSE c.terminationMessagePolicy
               /\ m.terminationMessagePath =
                     IF c.terminationMessagePolicy = Unset THEN "/dev/termination-log"
                     ELSE c.terminationMessagePath
               /\ \A f \in DOMAIN c \ {"ports", "env", "livenessProbe", "readinessProbe",
                     "imagePullPolicy", "terminationMessagePolicy",
                     "terminationMessagePath"} : m[f] = c[f]
<1> DEFINE read == [c EXCEPT !.terminationMessagePolicy = "File",
                             !.terminationMessagePath = "/dev/termination-log"]
           base == IF c.terminationMessagePolicy = Unset THEN read ELSE c
           full == Fill(base, [imagePullPolicy |-> "IfNotPresent"])
           m == DefaultsContainer(c)
<1>1. {"terminationMessagePolicy", "terminationMessagePath", "imagePullPolicy",
       "ports", "env", "livenessProbe", "readinessProbe"} \subseteq DOMAIN c
  BY DEF IsContainer
<1>2. /\ DOMAIN read = DOMAIN c
      /\ read.terminationMessagePolicy = "File"
      /\ read.terminationMessagePath = "/dev/termination-log"
      /\ \A f \in DOMAIN c \ {"terminationMessagePolicy", "terminationMessagePath"} :
            read[f] = c[f]
  BY <1>1
<1>3. /\ DOMAIN base = DOMAIN c
      /\ base.terminationMessagePolicy =
            IF c.terminationMessagePolicy = Unset THEN "File"
            ELSE c.terminationMessagePolicy
      /\ base.terminationMessagePath =
            IF c.terminationMessagePolicy = Unset THEN "/dev/termination-log"
            ELSE c.terminationMessagePath
      /\ \A f \in DOMAIN c \ {"terminationMessagePolicy", "terminationMessagePath"} :
            base[f] = c[f]
  <2> HIDE DEF read
  <2> QED BY <1>2
<1>4. /\ DOMAIN full = DOMAIN base
      /\ full = [f \in DOMAIN base |-> full[f]]
      /\ full["imagePullPolicy"] =
            IF base["imagePullPolicy"] = Unset THEN "IfNotPresent"
            ELSE base["imagePullPolicy"]
      /\ \A f \in DOMAIN base \ {"imagePullPolicy"} : full[f] = base[f]
  <2> HIDE DEF base
  <2>1. "imagePullPolicy" \in DOMAIN base
    BY <1>1, <1>3
  <2> QED BY <2>1, FillFields
<1>5. m = [full EXCEPT !.ports = Each(DefaultsPort, @),
                       !.env = Each(DefaultsEnv, @),
                       !.livenessProbe = DefaultsProbe(@),
                       !.readinessProbe = DefaultsProbe(@)]
  BY DEF DefaultsContainer
<1> HIDE DEF full, base, read, m
<1>6. DOMAIN full = DOMAIN c
  BY <1>3, <1>4
<1>7. /\ DOMAIN m = DOMAIN c
      /\ m = [f \in DOMAIN c |-> m[f]]
      /\ m.ports = Each(DefaultsPort, full.ports)
      /\ m.env = Each(DefaultsEnv, full.env)
      /\ m.livenessProbe = DefaultsProbe(full.livenessProbe)
      /\ m.readinessProbe = DefaultsProbe(full.readinessProbe)
      /\ \A f \in DOMAIN c \ {"ports", "env", "livenessProbe", "readinessProbe"} :
            m[f] = full[f]
  BY <1>1, <1>5, <1>6
<1>8. /\ full.ports = c.ports /\ full.env = c.env
      /\ full.livenessProbe = c.livenessProbe /\ full.readinessProbe = c.readinessProbe
      /\ full.imagePullPolicy = IF c.imagePullPolicy = Unset THEN "IfNotPresent"
                                ELSE c.imagePullPolicy
      /\ full.terminationMessagePolicy = base.terminationMessagePolicy
      /\ full.terminationMessagePath = base.terminationMessagePath
      /\ \A f \in DOMAIN c \ {"imagePullPolicy", "terminationMessagePolicy",
                              "terminationMessagePath"} : full[f] = c[f]
  BY <1>1, <1>3, <1>4
<1>9. /\ m.imagePullPolicy = full.imagePullPolicy
      /\ m.terminationMessagePolicy = full.terminationMessagePolicy
      /\ m.terminationMessagePath = full.terminationMessagePath
  BY <1>1, <1>7
<1>10. \A f \in DOMAIN c \ {"ports", "env", "livenessProbe", "readinessProbe",
          "imagePullPolicy", "terminationMessagePolicy", "terminationMessagePath"} :
             m[f] = c[f]
  BY <1>7, <1>8
<1> QED BY <1>3, <1>7, <1>8, <1>9, <1>10 DEF m

(* A container is complete once it has its defaults. *)
LEMMA ContainerTwice ==
    ASSUME NEW c, IsContainer(c)
    PROVE  /\ IsContainer(DefaultsContainer(c))
           /\ DefaultsContainer(DefaultsContainer(c)) = DefaultsContainer(c)
<1> DEFINE fields == {"ports", "env", "livenessProbe", "readinessProbe",
                      "imagePullPolicy", "terminationMessagePolicy",
                      "terminationMessagePath"}
           m == DefaultsContainer(c)
           n == DefaultsContainer(m)
<1>1. /\ DOMAIN m = DOMAIN c
      /\ m = [f \in DOMAIN c |-> m[f]]
      /\ m.ports = Each(DefaultsPort, c.ports)
      /\ m.env = Each(DefaultsEnv, c.env)
      /\ m.livenessProbe = DefaultsProbe(c.livenessProbe)
      /\ m.readinessProbe = DefaultsProbe(c.readinessProbe)
      /\ m.imagePullPolicy = IF c.imagePullPolicy = Unset THEN "IfNotPresent"
                             ELSE c.imagePullPolicy
      /\ m.terminationMessagePolicy =
            IF c.terminationMessagePolicy = Unset THEN "File"
            ELSE c.terminationMessagePolicy
      /\ m.terminationMessagePath =
            IF c.terminationMessagePolicy = Unset THEN "/dev/termination-log"
            ELSE c.terminationMessagePath
  BY ContainerFields
<1>2. IsContainer(m)
  BY <1>1 DEF IsContainer
<1> HIDE DEF m
<1>3. /\ DOMAIN n = DOMAIN m
      /\ n = [f \in DOMAIN m |-> n[f]]
      /\ n.ports = Each(DefaultsPort, m.ports)
      /\ n.env = Each(DefaultsEnv, m.env)
      /\ n.livenessProbe = DefaultsProbe(m.livenessProbe)
      /\ n.readinessProbe = DefaultsProbe(m.readinessProbe)
      /\ n.imagePullPolicy = IF m.imagePullPolicy = Unset THEN "IfNotPresent"
                             ELSE m.imagePullPolicy
      /\ n.terminationMessagePolicy =
            IF m.terminationMessagePolicy = Unset THEN "File"
            ELSE m.terminationMessagePolicy
      /\ n.terminationMessagePath =
            IF m.terminationMessagePolicy = Unset THEN "/dev/termination-log"
            ELSE m.terminationMessagePath
      /\ \A f \in DOMAIN m \ fields : n[f] = m[f]
  BY <1>2, ContainerFields
<1> HIDE DEF n
<1>4. n.ports = m.ports
  BY <1>1, <1>3, PortsTwice
<1>5. n.env = m.env
  BY <1>1, <1>3, EnvTwice
<1>6. n.livenessProbe = m.livenessProbe /\ n.readinessProbe = m.readinessProbe
  BY <1>1, <1>3, ProbeTwice
<1>7. /\ n.imagePullPolicy = m.imagePullPolicy
      /\ n.terminationMessagePolicy = m.terminationMessagePolicy
      /\ n.terminationMessagePath = m.terminationMessagePath
  BY <1>1, <1>3
<1>8. \A f \in DOMAIN m : n[f] = m[f]
  BY <1>3, <1>4, <1>5, <1>6, <1>7
<1>9. n = m
  BY <1>1, <1>3, <1>8
<1> QED BY <1>2, <1>9 DEF m, n

(* So is a list of containers. *)
LEMMA ContainersTwice ==
    ASSUME NEW l, \A i \in DOMAIN l : IsContainer(l[i])
    PROVE  LET m == Each(DefaultsContainer, l)
           IN  /\ DOMAIN m = DOMAIN l
               /\ \A i \in DOMAIN m : IsContainer(m[i])
               /\ Each(DefaultsContainer, m) = m
<1> DEFINE m == Each(DefaultsContainer, l)
<1>1. DOMAIN m = DOMAIN l /\ m = [i \in DOMAIN l |-> DefaultsContainer(l[i])]
  BY DEF Each
<1> HIDE DEF m
<1>2. \A i \in DOMAIN l :
         IsContainer(m[i]) /\ DefaultsContainer(m[i]) = m[i]
  BY <1>1, ContainerTwice
<1>3. Each(DefaultsContainer, m) = [i \in DOMAIN m |-> DefaultsContainer(m[i])]
  BY DEF Each
<1>4. Each(DefaultsContainer, m) = m
  BY <1>1, <1>2, <1>3
<1> QED BY <1>1, <1>2, <1>4 DEF m

(* The defaults of the fields of a pod that are no lists. *)
PodDefaults ==
    [terminationGracePeriodSeconds |-> 30, dnsPolicy |-> "ClusterFirst",
     restartPolicy |-> "Always", schedulerName |-> "default-scheduler",
     securityContext |-> "empty"]

Account(pod) ==
    IF pod.serviceAccountName # Unset THEN pod.serviceAccountName
    ELSE pod.deprecatedServiceAccount

(* The fields of a pod with its defaults. *)
LEMMA PodFields ==
    ASSUME NEW pod, IsPod(pod)
    PROVE  LET m == DefaultsPod(pod)
           IN  /\ DOMAIN m = DOMAIN pod
               /\ m = [f \in DOMAIN pod |-> m[f]]
               /\ m.containers = Each(DefaultsContainer, pod.containers)
               /\ m.initContainers = Each(DefaultsContainer, pod.initContainers)
               /\ m.volumes = Each(DefaultsVolume, pod.volumes)
               /\ m.serviceAccountName = Account(pod)
               /\ m.deprecatedServiceAccount = Account(pod)
               /\ \A f \in DOMAIN pod \ {"containers", "initContainers", "volumes",
                     "serviceAccountName", "deprecatedServiceAccount"} :
                        m[f] = IF f \in DOMAIN PodDefaults /\ pod[f] = Unset
                               THEN PodDefaults[f] ELSE pod[f]
<1> DEFINE base == Accounts(pod)
           full == Fill(base, PodDefaults)
           m == DefaultsPod(pod)
<1>1. {"containers", "initContainers", "volumes", "serviceAccountName",
       "deprecatedServiceAccount"} \subseteq DOMAIN pod
  BY DEF IsPod
<1>2. /\ DOMAIN base = DOMAIN pod
      /\ base.serviceAccountName = Account(pod)
      /\ base.deprecatedServiceAccount = Account(pod)
      /\ \A f \in DOMAIN pod \ {"serviceAccountName", "deprecatedServiceAccount"} :
            base[f] = pod[f]
  BY <1>1 DEF Accounts, Account
<1>3. DOMAIN PodDefaults = {"terminationGracePeriodSeconds", "dnsPolicy",
                            "restartPolicy", "schedulerName", "securityContext"}
  BY DEF PodDefaults
<1>4. m = [full EXCEPT !.containers = Each(DefaultsContainer, @),
                       !.initContainers = Each(DefaultsContainer, @),
                       !.volumes = Each(DefaultsVolume, @)]
  BY DEF DefaultsPod, PodDefaults
<1> HIDE DEF base
<1>5. /\ DOMAIN full = DOMAIN pod
      /\ \A f \in DOMAIN pod :
            full[f] = IF f \in DOMAIN PodDefaults /\ base[f] = Unset
                      THEN PodDefaults[f] ELSE base[f]
  BY <1>2, FillFields
<1> HIDE DEF full, m
<1>6. /\ DOMAIN m = DOMAIN pod
      /\ m = [f \in DOMAIN pod |-> m[f]]
      /\ m.containers = Each(DefaultsContainer, full.containers)
      /\ m.initContainers = Each(DefaultsContainer, full.initContainers)
      /\ m.volumes = Each(DefaultsVolume, full.volumes)
      /\ \A f \in DOMAIN pod \ {"containers", "initContainers", "volumes"} :
            m[f] = full[f]
  BY <1>1, <1>4, <1>5
<1>7. /\ full.containers = pod.containers
      /\ full.initContainers = pod.initContainers
      /\ full.volumes = pod.volumes
      /\ full.serviceAccountName = Account(pod)
      /\ full.deprecatedServiceAccount = Account(pod)
  BY <1>1, <1>2, <1>3, <1>5
<1>8. \A f \in DOMAIN pod \ {"containers", "initContainers", "volumes",
            "serviceAccountName", "deprecatedServiceAccount"} :
               m[f] = IF f \in DOMAIN PodDefaults /\ pod[f] = Unset
                      THEN PodDefaults[f] ELSE pod[f]
  BY <1>2, <1>5, <1>6
<1>9. /\ m.serviceAccountName = Account(pod)
      /\ m.deprecatedServiceAccount = Account(pod)
  BY <1>1, <1>6, <1>7
<1> QED BY <1>6, <1>7, <1>8, <1>9 DEF m

(* A pod is complete once it has its defaults. *)
LEMMA PodTwice ==
    ASSUME NEW pod, IsPod(pod)
    PROVE  /\ IsPod(DefaultsPod(pod))
           /\ DefaultsPod(DefaultsPod(pod)) = DefaultsPod(pod)
<1> DEFINE m == DefaultsPod(pod)
           n == DefaultsPod(m)
           others == {"containers", "initContainers", "volumes", "serviceAccountName",
                      "deprecatedServiceAccount"}
<1>1. /\ DOMAIN m = DOMAIN pod
      /\ m = [f \in DOMAIN pod |-> m[f]]
      /\ m.containers = Each(DefaultsContainer, pod.containers)
      /\ m.initContainers = Each(DefaultsContainer, pod.initContainers)
      /\ m.volumes = Each(DefaultsVolume, pod.volumes)
      /\ m.serviceAccountName = Account(pod)
      /\ m.deprecatedServiceAccount = Account(pod)
      /\ \A f \in DOMAIN pod \ others :
            m[f] = IF f \in DOMAIN PodDefaults /\ pod[f] = Unset
                   THEN PodDefaults[f] ELSE pod[f]
  BY PodFields
<1> HIDE DEF m
<1>2. /\ \A i \in DOMAIN m.containers : IsContainer(m.containers[i])
      /\ Each(DefaultsContainer, m.containers) = m.containers
  BY <1>1, ContainersTwice DEF IsPod
<1>3. /\ \A i \in DOMAIN m.initContainers : IsContainer(m.initContainers[i])
      /\ Each(DefaultsContainer, m.initContainers) = m.initContainers
  BY <1>1, ContainersTwice DEF IsPod
<1>4. IsPod(m)
  BY <1>1, <1>2, <1>3 DEF IsPod
<1>5. /\ DOMAIN n = DOMAIN m
      /\ n = [f \in DOMAIN m |-> n[f]]
      /\ n.containers = Each(DefaultsContainer, m.containers)
      /\ n.initContainers = Each(DefaultsContainer, m.initContainers)
      /\ n.volumes = Each(DefaultsVolume, m.volumes)
      /\ n.serviceAccountName = Account(m)
      /\ n.deprecatedServiceAccount = Account(m)
      /\ \A f \in DOMAIN m \ others :
            n[f] = IF f \in DOMAIN PodDefaults /\ m[f] = Unset
                   THEN PodDefaults[f] ELSE m[f]
  BY <1>4, PodFields
<1> HIDE DEF n
<1>6. n.containers = m.containers /\ n.initContainers = m.initContainers
  BY <1>2, <1>3, <1>5
<1>7. n.volumes = m.volumes
  BY <1>1, <1>5, VolumesTwice
<1>8. /\ n.serviceAccountName = m.serviceAccountName
      /\ n.deprecatedServiceAccount = m.deprecatedServiceAccount
  BY <1>1, <1>5 DEF Account
<1>9. \A f \in DOMAIN m \ others : n[f] = m[f]
  BY <1>1, <1>5
<1>10. \A f \in DOMAIN m : n[f] = m[f]
  BY <1>6, <1>7, <1>8, <1>9
<1>11. n = m
  BY <1>1, <1>5, <1>10
<1> QED BY <1>4, <1>11 DEF m, n

(* What a caller gave of a container is kept. *)
LEMMA ContainerKept ==
    ASSUME NEW c, IsContainer(c)
    PROVE  KeepsContainer(c, DefaultsContainer(c))
<1> DEFINE m == DefaultsContainer(c)
<1>1. /\ m.ports = Each(DefaultsPort, c.ports)
      /\ m.env = Each(DefaultsEnv, c.env)
      /\ m.livenessProbe = DefaultsProbe(c.livenessProbe)
      /\ m.readinessProbe = DefaultsProbe(c.readinessProbe)
      /\ m.imagePullPolicy = IF c.imagePullPolicy = Unset THEN "IfNotPresent"
                             ELSE c.imagePullPolicy
      /\ m.terminationMessagePath =
            IF c.terminationMessagePolicy = Unset THEN "/dev/termination-log"
            ELSE c.terminationMessagePath
  BY ContainerFields
<1> HIDE DEF m
<1>2. \A i \in DOMAIN c.ports : Keeps(c.ports[i], m.ports[i])
  BY <1>1, FillKeeps DEF Each, DefaultsPort
<1>3. \A i \in DOMAIN c.env : Keeps(c.env[i], m.env[i])
  BY <1>1, FillKeeps DEF Each, DefaultsEnv
<1>4. /\ c.livenessProbe # Unset => Keeps(c.livenessProbe, m.livenessProbe)
      /\ c.readinessProbe # Unset => Keeps(c.readinessProbe, m.readinessProbe)
  BY <1>1, FillKeeps DEF DefaultsProbe
<1>5. c.terminationMessagePolicy # Unset =>
         Keeps([path |-> c.terminationMessagePath], [path |-> m.terminationMessagePath])
  BY <1>1 DEF Keeps
<1>6. KeepsContainer(c, m)
  BY <1>1, <1>2, <1>3, <1>4, <1>5 DEF KeepsContainer
<1> QED BY <1>6 DEF m

(* What a caller gave of a pod is kept. *)
LEMMA PodKept ==
    ASSUME NEW pod, IsPod(pod)
    PROVE  KeepsPod(pod, DefaultsPod(pod))
<1> DEFINE m == DefaultsPod(pod)
<1>1. /\ m.containers = Each(DefaultsContainer, pod.containers)
      /\ m.initContainers = Each(DefaultsContainer, pod.initContainers)
      /\ m.volumes = Each(DefaultsVolume, pod.volumes)
      /\ m.serviceAccountName = Account(pod)
      /\ m.deprecatedServiceAccount = Account(pod)
      /\ \A f \in DOMAIN pod \ {"containers", "initContainers", "volumes",
            "serviceAccountName", "deprecatedServiceAccount"} :
               m[f] = IF f \in DOMAIN PodDefaults /\ pod[f] = Unset
                      THEN PodDefaults[f] ELSE pod[f]
  BY PodFields
<1> HIDE DEF m
<1>2. \A f \in DOMAIN pod \ Settled : pod[f] # Unset => m[f] = pod[f]
  BY <1>1 DEF Settled, Account
<1>3. \A i \in DOMAIN pod.volumes : Keeps(pod.volumes[i], m.volumes[i])
  BY <1>1, FillKeeps DEF Each, DefaultsVolume
<1>4. \A i \in DOMAIN pod.containers :
         KeepsContainer(pod.containers[i], m.containers[i])
  BY <1>1, ContainerKept DEF Each, IsPod
<1>5. \A i \in DOMAIN pod.initContainers :
         KeepsContainer(pod.initContainers[i], m.initContainers[i])
  BY <1>1, ContainerKept DEF Each, IsPod
<1>6. KeepsPod(pod, m)
  BY <1>1, <1>2, <1>3, <1>4, <1>5 DEF KeepsPod
<1> QED BY <1>6 DEF m

(* What DefaultsDeployment, DefaultsDaemonSet and DefaultsStatefulSet have  *)
(* in common.                                                              *)
Workload(w, defaults, type, rolling) ==
    [Fill(w, defaults) EXCEPT !.strategy = DefaultsStrategy(@, type, rolling),
                              !.template = DefaultsPod(@)]

(* The fields of a workload with its defaults. *)
LEMMA WorkloadFields ==
    ASSUME NEW w, NEW own, IsWorkload(w, own), NEW d, NEW type, NEW rolling,
           "strategy" \notin DOMAIN d, "template" \notin DOMAIN d
    PROVE  LET m == Workload(w, d, type, rolling)
           IN  /\ DOMAIN m = DOMAIN w
               /\ m = [f \in DOMAIN w |-> m[f]]
               /\ m.strategy = DefaultsStrategy(w.strategy, type, rolling)
               /\ m.template = DefaultsPod(w.template)
               /\ \A f \in DOMAIN w \ {"strategy", "template"} :
                     m[f] = IF f \in DOMAIN d /\ w[f] = Unset THEN d[f] ELSE w[f]
<1> DEFINE full == Fill(w, d)
           m == Workload(w, d, type, rolling)
<1>1. "strategy" \in DOMAIN w /\ "template" \in DOMAIN w
  BY DEF IsWorkload
<1>2. /\ DOMAIN full = DOMAIN w
      /\ \A f \in DOMAIN w :
            full[f] = IF f \in DOMAIN d /\ w[f] = Unset THEN d[f] ELSE w[f]
  BY FillFields
<1>3. m = [full EXCEPT !.strategy = DefaultsStrategy(@, type, rolling),
                       !.template = DefaultsPod(@)]
  BY DEF Workload
<1> HIDE DEF full, m
<1>4. full.strategy = w.strategy /\ full.template = w.template
  BY <1>1, <1>2
<1>5. /\ DOMAIN m = DOMAIN w
      /\ m = [f \in DOMAIN w |-> m[f]]
      /\ m.strategy = DefaultsStrategy(full.strategy, type, rolling)
      /\ m.template = DefaultsPod(full.template)
      /\ \A f \in DOMAIN w \ {"strategy", "template"} : m[f] = full[f]
  BY <1>1, <1>2, <1>3
<1> QED BY <1>2, <1>4, <1>5 DEF m

(* What is promised of a workload with its defaults. *)
WorkloadStable(w, m, d, type, rolling) ==
    /\ Workload(m, d, type, rolling) = m
    /\ KeepsPod(w.template, m.template)
    /\ w.strategy.type # Unset => m.strategy = w.strategy
    /\ \A f \in DOMAIN w \ {"template", "strategy"} : w[f] # Unset => m[f] = w[f]

(* A workload is complete once it has its defaults, and what was given of  *)
(* it is kept.                                                             *)
LEMMA WorkloadKept ==
    ASSUME NEW w, NEW own, IsWorkload(w, own), NEW d, NEW type, NEW rolling,
           "strategy" \notin DOMAIN d, "template" \notin DOMAIN d
    PROVE  WorkloadStable(w, Workload(w, d, type, rolling), d, type, rolling)
<1> DEFINE m == Workload(w, d, type, rolling)
           n == Workload(m, d, type, rolling)
<1>1. /\ DOMAIN m = DOMAIN w
      /\ m = [f \in DOMAIN w |-> m[f]]
      /\ m.strategy = DefaultsStrategy(w.strategy, type, rolling)
      /\ m.template = DefaultsPod(w.template)
      /\ \A f \in DOMAIN w \ {"strategy", "template"} :
            m[f] = IF f \in DOMAIN d /\ w[f] = Unset THEN d[f] ELSE w[f]
  BY WorkloadFields
<1> HIDE DEF m
<1>2. IsPod(w.template)
  BY DEF IsWorkload
<1>3. /\ IsPod(m.template) /\ DefaultsPod(m.template) = m.template
      /\ KeepsPod(w.template, m.template)
  BY <1>1, <1>2, PodTwice, PodKept
<1>4. DefaultsStrategy(m.strategy, type, rolling) = m.strategy
  BY <1>1 DEF DefaultsStrategy
<1>5. {"strategy", "template"} \subseteq DOMAIN w
  BY DEF IsWorkload
<1>6. /\ DOMAIN n = DOMAIN m
      /\ n = [f \in DOMAIN m |-> n[f]]
      /\ n.strategy = DefaultsStrategy(m.strategy, type, rolling)
      /\ n.template = DefaultsPod(m.template)
      /\ \A f \in DOMAIN m \ {"strategy", "template"} :
            n[f] = IF f \in DOMAIN d /\ m[f] = Unset THEN d[f] ELSE m[f]
  <2>1. IsWorkload(m, own)
    <3>1. {"type", "rolling"} \subseteq DOMAIN m.strategy
      BY <1>1 DEF IsWorkload, DefaultsStrategy
    <3> QED BY <1>1, <1>3, <3>1 DEF IsWorkload
  <2> QED BY <2>1, WorkloadFields
<1> HIDE DEF n
<1>7. \A f \in DOMAIN m : n[f] = m[f]
  BY <1>1, <1>3, <1>4, <1>6
<1>8. n = m
  BY <1>1, <1>6, <1>7
<1>9. w.strategy.type # Unset => m.strategy = w.strategy
  BY <1>1 DEF DefaultsStrategy
<1>10. \A f \in DOMAIN w \ {"template", "strategy"} : w[f] # Unset => m[f] = w[f]
  BY <1>1
<1> QED BY <1>3, <1>8, <1>9, <1>10 DEF m, n, WorkloadStable

(* A role binding binds whom it was given to. *)
LEMMA SubjectsKept ==
    ASSUME NEW s \in Seq(Subjects)
    PROVE  Whom(DefaultSubjects(s)) = Whom(s)
<1> DEFINE n == Len(s)
           last == DefaultsSubject(s[n])
           who(x) == [kind |-> x.kind, name |-> x.name]
<1>1. CASE s = <<>>
  BY <1>1 DEF DefaultSubjects
<1>2. CASE s # <<>>
  <2>1. n \in Nat /\ n >= 1 /\ DOMAIN s = 1 .. n /\ n \in 1 .. n /\ s[n] \in Subjects
    BY <1>2
  <2>2. last.kind = s[n].kind /\ last.name = s[n].name
    BY <2>1 DEF DefaultsSubject, Subjects
  <2>3. DefaultSubjects(s) = Append(s, last)
    BY <1>2 DEF DefaultSubjects
  <2>4. /\ DOMAIN Append(s, last) = 1 .. n + 1
        /\ \A i \in 1 .. n : Append(s, last)[i] = s[i]
        /\ Append(s, last)[n + 1] = last
    BY <2>1
  <2>5. who(last) = who(s[n])
    BY <2>2
  <2>6. \A x : x \in 1 .. n + 1 <=> x \in 1 .. n \/ x = n + 1
    BY <2>1
  <2> DEFINE t == Append(s, last)
             old == {who(s[i]) : i \in DOMAIN s}
             new == {who(t[i]) : i \in DOMAIN t}
  <2>7. Whom(s) = old /\ Whom(DefaultSubjects(s)) = new
    BY <2>3 DEF Whom
  <2> HIDE DEF n, last, t, who
  <2>8. new = old
    BY <2>1, <2>4, <2>5, <2>6 DEF t
  <2> QED BY <2>7, <2>8
<1> QED BY <1>1, <1>2

(* Ports of services, and role bindings, have their lists replaced. *)
LEMMA ServiceKept ==
    ASSUME NEW o, "ports" \in DOMAIN o
    PROVE  LET m == DefaultsService(o)
           IN  /\ DefaultsService(m) = m
               /\ \A i \in DOMAIN o.ports : Keeps(o.ports[i], m.ports[i])
<1> DEFINE m == DefaultsService(o)
           n == DefaultsService(m)
<1>1. /\ DOMAIN m = DOMAIN o
      /\ m = [f \in DOMAIN o |-> m[f]]
      /\ m.ports = Each(DefaultsPort, o.ports)
  BY DEF DefaultsService
<1> HIDE DEF m
<1>2. /\ DOMAIN n = DOMAIN m
      /\ n = [f \in DOMAIN m |-> n[f]]
      /\ n.ports = Each(DefaultsPort, m.ports)
      /\ \A f \in DOMAIN m \ {"ports"} : n[f] = m[f]
  BY <1>1 DEF DefaultsService
<1> HIDE DEF n
<1>3. n.ports = m.ports
  BY <1>1, <1>2, PortsTwice
<1>4. \A f \in DOMAIN m : n[f] = m[f]
  BY <1>2, <1>3
<1>5. n = m
  BY <1>1, <1>2, <1>4
<1>6. \A i \in DOMAIN o.ports : Keeps(o.ports[i], m.ports[i])
  BY <1>1, FillKeeps DEF Each, DefaultsPort
<1> QED BY <1>5, <1>6 DEF m, n

(* The defaults of a definition of resources, but for its versions. *)
DefinitionDefaults ==
    [conversion |-> "None", listKind |-> "KindList", preserveUnknownFields |-> TRUE]

(* The fields of a definition of resources with its defaults. *)
LEMMA DefinitionFields ==
    ASSUME NEW o, "versions" \in DOMAIN o
    PROVE  LET m == DefaultsCustomResourceDefinition(o)
               d == DefinitionDefaults
           IN  /\ DOMAIN m = DOMAIN o
               /\ m = [f \in DOMAIN o |-> m[f]]
               /\ m.versions = IF o.versions = <<>> THEN <<"the only one">>
                               ELSE o.versions
               /\ \A f \in DOMAIN o \ {"versions"} :
                     m[f] = IF f \in DOMAIN d /\ o[f] = Unset THEN d[f] ELSE o[f]
<1> DEFINE d == DefinitionDefaults
           full == Fill(o, d)
           m == DefaultsCustomResourceDefinition(o)
<1>1. /\ DOMAIN full = DOMAIN o
      /\ \A f \in DOMAIN o :
            full[f] = IF f \in DOMAIN d /\ o[f] = Unset THEN d[f] ELSE o[f]
  BY FillFields
<1>2. m = [full EXCEPT !.versions = IF @ = <<>> THEN <<"the only one">> ELSE @]
  BY DEF DefaultsCustomResourceDefinition, DefinitionDefaults
<1>3. "versions" \notin DOMAIN d
  BY DEF DefinitionDefaults
<1> HIDE DEF full, m, d
<1>4. full.versions = o.versions
  BY <1>1, <1>3
<1>5. /\ DOMAIN m = DOMAIN o
      /\ m = [f \in DOMAIN o |-> m[f]]
      /\ m.versions = IF full.versions = <<>> THEN <<"the only one">>
                      ELSE full.versions
      /\ \A f \in DOMAIN o \ {"versions"} : m[f] = full[f]
  BY <1>1, <1>2
<1> QED BY <1>1, <1>4, <1>5 DEF m, d

(* A definition of resources is complete once it has its defaults, and     *)
(* what was given of it is kept.                                           *)
LEMMA DefinitionKept ==
    ASSUME NEW o, "versions" \in DOMAIN o
    PROVE  LET m == DefaultsCustomResourceDefinition(o)
           IN  /\ DefaultsCustomResourceDefinition(m) = m
               /\ Keeps([o EXCEPT !.versions = Unset], m)
               /\ o.versions # <<>> => m.versions = o.versions
<1> DEFINE d == DefinitionDefaults
           m == DefaultsCustomResourceDefinition(o)
           n == DefaultsCustomResourceDefinition(m)
<1>1. /\ DOMAIN m = DOMAIN o
      /\ m = [f \in DOMAIN o |-> m[f]]
      /\ m.versions = IF o.versions = <<>> THEN <<"the only one">> ELSE o.versions
      /\ \A f \in DOMAIN o \ {"versions"} :
            m[f] = IF f \in DOMAIN d /\ o[f] = Unset THEN d[f] ELSE o[f]
  BY DefinitionFields
<1> HIDE DEF m
<1>2. /\ DOMAIN n = DOMAIN m
      /\ n = [f \in DOMAIN m |-> n[f]]
      /\ n.versions = IF m.versions = <<>> THEN <<"the only one">> ELSE m.versions
      /\ \A f \in DOMAIN m \ {"versions"} :
            n[f] = IF f \in DOMAIN d /\ m[f] = Unset THEN d[f] ELSE m[f]
  BY <1>1, DefinitionFields
<1> HIDE DEF n, d
<1>3. n.versions = m.versions
  BY <1>1, <1>2
<1>4. \A f \in DOMAIN m : n[f] = m[f]
  BY <1>1, <1>2, <1>3
<1>5. n = m
  BY <1>1, <1>2, <1>4
<1>6. Keeps([o EXCEPT !.versions = Unset], m)
  BY <1>1 DEF Keeps
<1> QED BY <1>1, <1>5, <1>6 DEF m, n

(* An object that has been completed was one given. *)
DefaultsInv ==
    defaulted # NotDefaulted =>
        /\ defaulted.kind \in Kinds
        /\ defaulted.given \in GivenObjects[defaulted.kind]
        /\ defaulted.made = Completed(defaulted.kind, defaulted.given)

(* No object has been completed in the beginning. *)
LEMMA DefaultsInitInv == DefaultsInit => DefaultsInv
  BY DEF DefaultsInit, DefaultsInv

(* Every step completes an object given. *)
LEMMA DefaultsStep == DefaultsInv /\ [ApplyDefaults]_defaulted => DefaultsInv'
<1> SUFFICES ASSUME DefaultsInv, [ApplyDefaults]_defaulted PROVE DefaultsInv'
  OBVIOUS
<1>1. CASE UNCHANGED defaulted
  BY <1>1 DEF DefaultsInv, NotDefaulted
<1>2. CASE ApplyDefaults
  <2>1. PICK kind \in Kinds : \E object \in GivenObjects[kind] :
           defaulted' = [kind |-> kind, given |-> object,
                         made |-> Completed(kind, object)]
    BY <1>2 DEF ApplyDefaults
  <2>2. PICK object \in GivenObjects[kind] :
           defaulted' = [kind |-> kind, given |-> object,
                         made |-> Completed(kind, object)]
    BY <2>1
  <2>3. /\ defaulted'.kind = kind /\ defaulted'.given = object
        /\ defaulted'.made = Completed(kind, object)
    BY <2>2
  <2> QED BY <2>3 DEF DefaultsInv
<1> QED BY <1>1, <1>2

(* What is completed is complete, and keeps what was given. *)
LEMMA CompletedIsStable == DefaultsInv => DefaultsStable
<1> SUFFICES ASSUME DefaultsInv, defaulted # NotDefaulted PROVE DefaultsStable
  BY DEF DefaultsStable
<1> DEFINE kind == defaulted.kind
           o == defaulted.given
           m == defaulted.made
           Stable ==
              /\ kind = "RoleBinding" \/ Completed(kind, m) = m
              /\ kind \in {"Deployment", "DaemonSet", "StatefulSet"} =>
                    /\ KeepsPod(o.template, m.template)
                    /\ o.strategy.type # Unset => m.strategy = o.strategy
                    /\ \A f \in DOMAIN o \ {"template", "strategy"} :
                          o[f] # Unset => m[f] = o[f]
              /\ kind = "Service" =>
                    \A i \in DOMAIN o.ports : Keeps(o.ports[i], m.ports[i])
              /\ kind = "RoleBinding" => Whom(m.subjects) = Whom(o.subjects)
              /\ kind = "CustomResourceDefinition" =>
                    /\ Keeps([o EXCEPT !.versions = Unset], m)
                    /\ o.versions # <<>> => m.versions = o.versions
<1>1. kind \in Kinds /\ o \in GivenObjects[kind] /\ m = Completed(kind, o)
  BY DEF DefaultsInv
<1>2. IsA(kind, o)
  BY <1>1, DefaultsAssumption
<1> SUFFICES Stable
  BY DEF DefaultsStable
<1> HIDE DEF kind, o, m
<1>3. CASE kind = "Deployment"
  <2> DEFINE d == [progressDeadlineSeconds |-> 600, revisionHistoryLimit |-> 10]
  <2>1. \A w : Completed("Deployment", w) = Workload(w, d, "RollingUpdate", "25%, 25%")
    BY DEF Completed, Defaults, DefaultsDeployment, Workload
  <2>2. WorkloadStable(o, Workload(o, d, "RollingUpdate", "25%, 25%"), d,
                       "RollingUpdate", "25%, 25%")
    <3>1. IsWorkload(o, {"progressDeadlineSeconds"})
      BY <1>2, <1>3 DEF IsA
    <3> QED BY <3>1, WorkloadKept
  <2> HIDE DEF d
  <2> QED BY <1>1, <1>3, <2>1, <2>2 DEF WorkloadStable
<1>4. CASE kind = "DaemonSet"
  <2> DEFINE d == [revisionHistoryLimit |-> 10]
  <2>1. \A w : Completed("DaemonSet", w) = Workload(w, d, "RollingUpdate", "1")
    BY DEF Completed, Defaults, DefaultsDaemonSet, Workload
  <2>2. WorkloadStable(o, Workload(o, d, "RollingUpdate", "1"), d, "RollingUpdate", "1")
    <3>1. IsWorkload(o, {})
      BY <1>2, <1>4 DEF IsA
    <3> QED BY <3>1, WorkloadKept
  <2> HIDE DEF d
  <2> QED BY <1>1, <1>4, <2>1, <2>2 DEF WorkloadStable
<1>5. CASE kind = "StatefulSet"
  <2> DEFINE d == [revisionHistoryLimit |-> 10, podManagementPolicy |-> "OrderedReady"]
  <2>1. \A w : Completed("StatefulSet", w)
                  = Workload(w, d, "RollingUpdate", "partition 0")
    BY DEF Completed, Defaults, DefaultsStatefulSet, Workload
  <2>2. WorkloadStable(o, Workload(o, d, "RollingUpdate", "partition 0"), d,
                       "RollingUpdate", "partition 0")
    <3>1. IsWorkload(o, {"podManagementPolicy"})
      BY <1>2, <1>5 DEF IsA
    <3> QED BY <3>1, WorkloadKept
  <2> HIDE DEF d
  <2> QED BY <1>1, <1>5, <2>1, <2>2 DEF WorkloadStable
<1>6. CASE kind = "Service"
  <2>1. \A s : Completed("Service", s) = DefaultsService(s)
    BY DEF Completed, Defaults
  <2>2. "ports" \in DOMAIN o
    BY <1>2, <1>6 DEF IsA
  <2> QED BY <1>1, <1>6, <2>1, <2>2, ServiceKept
<1>7. CASE kind = "RoleBinding"
  <2>1. Completed("RoleBinding", o) = DefaultsRoleBinding(o)
    BY DEF Completed, Defaults
  <2>2. "subjects" \in DOMAIN o /\ o.subjects \in Seq(Subjects)
    BY <1>2, <1>7 DEF IsA
  <2>3. DefaultsRoleBinding(o).subjects = DefaultSubjects(o.subjects)
    BY <2>2 DEF DefaultsRoleBinding
  <2> QED BY <1>1, <1>7, <2>1, <2>2, <2>3, SubjectsKept
<1>8. CASE kind = "CustomResourceDefinition"
  <2>1. \A c : Completed("CustomResourceDefinition", c)
                  = DefaultsCustomResourceDefinition(c)
    BY DEF Completed
  <2>2. "versions" \in DOMAIN o
    BY <1>2, <1>8 DEF IsA
  <2> QED BY <1>1, <1>8, <2>1, <2>2, DefinitionKept
<1> QED BY <1>1, <1>3, <1>4, <1>5, <1>6, <1>7, <1>8 DEF Kinds

-----------------------------------------------------------------------------
(* Helpers: what the loops have read and made.                             *)

(* A set of numbers up to n that is not empty has a greatest. *)
LEMMA GreatestUpTo ==
    ASSUME NEW n \in Nat, NEW S \in SUBSET (0 .. n), S # {}
    PROVE  Max(S) \in S /\ \A b \in S : b <= Max(S)
<1> DEFINE below == {n - a : a \in S}
<1>1. below \in SUBSET Nat /\ below # {}
  <2>1. \A a \in S : n - a \in Nat
    OBVIOUS
  <2>2. PICK a \in S : TRUE
    OBVIOUS
  <2>3. n - a \in below
    OBVIOUS
  <2> QED BY <2>1, <2>3
<1>2. PICK c \in below : \A d \in below : c <= d
  <2> HIDE DEF below
  <2> QED BY <1>1, LeastNatural
<1>3. PICK a \in S : c = n - a
  BY <1>2
<1>4. \A b \in S : a >= b
  <2> TAKE b \in S
  <2>1. n - b \in below
    OBVIOUS
  <2>2. c <= n - b
    BY <1>2, <2>1
  <2> QED BY <1>3, <2>2
<1>5. Max(S) = CHOOSE x \in S : \A y \in S : x >= y
  BY DEF Max
<1>6. Max(S) \in S /\ \A y \in S : Max(S) >= y
  BY <1>4, <1>5
<1> QED BY <1>6

(* A name given is a sequence of the ends of its words, which grow. *)
LEMMA NameFacts ==
    ASSUME NEW ends \in Names
    PROVE  /\ Len(ends) \in Nat /\ DOMAIN ends = 1 .. Len(ends)
           /\ ends # <<>> => Len(ends) >= 1
           /\ \A i \in 1 .. Len(ends) : ends[i] \in Nat \ {0}
           /\ \A i, j \in 1 .. Len(ends) : i < j => ends[i] + 2 <= ends[j]
<1>1. PICK n \in 0 .. MaxWords : ends \in [1 .. n -> 1 .. MaxName]
  BY DEF Names, UpTo
<1>2. n \in Nat /\ 1 .. MaxName \subseteq Nat \ {0}
  BY HelpersAssumption
<1>3. ends \in Seq(Nat \ {0}) /\ Len(ends) = n
  BY <1>1, <1>2
<1>4. ends # <<>> => n >= 1
  BY <1>3
<1>5. \A i, j \in DOMAIN ends : i < j => ends[i] + 2 <= ends[j]
  BY DEF Names
<1> QED BY <1>1, <1>2, <1>3, <1>4, <1>5

(* The first n words fit. *)
Fitting(ends, n) == \A i \in 1 .. n : PartEnd(ends, i) - 1 <= MaxLength

(* The loop over the words takes as many as fit. *)
LEMMA KeptFacts ==
    ASSUME NEW ends \in Names
    PROVE  /\ Kept(ends) \in 0 .. Len(ends)
           /\ Fitting(ends, Kept(ends))
           /\ \A n \in 0 .. Len(ends) : Fitting(ends, n) => n <= Kept(ends)
<1> DEFINE takes == {n \in 0 .. Len(ends) : Fitting(ends, n)}
<1>1. Len(ends) \in Nat
  BY NameFacts
<1>2. Kept(ends) = Max(takes)
  BY DEF Kept, Fitting
<1>3. Fitting(ends, 0)
  BY DEF Fitting
<1>4. takes \in SUBSET (0 .. Len(ends)) /\ takes # {}
  BY <1>1, <1>3
<1>5. Max(takes) \in takes /\ \A n \in takes : n <= Max(takes)
  <2> HIDE DEF takes
  <2> QED BY <1>1, <1>4, GreatestUpTo
<1> QED BY <1>2, <1>5

(* What GetDNS1192Name makes of a name. *)
LEMMA TruncatedIsBounded ==
    ASSUME NEW ends \in Names, ends # <<>>
    PROVE  /\ Truncated(ends) <= MaxLength \/ Length(ends) = MaxLength + 1
           /\ Truncated(ends) >= 1
           /\ \A i \in DOMAIN ends :
                 ends[i] <= MaxLength => ends[i] <= Truncated(ends)
<1> DEFINE n == Len(ends)
           k == Kept(ends)
<1>1. /\ n \in Nat /\ n >= 1 /\ DOMAIN ends = 1 .. n
      /\ \A i \in 1 .. n : ends[i] \in Nat \ {0}
      /\ \A i, j \in 1 .. n : i < j => ends[i] + 2 <= ends[j]
  BY NameFacts
<1>2. MaxLength \in Nat \ {0} /\ Length(ends) = ends[n]
  BY HelpersAssumption DEF Length
<1>3. \A i \in 1 .. n : PartEnd(ends, i) = ends[i] + IF i < n THEN 1 ELSE 0
  BY DEF PartEnd
<1>4. CASE Length(ends) <= MaxLength
  <2>1. Truncated(ends) = ends[n]
    BY <1>2, <1>4 DEF Truncated
  <2>2. \A i \in 1 .. n : ends[i] <= ends[n]
    BY <1>1
  <2> QED BY <1>1, <1>2, <1>4, <2>1, <2>2
<1>5. CASE Length(ends) > MaxLength /\ PartEnd(ends, 1) > MaxLength
  <2>1. Truncated(ends) = MaxLength
    BY <1>1, <1>2, <1>5 DEF Truncated
  <2> QED BY <1>1, <1>2, <2>1
<1>6. CASE Length(ends) > MaxLength /\ ~(PartEnd(ends, 1) > MaxLength)
  <2>1. Truncated(ends) = ends[k]
    BY <1>1, <1>2, <1>6 DEF Truncated
  <2>2. /\ k \in 0 .. n
        /\ Fitting(ends, k)
        /\ \A m \in 0 .. n : Fitting(ends, m) => m <= k
    BY KeptFacts
  <2> HIDE DEF n, k
  <2>3. k >= 1
    <3>1. PartEnd(ends, 1) - 1 <= MaxLength
      BY <1>1, <1>2, <1>3, <1>6
    <3>2. Fitting(ends, 1)
      BY <3>1 DEF Fitting
    <3> QED BY <1>1, <2>2, <3>2
  <2>4. ends[k] <= MaxLength \/ ends[n] = MaxLength + 1
    <3>1. PartEnd(ends, k) - 1 <= MaxLength
      BY <1>1, <2>2, <2>3 DEF Fitting
    <3> QED BY <1>1, <1>2, <1>3, <1>6, <2>2, <2>3, <3>1
  <2>5. ASSUME NEW i \in 1 .. n, ends[i] <= MaxLength
        PROVE  ends[i] <= ends[k]
    <3>1. Fitting(ends, i)
      <4> SUFFICES ASSUME NEW j \in 1 .. i PROVE PartEnd(ends, j) - 1 <= MaxLength
        BY DEF Fitting
      <4>1. j \in 1 .. n /\ ends[j] <= ends[i]
        BY <1>1
      <4>2. PartEnd(ends, j) = ends[j] + 1 \/ PartEnd(ends, j) = ends[j]
        BY <1>1, <1>3, <4>1
      <4> QED BY <1>1, <1>2, <2>5, <4>1, <4>2
    <3>2. i <= k
      BY <1>1, <2>2, <3>1
    <3> QED BY <1>1, <2>2, <2>3, <3>2
  <2>6. ends[k] >= 1
    BY <1>1, <2>2, <2>3
  <2> QED BY <1>1, <1>2, <2>1, <2>4, <2>5, <2>6
<1> QED BY <1>1, <1>2, <1>3, <1>4, <1>5, <1>6

(* The numbers of the pieces taken: those read that are something, in      *)
(* their order.                                                            *)
TakenInv ==
    /\ made \in Seq(Nat)
    /\ {made[i] : i \in DOMAIN made} = {i \in 1 .. Len(given) : i < piece /\ given[i] # "empty"}
    /\ \A i, j \in DOMAIN made : i < j => made[i] < made[j]

(* A last piece of nothing is read only after another, by a loop that      *)
(* never ends.                                                             *)
ReadInv ==
    /\ given \in Seq({"empty", "blank", "document"}) /\ given # <<>>
    /\ Len(given) \in Nat /\ Len(given) >= 1
    /\ piece \in 1 .. Len(given) + 1
    /\ helper = "patched" => piece = Len(given) + 1
    /\ helper = "patch" /\ piece = Len(given) /\ piece > 1 => given[piece] # "empty"
    /\ Stuck => \A i \in 1 .. Len(given) : i >= Len(given) - 1 => given[i] = "empty"

PatchInv == helper \in {"patch", "patched"} => ReadInv /\ TakenInv

HelpersInv ==
    /\ helper \in {"none", "name", "patch", "patched", "ports", "panic"}
    /\ helper = "none" => piece = 1 /\ made = <<>>
    /\ NameBounded /\ PatchInv /\ PortsKept

(* No helper has been called in the beginning. *)
LEMMA HelpersInitInv == HelpersInit => HelpersInv
  BY DEF HelpersInit, HelpersInv, NameBounded, PatchInv, PortsKept

(* A call of GetDNS1192Name makes a name within its bounds. *)
LEMMA NameKeepsHelpers ==
    ASSUME HelpersInv, GetDNS1192Name
    PROVE  HelpersInv'
<1>1. PICK ends \in Names : given' = ends /\ made' = <<Truncated(ends)>>
  BY DEF GetDNS1192Name
<1>2. helper' = "name"
  BY DEF GetDNS1192Name
<1>3. NameBounded'
  <2>1. CASE ends # <<>>
    <3>1. made'[1] = Truncated(ends)
      BY <1>1
    <3>2. /\ Truncated(ends) <= MaxLength \/ Length(ends) = MaxLength + 1
          /\ Truncated(ends) >= 1
          /\ \A i \in DOMAIN ends :
                ends[i] <= MaxLength => ends[i] <= Truncated(ends)
      BY <2>1, TruncatedIsBounded
    <3>3. Length(given)' = Length(ends)
      BY <1>1 DEF Length
    <3> QED BY <1>1, <3>1, <3>2, <3>3 DEF NameBounded
  <2>2. CASE ends = <<>>
    BY <1>1, <2>2 DEF NameBounded
  <2> QED BY <2>1, <2>2
<1> QED BY <1>2, <1>3 DEF HelpersInv, PatchInv, PortsKept

(* What is taken for the rest: to be read from the next piece on, or not   *)
(* at all.                                                                 *)
LEMMA GoOnSteps ==
    ASSUME ReadInv, GoOn
    PROVE  /\ Len(given) \in Nat /\ Len(given) >= 1
           /\ piece \in 1 .. Len(given) + 1 /\ piece' \in 1 .. Len(given) + 1
           /\ piece <= piece'
           /\ NoRest => piece' = Len(given) + 1
           /\ ~NoRest => piece' = piece + 1 /\ piece < Len(given)
           /\ ~NoRest /\ piece' = Len(given) => given[piece'] # "empty"
           /\ \A i \in 1 .. Len(given) :
                 piece < i /\ i < piece' => given[i] = "empty"
           /\ Text # "empty" => piece <= Len(given) /\ piece < piece'
<1>1. /\ Len(given) \in Nat /\ Len(given) >= 1
      /\ piece \in 1 .. Len(given) + 1
  BY DEF ReadInv
<1>2. CASE NoRest
  <2>1. piece' = Len(given) + 1
    BY <1>2 DEF GoOn
  <2>2. \A i \in 1 .. Len(given) : piece < i => given[i] = "empty"
    BY <1>1, <1>2 DEF NoRest
  <2>3. Text # "empty" => piece <= Len(given)
    BY DEF Text
  <2> QED BY <1>1, <1>2, <2>1, <2>2, <2>3
<1>3. CASE ~NoRest
  <2>1. piece' = piece + 1 /\ piece < Len(given)
    BY <1>1, <1>3 DEF GoOn, NoRest
  <2>2. piece' = Len(given) => given[piece'] # "empty"
    BY <1>1, <1>3, <2>1 DEF NoRest
  <2> QED BY <1>1, <1>3, <2>1, <2>2
<1> QED BY <1>2, <1>3

(* Skipping a piece of nothing leaves what is taken as it is. *)
LEMMA SkipKeepsHelpers ==
    ASSUME HelpersInv, SkipPiece
    PROVE  HelpersInv'
<1>1. helper = "patch" /\ Text = "empty" /\ GoOn /\ UNCHANGED <<helper, given, made>>
  BY DEF SkipPiece
<1>2. ReadInv /\ TakenInv
  BY <1>1 DEF HelpersInv, PatchInv
<1>3. /\ Len(given) \in Nat /\ Len(given) >= 1
      /\ piece \in 1 .. Len(given) + 1 /\ piece' \in 1 .. Len(given) + 1
      /\ piece <= piece'
      /\ NoRest => piece' = Len(given) + 1
      /\ ~NoRest => piece' = piece + 1 /\ piece < Len(given)
      /\ ~NoRest /\ piece' = Len(given) => given[piece'] # "empty"
      /\ \A i \in 1 .. Len(given) :
                 piece < i /\ i < piece' => given[i] = "empty"
  BY <1>1, <1>2, GoOnSteps
<1>4. piece <= Len(given) => given[piece] = "empty"
  BY <1>1 DEF Text
<1>5. ReadInv'
  <2>1. CASE NoRest
    <3>1. \A i \in 1 .. Len(given) : i >= Len(given) - 1 => given[i] = "empty"
      <4>1. CASE piece > Len(given)
        BY <1>1, <1>2, <4>1 DEF ReadInv, Stuck
      <4>2. CASE piece = Len(given)
        <5>1. piece = 1
          BY <1>1, <1>2, <1>3, <1>4, <4>2 DEF ReadInv
        <5> QED BY <1>3, <1>4, <4>2, <5>1
      <4>3. CASE piece < Len(given)
        <5>1. piece + 1 = Len(given) /\ given[Len(given)] = "empty"
          BY <1>3, <2>1, <4>3 DEF NoRest
        <5> QED BY <1>3, <1>4, <5>1
      <4> QED BY <1>3, <4>1, <4>2, <4>3
    <3> QED BY <1>1, <1>2, <1>3, <2>1, <3>1 DEF ReadInv, Stuck
  <2>2. CASE ~NoRest
    BY <1>1, <1>2, <1>3, <2>2 DEF ReadInv, Stuck
  <2> QED BY <2>1, <2>2
<1>6. TakenInv'
  <2>1. \A i \in 1 .. Len(given) :
           i < piece' => i < piece \/ given[i] = "empty"
    BY <1>3, <1>4
  <2>2. {i \in 1 .. Len(given) : i < piece' /\ given[i] # "empty"} = {i \in 1 .. Len(given) : i < piece /\ given[i] # "empty"}
    BY <1>3, <2>1
  <2> QED BY <1>1, <1>2, <2>2 DEF TakenInv
<1> QED BY <1>1, <1>5, <1>6 DEF HelpersInv, NameBounded, PatchInv, PortsKept

(* Taking a piece appends its number. *)
LEMMA TakeKeepsHelpers ==
    ASSUME HelpersInv, TakePiece
    PROVE  HelpersInv'
<1>1. /\ helper = "patch" /\ Text # "empty" /\ GoOn /\ given' = given
      /\ made' = Append(made, piece)
      /\ helper' = IF NoRest THEN "patched" ELSE helper
  BY DEF TakePiece
<1>2. ReadInv /\ TakenInv
  BY <1>1 DEF HelpersInv, PatchInv
<1>3. /\ Len(given) \in Nat /\ Len(given) >= 1
      /\ piece \in 1 .. Len(given) + 1 /\ piece' \in 1 .. Len(given) + 1
      /\ piece <= piece'
      /\ NoRest => piece' = Len(given) + 1
      /\ ~NoRest => piece' = piece + 1 /\ piece < Len(given)
      /\ ~NoRest /\ piece' = Len(given) => given[piece'] # "empty"
      /\ \A i \in 1 .. Len(given) :
                 piece < i /\ i < piece' => given[i] = "empty"
      /\ piece <= Len(given) /\ piece < piece'
  BY <1>1, <1>2, GoOnSteps
<1>4. given[piece] # "empty"
  BY <1>1, <1>3 DEF Text
<1>5. ReadInv'
  <2>1. CASE NoRest
    BY <1>1, <1>2, <1>3, <2>1 DEF ReadInv, Stuck
  <2>2. CASE ~NoRest
    BY <1>1, <1>2, <1>3, <2>2 DEF ReadInv, Stuck
  <2> QED BY <2>1, <2>2
<1>6. TakenInv'
  <2> DEFINE n == Len(made)
             taken == {made[i] : i \in DOMAIN made}
             read == {i \in 1 .. Len(given) : i < piece /\ given[i] # "empty"}
  <2>1. /\ n \in Nat /\ DOMAIN made = 1 .. n /\ piece \in Nat
        /\ made \in Seq(Nat) /\ taken = read
        /\ \A i, j \in 1 .. n : i < j => made[i] < made[j]
    BY <1>2, <1>3 DEF TakenInv
  <2>2. /\ made' \in Seq(Nat) /\ DOMAIN made' = 1 .. n + 1
        /\ \A i \in 1 .. n : made'[i] = made[i]
        /\ made'[n + 1] = piece
    BY <1>1, <2>1
  <2>3. \A i \in 1 .. n : made[i] \in Nat /\ made[i] < piece
    <3> TAKE i \in 1 .. n
    <3>1. made[i] \in taken
      BY <2>1
    <3>2. made[i] \in read
      BY <2>1, <3>1
    <3> QED BY <1>3, <3>2
  <2>4. \A i, j \in 1 .. n + 1 : i < j => made'[i] < made'[j]
    <3> TAKE i, j \in 1 .. n + 1
    <3> HAVE i < j
    <3>1. i \in 1 .. n
      BY <2>1
    <3>2. CASE j = n + 1
      BY <2>2, <2>3, <3>1, <3>2
    <3>3. CASE j # n + 1
      <4>1. j \in 1 .. n
        BY <2>1, <3>3
      <4> QED BY <2>1, <2>2, <3>1, <4>1
    <3> QED BY <3>2, <3>3
  <2>5. {made'[i] : i \in DOMAIN made'} = taken \union {piece}
    <3>1. \A i \in 1 .. n + 1 : i \in 1 .. n \/ i = n + 1
      BY <2>1
    <3>2. \A i \in 1 .. n : i \in 1 .. n + 1
      BY <2>1
    <3>3. n + 1 \in 1 .. n + 1
      BY <2>1
    <3> HIDE DEF n
    <3> QED BY <2>1, <2>2, <3>1, <3>2, <3>3
  <2>6. {i \in 1 .. Len(given) : i < piece' /\ given[i] # "empty"} = read \union {piece}
    <3>1. piece \in 1 .. Len(given)
      BY <1>3
    <3>2. \A i \in 1 .. Len(given) :
             /\ i < piece' => i < piece \/ i = piece \/ given[i] = "empty"
             /\ i < piece => i < piece'
      BY <1>3
    <3> QED BY <1>3, <1>4, <3>1, <3>2
  <2> HIDE DEF n, taken, read
  <2> QED BY <1>1, <2>1, <2>2, <2>4, <2>5, <2>6 DEF TakenInv
<1> QED BY <1>1, <1>5, <1>6 DEF HelpersInv, NameBounded, PatchInv, PortsKept

(* The ports of a list are a sequence of numbers, none twice but for 0. *)
LEMMA PortListFacts ==
    ASSUME NEW ports \in PortLists
    PROVE  /\ Len(ports) \in Nat /\ Len(ports) \in 0 .. MaxWords
           /\ ports \in [1 .. Len(ports) -> NodePorts \union {0}]
           /\ DOMAIN ports = 1 .. Len(ports)
           /\ \A i, j \in 1 .. Len(ports) : ports[i] = ports[j] => i = j \/ ports[i] = 0
<1>1. PICK n \in 0 .. MaxWords : ports \in [1 .. n -> NodePorts \union {0}]
  BY DEF PortLists, UpTo
<1>2. ports \in Seq(NodePorts \union {0}) /\ Len(ports) = n
  BY <1>1, HelpersAssumption
<1>3. \A i, j \in DOMAIN ports : ports[i] = ports[j] => i = j \/ ports[i] = 0
  BY DEF PortLists
<1> QED BY <1>1, <1>2, <1>3

(* A call of copyImmutable keeps the ports that are there. *)
LEMMA PortsKeepHelpers ==
    ASSUME HelpersInv, CopyNodePorts
    PROVE  HelpersInv'
<1>1. PICK from, to \in PortLists :
          /\ given' = <<from, to>>
          /\ IF Len(to) > Len(from)
             THEN helper' = "panic" /\ UNCHANGED made
             ELSE helper' = "ports" /\ made' = CopyPorts(from, to)
  BY DEF CopyNodePorts
<1>2. given'[1] = from /\ given'[2] = to
  BY <1>1
<1>3. CASE Len(to) > Len(from)
  BY <1>1, <1>2, <1>3 DEF HelpersInv, NameBounded, PatchInv, PortsKept
<1>4. CASE ~(Len(to) > Len(from))
  <2> DEFINE n == Len(to)
  <2>1. /\ n \in 0 .. MaxWords /\ DOMAIN to = 1 .. n
        /\ to \in [1 .. n -> NodePorts \union {0}]
    BY PortListFacts
  <2>2. /\ from \in [1 .. Len(from) -> NodePorts \union {0}] /\ Len(from) \in Nat
        /\ \A i, j \in 1 .. Len(from) : from[i] = from[j] => i = j \/ from[i] = 0
    BY PortListFacts
  <2>3. n <= Len(from) /\ n \in Nat
    BY <1>4, <2>1, <2>2, HelpersAssumption
  <2>4. \A i \in 1 .. n : i \in 1 .. Len(from)
    BY <2>2, <2>3
  <2>5. /\ helper' = "ports"
        /\ made' = [i \in 1 .. n |-> IF from[i] # 0 THEN from[i] ELSE to[i]]
    BY <1>1, <1>4, <2>1 DEF CopyPorts
  <2> HIDE DEF n
  <2>6. \A i \in DOMAIN made' : from[i] # 0 => made'[i] = from[i]
    BY <2>5
  <2>7. ASSUME \A i \in DOMAIN made' : to[i] = 0
        PROVE  made' \in PortLists
    <3>1. \A i \in 1 .. n : made'[i] = from[i]
      BY <2>5, <2>7
    <3>2. made' \in [1 .. n -> NodePorts \union {0}]
      BY <2>2, <2>4, <2>5, <3>1
    <3>3. made' \in UpTo(NodePorts \union {0})
      BY <2>1, <3>2 DEF UpTo
    <3>4. \A i, j \in DOMAIN made' : made'[i] = made'[j] => i = j \/ made'[i] = 0
      BY <2>2, <2>4, <2>5, <3>1
    <3> QED BY <3>3, <3>4 DEF PortLists
  <2>8. PortsKept'
    BY <1>2, <2>5, <2>6, <2>7 DEF PortsKept, PortLists, UpTo
  <2> QED BY <2>5, <2>8 DEF HelpersInv, NameBounded, PatchInv
<1> QED BY <1>3, <1>4

(* Every step of the helpers. *)
LEMMA HelpersStep == HelpersInv /\ [HelpersNext]_helperVars => HelpersInv'
<1> SUFFICES ASSUME HelpersInv, [HelpersNext]_helperVars PROVE HelpersInv'
  OBVIOUS
<1>1. CASE UNCHANGED helperVars
  BY <1>1 DEF helperVars, HelpersInv, NameBounded, PatchInv, ReadInv, TakenInv, Stuck,
              PortsKept, Length
<1>2. CASE StartPatch
  <2>1. PICK pieces \in UpTo({"empty", "blank", "document"}) \ {<<>>} : given' = pieces
    BY <1>2 DEF StartPatch
  <2>2. given' \in Seq({"empty", "blank", "document"}) /\ given' # <<>>
    BY <2>1, HelpersAssumption DEF UpTo
  <2>3. helper' = "patch" /\ piece' = 1 /\ made' = <<>>
    BY <1>2 DEF StartPatch, HelpersInv
  <2>4. ReadInv'
    BY <2>2, <2>3 DEF ReadInv, Stuck
  <2>5. TakenInv'
    BY <2>3 DEF TakenInv
  <2> QED BY <2>3, <2>4, <2>5 DEF HelpersInv, NameBounded, PatchInv, PortsKept
<1> QED BY <1>1, <1>2, NameKeepsHelpers, SkipKeepsHelpers, TakeKeepsHelpers,
           PortsKeepHelpers DEF HelpersNext

(* The invariant says that the helpers are within their bounds. *)
LEMMA HelpersInvBounds == HelpersInv => HelpersBounded
<1> SUFFICES ASSUME HelpersInv PROVE PatchRead
  BY DEF HelpersInv, HelpersBounded
<1>1. CASE helper = "patched" \/ Stuck
  <2>1. ReadInv /\ TakenInv
    BY <1>1 DEF HelpersInv, PatchInv, Stuck
  <2>2. piece = Len(given) + 1 /\ Len(given) \in Nat
    BY <1>1, <2>1 DEF ReadInv, Stuck
  <2>3. {i \in 1 .. Len(given) : i < piece /\ given[i] # "empty"}
            = {i \in DOMAIN given : given[i] # "empty"}
    BY <2>2
  <2> QED BY <2>1, <2>3 DEF PatchRead, ReadInv, TakenInv
<1>2. CASE ~(helper = "patched" \/ Stuck)
  BY <1>2 DEF PatchRead
<1> QED BY <1>1, <1>2

-----------------------------------------------------------------------------
(* The parts together: none writes the variables of another.               *)

ClientInv ==
    /\ MapperInv /\ ConfigInv /\ EnvInv /\ ConditionsInv /\ EnsureInv
    /\ DefaultsInv /\ HelpersInv

(* A step of the client is a step of each part or leaves it as it is. *)
LEMMA PartSteps ==
    [Next]_vars =>
        /\ [MapperNext]_mapperVars
        /\ [ConfigNext]_configVars
        /\ [EnvNext]_envVars
        /\ [ConditionsNext]_conditionVars
        /\ [EnsureNext]_ensureVars
        /\ [ApplyDefaults]_defaulted
        /\ [HelpersNext]_helperVars
<1> SUFFICES ASSUME [Next]_vars
             PROVE  /\ [MapperNext]_mapperVars
                    /\ [ConfigNext]_configVars
                    /\ [EnvNext]_envVars
                    /\ [ConditionsNext]_conditionVars
                    /\ [EnsureNext]_ensureVars
                    /\ [ApplyDefaults]_defaulted
                    /\ [HelpersNext]_helperVars
  OBVIOUS
<1>1. CASE UNCHANGED vars
  BY <1>1 DEF vars
<1>2. CASE Next
  BY <1>2 DEF Next
<1> QED BY <1>1, <1>2

(* The invariant of every part holds in every state of the client. *)
THEOREM ClientInvariant == Spec => []ClientInv
<1>1. Init => ClientInv
  BY MapperInitInv, ConfigInitInv, EnvInitInv, ConditionsInitInv, EnsureInitInv,
     DefaultsInitInv, HelpersInitInv DEF Init, ClientInv
<1>2. ClientInv /\ [Next]_vars => ClientInv'
  BY PartSteps, MapperStep, ConfigStep, EnvStep, ConditionsStep, EnsureStep,
     DefaultsStep, HelpersStep DEF ClientInv
<1> QED BY <1>1, <1>2, PTL DEF Spec

(* The variables of every part keep their types. *)
THEOREM TypeCorrect == Spec => []TypeOK
<1>1. ClientInv => TypeOK
  BY DEF ClientInv, MapperInv, ConfigInv, EnvInv, ConditionsInv, EnsureInv, TypeOK
<1> QED BY ClientInvariant, <1>1, PTL

(* WaitForRestMapping reports a timeout only of a type that the server     *)
(* lacked during the call, and uses a nil mapper only if another call set  *)
(* the field to nil between its test and its second read                   *)
(* (client.go:231, 337-363).                                               *)
THEOREM MappingIsTruthful == Spec => []TruthfulMapping
<1>1. ClientInv => TruthfulMapping
  BY DEF ClientInv, MapperInv
<1> QED BY ClientInvariant, <1>1, PTL

(* GetRestClient builds a client for the group and the path of its own     *)
(* type, however many calls came before, unless another ran at the same    *)
(* time (client.go:385-408).                                               *)
THEOREM ClientIsForItsGroup == Spec => []ClientForGroup
<1>1. ClientInv => ClientForGroup
  BY DEF ClientInv, ConfigInv
<1> QED BY ClientInvariant, <1>1, PTL

(* Unless some caller cached a key for ever, a value returned was held by  *)
(* a reference of its key no longer ago than the longest expiry and one    *)
(* fetch (shortcuts.go:367-384).                                           *)
THEOREM StalenessIsBounded == Spec => []BoundedStaleness
<1>1. ClientInv => BoundedStaleness
  BY DEF ClientInv, EnvInv
<1> QED BY ClientInvariant, <1>1, PTL

(* When SetCondition returns nil the object had the status at some time    *)
(* since the item was read, or an update of that condition with that item  *)
(* had failed before (conditions.go:67-123).                               *)
THEOREM NilIsTruthful == Spec => []NilMeansSet
<1>1. ClientInv => NilMeansSet
  BY DEF ClientInv, ConditionsInv
<1> QED BY ClientInvariant, <1>1, PTL

(* An update of one controller never puts back a condition that another    *)
(* has written since the item was read (conditions.go:110).                *)
THEOREM OthersAreKept == Spec => OthersConditionsKept
<1>1. ClientInv /\ [Next]_vars => [KeepsOthers]_conditionVars
  BY PartSteps, WritesKeepOthers DEF ClientInv
<1> QED BY ClientInvariant, <1>1, PTL DEF Spec, OthersConditionsKept, KeepsOthers

(* What GetOrCreateSecret, CreateOrUpdateNamespace, GetOrCreatePVC and     *)
(* ExposeIngress take from an object that others made, they take for one   *)
(* of four reasons (shortcuts.go:33-87, 229-260, 545-560).                 *)
THEOREM OthersEntriesAreKept == Spec => []EnsureKeepsOthers
<1>1. ClientInv => EnsureKeepsOthers
  BY DEF ClientInv, EnsureInv
<1> QED BY ClientInvariant, <1>1, PTL

(* What Apply applies is what the caller gave, completed: a field given is *)
(* kept but for the exceptions that the property names, and a second Apply *)
(* has nothing to write but for role bindings, whatever the lists of the   *)
(* object are (defaults.go:17-256, 293-339).                               *)
THEOREM DefaultsAreStable == Spec => []DefaultsStable
<1>1. ClientInv => DefaultsStable
  BY CompletedIsStable DEF ClientInv
<1> QED BY ClientInvariant, <1>1, PTL

(* Names have at most one character too many and drop no word that fits,   *)
(* a patch is read whole or for ever, and ports keep their numbers, for    *)
(* names, patches and services of any length (utils.go:730-747,            *)
(* helper.go:86-110, apply.go:49-53).                                      *)
THEOREM HelpersAreBounded == Spec => []HelpersBounded
<1>1. ClientInv => HelpersBounded
  BY HelpersInvBounds DEF ClientInv
<1> QED BY ClientInvariant, <1>1, PTL

=============================================================================
