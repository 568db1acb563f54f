------------------------------ MODULE EnvCache ------------------------------
(***************************************************************************)
(* GetEnvValueFromCache of shortcuts.go: a cache of the whole process over *)
(* the values that references to secrets and config maps have on the       *)
(* server.  A reference is named by KeyOf: neither its namespace nor       *)
(* whether it is a secret is part of the key.                              *)
(***************************************************************************)
EXTENDS Integers, FiniteSets

CONSTANTS
    Readers,        \* concurrent callers
    Refs,           \* references to values, with their namespaces
    KeyOf,          \* [Refs -> anything]: EnvVar.GetCacheKey
    EnvValues,      \* the values
    NoValue,        \* there is no such secret or key
    Expiries,       \* what callers give: 0 the default, negative for ever
    DefaultExpiry,  \* five minutes
    FetchTime,      \* the deadline of a fetch, 30 seconds
    Horizon,        \* bound of the clock
    MaxEnvChanges   \* bound of the changes of values

ASSUME EnvCacheAssumption ==
    /\ DOMAIN KeyOf = Refs
    /\ NoValue \notin EnvValues
    /\ Expiries \subseteq Int   \* bounded, as a Duration is
    /\ \E e \in Expiries \union {0} : \A f \in Expiries : f <= e
    /\ {DefaultExpiry, FetchTime, Horizon, MaxEnvChanges} \subseteq Nat

Keys == {KeyOf[r] : r \in Refs}
Entries == [value : EnvValues, until : Int]
NoEntry == [value |-> NoValue, until |-> 0]

VARIABLES
    time,       \* the clock
    value,      \* [Refs -> value on the server]
    envChanges, \* how often a value changed
    cached,     \* [Keys -> entry]; until = -1 is for ever
    call,       \* what each reader does: its reference, expiry, the time it
                \* started to fetch, and the value the server answered
    age,        \* history: how long ago a reference with the same key last
                \* held the value returned, at most
    lastHeld,   \* history: when each reference last held each value
    eternal     \* history: the keys cached for ever

envVars == <<time, value, envChanges, cached, call, age, lastHeld, eternal>>

NoCall == [stage |-> "idle", ref |-> NoValue, expiry |-> 0, since |-> 0,
           answer |-> NoValue]

EnvTypeOK ==
    /\ time \in 0 .. Horizon
    /\ value \in [Refs -> EnvValues \union {NoValue}]
    /\ envChanges \in 0 .. MaxEnvChanges
    /\ cached \in [Keys -> Entries \union {NoEntry}]
    /\ call \in [Readers -> {NoCall} \union
                   [stage : {"fetch", "set"}, ref : Refs, expiry : Expiries,
                    since : 0 .. Horizon, answer : EnvValues \union {NoValue}]]
    /\ age \in [Readers -> Nat]
    /\ lastHeld \in [Refs -> [EnvValues -> Int]]
    /\ eternal \subseteq Keys

EnvInit ==
    /\ time = 0
    /\ value = [r \in Refs |-> NoValue]
    /\ envChanges = 0
    /\ cached = [k \in Keys |-> NoEntry]
    /\ call = [p \in Readers |-> NoCall]
    /\ age = [p \in Readers |-> 0]
    /\ lastHeld = [r \in Refs |-> [v \in EnvValues |-> -Horizon]]
    /\ eternal = {}

-----------------------------------------------------------------------------
Valid(k) ==
    /\ cached[k] # NoEntry
    /\ cached[k].until = -1 \/ time <= cached[k].until

(* How long ago a reference of this key held the value. *)
AgeOf(k, v) ==
    LET Since(r) == IF value[r] = v THEN 0 ELSE time - lastHeld[r][v]
        ages == {Since(r) : r \in {x \in Refs : KeyOf[x] = k}}
    IN  CHOOSE a \in ages : \A b \in ages : a <= b

(* Mutant of Hit: the entry found is given a new time. *)
HitRenews(p) ==
    /\ call[p] = NoCall
    /\ \E r \in Refs :
          /\ Valid(KeyOf[r])
          /\ age' = [age EXCEPT ![p] = AgeOf(KeyOf[r], cached[KeyOf[r]].value)]
          /\ cached' = IF cached[KeyOf[r]].until = -1 THEN cached ELSE
                       [cached EXCEPT ![KeyOf[r]].until = time + DefaultExpiry]
    /\ UNCHANGED <<time, value, envChanges, call, lastHeld, eternal>>

Hit(p) ==
    /\ call[p] = NoCall
    /\ \E r \in Refs :
          /\ Valid(KeyOf[r])
          /\ age' = [age EXCEPT ![p] = AgeOf(KeyOf[r], cached[KeyOf[r]].value)]
    /\ UNCHANGED <<time, value, envChanges, cached, call, lastHeld, eternal>>

Miss(p) ==
    /\ call[p] = NoCall
    /\ \E r \in Refs, e \in Expiries :
          /\ ~Valid(KeyOf[r])
          /\ call' = [call EXCEPT ![p] =
                         [stage |-> "fetch", ref |-> r, expiry |-> e,
                          since |-> time, answer |-> NoValue]]
    /\ UNCHANGED <<time, value, envChanges, cached, age, lastHeld, eternal>>

(* Mutant of Fetch: a key that is not there is a value like any other. *)
FetchNothing(p) ==
    /\ call[p].stage = "fetch"
    /\ call' = [call EXCEPT ![p].stage = "set",
                            ![p].answer = value[call[p].ref]]
    /\ UNCHANGED <<time, value, envChanges, cached, age, lastHeld, eternal>>

(* GetEnvValue: the server answers with the value of this moment. *)
Fetch(p) ==
    /\ call[p].stage = "fetch"
    /\ value[call[p].ref] # NoValue
    /\ call' = [call EXCEPT ![p].stage = "set",
                            ![p].answer = value[call[p].ref]]
    /\ UNCHANGED <<time, value, envChanges, cached, age, lastHeld, eternal>>

(* No secret, no key, the deadline: an error, which is not cached. *)
FetchFails(p) ==
    /\ call[p].stage \in {"fetch", "set"}
    /\ call' = [call EXCEPT ![p] = NoCall]
    /\ UNCHANGED <<time, value, envChanges, cached, age, lastHeld, eternal>>

Until(e) ==
    IF e = 0 THEN time + DefaultExpiry ELSE IF e < 0 THEN -1 ELSE time + e

(* The answer arrives, and is cached from now on. *)
Set(p) ==
    /\ call[p].stage = "set"
    /\ LET k == KeyOf[call[p].ref]
       IN  /\ cached' = [cached EXCEPT ![k] =
                            [value |-> call[p].answer,
                             until |-> Until(call[p].expiry)]]
           /\ age' = [age EXCEPT ![p] = AgeOf(k, call[p].answer)]
           /\ eternal' = IF call[p].expiry < 0 THEN eternal \union {k} ELSE eternal
    /\ call' = [call EXCEPT ![p] = NoCall]
    /\ UNCHANGED <<time, value, envChanges, lastHeld>>

Reader(p) == Hit(p) \/ Miss(p) \/ Fetch(p) \/ FetchFails(p) \/ Set(p)

(* The clock.  A fetch ends by its deadline. *)
Tick ==
    /\ time < Horizon
    /\ \A p \in Readers :
          call[p] = NoCall \/ time < call[p].since + FetchTime
    /\ time' = time + 1
    /\ UNCHANGED <<value, envChanges, cached, call, age, lastHeld, eternal>>

(* Somebody writes the secret or config map. *)
EnvChanges ==
    /\ envChanges < MaxEnvChanges
    /\ envChanges' = envChanges + 1
    /\ \E r \in Refs : \E v \in EnvValues \ {value[r]} :
          /\ value' = [value EXCEPT ![r] = v]
          /\ lastHeld' = IF value[r] = NoValue THEN lastHeld
                         ELSE [lastHeld EXCEPT ![r][value[r]] = time]
    /\ UNCHANGED <<time, cached, call, age, eternal>>

EnvNext == Tick \/ EnvChanges \/ \E p \in Readers : Reader(p)

-----------------------------------------------------------------------------
Longest ==
    LET given == {DefaultExpiry} \union Expiries
    IN  CHOOSE e \in given : \A f \in given : f <= e

(* A value returned was that of a reference with the same key no longer    *)
(* ago than an expiry and a fetch, unless a caller cached the key for      *)
(* ever: later hits do not prolong an entry, and a fetch that was slow     *)
(* does not bring back what had expired (shortcuts.go:363-378).            *)
BoundedStaleness ==
    \A p \in Readers :
        age[p] > Longest + FetchTime => eternal # {}
=============================================================================
