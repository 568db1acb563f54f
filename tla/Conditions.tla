----------------------------- MODULE Conditions -----------------------------
(***************************************************************************)
(* SetCondition of conditions.go: controllers read an object (Refresh),    *)
(* each into an item of its own, and set conditions on it.  SetCondition   *)
(* compares with the item in hand, changes it, and updates the object with *)
(* the version in hand; the object the server returns is thrown away.      *)
(* For kinds whose status is written with the object (no subresource).     *)
(***************************************************************************)
EXTENDS Naturals

CONSTANTS
    Controllers,    \* each with an item in hand
    Types,          \* the types of conditions
    Statuses,       \* what they may say
    Absent,         \* the object has no such condition
    MaxVersions     \* bound on the writes of the object

ASSUME ConditionsAssumption ==
    /\ Absent \notin Statuses \union Controllers
    /\ MaxVersions \in Nat \ {0}

VARIABLES
    stored,     \* the object on the server, or Gone
    version,    \* the last version given out
    writer,     \* history: the controller that made the last write, if any
    item,       \* [Controllers -> the item in hand, or Gone (nil)]
    said,       \* [Controllers -> what the last SetCondition returned, and
                \* the condition it was for]
    shown,      \* history: the statuses of each type the object had since the
                \* item in hand was read
    asked,      \* history: the types set on the item in hand
    unsaved     \* history: those whose update returned an error

conditionVars == <<stored, version, writer, item, said, shown, asked, unsaved>>

Gone == [conds |-> [t \in Types |-> Absent], version |-> 0]
Items == [conds : [Types -> Statuses \union {Absent}], version : 1 .. MaxVersions]
NotSaid == [result |-> "none", type |-> Absent, status |-> Absent]

ConditionsTypeOK ==
    /\ stored \in Items \union {Gone}
    /\ version \in 1 .. MaxVersions
    /\ writer \in Controllers \union {Absent}
    /\ item \in [Controllers -> Items \union {Gone}]
    /\ said \in [Controllers -> {NotSaid} \union
           [result : {"nil", "error"}, type : Types, status : Statuses]]
    /\ shown \in [Controllers -> [Types -> SUBSET Statuses]]
    /\ asked \in [Controllers -> SUBSET Types]
    /\ unsaved \in [Controllers -> SUBSET Types]

ConditionsInit ==
    /\ stored = [conds |-> [t \in Types |-> Absent], version |-> 1]
    /\ version = 1
    /\ writer = Absent
    /\ item = [c \in Controllers |-> Gone]
    /\ said = [c \in Controllers |-> NotSaid]
    /\ shown = [c \in Controllers |-> [t \in Types |-> {}]]
    /\ asked = [c \in Controllers |-> {}]
    /\ unsaved = [c \in Controllers |-> {}]

-----------------------------------------------------------------------------
Says(conds) == [t \in Types |-> {conds[t]} \ {Absent}]

(* GetByKind: an object that is not there is nil, without an error. *)
Refresh(c) ==
    /\ item' = [item EXCEPT ![c] = stored]
    /\ said' = [said EXCEPT ![c] = NotSaid]
    /\ shown' = [shown EXCEPT ![c] = Says(stored.conds)]
    /\ asked' = [asked EXCEPT ![c] = {}]
    /\ unsaved' = [unsaved EXCEPT ![c] = {}]
    /\ UNCHANGED <<stored, version, writer>>

Say(c, r, t, s) ==
    said' = [said EXCEPT ![c] = [result |-> r, type |-> t, status |-> s]]

SetNothing(c, t, s) ==
    /\ item[c] = Gone
    /\ Say(c, "error", t, s)
    /\ UNCHANGED <<stored, version, writer, item, shown, asked, unsaved>>

(* Only the heartbeat is new: nothing is written. *)
SetUnchanged(c, t, s) ==
    /\ item[c] # Gone
    /\ item[c].conds[t] = s
    /\ Say(c, "nil", t, s)
    /\ UNCHANGED <<stored, version, writer, item, shown, asked, unsaved>>

(* The server takes the whole item. *)
Store(c, conds) ==
    /\ version < MaxVersions
    /\ version' = version + 1
    /\ stored' = [conds |-> conds, version |-> version']
    /\ writer' = c
    /\ shown' = [d \in Controllers |->
                    [t \in Types |-> shown[d][t] \union Says(conds)[t]]]

Change(c, t, s) ==
    /\ item[c] # Gone
    /\ item[c].conds[t] # s
    /\ item' = [item EXCEPT ![c].conds[t] = s]
    /\ asked' = [asked EXCEPT ![c] = @ \union {t}]

(* Mutant of SetStored: the version in hand is not sent. *)
SetAnyVersion(c, t, s) ==
    /\ Change(c, t, s)
    /\ stored # Gone
    /\ Store(c, item'[c].conds)
    /\ \/ Say(c, "nil", t, s) /\ UNCHANGED unsaved
       \/ Say(c, "error", t, s) /\ unsaved' = [unsaved EXCEPT ![c] = @ \union {t}]

(* The item is written; the answer may be lost.  It keeps the version it   *)
(* had, so that the next update of the same item is refused.               *)
SetStored(c, t, s) ==
    /\ Change(c, t, s)
    /\ stored # Gone
    /\ stored.version = item[c].version
    /\ Store(c, item'[c].conds)
    /\ \/ Say(c, "nil", t, s) /\ UNCHANGED unsaved
       \/ Say(c, "error", t, s) /\ unsaved' = [unsaved EXCEPT ![c] = @ \union {t}]

(* Mutant of SetRefused: the conflict is taken for success. *)
SetRefusedUnheard(c, t, s) ==
    /\ Change(c, t, s)
    /\ Say(c, "nil", t, s)
    /\ UNCHANGED <<stored, version, writer, shown, unsaved>>

(* A conflict, no such object, or a request that fails: the item in hand   *)
(* keeps the new condition all the same.                                   *)
SetRefused(c, t, s) ==
    /\ Change(c, t, s)
    /\ Say(c, "error", t, s)
    /\ unsaved' = [unsaved EXCEPT ![c] = @ \union {t}]
    /\ UNCHANGED <<stored, version, writer, shown>>

SetCondition(c, t, s) ==
    \/ SetNothing(c, t, s)
    \/ SetUnchanged(c, t, s)
    \/ SetStored(c, t, s)
    \/ SetRefused(c, t, s)

(* The object is deleted, and created again. *)
ObjectGoes ==
    /\ stored # Gone
    /\ stored' = Gone
    /\ writer' = Absent
    /\ UNCHANGED <<version, item, said, shown, asked, unsaved>>

ObjectComes ==
    /\ stored = Gone
    /\ Store(Absent, [t \in Types |-> Absent])
    /\ UNCHANGED <<item, said, asked, unsaved>>

ConditionsNext ==
    \/ \E c \in Controllers : Refresh(c)
    \/ \E c \in Controllers, t \in Types, s \in Statuses : SetCondition(c, t, s)
    \/ ObjectGoes
    \/ ObjectComes

-----------------------------------------------------------------------------
(* nil from SetCondition means that the object had this status at some     *)
(* time since the item in hand was read, whatever the other controllers    *)
(* do; unless an update of this condition returned an error before, after  *)
(* which the item in hand says what the object may not (conditions.go:110, *)
(* a retry with the same item is then a no-op).                            *)
NilMeansSet ==
    \A c \in Controllers :
        LET r == said[c]
        IN  r.result = "nil" =>
                r.status \in shown[c][r.type] \/ r.type \in unsaved[c]

(* A write of one controller changes only the conditions that it was asked *)
(* to set on the item in hand: a condition another controller wrote after  *)
(* the item was read is never put back, as the version goes with it.       *)
OthersConditionsKept ==
    [][\A c \in Controllers :
          writer' = c /\ version' # version =>
              \A t \in Types \ asked'[c] : stored'.conds[t] = stored.conds[t]]_conditionVars
=============================================================================
