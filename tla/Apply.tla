-------------------------------- MODULE Apply --------------------------------
(***************************************************************************)
(* Client.Apply of apply.go for one object, run by several appliers beside *)
(* other clients: read the existing object; create it, leave it, or update *)
(* it carrying the resource version read (copyImmutable); and when the     *)
(* server answers that a field is immutable, delete it by name and create  *)
(* it again.                                                               *)
(***************************************************************************)
EXTENDS Naturals

CONSTANTS
    Appliers,       \* concurrent calls of Apply for the same object
    Specs,          \* contents of the object, as HasChanges compares them
    Desired,        \* [Appliers -> Specs]: what each call applies
    Shape,          \* [Specs -> anything]: the immutable fields of a content
    Replaceable,    \* a kind RequiresReplacement accepts
    Finalizers,     \* the object may outlive its deletion for a while
    RequestsFail,   \* a request may fail without effect
    MaxEdits        \* bound on the steps of the other clients

ASSUME ApplyAssumption ==
    /\ Desired \in [Appliers -> Specs]
    /\ DOMAIN Shape = Specs
    /\ {Replaceable, Finalizers, RequestsFail} \subseteq BOOLEAN
    /\ MaxEdits \in Nat

NoObject == [spec |-> "none", version |-> 0, deleting |-> FALSE]

VARIABLES
    obj,        \* the object on the server, or NoObject
    clock,      \* the server's revision: no two versions are equal
    edits,      \* steps taken by the other clients
    pc,         \* where each Apply is
    existing,   \* what its Get returned
    result,     \* what it returned; "bare" is the error of apply.go:304
    held,       \* history: the object had the desired content at some time
                \* between the Get and the return
    remains,    \* history: the appliers that returned "bare" while an object
                \* of that name existed
    blind       \* history: the appliers that overwrote or deleted a version
                \* they had not read

serverVars == <<obj, clock, edits>>
vars == <<obj, clock, edits, pc, existing, result, held, remains, blind>>

Exists == obj # NoObject

Objects == [spec : Specs, version : Nat \ {0}, deleting : BOOLEAN]

(* The variables keep their types. *)
TypeOK ==
    /\ obj \in Objects \union {NoObject}
    /\ clock \in Nat
    /\ edits \in 0..MaxEdits
    /\ pc \in [Appliers ->
                 {"get", "create", "update", "delete", "recreate", "done"}]
    /\ existing \in [Appliers -> Objects \union {NoObject}]
    /\ result \in [Appliers -> {"none", "nil", "error", "bare"}]
    /\ held \in [Appliers -> BOOLEAN]
    /\ remains \subseteq Appliers
    /\ blind \subseteq Appliers

Init ==
    /\ obj \in {NoObject} \union
               {[spec |-> s, version |-> 1, deleting |-> FALSE] : s \in Specs}
    /\ clock = 1
    /\ edits = 0
    /\ pc = [a \in Appliers |-> "get"]
    /\ existing = [a \in Appliers |-> NoObject]
    /\ result = [a \in Appliers |-> "none"]
    /\ held = [a \in Appliers |-> obj.spec = Desired[a]]
    /\ remains = {}
    /\ blind = {}

-----------------------------------------------------------------------------
(* The server.                                                             *)

Write(s) ==
    /\ clock' = clock + 1
    /\ obj' = [spec |-> s, version |-> clock + 1,
               deleting |-> Exists /\ obj.deleting]

(* A delete removes the object at once, or marks it if it has finalizers. *)
Remove ==
    /\ clock' = clock + 1
    /\ \/ obj' = NoObject
       \/ /\ Finalizers
          /\ obj' = [obj EXCEPT !.deleting = TRUE, !.version = clock + 1]

-----------------------------------------------------------------------------
(* One Apply.                                                              *)

At(a, here) == pc[a] = here
Goto(a, there) == pc' = [pc EXCEPT ![a] = there]

Return(a, r) ==
    /\ result' = [result EXCEPT ![a] = r]
    /\ Goto(a, "done")

(* Mutant of Get: an unchanged object is reported as a result of its own. *)
GetUnchanged(a) ==
    /\ At(a, "get")
    /\ existing' = [existing EXCEPT ![a] = obj]
    /\ IF obj = NoObject THEN Goto(a, "create") /\ UNCHANGED result
       ELSE IF obj.spec = Desired[a] THEN Return(a, "unchanged")
       ELSE Goto(a, "update") /\ UNCHANGED result
    /\ UNCHANGED <<serverVars, blind>>

(* Any error of the Get counts as "does not exist". *)
Get(a) ==
    /\ At(a, "get")
    /\ \E answer \in {obj} \union (IF RequestsFail THEN {NoObject} ELSE {}) :
          /\ existing' = [existing EXCEPT ![a] = answer]
          /\ IF answer = NoObject THEN Goto(a, "create") /\ UNCHANGED result
             ELSE IF answer.spec = Desired[a] THEN Return(a, "nil")
             ELSE Goto(a, "update") /\ UNCHANGED result
    /\ UNCHANGED <<serverVars, blind>>

Create(a) ==
    /\ At(a, "create")
    /\ IF Exists THEN Return(a, "error") /\ UNCHANGED <<obj, clock>>
                 ELSE Write(Desired[a]) /\ Return(a, "nil")
    /\ UNCHANGED <<edits, existing, blind>>

(* The version read is still the server's.                                 *)
Fresh(a) == Exists /\ obj.version = existing[a].version

(* The server refuses a stale version before it looks at the content. *)
UpdateRefused(a) ==
    /\ At(a, "update")
    /\ ~Fresh(a)
    /\ Return(a, "error")
    /\ UNCHANGED <<serverVars, existing, blind>>

(* Mutant of UpdateAccepted: copyImmutable does not copy the resource      *)
(* version, so that the server takes the update whatever is there.         *)
UpdateUnconditional(a) ==
    /\ At(a, "update")
    /\ Exists
    /\ Shape[obj.spec] = Shape[Desired[a]]
    /\ Write(Desired[a])
    /\ blind' = IF Fresh(a) THEN blind ELSE blind \union {a}
    /\ Return(a, "nil")
    /\ UNCHANGED <<edits, existing>>

UpdateAccepted(a) ==
    /\ At(a, "update")
    /\ Fresh(a)
    /\ Shape[obj.spec] = Shape[Desired[a]]
    /\ Write(Desired[a])
    /\ blind' = IF Fresh(a) THEN blind ELSE blind \union {a}
    /\ Return(a, "nil")
    /\ UNCHANGED <<edits, existing>>

(* An immutable field would change: replace, or give up. *)
UpdateImmutable(a) ==
    /\ At(a, "update")
    /\ Fresh(a)
    /\ Shape[obj.spec] # Shape[Desired[a]]
    /\ IF Replaceable THEN Goto(a, "delete") /\ UNCHANGED result
                      ELSE Return(a, "error")
    /\ UNCHANGED <<serverVars, existing, blind>>

(* The delete of a replacement is by name, whatever version is there now. *)
Delete(a) ==
    /\ At(a, "delete")
    /\ IF Exists
       THEN /\ Remove
            /\ blind' = IF Fresh(a) THEN blind ELSE blind \union {a}
            /\ Goto(a, "recreate")
            /\ UNCHANGED result
       ELSE Return(a, "error") /\ UNCHANGED <<obj, clock, blind>>
    /\ UNCHANGED <<edits, existing>>

Recreate(a) ==
    /\ At(a, "recreate")
    /\ IF Exists THEN Return(a, "bare") /\ UNCHANGED <<obj, clock>>
                 ELSE Write(Desired[a]) /\ Return(a, "nil")
    /\ UNCHANGED <<edits, existing, blind>>

(* Mutant of RequestFails: the error of the request is only logged. *)
RequestFailsUnheard(a) ==
    /\ RequestsFail
    /\ pc[a] \in {"create", "update", "delete", "recreate"}
    /\ Return(a, "nil")
    /\ UNCHANGED <<serverVars, existing, blind>>

(* A request fails without effect; at "get", what Apply does before it (the *)
(* client for the object's kind, waiting for its API resource, defaults,   *)
(* the kustomization) fails.                                               *)
RequestFails(a) ==
    /\ RequestsFail
    /\ \/ pc[a] \in {"get", "create", "update", "delete"} /\ Return(a, "error")
       \/ pc[a] = "recreate" /\ Return(a, "bare")
    /\ UNCHANGED <<serverVars, existing, blind>>

Applier(a) ==
    \/ Get(a) \/ Create(a)
    \/ UpdateRefused(a) \/ UpdateAccepted(a) \/ UpdateImmutable(a)
    \/ Delete(a) \/ Recreate(a) \/ RequestFails(a)

-----------------------------------------------------------------------------
(* The other clients edit, delete and create the object; a finalizer ends. *)

Edit(s) ==
    /\ Exists
    /\ Shape[s] = Shape[obj.spec]
    /\ Write(s)

Others ==
    /\ \/ /\ edits < MaxEdits
          /\ edits' = edits + 1
          /\ \/ \E s \in Specs : Edit(s) \/ (~Exists /\ Write(s))
             \/ Exists /\ Remove
       \/ /\ Exists /\ obj.deleting
          /\ obj' = NoObject
          /\ UNCHANGED <<clock, edits>>
    /\ UNCHANGED <<pc, existing, result, blind>>

(* What the history variables observe of every step. *)
Observe ==
    /\ held' = [a \in Appliers |->
                   held[a] \/ (pc[a] # "done" /\ obj'.spec = Desired[a])]
    /\ remains' = remains \union
          {a \in Appliers : /\ result[a] # "bare" /\ result'[a] = "bare"
                           /\ obj' # NoObject}

Next == ((\E a \in Appliers : Applier(a)) \/ Others) /\ Observe

Spec == Init /\ [][Next]_vars

-----------------------------------------------------------------------------
(* Properties.                                                             *)

(* nil from Apply means that the object did have the content applied at    *)
(* some moment of the call, whatever the other appliers and clients did.   *)
NilMeansApplied == \A a \in Appliers : result[a] = "nil" => held[a]

(* An edit another client made after the Get is never overwritten unseen,  *)
(* thanks to the resource version copied from the existing object; only a  *)
(* replacement, which deletes by name, can destroy one.                    *)
NoBlindOverwrite ==
    \A a \in blind : Replaceable /\ Shape[existing[a].spec] # Shape[Desired[a]]

(* "failed to recreate %s, during replacement, neither the new or old      *)
(* object remain" (apply.go:304): a call returns this only when no object  *)
(* of that name exists.                                                    *)
BareMeansBare == remains = {}
=============================================================================
