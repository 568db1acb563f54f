----------------------------- MODULE RestMapper -----------------------------
(***************************************************************************)
(* WaitForRestMapping and GetRestMapper of client.go: calls that share     *)
(* Client.restMapper, which has no lock, and the discovery cache on disk.  *)
(* One type is looked up; it may come to the server or go from it.         *)
(* Of client-go only this is modelled: a new mapper is loaded at its first *)
(* use, from files that are less than ten minutes old if there are any; a  *)
(* mapper loaded from files asks the server before it says NoMatch; one    *)
(* loaded from the server answers from what it has loaded for ever.        *)
(***************************************************************************)
EXTENDS Naturals, FiniteSets

CONSTANTS
    Lookups,        \* concurrent calls of WaitForRestMapping
    Mappers,        \* mappers there may be at a time
    NoMapper,       \* nil
    MaxTypeChanges  \* bound: how often the type comes or goes

ASSUME RestMapperAssumption ==
    /\ IsFiniteSet(Lookups) /\ IsFiniteSet(Mappers)
    /\ Cardinality(Mappers) > Cardinality(Lookups)
    /\ NoMapper \notin Mappers
    /\ MaxTypeChanges \in Nat

VARIABLES
    served,     \* the server has the type
    typeChanges,    \* how often that changed
    disk,       \* the files: "none" (or expired), "with", "without" the type
    heap,       \* what each mapper has loaded, and whether from the server
    restMapper, \* Client.restMapper
    step,       \* where each call is
    rm,         \* the mapper it uses
    overdue,    \* its two minutes have passed
    mapped,     \* what it returned; "panic" when it used a nil mapper
    absent,     \* history: the server lacked the type during the call
    flushed     \* history: another call set restMapper to nil while this one
                \* was in GetRestMapper

mapperServer == <<served, typeChanges, disk>>
mapperVars == <<served, typeChanges, disk, heap, restMapper, step, rm, overdue,
                mapped, absent, flushed>>

Views == {"unloaded", "with", "without"}

MapperTypeOK ==
    /\ served \in BOOLEAN
    /\ typeChanges \in 0 .. MaxTypeChanges
    /\ disk \in {"none", "with", "without"}
    /\ heap \in [Mappers -> [view : Views, fresh : BOOLEAN]]
    /\ restMapper \in Mappers \union {NoMapper}
    /\ step \in [Lookups -> {"idle", "get", "read", "create", "map", "flush",
                             "test", "sleep", "done"}]
    /\ rm \in [Lookups -> Mappers \union {NoMapper}]
    /\ overdue \in [Lookups -> BOOLEAN]
    /\ mapped \in [Lookups -> {"none", "mapping", "error", "timeout", "panic"}]
    /\ absent \in [Lookups -> BOOLEAN]
    /\ flushed \in [Lookups -> BOOLEAN]

MapperInit ==
    /\ served = FALSE
    /\ typeChanges = 0
    /\ disk = "none"
    /\ heap = [m \in Mappers |-> [view |-> "unloaded", fresh |-> TRUE]]
    /\ restMapper = NoMapper
    /\ step = [c \in Lookups |-> "idle"]
    /\ rm = [c \in Lookups |-> NoMapper]
    /\ overdue = [c \in Lookups |-> FALSE]
    /\ mapped = [c \in Lookups |-> "none"]
    /\ absent = [c \in Lookups |-> FALSE]
    /\ flushed = [c \in Lookups |-> FALSE]

-----------------------------------------------------------------------------
Move(c, from, to) == step[c] = from /\ step' = [step EXCEPT ![c] = to]

Begin(c) ==
    /\ Move(c, "idle", "get")
    /\ absent' = [absent EXCEPT ![c] = ~served]
    /\ UNCHANGED <<mapperServer, heap, restMapper, rm, overdue, mapped, flushed>>

(* GetRestMapper tests the field ... *)
TestField(c) ==
    /\ Move(c, "get", IF restMapper # NoMapper THEN "read" ELSE "create")
    /\ flushed' = [flushed EXCEPT ![c] = FALSE]
    /\ UNCHANGED <<mapperServer, heap, restMapper, rm, overdue, mapped, absent>>

Free == {m \in Mappers : m # restMapper /\ \A c \in Lookups : rm[c] # m}

(* ... sets it ... *)
Create(c) ==
    /\ Move(c, "create", "read")
    /\ LET m == CHOOSE m \in Free : TRUE
       IN  /\ restMapper' = m
           /\ heap' = [heap EXCEPT ![m] = [view |-> "unloaded", fresh |-> TRUE]]
    /\ UNCHANGED <<mapperServer, rm, overdue, mapped, absent, flushed>>

(* ... and reads it again to return it. *)
ReadField(c) ==
    /\ Move(c, "read", "map")
    /\ rm' = [rm EXCEPT ![c] = restMapper]
    /\ UNCHANGED <<mapperServer, heap, restMapper, overdue, mapped, absent,
                   flushed>>

Live == IF served THEN "with" ELSE "without"

(* The view a mapper answers from: as loaded, from the files, or, when     *)
(* there are none or they lack the type, from the server.                  *)
Loaded(m) ==
    IF heap[m].view = "unloaded" /\ disk = "with"
    THEN [view |-> "with", fresh |-> FALSE]
    ELSE IF heap[m].view = "with" \/ (heap[m].view = "without" /\ heap[m].fresh)
    THEN heap[m]
    ELSE [view |-> Live, fresh |-> TRUE]

Finish(c, r) ==
    /\ mapped' = [mapped EXCEPT ![c] = r]
    /\ Move(c, "map", "done")
    /\ rm' = [rm EXCEPT ![c] = NoMapper]

Map(c) ==
    /\ step[c] = "map"
    /\ rm[c] # NoMapper
    /\ LET loaded == Loaded(rm[c])
       IN  /\ heap' = [heap EXCEPT ![rm[c]] = loaded]
           /\ disk' = IF loaded # heap[rm[c]] /\ loaded.fresh
                      THEN loaded.view ELSE disk
           /\ IF loaded.view = "with" THEN Finish(c, "mapping")
              ELSE Move(c, "map", "flush") /\ UNCHANGED <<mapped, rm>>
    /\ UNCHANGED <<served, typeChanges, restMapper, overdue, absent, flushed>>

MapFails(c) ==
    /\ step[c] = "map"
    /\ rm[c] # NoMapper
    /\ Finish(c, "error")
    /\ UNCHANGED <<mapperServer, heap, restMapper, overdue, absent, flushed>>

(* A method of a nil interface. *)
Panic(c) ==
    /\ step[c] = "map"
    /\ rm[c] = NoMapper
    /\ Finish(c, "panic")
    /\ UNCHANGED <<mapperServer, heap, restMapper, overdue, absent, flushed>>

(* Mutant of Flush: the mapper is kept. *)
FlushForgotten(c) ==
    /\ Move(c, "flush", "test")
    /\ rm' = [rm EXCEPT ![c] = NoMapper]
    /\ UNCHANGED <<mapperServer, heap, restMapper, overdue, mapped, absent,
                   flushed>>

Flush(c) ==
    /\ Move(c, "flush", "test")
    /\ restMapper' = NoMapper
    /\ rm' = [rm EXCEPT ![c] = NoMapper]
    /\ flushed' = [d \in Lookups |->
                      flushed[d] \/ (d # c /\ step[d] \in {"read", "create"})]
    /\ UNCHANGED <<mapperServer, heap, overdue, mapped, absent>>

(* Two minutes, whatever the timeout given. *)
TestTime(c) ==
    /\ step[c] = "test"
    /\ IF overdue[c]
       THEN Move(c, "test", "done") /\ mapped' = [mapped EXCEPT ![c] = "timeout"]
       ELSE Move(c, "test", "sleep") /\ mapped' = mapped
    /\ UNCHANGED <<mapperServer, heap, restMapper, rm, overdue, absent, flushed>>

(* Two seconds: here the time passes; a request is taken to be short       *)
(* against the two minutes.                                                *)
Sleep(c) ==
    /\ Move(c, "sleep", "get")
    /\ \E late \in BOOLEAN : overdue' = [overdue EXCEPT ![c] = overdue[c] \/ late]
    /\ UNCHANGED <<mapperServer, heap, restMapper, rm, mapped, absent, flushed>>

Lookup(c) ==
    \/ Begin(c) \/ TestField(c) \/ Create(c) \/ ReadField(c)
    \/ Map(c) \/ MapFails(c) \/ Panic(c) \/ Flush(c) \/ TestTime(c) \/ Sleep(c)

-----------------------------------------------------------------------------
(* Someone installs or removes the type; the files expire, or kubectl      *)
(* writes them; another call of the client resets the mapper.              *)

TypeChanges ==
    /\ typeChanges < MaxTypeChanges
    /\ typeChanges' = typeChanges + 1
    /\ served' = ~served
    /\ absent' = [c \in Lookups |-> absent[c] \/ served]
    /\ UNCHANGED <<disk, heap, restMapper, step, rm, overdue, mapped, flushed>>

DiskChanges ==
    /\ disk' \in {"none", Live}
    /\ UNCHANGED <<served, typeChanges, heap, restMapper, step, rm, overdue,
                   mapped, absent, flushed>>

ResetRestMapper ==
    /\ restMapper' = NoMapper
    /\ flushed' = [d \in Lookups |->
                      flushed[d] \/ step[d] \in {"read", "create"}]
    /\ UNCHANGED <<mapperServer, heap, step, rm, overdue, mapped, absent>>

MapperNext ==
    \/ \E c \in Lookups : Lookup(c)
    \/ TypeChanges
    \/ DiskChanges
    \/ ResetRestMapper

-----------------------------------------------------------------------------
(* A timeout of WaitForRestMapping is reported only if the server lacked   *)
(* the type at some time during the call: neither the files nor a mapper   *)
(* of another call hides for two minutes a type that is there (the flush   *)
(* of client.go:352).  And a call uses a nil mapper only if the field was  *)
(* set to nil between its test and its second read, by another call.       *)
TruthfulMapping ==
    \A c \in Lookups :
        /\ mapped[c] = "timeout" => absent[c]
        /\ mapped[c] = "panic" => flushed[c]
=============================================================================
