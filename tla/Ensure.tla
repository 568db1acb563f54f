------------------------------- MODULE Ensure -------------------------------
(***************************************************************************)
(* The calls of shortcuts.go that create an object if it is missing:       *)
(* GetOrCreateSecret, CreateOrUpdateNamespace, GetOrCreatePVC and          *)
(* ExposeIngress.  Each looks for the object first; the first two then go  *)
(* through Client.Apply, which reads the object a second time and updates  *)
(* it with the version of that second read (see Apply; neither kind is     *)
(* ever replaced).                                                         *)
(* An object is the entries it has: the data of a secret or the labels of  *)
(* a namespace, and annotations.                                           *)
(***************************************************************************)
EXTENDS Naturals

CONSTANTS
    Callers,        \* concurrent calls for the same object
    EntryNames,     \* keys of data, labels and annotations
    Own,            \* the entries the calls give
    Nil,            \* annotations not given
    MaxOtherWrites  \* bound of what others do to the object

ASSUME EnsureAssumption ==
    /\ Own \subseteq EntryNames
    /\ MaxOtherWrites \in Nat

Contents == [data : SUBSET EntryNames, notes : SUBSET EntryNames]
Things == [content : Contents, edition : Nat \ {0}]
Nothing == [content |-> [data |-> {}, notes |-> {}], edition |-> 0]

VARIABLES
    thing,      \* the object on the server, or Nothing
    editions,   \* how many editions there were
    otherWrites,    \* how many writes of others
    job,        \* which of the calls it is, and with what; or NoJob
    place,      \* where each call is
    before,     \* history: the object when the first Get was answered
    found,      \* what the Get of Apply returned
    wish,       \* what it applies or creates
    outcome,    \* what it returned
    unseeing,   \* history: the first Get failed
    lost        \* history: the parts of the object of which a call removed
                \* entries

ensureVars == <<thing, editions, otherWrites, job, place, before, found, wish,
                outcome, unseeing, lost>>
ensureServer == <<thing, editions, otherWrites>>

Jobs == [kind : {"secret", "namespace", "claim", "ingress"},
         notes : {Nil, Own},    \* the annotations given
         name : {"own", "same", "taken"}]
NoJob == [kind |-> "none", notes |-> Nil, name |-> "own"]

EnsureTypeOK ==
    /\ thing \in Things \union {Nothing}
    /\ editions \in Nat
    /\ otherWrites \in 0 .. MaxOtherWrites
    /\ job \in Jobs \union {NoJob}
    /\ place \in [Callers -> {"look", "get", "create", "update", "done"}]
    /\ before \in [Callers -> Things \union {Nothing}]
    /\ found \in [Callers -> Things \union {Nothing}]
    /\ wish \in [Callers -> Contents]
    /\ outcome \in [Callers -> {"none", "nil", "error"}]
    /\ unseeing \subseteq Callers
    /\ lost \subseteq Callers \X {"data", "notes"}

EnsureInit ==
    /\ thing = Nothing
    /\ editions = 0
    /\ otherWrites = 0
    /\ job = NoJob
    /\ place = [c \in Callers |-> "look"]
    /\ before = [c \in Callers |-> Nothing]
    /\ found = [c \in Callers |-> Nothing]
    /\ wish = [c \in Callers |-> Nothing.content]
    /\ outcome = [c \in Callers |-> "none"]
    /\ unseeing = {}
    /\ lost = {}

(* What is called.  For a secret: whether its name is that of its          *)
(* namespace ("same"), and if not whether a secret called like its         *)
(* namespace exists in a namespace called like it ("taken").               *)
ChooseJob ==
    /\ job = NoJob
    /\ job' \in {j \in Jobs : j.kind = "secret" \/ j.name = "own"}
    /\ UNCHANGED <<ensureServer, place, before, found, wish, outcome, unseeing, lost>>

-----------------------------------------------------------------------------
Advance(c, from, to) == place[c] = from /\ place' = [place EXCEPT ![c] = to]

End(c, from, r) ==
    /\ Advance(c, from, "done")
    /\ outcome' = [outcome EXCEPT ![c] = r]

GivenNotes == IF job.notes = Nil THEN {} ELSE job.notes

(* Mutant of Merged: what is given replaces what is there. *)
Replaced(t) == [data |-> Own, notes |-> GivenNotes]

(* CreateOrUpdateNamespace keeps the labels that are there, and the        *)
(* annotations if any are given.                                           *)
Merged(t) ==
    [data |-> t.content.data \union Own,
     notes |-> IF job.notes = Nil THEN {} ELSE t.content.notes \union job.notes]

(* HasSecret takes the namespace first; GetOrCreateSecret gives it the     *)
(* name first: it asks for the secret called like the namespace, in the    *)
(* namespace called like the secret.  Any error is "there is none".        *)
LookForSecret(c) ==
    /\ job.kind = "secret"
    /\ IF job.name = "taken" \/ (job.name = "same" /\ thing # Nothing)
       THEN End(c, "look", "nil") /\ UNCHANGED wish
       ELSE /\ Advance(c, "look", "get")
            /\ wish' = [wish EXCEPT ![c] = [data |-> Own, notes |-> {}]]
            /\ UNCHANGED outcome
    /\ UNCHANGED unseeing

LookForNamespace(c) ==
    /\ job.kind = "namespace"
    /\ Advance(c, "look", "get")
    /\ wish' = [wish EXCEPT ![c] = Merged(thing)]
    /\ UNCHANGED <<outcome, unseeing>>

(* GetOrCreatePVC and ExposeIngress leave alone what they find. *)
LookForOther(c) ==
    /\ job.kind \in {"claim", "ingress"}
    /\ IF thing # Nothing
       THEN End(c, "look", "nil") /\ UNCHANGED wish
       ELSE /\ Advance(c, "look", "create")
            /\ wish' = [wish EXCEPT ![c] = [data |-> Own, notes |-> GivenNotes]]
            /\ UNCHANGED outcome
    /\ UNCHANGED unseeing

(* The first Get fails: only GetOrCreatePVC gives up. *)
LookFails(c) ==
    /\ IF job.kind = "claim"
       THEN End(c, "look", "error")
       ELSE /\ Advance(c, "look", IF job.kind = "ingress" THEN "create" ELSE "get")
            /\ UNCHANGED outcome
    /\ wish' = [wish EXCEPT ![c] =
                   [data |-> Own,
                    notes |-> IF job.kind = "secret" THEN {} ELSE GivenNotes]]
    /\ unseeing' = unseeing \union {c}

Look(c) ==
    /\ job # NoJob
    /\ LookForSecret(c) \/ LookForNamespace(c) \/ LookForOther(c) \/ LookFails(c)
    /\ before' = [before EXCEPT ![c] = thing]
    /\ UNCHANGED <<ensureServer, job, found, lost>>

(* The Get of Apply: any error counts as "does not exist". *)
GetAgain(c) ==
    /\ \E answer \in {thing, Nothing} :
          /\ found' = [found EXCEPT ![c] = answer]
          /\ IF answer = Nothing
             THEN Advance(c, "get", "create") /\ UNCHANGED outcome
             ELSE IF answer.content = wish[c] THEN End(c, "get", "nil")
             ELSE Advance(c, "get", "update") /\ UNCHANGED outcome
    /\ UNCHANGED <<ensureServer, job, before, wish, unseeing, lost>>

Put(content) ==
    /\ editions' = editions + 1
    /\ thing' = [content |-> content, edition |-> editions + 1]

Lost(c, old, new) ==
    {x \in {<<c, "data">>, <<c, "notes">>} :
        IF x[2] = "data" THEN ~ old.data \subseteq new.data
                         ELSE ~ old.notes \subseteq new.notes}

(* The server takes the update of the edition read, and only that. *)
UpdateThing(c) ==
    /\ IF thing # Nothing /\ thing.edition = found[c].edition
       THEN /\ Put(wish[c])
            /\ lost' = lost \union Lost(c, thing.content, wish[c])
            /\ End(c, "update", "nil")
       ELSE End(c, "update", "error") /\ UNCHANGED <<thing, editions, lost>>
    /\ UNCHANGED <<otherWrites, job, before, found, wish, unseeing>>

(* The server creates nothing over an object that is there. *)
CreateThing(c) ==
    /\ IF thing = Nothing THEN Put(wish[c]) /\ End(c, "create", "nil")
       ELSE End(c, "create", "error") /\ UNCHANGED <<thing, editions>>
    /\ UNCHANGED <<otherWrites, job, before, found, wish, unseeing, lost>>

EnsureRequestFails(c) ==
    /\ End(c, "update", "error") \/ End(c, "create", "error")
    /\ UNCHANGED <<ensureServer, job, before, found, wish, unseeing, lost>>

(* Others create the object, edit it, leaving what the calls give or not,  *)
(* and delete it.                                                          *)
OtherWrites ==
    /\ otherWrites < MaxOtherWrites
    /\ otherWrites' = otherWrites + 1
    /\ \/ \E d, n \in SUBSET (EntryNames \ Own), kept \in {{}, Own} :
             Put([data |-> d \union kept, notes |-> n])
       \/ thing # Nothing /\ thing' = Nothing /\ UNCHANGED editions
    /\ UNCHANGED <<job, place, before, found, wish, outcome, unseeing, lost>>

EnsureNext ==
    \/ ChooseJob
    \/ OtherWrites
    \/ \E c \in Callers :
          Look(c) \/ GetAgain(c) \/ UpdateThing(c) \/ CreateThing(c)
          \/ EnsureRequestFails(c)

-----------------------------------------------------------------------------
(* A call that only ensures that an object is there takes nothing from an  *)
(* object that others made or changed before its first Get.  A claim or an *)
(* ingress loses nothing at all.  Where Apply follows, entries go only if  *)
(* the first Get failed (shortcuts.go:42, 243), if the object changed      *)
(* between the two Gets, if the annotations of a namespace are set and     *)
(* none are given (shortcuts.go:73), or if the secret asked for by         *)
(* GetOrCreateSecret was another one (shortcuts.go:244 and 547).           *)
EnsureKeepsOthers ==
    \A x \in lost :
        /\ job.kind \in {"secret", "namespace"}
        /\ \/ x[1] \in unseeing
           \/ before[x[1]] # found[x[1]]
           \/ job.kind = "secret" /\ job.name = "own"
           \/ job.kind = "namespace" /\ x[2] = "notes" /\ job.notes = Nil
=============================================================================
