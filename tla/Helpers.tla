------------------------------- MODULE Helpers -------------------------------
(***************************************************************************)
(* Three loops of helpers over lists: the truncation of GetDNS1192Name     *)
(* (utils.go), templatizePatch (helper.go), and the node ports of          *)
(* copyImmutable (apply.go).  Each works on the list it is given and says  *)
(* what it did.                                                            *)
(***************************************************************************)
EXTENDS Integers, Sequences, FiniteSetsExt

CONSTANTS
    MaxLength,      \* dns1192MaxLength
    MaxName,        \* bound of the length of a name
    MaxWords,       \* bound of the words, the documents and the ports
    NodePorts       \* numbers of ports on the nodes; 0 is none

ASSUME HelpersAssumption ==
    /\ MaxLength \in Nat \ {0}
    /\ MaxName \in Nat
    /\ MaxWords \in Nat
    /\ 0 \notin NodePorts

VARIABLES
    helper,     \* which one runs or has ended: "none", "name", "patch", ...
    given,      \* the list it was given
    piece,      \* the piece that templatizePatch reads next
    made        \* what came of it

helperVars == <<helper, given, piece, made>>

HelpersInit ==
    /\ helper = "none"
    /\ given = <<>>
    /\ piece = 1
    /\ made = <<>>

UpTo(S) == UNION {[1 .. n -> S] : n \in 0 .. MaxWords}

-----------------------------------------------------------------------------
(* GetDNS1192Name, once the name has only letters, digits and single       *)
(* dashes within: a name is where its words end, a dash before the next.   *)

Names ==
    {ends \in UpTo(1 .. MaxName) :
        \A i, j \in DOMAIN ends : i < j => ends[i] + 2 <= ends[j]}

Length(ends) == IF ends = <<>> THEN 0 ELSE ends[Len(ends)]

(* SplitAfter: where the i-th part ends; every word but the last keeps its *)
(* dash.                                                                   *)
PartEnd(ends, i) == ends[i] + IF i < Len(ends) THEN 1 ELSE 0

(* Mutant of Kept: the dashes are not counted. *)
KeptDashless(ends) ==
    LET Fits(n) == \A i \in 1 .. n : ends[i] - (i - 1) <= MaxLength
    IN  Max({n \in 0 .. Len(ends) : Fits(n)})

(* How many words the loop takes: it stops at the first that does not fit, *)
(* not counting the last character, which it takes for a dash.             *)
Kept(ends) ==
    LET Fits(n) == \A i \in 1 .. n : PartEnd(ends, i) - 1 <= MaxLength
    IN  Max({n \in 0 .. Len(ends) : Fits(n)})

Truncated(ends) ==
    IF Length(ends) <= MaxLength THEN Length(ends)
    ELSE IF PartEnd(ends, 1) > MaxLength THEN MaxLength
    ELSE ends[Kept(ends)]

GetDNS1192Name ==
    /\ helper = "none"
    /\ \E ends \in Names :
          /\ given' = ends
          /\ made' = <<Truncated(ends)>>
    /\ helper' = "name"
    /\ UNCHANGED piece

-----------------------------------------------------------------------------
(* templatizePatch: the pieces of the patch between "---", "empty" if      *)
(* nothing is between two, "blank" if no document is; what it makes        *)
(* are the numbers of the pieces it takes.                                 *)
(* A document it cannot parse ends the call with an error: not modelled.   *)

StartPatch ==
    /\ helper = "none"
    /\ \E pieces \in UpTo({"empty", "blank", "document"}) \ {<<>>} : given' = pieces
    /\ helper' = "patch"
    /\ UNCHANGED <<piece, made>>

(* Past the last piece there is nothing. *)
Text == IF piece <= Len(given) THEN given[piece] ELSE "empty"

(* The rest is empty: nothing is left, or one piece of nothing. *)
NoRest ==
    \/ piece >= Len(given)
    \/ piece + 1 = Len(given) /\ given[Len(given)] = "empty"

GoOn == piece' = IF NoRest THEN Len(given) + 1 ELSE piece + 1

(* An empty piece is skipped, and the loop goes on with what follows,      *)
(* nothing if need be.                                                     *)
SkipPiece ==
    /\ helper = "patch"
    /\ Text = "empty"
    /\ GoOn
    /\ UNCHANGED <<helper, given, made>>

TakePiece ==
    /\ helper = "patch"
    /\ Text # "empty"
    /\ made' = Append(made, piece)
    /\ GoOn
    /\ helper' = IF NoRest THEN "patched" ELSE helper
    /\ UNCHANGED given

-----------------------------------------------------------------------------
(* copyImmutable for a service of type LoadBalancer: the node ports of the *)
(* existing service, by index, over those of the new one.                  *)

PortLists == {ports \in UpTo(NodePorts \union {0}) :
                 \A i, j \in DOMAIN ports : ports[i] = ports[j] => i = j \/ ports[i] = 0}

CopyPorts(from, to) ==
    [i \in DOMAIN to |-> IF from[i] # 0 THEN from[i] ELSE to[i]]

(* An index of the existing ports out of range: a panic. *)
CopyNodePorts ==
    /\ helper = "none"
    /\ \E from, to \in PortLists :
          /\ given' = <<from, to>>
          /\ IF Len(to) > Len(from)
             THEN helper' = "panic" /\ UNCHANGED made
             ELSE helper' = "ports" /\ made' = CopyPorts(from, to)
    /\ UNCHANGED piece

HelpersNext ==
    GetDNS1192Name \/ StartPatch \/ SkipPiece \/ TakePiece \/ CopyNodePorts

-----------------------------------------------------------------------------
(* A name is not longer than the maximum, but for one that is one too long *)
(* and whose last word makes it so (utils.go:739); it is never empty; and  *)
(* no word is dropped with which the name would have had the length.       *)
NameBounded ==
    helper = "name" /\ given # <<>> =>
        /\ made[1] <= MaxLength \/ Length(given) = MaxLength + 1
        /\ made[1] >= 1
        /\ \A i \in DOMAIN given : given[i] <= MaxLength => given[i] <= made[1]

(* Nothing is left, and the loop has not ended. *)
Stuck == helper = "patch" /\ piece > Len(given)

(* The loop has nothing left to read, and goes on all the same (helper.go: *)
(* 92), only if the patch is nothing, or ends in two pieces of nothing;    *)
(* and all that is in the patch has then been read, in its order.          *)
PatchRead ==
    /\ Stuck => \A i \in DOMAIN given : i >= Len(given) - 1 => given[i] = "empty"
    /\ helper = "patched" \/ Stuck =>
          /\ {made[i] : i \in DOMAIN made} = {i \in DOMAIN given : given[i] # "empty"}
          /\ \A i, j \in DOMAIN made : i < j => made[i] < made[j]

(* Unless the new service has ports that the existing one has not          *)
(* (apply.go:50), the node ports that are there stay; and no two ports get *)
(* the same one if the new service names none.                             *)
PortsKept ==
    /\ helper = "panic" => Len(given[2]) > Len(given[1])
    /\ helper = "ports" =>
          /\ \A i \in DOMAIN made : given[1][i] # 0 => made[i] = given[1][i]
          /\ (\A i \in DOMAIN made : given[2][i] = 0) => made \in PortLists

HelpersBounded == NameBounded /\ PatchRead /\ PortsKept
=============================================================================
