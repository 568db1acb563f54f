----------------------------- MODULE RestConfig -----------------------------
(***************************************************************************)
(* GetRestClient of client.go: every call writes the group version and the *)
(* path of its own type into the one rest.Config of the client, without a  *)
(* lock, and builds a client from what is there.                           *)
(***************************************************************************)
EXTENDS Naturals

CONSTANTS
    Builders,       \* concurrent calls of GetRestClient
    Groups,         \* the groups of their types
    Core            \* the group whose name is empty

ASSUME RestConfigAssumption == Core \in Groups

VARIABLES
    config,     \* the shared GroupVersion and APIPath
    want,       \* the group of each call's type
    turn,       \* where each call is
    client,     \* the GroupVersion and APIPath of the client it built
    mixed       \* history: the calls that ran while another did

configVars == <<config, want, turn, client, mixed>>

NoGroup == "none"
Path(g) == IF g = Core THEN "/api" ELSE "/apis"
Configs == [group : Groups \union {NoGroup}, path : {"none", "/api", "/apis"}]

ConfigTypeOK ==
    /\ config \in Configs
    /\ want \in [Builders -> Groups \union {NoGroup}]
    /\ turn \in [Builders -> {"idle", "reset", "group", "path", "build", "done"}]
    /\ client \in [Builders -> Configs]
    /\ mixed \subseteq Builders

ConfigInit ==
    /\ config = [group |-> NoGroup, path |-> "none"]
    /\ want = [b \in Builders |-> NoGroup]
    /\ turn = [b \in Builders |-> "idle"]
    /\ client = [b \in Builders |-> config]
    /\ mixed = {}

Running == {b \in Builders : turn[b] \notin {"idle", "done"}}

Turn(b, from, to) == turn[b] = from /\ turn' = [turn EXCEPT ![b] = to]

(* The mapping of the type is found, or the call returns. *)
BeginClient(b) ==
    /\ turn[b] = "idle"
    /\ \E g \in Groups : want' = [want EXCEPT ![b] = g]
    /\ Turn(b, "idle", "reset")
    /\ mixed' = mixed \union (IF Running = {} THEN {} ELSE Running \union {b})
    /\ UNCHANGED <<config, client>>

(* The ContentConfig assigned has no group version. *)
ResetConfig(b) ==
    /\ Turn(b, "reset", "group")
    /\ config' = [config EXCEPT !.group = NoGroup]
    /\ UNCHANGED <<want, client, mixed>>

SetGroup(b) ==
    /\ Turn(b, "group", "path")
    /\ config' = [config EXCEPT !.group = want[b]]
    /\ UNCHANGED <<want, client, mixed>>

(* Mutant of SetPath: the path of the core group is left out. *)
SetPathOfGroup(b) ==
    /\ Turn(b, "path", "build")
    /\ config' = IF want[b] = Core THEN config
                 ELSE [config EXCEPT !.path = Path(want[b])]
    /\ UNCHANGED <<want, client, mixed>>

SetPath(b) ==
    /\ Turn(b, "path", "build")
    /\ config' = [config EXCEPT !.path = Path(want[b])]
    /\ UNCHANGED <<want, client, mixed>>

(* Without a group version no client can be made: an error. *)
Build(b) ==
    /\ Turn(b, "build", "done")
    /\ client' = [client EXCEPT ![b] = config]
    /\ UNCHANGED <<config, want, mixed>>

ConfigNext ==
    \E b \in Builders :
        \/ BeginClient(b)
        \/ ResetConfig(b)
        \/ SetGroup(b)
        \/ SetPath(b)
        \/ Build(b)

(* The client is for the group asked for, whatever calls came before: only *)
(* a call that runs while another does may get the group or the path of    *)
(* the other's type, or none (client.go:397-403).                          *)
ClientForGroup ==
    \A b \in Builders :
        turn[b] = "done" /\ b \notin mixed =>
            client[b] = [group |-> want[b], path |-> Path(want[b])]
=============================================================================
