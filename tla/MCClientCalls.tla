--------------------------- MODULE MCClientCalls ---------------------------
(* Seven parts of the client that share no state, checked together: the    *)
(* first step says which of them runs, and the others stay as they are.    *)
EXTENDS RestMapper, RestConfig, EnvCache, Conditions, Ensure, Defaults, Helpers

CONSTANT Given  \* what a caller wrote

VARIABLE part   \* the part that runs; or "none"

(* Two references with one key: the same secret in two namespaces.         *)
SameKey == [r \in Refs |-> "key"]

(* A reader that caches for ever, by default, and for one tick.            *)
SomeExpiries == {-1, 0, 1}

(* Objects to default: every field that can matter, set or not. *)
May == {Unset, Given}
Ports == [protocol : May]
Probes == {Unset} \union
    [failureThreshold : May, periodSeconds : {Given}, successThreshold : {Unset},
     timeoutSeconds : {Given}, scheme : May \union {"none"}]
Lists(S) == {<<>>} \union {<<x>> : x \in S} \union {<<x, y>> : x, y \in S}
Container ==
    [terminationMessagePolicy : May, terminationMessagePath : May,
     imagePullPolicy : May, ports : Lists(Ports), env : {<<>>},
     livenessProbe : Probes, readinessProbe : {Unset}]
Plain ==
    [terminationMessagePolicy |-> Unset, terminationMessagePath |-> Unset,
     imagePullPolicy |-> Unset, ports |-> <<>>,
     env |-> <<[apiVersion |-> Unset], [apiVersion |-> "none"]>>,
     livenessProbe |-> Unset, readinessProbe |-> Unset]
Pods ==
    [containers : {<<c>> : c \in Container}, initContainers : {<<>>, <<Plain>>},
     volumes : {<<>>}, serviceAccountName : {Unset},
     deprecatedServiceAccount : {Unset}, terminationGracePeriodSeconds : {Given},
     dnsPolicy : {Unset}, restartPolicy : {Given}, schedulerName : {Unset},
     securityContext : {Unset}]
    \union
    [containers : {<<Plain, Plain>>}, initContainers : {<<>>},
     volumes : Lists([defaultMode : May \union {"none"}]),
     serviceAccountName : {Unset, Given},
     deprecatedServiceAccount : {Unset, Given, "another"},
     terminationGracePeriodSeconds : May, dnsPolicy : May, restartPolicy : {Unset},
     schedulerName : {Given}, securityContext : May]
Strategies == [type : {Unset, "RollingUpdate", "OnDelete"}, rolling : May]
APod == CHOOSE p \in Pods : p.containers = <<Plain, Plain>>
SomeSubjects ==
    [kind : {"ServiceAccount", "User", "Group"}, name : {"a", "b"},
     apiGroup : {"core", "rbac"}]

SomeObjects == [kind \in Kinds |->
    CASE kind = "Deployment" ->
           [strategy : Strategies, template : {APod},
            progressDeadlineSeconds : May, revisionHistoryLimit : May]
      [] kind = "DaemonSet" ->
           [strategy : {[type |-> Unset, rolling |-> Unset]}, template : Pods,
            revisionHistoryLimit : May]
      [] kind = "StatefulSet" ->
           [strategy : Strategies, template : {APod}, podManagementPolicy : May,
            revisionHistoryLimit : May]
      [] kind = "Service" -> [ports : Lists(Ports)]
      [] kind = "RoleBinding" -> [subjects : Lists(SomeSubjects)]
      [] kind = "CustomResourceDefinition" ->
           [conversion : May, listKind : May, preserveUnknownFields : May,
            versions : Lists({Given})]]

vars == <<mapperVars, configVars, envVars, conditionVars, ensureVars, defaulted,
          helperVars, part>>

Init ==
    /\ MapperInit /\ ConfigInit /\ EnvInit /\ ConditionsInit /\ EnsureInit
    /\ DefaultsInit /\ HelpersInit
    /\ part = "none"

Part(p) == part \in {"none", p} /\ part' = p

Next ==
    \/ /\ Part("mapper") /\ MapperNext
       /\ UNCHANGED <<configVars, envVars, conditionVars, ensureVars, defaulted,
                      helperVars>>
    \/ /\ Part("config") /\ ConfigNext
       /\ UNCHANGED <<mapperVars, envVars, conditionVars, ensureVars, defaulted,
                      helperVars>>
    \/ /\ Part("env") /\ EnvNext
       /\ UNCHANGED <<mapperVars, configVars, conditionVars, ensureVars,
                      defaulted, helperVars>>
    \/ /\ Part("conditions") /\ ConditionsNext
       /\ UNCHANGED <<mapperVars, configVars, envVars, ensureVars, defaulted,
                      helperVars>>
    \/ /\ Part("ensure") /\ EnsureNext
       /\ UNCHANGED <<mapperVars, configVars, envVars, conditionVars, defaulted,
                      helperVars>>
    \/ /\ Part("defaults") /\ ApplyDefaults
       /\ UNCHANGED <<mapperVars, configVars, envVars, conditionVars, ensureVars,
                      helperVars>>
    \/ /\ Part("helpers") /\ HelpersNext
       /\ UNCHANGED <<mapperVars, configVars, envVars, conditionVars, ensureVars,
                      defaulted>>

Spec == Init /\ [][Next]_vars

(* The variables of every part keep their types. *)
TypeOK ==
    MapperTypeOK /\ ConfigTypeOK /\ EnvTypeOK /\ ConditionsTypeOK /\ EnsureTypeOK
=============================================================================
