------------------------------ MODULE Defaults ------------------------------
(***************************************************************************)
(* defaults.go: what Apply fills in before it compares an object with the  *)
(* one on the server.  An object is a record of its fields; a field is     *)
(* Unset, what the caller wrote, or the default.  A field that is a list   *)
(* is a sequence, a pointer that is nil is Unset.                          *)
(***************************************************************************)
EXTENDS Naturals, Sequences

CONSTANT Unset  \* of a field: empty, zero or nil

-----------------------------------------------------------------------------
(* The fields that are unset get their defaults. *)
Fill(object, defaults) ==
    [f \in DOMAIN object |->
        IF f \in DOMAIN defaults /\ object[f] = Unset THEN defaults[f]
        ELSE object[f]]

Each(Op(_), list) == [i \in DOMAIN list |-> Op(list[i])]

DefaultsPort(p) == Fill(p, [protocol |-> "TCP"])

(* A probe; its scheme is that of its HTTPGet, "none" if it has none. *)
DefaultsProbe(probe) ==
    IF probe = Unset THEN Unset
    ELSE Fill(probe, [failureThreshold |-> 3, periodSeconds |-> 10,
                      successThreshold |-> 1, timeoutSeconds |-> 1,
                      scheme |-> "HTTP"])

(* An environment variable; its apiVersion is that of its FieldRef. *)
DefaultsEnv(e) == Fill(e, [apiVersion |-> "v1"])

DefaultsContainer(c) ==
    LET read == [c EXCEPT !.terminationMessagePolicy = "File",
                          !.terminationMessagePath = "/dev/termination-log"]
        full == Fill(IF c.terminationMessagePolicy = Unset THEN read ELSE c,
                     [imagePullPolicy |-> "IfNotPresent"])
    IN  [full EXCEPT !.ports = Each(DefaultsPort, @),
                     !.env = Each(DefaultsEnv, @),
                     !.livenessProbe = DefaultsProbe(@),
                     !.readinessProbe = DefaultsProbe(@)]

(* A volume; its mode is that of its ConfigMap or Secret. *)
DefaultsVolume(v) == Fill(v, [defaultMode |-> 420])

(* The account and its deprecated name are made equal; the account wins. *)
Accounts(pod) ==
    LET name == IF pod.serviceAccountName # Unset THEN pod.serviceAccountName
                ELSE pod.deprecatedServiceAccount
    IN  [pod EXCEPT !.serviceAccountName = name,
                    !.deprecatedServiceAccount = name]

DefaultsPod(pod) ==
    [Fill(Accounts(pod),
          [terminationGracePeriodSeconds |-> 30, dnsPolicy |-> "ClusterFirst",
           restartPolicy |-> "Always", schedulerName |-> "default-scheduler",
           securityContext |-> "empty"])
        EXCEPT !.containers = Each(DefaultsContainer, @),
               !.initContainers = Each(DefaultsContainer, @),
               !.volumes = Each(DefaultsVolume, @)]

(* Mutant of DefaultsStrategy: an update strategy without parameters is    *)
(* taken for one without a type.                                           *)
StrategyByParameters(s, type, rolling) ==
    IF s.rolling = Unset THEN [type |-> type, rolling |-> rolling] ELSE s

(* An update strategy is replaced as a whole if it names no type. *)
DefaultsStrategy(s, type, rolling) ==
    IF s.type = Unset THEN [type |-> type, rolling |-> rolling] ELSE s

DefaultsDaemonSet(d) ==
    [Fill(d, [revisionHistoryLimit |-> 10])
        EXCEPT !.strategy = DefaultsStrategy(@, "RollingUpdate", "1"),
               !.template = DefaultsPod(@)]

DefaultsStatefulSet(s) ==
    [Fill(s, [revisionHistoryLimit |-> 10, podManagementPolicy |-> "OrderedReady"])
        EXCEPT !.strategy = DefaultsStrategy(@, "RollingUpdate", "partition 0"),
               !.template = DefaultsPod(@)]

DefaultsDeployment(d) ==
    [Fill(d, [progressDeadlineSeconds |-> 600, revisionHistoryLimit |-> 10])
        EXCEPT !.strategy = DefaultsStrategy(@, "RollingUpdate", "25%, 25%"),
               !.template = DefaultsPod(@)]

DefaultsService(svc) == [svc EXCEPT !.ports = Each(DefaultsPort, @)]

(* For v1beta1; the other lacks preserveUnknownFields.                     *)
DefaultsCustomResourceDefinition(crd) ==
    [Fill(crd, [conversion |-> "None", listKind |-> "KindList",
                preserveUnknownFields |-> TRUE])
        EXCEPT !.versions = IF @ = <<>> THEN <<"the only one">> ELSE @]

(* A subject: its kind, its name and its API group, "core" if it is empty. *)
DefaultsSubject(s) ==
    IF s.kind = "ServiceAccount" THEN [s EXCEPT !.apiGroup = "core"]
    ELSE IF s.kind = "User" THEN [s EXCEPT !.apiGroup = "rbac"]
    ELSE s

(* Each round of the loop starts from the subjects given: they stay as     *)
(* they are, and the last one is there a second time, with its default.    *)
DefaultSubjects(subjects) ==
    IF subjects = <<>> THEN <<>>
    ELSE Append(subjects, DefaultsSubject(subjects[Len(subjects)]))

DefaultsRoleBinding(rb) == [rb EXCEPT !.subjects = DefaultSubjects(@)]

Defaults(kind, object) ==
    CASE kind = "Deployment" -> DefaultsDeployment(object)
      [] kind = "DaemonSet" -> DefaultsDaemonSet(object)
      [] kind = "StatefulSet" -> DefaultsStatefulSet(object)
      [] kind = "Service" -> DefaultsService(object)
      [] kind = "RoleBinding" -> DefaultsRoleBinding(object)
      [] OTHER -> object

(* What a caller gets: of Defaults, or of the functions for definitions of *)
(* resources, which have to be called by name.                             *)
Completed(kind, object) ==
    IF kind = "CustomResourceDefinition"
    THEN DefaultsCustomResourceDefinition(object)
    ELSE Defaults(kind, object)

-----------------------------------------------------------------------------
(* The objects given have at least the fields of their types. *)

Kinds == {"Deployment", "DaemonSet", "StatefulSet", "Service", "RoleBinding",
          "CustomResourceDefinition"}

IsContainer(c) ==
    {"terminationMessagePolicy", "terminationMessagePath", "imagePullPolicy",
     "ports", "env", "livenessProbe", "readinessProbe"} \subseteq DOMAIN c

IsPod(pod) ==
    /\ {"containers", "initContainers", "volumes", "serviceAccountName",
        "deprecatedServiceAccount", "terminationGracePeriodSeconds", "dnsPolicy",
        "restartPolicy", "schedulerName", "securityContext"} \subseteq DOMAIN pod
    /\ \A i \in DOMAIN pod.containers : IsContainer(pod.containers[i])
    /\ \A i \in DOMAIN pod.initContainers : IsContainer(pod.initContainers[i])

(* Who runs pods: its own fields, and those of all such. *)
IsWorkload(w, own) ==
    /\ own \union {"strategy", "template", "revisionHistoryLimit"} \subseteq DOMAIN w
    /\ {"type", "rolling"} \subseteq DOMAIN w.strategy
    /\ IsPod(w.template)

Subjects == [kind : STRING, name : STRING, apiGroup : STRING]

IsA(kind, object) ==
    CASE kind = "Deployment" -> IsWorkload(object, {"progressDeadlineSeconds"})
      [] kind = "DaemonSet" -> IsWorkload(object, {})
      [] kind = "StatefulSet" -> IsWorkload(object, {"podManagementPolicy"})
      [] kind = "Service" -> "ports" \in DOMAIN object
      [] kind = "RoleBinding" ->
           "subjects" \in DOMAIN object /\ object.subjects \in Seq(Subjects)
      [] kind = "CustomResourceDefinition" ->
           {"conversion", "listKind", "preserveUnknownFields", "versions"}
               \subseteq DOMAIN object

CONSTANT GivenObjects   \* of each kind, the objects a caller of Apply gives

ASSUME DefaultsAssumption ==
    \A kind \in Kinds : \A object \in GivenObjects[kind] : IsA(kind, object)

VARIABLES
    defaulted   \* the kind and object given, and the object made of it

NotDefaulted == [kind |-> "none", given |-> Unset, made |-> Unset]

DefaultsInit == defaulted = NotDefaulted

ApplyDefaults ==
    /\ defaulted = NotDefaulted
    /\ \E kind \in Kinds : \E object \in GivenObjects[kind] :
          defaulted' = [kind |-> kind, given |-> object,
                        made |-> Completed(kind, object)]

-----------------------------------------------------------------------------
(* The value of a field given is the value made. *)
Keeps(given, made) ==
    \A f \in DOMAIN given : given[f] # Unset => made[f] = given[f]

KeepsContainer(given, made) ==
    /\ \A i \in DOMAIN given.ports : Keeps(given.ports[i], made.ports[i])
    /\ \A i \in DOMAIN given.env : Keeps(given.env[i], made.env[i])
    /\ given.imagePullPolicy # Unset => made.imagePullPolicy = given.imagePullPolicy
    /\ given.terminationMessagePolicy # Unset =>
           Keeps([path |-> given.terminationMessagePath],
                 [path |-> made.terminationMessagePath])
    /\ given.livenessProbe # Unset => Keeps(given.livenessProbe, made.livenessProbe)
    /\ given.readinessProbe # Unset => Keeps(given.readinessProbe, made.readinessProbe)

Settled == {"containers", "initContainers", "volumes", "deprecatedServiceAccount"}

KeepsPod(given, made) ==
    /\ \A f \in DOMAIN given \ Settled : given[f] # Unset => made[f] = given[f]
    /\ \A i \in DOMAIN given.volumes : Keeps(given.volumes[i], made.volumes[i])
    /\ \A i \in DOMAIN given.containers :
           KeepsContainer(given.containers[i], made.containers[i])
    /\ \A i \in DOMAIN given.initContainers :
           KeepsContainer(given.initContainers[i], made.initContainers[i])
    /\ made.serviceAccountName = made.deprecatedServiceAccount

Whom(subjects) == {[kind |-> subjects[i].kind, name |-> subjects[i].name] :
                      i \in DOMAIN subjects}

(* What Apply applies is what the caller gave, completed: a field given is *)
(* kept, but for a termination message path without its policy             *)
(* (defaults.go:141), rolling-update parameters without a type             *)
(* (defaults.go:211, 229 and 245) and a deprecated account; a role binding *)
(* binds exactly those given; and but for role bindings, which grow by one *)
(* subject each time (defaults.go:47), defaulting once more changes        *)
(* nothing, so that a second Apply has nothing to write.                   *)
DefaultsStable ==
    defaulted # NotDefaulted =>
        LET kind == defaulted.kind
            given == defaulted.given
            made == defaulted.made
        IN  /\ kind = "RoleBinding" \/ Completed(kind, made) = made
            /\ kind \in {"Deployment", "DaemonSet", "StatefulSet"} =>
                  /\ KeepsPod(given.template, made.template)
                  /\ given.strategy.type # Unset => made.strategy = given.strategy
                  /\ \A f \in DOMAIN given \ {"template", "strategy"} :
                        given[f] # Unset => made[f] = given[f]
            /\ kind = "Service" =>
                  \A i \in DOMAIN given.ports : Keeps(given.ports[i], made.ports[i])
            /\ kind = "RoleBinding" => Whom(made.subjects) = Whom(given.subjects)
            /\ kind = "CustomResourceDefinition" =>
                  /\ Keeps([given EXCEPT !.versions = Unset], made)
                  /\ given.versions # <<>> => made.versions = given.versions
=============================================================================
