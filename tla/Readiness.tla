------------------------------ MODULE Readiness ------------------------------
(***************************************************************************)
(* When wait.go calls an object ready.  An item is the record of what the  *)
(* predicate of its kind reads of it.  A status that is missing and a      *)
(* status without conditions are both Absent: every predicate answers the  *)
(* same for both.  What is read by further requests (Endpoints, the sets   *)
(* behind a database) is part of the item, as each request was answered.   *)
(***************************************************************************)
EXTENDS Integers, Sequences, FiniteSets

CONSTANTS
    Absent,         \* a status, a list or a count that is not there
    NoItem,         \* what a failed Get of the dynamic client returns
    MaxConditions,  \* how many conditions a status lists
    MaxReplicas     \* how many replicas a set wants

ASSUME ReadinessAssumption == MaxConditions \in Nat /\ MaxReplicas \in Nat

(* The types the predicates tell apart: "Scheduled" stands for Initialized, *)
(* ContainersReady and PodScheduled; "Pressure" for those with a suffix of  *)
(* failure (Failed, NotReady, Pressure).                                    *)
Types == {"Ready", "Scheduled", "Pressure", "Custom"}
Conditions == [type : Types, status : {"True", "False", "Unknown"}]

Distinct(s) == \A j, k \in DOMAIN s : s[j].type = s[k].type => j = k

ConditionLists ==
    {s \in UNION {[1 .. n -> Conditions] : n \in 0 .. MaxConditions} :
        Distinct(s)}

Counts == 0 .. MaxReplicas
Sets == {Absent} \union [wanted : Counts, ready : Counts]

Conditioned == {"Pod", "Node", "Kafka", "Other"}
Built == {"Builder", "Image"}
Items ==
         [kind : Conditioned, conditions : {Absent} \union ConditionLists]
  \union [kind : Built, conditions : {Absent} \union ConditionLists,
          latestImage : BOOLEAN]
  \union [kind : {"Data"}, data : BOOLEAN]
  \union [kind : {"ConstraintTemplate"}, created : BOOLEAN]
  \union [kind : {"MongoDB"}, state : {"none", "ready", "other"}]
  \union [kind : {"Elastic"}, phase : {"none", "Ready", "other"}]
  \union [kind : {"Service"}, balanced : BOOLEAN, ingress : BOOLEAN,
          endpoints : {"none", "empty", "addresses"}]
  \union [kind : {"App"}, reported : BOOLEAN, spec : Counts,
          replicas : {Absent} \union Counts,
          readyReplicas : {Absent} \union Counts]
  \union [kind : {"Elasticsearch", "Kibana"}, set : Sets]
  \union [kind : {"RedisFailover"}, set : Sets, deployment : Sets]
  \union [kind : {"Postgresql"}, set : Sets, serving : BOOLEAN]
  \union [kind : {"OwnConditions"},
          statuses : {Absent} \union SUBSET {"Ready", "NotReady", "Other"}]

-----------------------------------------------------------------------------
(* The predicates.                                                         *)

Listed(item) == item.conditions \notin {Absent, <<>>}

Has(item, type, statuses) ==
    \E k \in DOMAIN item.conditions :
        /\ item.conditions[k].type = type
        /\ item.conditions[k].status \in statuses

Every(item, Accepts(_)) ==
    \A k \in DOMAIN item.conditions : Accepts(item.conditions[k])

SuccessTypes == {"Ready", "Scheduled"}

IsPodReadyAndRunning(item) ==
    /\ Listed(item)
    /\ Every(item, LAMBDA c :
           c.status = IF c.type \in SuccessTypes THEN "True" ELSE "False")

(* Mutant of IsNodeReady: conditions of failure are not looked at. *)
IsNodeReadyDespitePressure(item) ==
    Listed(item) /\ ~Has(item, "Ready", {"False"})

IsNodeReady(item) ==
    /\ Listed(item)
    /\ Every(item, LAMBDA c :
           IF c.type = "Ready" THEN c.status # "False" ELSE c.status # "True")

IsBuilderReady(item) ==
    /\ Listed(item)
    /\ Every(item, LAMBDA c : c.type # "Ready" => c.status = "True")
    /\ item.latestImage

IsImageReady(item) == item.conditions # Absent /\ item.latestImage

IsConditionReadyTrue(item) == Listed(item) /\ Has(item, "Ready", {"True"})

(* The first condition that says ready or failed decides; without any the *)
(* object is ready.                                                       *)
Decides(c) ==
    \/ c.type = "Ready" /\ c.status = "True"
    \/ c.type = "Pressure" /\ c.status # "False"

IsReadyByDefault(item) ==
    /\ Listed(item)
    /\ \A k \in DOMAIN item.conditions :
          /\ Decides(item.conditions[k])
          /\ \A j \in 1 .. k - 1 : ~Decides(item.conditions[j])
          => item.conditions[k].type = "Ready"

(* Mutant of IsServiceReady: every service waits for a load balancer. *)
IsServiceBalanced(item) == item.ingress

IsServiceReady(item) ==
    IF item.balanced THEN item.ingress ELSE item.endpoints # "none"

(* The replicas that are ready against those that exist, not those wanted; *)
(* when neither count is there they are equal.                             *)
IsAppReady(item) == item.reported /\ item.replicas = item.readyReplicas

(* Secrets and config maps. *)
IsDataContainerReady(item) == item.data

IsConstraintTemplateReady(item) == item.created

IsMongoDBReady(item) == item.state = "ready"

IsElasticReady(item) == item.phase = "Ready"

IsStatefulSetReady(set) == set # Absent /\ set.wanted = set.ready

IsDeploymentReady(set) == set # Absent /\ set.wanted = set.ready

IsElasticsearchReady(item) == IsStatefulSetReady(item.set)

IsKibanaReady(item) == IsDeploymentReady(item.set)

IsRedisFailoverReady(item) ==
    IsStatefulSetReady(item.set) /\ IsDeploymentReady(item.deployment)

(* The set first, then a query by WaitForPodCommand. *)
isPostgresqlReady(item) == IsStatefulSetReady(item.set) /\ item.serving

(* IsReadyWithConditions reads the status of each condition, not its type. *)
IsReadyWithConditions(item) ==
    /\ item.statuses # Absent
    /\ "Ready" \in item.statuses
    /\ "NotReady" \notin item.statuses

(* The predicate of the item's kind; those of "Elastic" and               *)
(* "OwnConditions" are functions a caller gives to WaitForCRD.            *)
IsReady(item) ==
    /\ item # NoItem
    /\ CASE item.kind = "Pod" -> IsPodReadyAndRunning(item)
         [] item.kind = "Data" -> IsDataContainerReady(item)
         [] item.kind = "Service" -> IsServiceReady(item)
         [] item.kind = "App" -> IsAppReady(item)
         [] item.kind = "Elasticsearch" -> IsElasticsearchReady(item)
         [] item.kind = "Kibana" -> IsKibanaReady(item)
         [] item.kind = "RedisFailover" -> IsRedisFailoverReady(item)
         [] item.kind = "Postgresql" -> isPostgresqlReady(item)
         [] item.kind = "ConstraintTemplate" -> IsConstraintTemplateReady(item)
         [] item.kind = "MongoDB" -> IsMongoDBReady(item)
         [] item.kind = "Kafka" -> IsConditionReadyTrue(item)
         [] item.kind = "Builder" -> IsBuilderReady(item)
         [] item.kind = "Image" -> IsImageReady(item)
         [] item.kind = "Node" -> IsNodeReady(item)
         [] item.kind = "Elastic" -> IsElasticReady(item)
         [] item.kind = "OwnConditions" -> IsReadyWithConditions(item)
         [] item.kind = "Other" -> IsReadyByDefault(item)

(* WaitForNamespace looks at a list of pods, WaitForAPIResource at the     *)
(* types the server has.                                                   *)
IsNamespaceReady(pods) ==
    /\ pods # {}
    /\ \A p \in pods : p.clean /\ p.phase \in {"Running", "Succeeded"}

(* A type is found by the plural in the server's lists and a prefix of its *)
(* group: asked for by its kind it is not found, and that of another group *)
(* with the same prefix will do.                                           *)
IsCRDReady(types, by) == by = "plural" /\ (types.served \/ types.foreign)
=============================================================================
