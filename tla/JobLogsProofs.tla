--------------------------- MODULE JobLogsProofs ---------------------------
(***************************************************************************)
(* The waits and the jobs that call them, for any conditions, replicas and *)
(* containers: what nil of a wait means and what it does not notice, how   *)
(* many requests follow its timeout, and what StreamLogsV2 and Executef    *)
(* make of it.                                                             *)
(***************************************************************************)
EXTENDS JobLogs, FiniteSetTheorems, TLAPS

-----------------------------------------------------------------------------
(* Readiness: the predicates against what is waited for.                   *)

(* What is known of the fields of an item of each kind that the predicates *)
(* are compared for.                                                       *)
LEMMA ItemFields ==
    ASSUME NEW item \in Items
    PROVE  /\ item.kind \in Conditioned \union Built =>
                 item.conditions \in {Absent} \union ConditionLists
           /\ item.kind = "Service" =>
                 item.endpoints \in {"none", "empty", "addresses"}
           /\ item.kind = "App" =>
                 /\ item.spec \in Counts
                 /\ item.replicas \in {Absent} \union Counts
                 /\ item.readyReplicas \in {Absent} \union Counts
BY DEF Items, Conditioned, Built

(* A condition is of one of the types and has one of the statuses, and no  *)
(* other of its list has its type.                                         *)
LEMMA ListFacts ==
    ASSUME NEW list \in ConditionLists
    PROVE  /\ \A k \in DOMAIN list : list[k].type \in Types
           /\ \A k \in DOMAIN list : list[k].status \in {"True", "False", "Unknown"}
           /\ \A j, k \in DOMAIN list : list[j].type = list[k].type => j = k
<1>1. PICK n \in 0 .. MaxConditions : list \in [1 .. n -> Conditions]
  BY DEF ConditionLists
<1>2. \A k \in DOMAIN list : list[k] \in Conditions
  BY <1>1
<1> QED BY <1>2 DEF ConditionLists, Distinct, Conditions

(* An empty list has no condition. *)
LEMMA SomeCondition ==
    ASSUME NEW list \in ConditionLists, NEW k \in DOMAIN list
    PROVE  list # <<>>
OBVIOUS

(* Every kind is one of those that Up and the others tell apart. *)
Plain == {"Data", "ConstraintTemplate", "MongoDB", "Elastic", "Elasticsearch",
          "Kibana", "RedisFailover", "Postgresql", "OwnConditions"}

(* The kinds there are. *)
LEMMA ItemKinds ==
    ASSUME NEW item \in Items
    PROVE  item.kind \in Conditioned \union Built \union {"Service", "App"} \union Plain
BY DEF Items, Conditioned, Built, Plain

(* What a predicate calls ready is up, or LenientItem lists it. *)
LEMMA ReadyIsUp ==
    ASSUME NEW item \in Items, IsReady(item)
    PROVE  Up(item) \/ LenientItem(item)
<1> DEFINE list == item.conditions
<1>1. ASSUME item.kind \in Conditioned \union Built, list # Absent
      PROVE  /\ list \in ConditionLists
             /\ \A k \in DOMAIN list :
                   list[k].type \in Types /\ list[k].status \in {"True", "False", "Unknown"}
             /\ \A j, k \in DOMAIN list : list[j].type = list[k].type => j = k
             /\ DOMAIN list # {} => list # <<>>
  <2>1. list \in ConditionLists
    BY <1>1, ItemFields
  <2> QED BY <2>1, ListFacts, SomeCondition
<1>2. CASE item.kind = "Pod"
  <2>1. IsPodReadyAndRunning(item)
    BY <1>2 DEF IsReady
  <2>2. list # Absent
    BY <2>1 DEF IsPodReadyAndRunning, Listed
  <2>3. ASSUME Has(item, "Ready", {"True", "False", "Unknown"})
        PROVE  Has(item, "Ready", {"True"})
    BY <2>1, <2>3 DEF IsPodReadyAndRunning, Every, Has, SuccessTypes
  <2> QED BY <1>2, <2>1, <2>3
          DEF IsPodReadyAndRunning, Up, LenientItem, Conditioned, Built
<1>3. CASE item.kind = "Node"
  <2>1. IsNodeReady(item)
    BY <1>3 DEF IsReady
  <2>2. list # Absent
    BY <2>1 DEF IsNodeReady, Listed
  <2>3. ASSUME Has(item, "Ready", {"True", "False"})
        PROVE  Has(item, "Ready", {"True"})
    BY <2>1, <2>3 DEF IsNodeReady, Every, Has
  <2>4. \A t \in Types \ {"Ready"} : ~Has(item, t, {"True"})
    BY <2>1 DEF IsNodeReady, Every, Has
  <2> QED BY <1>3, <2>1, <2>3, <2>4
          DEF IsNodeReady, Up, LenientItem, Conditioned, Built
<1>4. CASE item.kind = "Kafka"
  BY <1>4 DEF IsReady, IsConditionReadyTrue, Up, Built
<1>5. CASE item.kind = "Other"
  <2>1. Listed(item)
    BY <1>5 DEF IsReady, IsReadyByDefault
  <2> QED BY <1>5, <2>1 DEF Up, LenientItem, Conditioned, Built
<1>6. CASE item.kind = "Builder"
  <2>1. IsBuilderReady(item)
    BY <1>6 DEF IsReady
  <2> QED BY <1>6, <2>1 DEF IsBuilderReady, Up, LenientItem, Conditioned, Built
<1>7. CASE item.kind = "Image"
  <2>1. list # Absent /\ item.latestImage
    BY <1>7 DEF IsReady, IsImageReady
  <2>2. Has(item, "Ready", {"True"}) => Listed(item)
    BY <1>1, <1>7, <2>1 DEF Has, Listed, Built
  <2> QED BY <1>7, <2>1, <2>2 DEF Up, LenientItem, Conditioned, Built
<1>8. CASE item.kind = "Service"
  <2>1. item.endpoints \in {"none", "empty", "addresses"}
    BY <1>8, ItemFields
  <2> QED BY <1>8, <2>1 DEF IsReady, IsServiceReady, Up, LenientItem, Conditioned, Built
<1>9. CASE item.kind = "App"
  BY <1>9 DEF IsReady, IsAppReady, Up, LenientItem, Conditioned, Built
<1>10. CASE item.kind \in Plain
  BY <1>10 DEF Plain, Up, Built
<1> QED BY <1>2, <1>3, <1>4, <1>5, <1>6, <1>7, <1>8, <1>9, <1>10, ItemKinds
        DEF Conditioned, Built

(* What is up is called ready, or Blind lists it. *)
LEMMA UpIsReady ==
    ASSUME NEW item \in Items, item # NoItem, Up(item)
    PROVE  IsReady(item) \/ Blind("WaitForResource", {}, item)
<1> DEFINE list == item.conditions
<1> SUFFICES ASSUME ~Blind("WaitForResource", {}, item) PROVE IsReady(item)
  OBVIOUS
<1>1. ASSUME item.kind \in Conditioned \union Built, Listed(item)
      PROVE  /\ \A k \in DOMAIN list :
                   list[k].type \in Types /\ list[k].status \in {"True", "False", "Unknown"}
             /\ \A j, k \in DOMAIN list : list[j].type = list[k].type => j = k
  <2>1. list \in ConditionLists
    BY <1>1, ItemFields DEF Listed
  <2> QED BY <2>1, ListFacts
<1>2. ASSUME item.kind \in Conditioned \union Built, Listed(item),
             Has(item, "Ready", {"True"})
      PROVE  \A k \in DOMAIN list : list[k].type = "Ready" => list[k].status = "True"
  BY <1>1, <1>2 DEF Has
<1>3. CASE item.kind = "Pod"
  <2>1. Listed(item) /\ Has(item, "Ready", {"True"})
    BY <1>3 DEF Up
  <2>2. /\ \A t \in Types \ SuccessTypes : ~Has(item, t, {"True", "Unknown"})
        /\ ~Has(item, "Scheduled", {"False", "Unknown"})
    BY <1>3 DEF Blind
  <2>3. ASSUME NEW k \in DOMAIN list
        PROVE  list[k].status = IF list[k].type \in SuccessTypes THEN "True" ELSE "False"
    <3>1. list[k].type \in Types /\ list[k].status \in {"True", "False", "Unknown"}
      BY <1>1, <1>3, <2>1 DEF Conditioned
    <3>2. CASE list[k].type \notin SuccessTypes
      BY <2>2, <3>1, <3>2 DEF Has
    <3>3. CASE list[k].type = "Scheduled"
      BY <2>2, <3>1, <3>3 DEF Has, SuccessTypes
    <3>4. CASE list[k].type = "Ready"
      BY <1>2, <1>3, <2>1, <3>4 DEF Conditioned, SuccessTypes
    <3> QED BY <3>2, <3>3, <3>4 DEF SuccessTypes
  <2> QED BY <1>3, <2>1, <2>3 DEF IsReady, IsPodReadyAndRunning, Every
<1>4. CASE item.kind = "Node"
  <2>1. /\ Listed(item) /\ Has(item, "Ready", {"True"})
        /\ \A t \in Types \ {"Ready"} : ~Has(item, t, {"True"})
    BY <1>4 DEF Up, Built
  <2>2. \A k \in DOMAIN list :
            IF list[k].type = "Ready" THEN list[k].status # "False"
            ELSE list[k].status # "True"
    BY <1>1, <1>2, <1>4, <2>1 DEF Conditioned, Has
  <2> QED BY <1>4, <2>1, <2>2 DEF IsReady, IsNodeReady, Every
<1>5. CASE item.kind = "Kafka"
  BY <1>5 DEF Up, IsReady, IsConditionReadyTrue
<1>6. CASE item.kind = "Other"
  <2>1. /\ Listed(item) /\ Has(item, "Ready", {"True"})
        /\ ~Has(item, "Pressure", {"True", "Unknown"})
    BY <1>6 DEF Up, Built
  <2>2. \A k \in DOMAIN list : Decides(list[k]) => list[k].type = "Ready"
    <3>1. \A k \in DOMAIN list : list[k].status \in {"True", "False", "Unknown"}
      BY <1>1, <1>6, <2>1 DEF Conditioned
    <3> QED BY <2>1, <3>1 DEF Decides, Has
  <2> QED BY <1>6, <2>1, <2>2 DEF IsReady, IsReadyByDefault
<1>7. CASE item.kind = "Builder"
  <2>1. Listed(item) /\ item.latestImage
    BY <1>7 DEF Up, Built
  <2>2. \A t \in Types \ {"Ready"} : ~Has(item, t, {"False", "Unknown"})
    BY <1>7 DEF Blind
  <2>3. \A k \in DOMAIN list : list[k].type # "Ready" => list[k].status = "True"
    BY <1>1, <1>7, <2>1, <2>2 DEF Built, Has
  <2> QED BY <1>7, <2>1, <2>3 DEF IsReady, IsBuilderReady, Every
<1>8. CASE item.kind = "Image"
  BY <1>8 DEF Up, Built, Listed, IsReady, IsImageReady
<1>9. CASE item.kind = "Service"
  BY <1>9 DEF Up, Built, IsReady, IsServiceReady
<1>10. CASE item.kind = "App"
  <2>1. /\ item.reported /\ Number(item.readyReplicas) = item.spec
        /\ Number(item.replicas) = item.spec /\ item.spec # 0
    BY <1>10 DEF Up, Built, Blind
  <2>2. item.replicas = item.readyReplicas
    BY <2>1 DEF Number
  <2> QED BY <1>10, <2>1, <2>2 DEF IsReady, IsAppReady
<1>11. CASE item.kind \in Plain
  BY <1>11 DEF Plain, Up, Built
<1> QED BY <1>3, <1>4, <1>5, <1>6, <1>7, <1>8, <1>9, <1>10, <1>11, ItemKinds
        DEF Conditioned, Built

-----------------------------------------------------------------------------
(* The waits: what they are asked for, and the order of their rounds.      *)

(* A wait that ends with nil has been answered what it waits for, or one   *)
(* of the things Lenient lists.                                            *)
LEMMA SatisfiedServes ==
    ASSUME NEW f \in EveryWait, NEW a \in Arguments(f),
           NEW o \in Answers(f) \union Failures, Satisfied(f, a, o)
    PROVE  Serves(f, a, o) \/ Lenient(f, o)
<1>1. o \notin Failures /\ o \in Answers(f)
  BY DEF Satisfied
<1>2. CASE f = "WaitForResource"
  <2>1. o \in Items /\ IsReady(o)
    BY <1>1, <1>2 DEF Answers, Satisfied
  <2> QED BY <1>1, <1>2, <2>1, ReadyIsUp DEF Serves, Lenient
<1>3. CASE f = "WaitForAPIResource"
  <2>1. o.served \/ o.foreign
    BY <1>3 DEF Satisfied, IsCRDReady
  <2> QED BY <1>1, <1>3, <2>1 DEF Serves, Lenient
<1>4. CASE f = "WaitForPod"
  <2>1. o \in a \union {"Failed"}
    BY <1>4 DEF Satisfied
  <2> QED BY <1>1, <1>4, <2>1 DEF Serves, Lenient
<1>5. CASE f \in {"WaitForPodByLabel", "WaitForContainerStart"}
  BY <1>5 DEF Lenient
<1>6. CASE f \notin {"WaitForResource", "WaitForAPIResource", "WaitForPod",
                    "WaitForPodByLabel", "WaitForContainerStart"}
  BY <1>1, <1>6 DEF Serves
<1> QED BY <1>2, <1>3, <1>4, <1>5, <1>6

(* A wait that is answered what it waits for ends, or Blind lists it. *)
LEMMA ServesSatisfies ==
    ASSUME NEW f \in EveryWait, NEW a \in Arguments(f),
           NEW o \in Answers(f) \union Failures, Serves(f, a, o)
    PROVE  Satisfied(f, a, o) \/ Blind(f, a, o)
<1>1. o \notin Failures /\ o \in Answers(f)
  BY DEF Serves
<1>2. CASE f = "WaitForResource"
  <2>1. o \in Items /\ o # NoItem /\ Up(o)
    BY <1>1, <1>2 DEF Answers, Serves, Failures
  <2>2. IsReady(o) \/ Blind("WaitForResource", {}, o)
    BY <2>1, UpIsReady
  <2> QED BY <1>1, <1>2, <2>2 DEF Satisfied, Blind
<1>3. CASE f = "WaitForAPIResource"
  <2>1. a \in {{"plural"}, {"kind"}}
    BY <1>3 DEF Arguments
  <2>2. o.served
    BY <1>3 DEF Serves
  <2> QED BY <1>1, <1>3, <2>1, <2>2 DEF Satisfied, IsCRDReady, Blind
<1>4. CASE f = "WaitForPod"
  <2>1. o \in a
    BY <1>4 DEF Serves
  <2> QED BY <1>1, <1>4, <2>1 DEF Satisfied
<1>5. CASE f = "WaitForPodByLabel"
  <2>1. o \intersect a # {}
    BY <1>5 DEF Serves
  <2> QED BY <1>1, <1>5, <2>1 DEF Satisfied
<1>6. CASE f = "WaitForContainerStart"
  BY <1>1, <1>6 DEF Satisfied
<1>7. CASE f \notin {"WaitForResource", "WaitForAPIResource", "WaitForPod",
                    "WaitForPodByLabel", "WaitForContainerStart"}
  BY <1>7 DEF Serves
<1> QED BY <1>2, <1>3, <1>4, <1>5, <1>6, <1>7

(* The waits that test before they ask, and those that test after judging. *)
TestFirst == {"WaitForAPIResource", "WaitForTaintRemoval"}
JudgeFirst == {"WaitForPodByLabel", "WaitForPodCommand", "GetJobPod"}

(* The place of a step in a round of different steps. *)
LEMMA PlaceInRound ==
    ASSUME NEW round, NEW i \in DOMAIN round,
           \A j, k \in DOMAIN round : round[j] = round[k] => j = k
    PROVE  (CHOOSE j \in DOMAIN round : round[j] = round[i]) = i
<1> DEFINE P(j) == j \in DOMAIN round /\ round[j] = round[i]
<1>1. P(i) /\ \A j : P(j) => j = i
  OBVIOUS
<1> QED BY <1>1

(* What comes after each step of a round of four. *)
LEMMA FourSteps ==
    ASSUME NEW f, NEW a, NEW b, NEW c, NEW d,
           a # b, a # c, a # d, b # c, b # d, c # d,
           Order(f) = <<a, b, c, d>>
    PROVE  /\ Order(f)[1] = a
           /\ After(f, a) = b /\ After(f, b) = c
           /\ After(f, c) = d /\ After(f, d) = a
<1> DEFINE o == Order(f)
<1>1. /\ DOMAIN o = 1 .. 4 /\ Len(o) = 4
      /\ o[1] = a /\ o[2] = b /\ o[3] = c /\ o[4] = d
      /\ \A j, k \in DOMAIN o : o[j] = o[k] => j = k
  OBVIOUS
<1>2. \A i \in 1 .. 4 : After(f, o[i]) = o[(i % 4) + 1]
  BY <1>1, PlaceInRound DEF After
<1>3. 1 % 4 = 1 /\ 2 % 4 = 2 /\ 3 % 4 = 3 /\ 4 % 4 = 0
  OBVIOUS
<1> HIDE DEF o
<1>4. /\ After(f, o[1]) = o[2] /\ After(f, o[2]) = o[3]
      /\ After(f, o[3]) = o[4] /\ After(f, o[4]) = o[1]
  BY <1>2, <1>3
<1> QED BY <1>1, <1>4 DEF o

(* The round of WaitForContainerStart. *)
LEMMA ThreeSteps ==
    LET f == "WaitForContainerStart"
    IN  /\ Order(f)[1] = "ask"
        /\ After(f, "ask") = "judge" /\ After(f, "judge") = "pause"
        /\ After(f, "pause") = "ask"
<1> DEFINE f == "WaitForContainerStart"
           o == Order(f)
<1>1. o = <<"ask", "judge", "pause">>
  BY DEF Order
<1>2. /\ DOMAIN o = 1 .. 3 /\ Len(o) = 3
      /\ o[1] = "ask" /\ o[2] = "judge" /\ o[3] = "pause"
      /\ \A j, k \in DOMAIN o : o[j] = o[k] => j = k
  BY <1>1
<1>3. \A i \in 1 .. 3 : After(f, o[i]) = o[(i % 3) + 1]
  BY <1>2, PlaceInRound DEF After
<1>4. 1 % 3 = 1 /\ 2 % 3 = 2 /\ 3 % 3 = 0
  OBVIOUS
<1> HIDE DEF o
<1>5. After(f, o[1]) = o[2] /\ After(f, o[2]) = o[3] /\ After(f, o[3]) = o[1]
  BY <1>3, <1>4
<1> QED BY <1>2, <1>5 DEF o

(* The four orders. *)
LEMMA Rounds ==
    ASSUME NEW f \in EveryWait
    PROVE  /\ f \in TestFirst =>
                 /\ Order(f)[1] = "test"
                 /\ After(f, "test") = "ask" /\ After(f, "ask") = "judge"
                 /\ After(f, "judge") = "pause" /\ After(f, "pause") = "test"
           /\ f \in JudgeFirst =>
                 /\ Order(f)[1] = "ask"
                 /\ After(f, "ask") = "judge" /\ After(f, "judge") = "test"
                 /\ After(f, "test") = "pause" /\ After(f, "pause") = "ask"
           /\ f = "WaitForContainerStart" =>
                 /\ Order(f)[1] = "ask"
                 /\ After(f, "ask") = "judge" /\ After(f, "judge") = "pause"
                 /\ After(f, "pause") = "ask"
           /\ f \notin TestFirst \union JudgeFirst \union {"WaitForContainerStart"} =>
                 /\ Order(f)[1] = "ask"
                 /\ After(f, "ask") = "test" /\ After(f, "test") = "judge"
                 /\ After(f, "judge") = "pause" /\ After(f, "pause") = "ask"
<1>1. f \in TestFirst => Order(f) = <<"test", "ask", "judge", "pause">>
  BY DEF Order, TestFirst
<1>2. f \in JudgeFirst => Order(f) = <<"ask", "judge", "test", "pause">>
  BY DEF Order, JudgeFirst
<1>3. f \notin TestFirst \union JudgeFirst \union {"WaitForContainerStart"} =>
          Order(f) = <<"ask", "test", "judge", "pause">>
  BY DEF Order, TestFirst, JudgeFirst
<1> QED BY <1>1, <1>2, <1>3, FourSteps, ThreeSteps

-----------------------------------------------------------------------------
(* The machine of a wait.                                                  *)

WaitTypeOK ==
    /\ fn \in Waits \union {"WaitForContainerStart", "WaitForPod"}
    /\ asked \in Arguments(fn)
    /\ pc \in {"connect", "ask", "test", "judge", "pause"}
    /\ seen \in Answers(fn) \union Failures
    /\ expired \in BOOLEAN
    /\ late \in 0 .. 2
    /\ result \in {"none", "nil", "error"}

(* The steps between a request and the next test of the deadline. *)
Untested(f) ==
    IF f \in TestFirst THEN {"judge", "pause", "test"}
    ELSE IF f \in JudgeFirst THEN {"judge", "test"}
    ELSE {"test"}

(* A wait that has sent a request after its timeout is on its way to the   *)
(* test, unless it never comes to one.                                     *)
LateInv ==
    /\ late > 0 => expired
    /\ fn = "WaitForContainerStart" => pc # "test"
    /\ fn # "WaitForContainerStart" =>
          late <= 1 /\ (late = 1 /\ result = "none" => pc \in Untested(fn))

(* The answer that ended a wait is still the last one. *)
ResultInv == result = "nil" => Satisfied(fn, asked, seen)

WaitInv == WaitTypeOK /\ LateInv /\ ResultInv

(* Every function called is one of the fourteen. *)
LEMMA OneOfThem == ASSUME WaitTypeOK PROVE fn \in EveryWait
BY WaitLoopsAssumption DEF WaitTypeOK, EveryWait

(* A call starts with the invariant. *)
LEMMA CallStarts ==
    ASSUME NEW f \in Waits \union {"WaitForContainerStart", "WaitForPod"},
           NEW a \in Arguments(f)
    PROVE  /\ Call(f, a) => WaitInv
           /\ CallNext(f, a) => WaitInv'
<1>1. ASSUME Call(f, a) PROVE WaitInv
  <2>1. WaitTypeOK
    <3>1. asked \in Arguments(fn) /\ seen \in Answers(fn) \union Failures
      BY <1>1 DEF Call, Failures
    <3>2. expired \in BOOLEAN
      BY <1>1, Zenon DEF Call
    <3> QED BY <1>1, <3>1, <3>2 DEF Call, WaitTypeOK
  <2>2. LateInv /\ ResultInv
    BY <1>1 DEF Call, LateInv, ResultInv
  <2> QED BY <2>1, <2>2 DEF WaitInv
<1>2. ASSUME CallNext(f, a) PROVE WaitInv'
  <2>1. WaitTypeOK'
    <3>1. asked' \in Arguments(fn)' /\ seen' \in Answers(fn)' \union Failures
      BY <1>2 DEF CallNext, Failures
    <3>2. expired' \in BOOLEAN
      BY <1>2, Zenon DEF CallNext
    <3> QED BY <1>2, <3>1, <3>2 DEF CallNext, WaitTypeOK
  <2>2. LateInv' /\ ResultInv'
    BY <1>2 DEF CallNext, LateInv, ResultInv
  <2> QED BY <2>1, <2>2 DEF WaitInv
<1> QED BY <1>1, <1>2

(* What a step of a wait does whatever it is. *)
LEMMA WaitFrame ==
    ASSUME OwnStep \/ Expire \/ \E o \in Answers(fn) \union Failures : Ask(o)
    PROVE  result = "none" /\ UNCHANGED <<fn, asked>>
BY DEF OwnStep, Expire, Ask, Connect, ConnectFails, TestDeadline, Judge, Pause, At

(* The clock. *)
LEMMA ExpireKeepsWait == ASSUME WaitInv, Expire PROVE WaitInv'
BY DEF Expire, WaitInv, WaitTypeOK, LateInv, ResultInv

(* The first step of a round, or none. *)
LEMMA ConnectKeepsWait ==
    ASSUME WaitInv, Connect \/ ConnectFails
    PROVE  WaitInv'
<1> USE DEF WaitInv
<1>1. CASE Connect
  <2>1. /\ pc = "connect" /\ result = "none" /\ pc' = Order(fn)[1]
        /\ UNCHANGED <<fn, asked, seen, expired, late, result>>
    BY <1>1 DEF Connect, At
  <2>2. pc' \in {"ask", "test"} /\ (pc' = "test" => fn # "WaitForContainerStart")
    BY <2>1, OneOfThem, Rounds
  <2>3. fn # "WaitForContainerStart" => late = 0
    BY <2>1 DEF LateInv, WaitTypeOK, Untested
  <2> QED BY <2>1, <2>2, <2>3 DEF WaitTypeOK, LateInv, ResultInv
<1>2. CASE ConnectFails
  BY <1>2 DEF ConnectFails, WaitTypeOK, LateInv, ResultInv
<1> QED BY <1>1, <1>2

(* A request: no other was sent after the timeout before it. *)
LEMMA AskKeepsWait ==
    ASSUME WaitInv, NEW o \in Answers(fn) \union Failures, Ask(o)
    PROVE  WaitInv'
<1> USE DEF WaitInv
<1>1. /\ pc = "ask" /\ result = "none"
      /\ seen' = o
      /\ late' = IF expired /\ late < 2 THEN late + 1 ELSE late
      /\ result' \in {"none", "error"}
      /\ pc' = After(fn, "ask")
      /\ UNCHANGED <<fn, asked, expired>>
  BY DEF Ask, At
<1>2. /\ pc' \in {"judge", "test"}
      /\ fn = "WaitForContainerStart" => pc' = "judge"
      /\ pc' \in Untested(fn) \/ fn = "WaitForContainerStart"
  BY <1>1, OneOfThem, Rounds DEF Untested
<1>3. fn # "WaitForContainerStart" => late = 0
  BY <1>1 DEF LateInv, WaitTypeOK, Untested
<1>4. late' \in 0 .. 2 /\ (late' > 0 => expired)
  BY <1>1 DEF WaitTypeOK, LateInv
<1>5. fn # "WaitForContainerStart" => late' <= 1
  BY <1>1, <1>3
<1>6. WaitTypeOK'
  BY <1>1, <1>2, <1>4 DEF WaitTypeOK
<1>7. LateInv'
  BY <1>1, <1>2, <1>4, <1>5 DEF LateInv, Untested
<1>8. ResultInv'
  BY <1>1 DEF ResultInv
<1> QED BY <1>6, <1>7, <1>8

(* The test of the deadline: a wait that has sent a late request ends. *)
LEMMA TestKeepsWait == ASSUME WaitInv, TestDeadline PROVE WaitInv'
<1> USE DEF WaitInv
<1>1. /\ pc = "test" /\ result = "none"
      /\ result' = IF expired THEN "error" ELSE "none"
      /\ pc' = After(fn, "test")
      /\ UNCHANGED <<fn, asked, seen, expired, late>>
  BY DEF TestDeadline, At
<1>2. fn # "WaitForContainerStart" /\ pc' \in {"ask", "pause", "judge"}
  BY <1>1, OneOfThem, Rounds DEF LateInv
<1>3. late = 1 => result' # "none"
  BY <1>1 DEF LateInv
<1>4. WaitTypeOK'
  BY <1>1, <1>2 DEF WaitTypeOK
<1>5. LateInv'
  BY <1>1, <1>2, <1>3 DEF LateInv
<1>6. ResultInv'
  BY <1>1 DEF ResultInv
<1> QED BY <1>4, <1>5, <1>6

(* The judgement of the answer, and the pause after it. *)
LEMMA JudgeKeepsWait == ASSUME WaitInv, Judge \/ Pause PROVE WaitInv'
<1> USE DEF WaitInv
<1>1. PICK from \in {"judge", "pause"} :
          pc = from /\ result = "none" /\ pc' = After(fn, from)
  BY DEF Judge, Pause, At
<1>2. /\ UNCHANGED <<fn, asked, expired, late>>
      /\ seen' \in {seen, NoItem}
      /\ result' \in {"none", "nil"}
      /\ result' = "nil" => Satisfied(fn, asked, seen) /\ seen' = seen
  BY <1>1 DEF Judge, Pause, At
<1>3. /\ pc' \in {"ask", "test", "pause"}
      /\ fn = "WaitForContainerStart" => pc' # "test"
      /\ fn # "WaitForContainerStart" /\ from \in Untested(fn) => pc' \in Untested(fn)
  BY <1>1, OneOfThem, Rounds DEF Untested, TestFirst, JudgeFirst
<1>4. WaitTypeOK'
  BY <1>2, <1>3 DEF WaitTypeOK, Failures
<1>5. LateInv'
  BY <1>1, <1>2, <1>3 DEF LateInv, Untested
<1>6. ResultInv'
  BY <1>2 DEF ResultInv
<1> QED BY <1>4, <1>5, <1>6

(* Every step of a wait. *)
LEMMA WaitKeeps ==
    ASSUME WaitInv,
           OwnStep \/ Expire \/ \E o \in Answers(fn) \union Failures : Ask(o)
    PROVE  WaitInv'
BY ExpireKeepsWait, ConnectKeepsWait, AskKeepsWait, TestKeepsWait, JudgeKeepsWait
   DEF OwnStep

-----------------------------------------------------------------------------
(* The jobs.                                                               *)

JobTypeOK ==
    /\ job \in Jobs \union {"none"}
    /\ stage \in Stages
    /\ queue \in Seq(Containers)
    /\ streams \in [Containers -> {"none", "open", "ended"}]
    /\ opened \in [Containers -> 0 .. 2]
    /\ phase \in Phases \union {"none"}
    /\ outcome \in {"none", "nil", "error"}

PodTypeOK ==
    /\ pod \in Phases \union {"gone"}
    /\ containers \in [Containers -> {"waiting", "running", "terminated"}]

(* The stages of each job, the wait that each stage runs or has run, and   *)
(* where it has ended.                                                     *)
JobInv ==
    /\ job \in {"none", "StreamLogsV2", "Executef"}
    /\ job = "none" => stage = "alone"
    /\ job = "StreamLogsV2" =>
          stage \in {"get", "starting", "stream", "join", "finishing", "check",
                     "returned"}
    /\ job = "Executef" => stage \in {"create", "finishing", "delete", "returned"}
    /\ stage \in {"get", "starting", "stream", "join"} => fn = "WaitForContainerStart"
    /\ stage \in {"create", "finishing", "check", "delete"} =>
          fn = "WaitForPod" /\ asked = {"Succeeded"}
    /\ stage \in {"stream", "join"} => result = "nil"
    /\ outcome # "none" => stage \in {"delete", "returned"}

Elements(q) == {q[j] : j \in DOMAIN q}
OnceEach(q) == \A j, k \in DOMAIN q : q[j] = q[k] => j = k

(* Each container asked for is either still in the list, once, or has its  *)
(* stream; and there is no stream but while they are opened or joined.     *)
StreamInv ==
    /\ stage \in {"get", "starting"} => \A c \in Containers : opened[c] = 0
    /\ stage = "stream" =>
          /\ OnceEach(queue)
          /\ \A c \in Containers :
                /\ c \in Elements(queue) => opened[c] = 0
                /\ c \in Wanted <=> c \in Elements(queue) \/ opened[c] = 1
    /\ stage \notin {"stream", "join"} => \A c \in Containers : streams[c] # "open"

IInv ==
    /\ WaitInv /\ JobTypeOK /\ PodTypeOK /\ JobInv /\ StreamInv
    /\ StreamedOnce /\ LogsMeanSucceeded

(* The head of a list of different elements, and the others. *)
LEMMA TailElements ==
    ASSUME NEW S, NEW q \in Seq(S), q # <<>>, OnceEach(q)
    PROVE  /\ Head(q) \in S /\ Tail(q) \in Seq(S)
           /\ OnceEach(Tail(q))
           /\ Head(q) \notin Elements(Tail(q))
           /\ Elements(q) = Elements(Tail(q)) \union {Head(q)}
<1>1. /\ Len(q) \in Nat /\ Len(q) > 0 /\ DOMAIN q = 1 .. Len(q)
      /\ Head(q) = q[1] /\ Head(q) \in S
      /\ Tail(q) \in Seq(S) /\ DOMAIN Tail(q) = 1 .. Len(q) - 1
      /\ \A i \in 1 .. Len(q) - 1 : Tail(q)[i] = q[i + 1]
  OBVIOUS
<1>2. OnceEach(Tail(q))
  BY <1>1 DEF OnceEach
<1>3. Head(q) \notin Elements(Tail(q))
  BY <1>1 DEF OnceEach, Elements
<1>4. Elements(q) \subseteq Elements(Tail(q)) \union {Head(q)}
  <2> SUFFICES ASSUME NEW j \in 1 .. Len(q), j # 1
               PROVE  q[j] \in Elements(Tail(q))
    BY <1>1 DEF Elements
  <2>1. j - 1 \in 1 .. Len(q) - 1 /\ q[j] = Tail(q)[j - 1]
    BY <1>1
  <2> QED BY <1>1, <2>1 DEF Elements
<1>5. Elements(Tail(q)) \union {Head(q)} \subseteq Elements(q)
  BY <1>1 DEF Elements
<1> QED BY <1>1, <1>2, <1>3, <1>4, <1>5

(* A list whose head is put at its end has the same elements. *)
LEMMA RotatedElements ==
    ASSUME NEW S, NEW q \in Seq(S), q # <<>>, OnceEach(q)
    PROVE  LET r == Append(Tail(q), Head(q))
           IN  r \in Seq(S) /\ OnceEach(r) /\ Elements(r) = Elements(q)
<1> DEFINE t == Tail(q)
           h == Head(q)
           r == Append(t, h)
<1>1. /\ h \in S /\ t \in Seq(S) /\ OnceEach(t) /\ h \notin Elements(t)
      /\ Elements(q) = Elements(t) \union {h}
  BY TailElements
<1> HIDE DEF t, h
<1>2. /\ Len(t) \in Nat /\ DOMAIN t = 1 .. Len(t)
      /\ r \in Seq(S) /\ DOMAIN r = 1 .. Len(t) + 1
      /\ r[Len(t) + 1] = h /\ \A i \in 1 .. Len(t) : r[i] = t[i]
  BY <1>1
<1> HIDE DEF r
<1>3. OnceEach(r)
  <2>1. \A i \in 1 .. Len(t) : t[i] # h
    BY <1>1, <1>2 DEF Elements
  <2> QED BY <1>1, <1>2, <2>1 DEF OnceEach
<1>4. Elements(r) = Elements(t) \union {h}
  <2>1. Elements(r) \subseteq Elements(t) \union {h}
    BY <1>2 DEF Elements
  <2>2. h \in Elements(r)
    BY <1>2 DEF Elements
  <2>3. Elements(t) \subseteq Elements(r)
    BY <1>2 DEF Elements
  <2> QED BY <2>1, <2>2, <2>3
<1> QED BY <1>1, <1>2, <1>3, <1>4 DEF r, t, h

(* An order of a finite set has each element once. *)
LEMMA OrderElements ==
    ASSUME NEW S, IsFiniteSet(S), NEW q \in Orders(S)
    PROVE  q \in Seq(S) /\ OnceEach(q) /\ Elements(q) = S
<1>1. /\ Cardinality(S) \in Nat
      /\ q \in [1 .. Cardinality(S) -> S] /\ OnceEach(q)
  BY FS_CardinalityType DEF Orders, OnceEach
<1>2. q \in Seq(S)
  BY <1>1
<1>3. Cardinality(1 .. Cardinality(S)) = Cardinality(S)
  <2> DEFINE n == Cardinality(S)
  <2>1. 1 \in Int /\ n \in Int /\ (1 > n => n = 0)
    BY <1>1
  <2> HIDE DEF n
  <2>2. Cardinality(1 .. n) = IF 1 > n THEN 0 ELSE n - 1 + 1
    BY <2>1, FS_Interval
  <2>3. Cardinality(1 .. n) = n
    BY <2>1, <2>2
  <2> QED BY <2>3 DEF n
<1>4. q \in Injection(1 .. Cardinality(S), S)
  BY <1>1 DEF Injection, IsInjective, OnceEach
<1>5. q \in Surjection(1 .. Cardinality(S), S)
  BY <1>3, <1>4, FS_Injection
<1>6. Elements(q) = S
  BY <1>1, <1>5 DEF Surjection, Elements
<1> QED BY <1>1, <1>2, <1>6

-----------------------------------------------------------------------------
(* The steps of the jobs.                                                  *)

(* A call of a wait alone, or of a job. *)
LEMMA InitInv == Init => IInv
<1> SUFFICES ASSUME Init PROVE IInv
  OBVIOUS
<1>1. PICK f \in Waits \union {"WaitForContainerStart", "WaitForPod"},
           a \in UNION {Arguments(g) :
                           g \in Waits \union {"WaitForContainerStart", "WaitForPod"}} :
          /\ a \in Arguments(f) /\ Call(f, a)
          /\ \/ job = "none" /\ stage = "alone"
             \/ /\ job = "StreamLogsV2" /\ job \in Jobs /\ stage = "get"
                /\ f = "WaitForContainerStart"
             \/ /\ job = "Executef" /\ job \in Jobs /\ stage = "create"
                /\ f = "WaitForPod" /\ a = {"Succeeded"}
  <2>1. CASE WaitInit /\ job = "none" /\ stage = "alone"
    BY <2>1 DEF WaitInit
  <2>2. CASE /\ job = "StreamLogsV2" /\ job \in Jobs /\ stage = "get"
             /\ \E names \in SUBSET Containers : Call("WaitForContainerStart", names)
    <3>1. Arguments("WaitForContainerStart") = SUBSET Containers
      BY DEF Arguments
    <3> QED BY <2>2, <3>1
  <2>3. CASE /\ job = "Executef" /\ job \in Jobs /\ stage = "create"
             /\ Call("WaitForPod", {"Succeeded"})
    <3>1. {"Succeeded"} \in Arguments("WaitForPod")
      BY DEF Arguments
    <3> QED BY <2>3, <3>1
  <2> QED BY <2>1, <2>2, <2>3 DEF Init
<1>2. WaitInv
  BY <1>1, CallStarts
<1>3. /\ queue = <<>> /\ streams = [c \in Containers |-> "none"]
      /\ opened = [c \in Containers |-> 0] /\ phase = "none" /\ outcome = "none"
      /\ pod = "Pending" /\ containers = [c \in Containers |-> "waiting"]
  BY DEF Init, PodInit
<1>4. JobTypeOK /\ PodTypeOK
  BY <1>1, <1>3 DEF JobTypeOK, PodTypeOK, Stages, Phases
<1>5. JobInv
  BY <1>1, <1>3 DEF JobInv, Call
<1>6. StreamInv /\ StreamedOnce /\ LogsMeanSucceeded
  BY <1>1, <1>3 DEF StreamInv, StreamedOnce, LogsMeanSucceeded
<1> QED BY <1>2, <1>4, <1>5, <1>6 DEF IInv

(* A step that is none of a wait leaves its invariant. *)
LEMMA WaitStays == ASSUME WaitInv, UNCHANGED waitVars PROVE WaitInv'
BY DEF waitVars, WaitInv, WaitTypeOK, LateInv, ResultInv

(* Within a wait of a job the answers are those of a pod. *)
LEMMA WaitSteps ==
    ASSUME IInv, Wait \/ Deadline
    PROVE  /\ OwnStep \/ Expire \/ \E o \in Answers(fn) \union Failures : Ask(o)
           /\ Waiting
           /\ UNCHANGED <<job, stage, queue, streams, opened, phase, outcome,
                          pod, containers>>
<1>1. Waiting /\ UNCHANGED <<job, stage, queue, streams, opened, phase, outcome,
                            pod, containers>>
  BY DEF Wait, Deadline, jobState, podState
<1>2. ASSUME Answered PROVE \E o \in Answers(fn) \union Failures : Ask(o)
  <2>1. CASE stage = "alone"
    BY <1>2, <2>1 DEF Answered, Failures
  <2>2. CASE stage = "starting"
    <3>1. fn = "WaitForContainerStart"
      BY <2>2 DEF IInv, JobInv
    <3>2. PodAnswers \subseteq Answers(fn) \union Failures
      BY <3>1 DEF PodAnswers, Answers, Failures, IInv, PodTypeOK
    <3> QED BY <1>2, <2>2, <3>2 DEF Answered, Failures
  <2>3. CASE stage = "finishing"
    <3>1. fn = "WaitForPod"
      BY <2>3 DEF IInv, JobInv
    <3>2. PodAnswers \subseteq Answers(fn) \union Failures
      BY <3>1 DEF PodAnswers, Answers, Failures, IInv, PodTypeOK
    <3> QED BY <1>2, <2>3, <3>2 DEF Answered, Failures
  <2> QED BY <1>1, <2>1, <2>2, <2>3 DEF Waiting
<1> QED BY <1>1, <1>2 DEF Wait, Deadline

(* A step of a wait changes nothing of the job. *)
LEMMA WaitKeepsJobs == ASSUME IInv, Wait \/ Deadline PROVE IInv'
<1> USE DEF IInv
<1>1. /\ OwnStep \/ Expire \/ \E o \in Answers(fn) \union Failures : Ask(o)
      /\ stage \in {"alone", "starting", "finishing"}
      /\ UNCHANGED <<job, stage, queue, streams, opened, phase, outcome,
                     pod, containers>>
  BY WaitSteps DEF Waiting
<1>2. UNCHANGED <<fn, asked>>
  BY <1>1, WaitFrame
<1>3. WaitInv'
  BY <1>1, WaitKeeps
<1>4. JobTypeOK' /\ PodTypeOK'
  BY <1>1 DEF JobTypeOK, PodTypeOK
<1>5. JobInv'
  BY <1>1, <1>2 DEF JobInv
<1>6. StreamInv' /\ StreamedOnce'
  BY <1>1, <1>2 DEF StreamInv, StreamedOnce, Wanted
<1>7. LogsMeanSucceeded'
  BY <1>1 DEF JobInv, LogsMeanSucceeded
<1> QED BY <1>3, <1>4, <1>5, <1>6, <1>7

(* The job goes to its next stage or returns; of its streams nothing       *)
(* changes.                                                                *)
LEMMA StageKeeps ==
    ASSUME IInv, GetPod \/ Finished \/ Check \/ CreatePod \/ Executed \/ DeletePod
    PROVE  IInv'
<1> USE DEF IInv
<1>1. UNCHANGED <<fn, asked, pc, seen, expired, late, result, containers, job,
                  queue, streams, opened>>
  BY DEF GetPod, Finished, Check, CreatePod, Executed, DeletePod, ReturnJob,
         waitVars, podState
<1>2. WaitInv'
  BY <1>1, WaitStays DEF waitVars
<1>3. /\ stage \in {"get", "finishing", "check", "create", "delete"}
      /\ stage' \in {"starting", "finishing", "check", "delete", "returned"}
      /\ stage = "get" => stage' \in {"starting", "returned"}
      /\ stage = "finishing" /\ job = "StreamLogsV2" => stage' \in {"check", "returned"}
      /\ stage = "finishing" /\ job = "Executef" => stage' = "delete"
      /\ stage = "check" => stage' = "returned"
      /\ stage = "create" => stage' \in {"finishing", "returned"}
      /\ stage = "delete" => stage' = "returned"
  BY DEF GetPod, Finished, Check, CreatePod, Executed, DeletePod, ReturnJob, Enter
<1>4. /\ phase' \in Phases \union {"none"}
      /\ outcome' \in {"none", "nil", "error"}
      /\ pod' \in Phases \union {"gone"}
  BY DEF GetPod, Finished, Check, CreatePod, Executed, DeletePod, ReturnJob,
         podState, JobTypeOK, PodTypeOK, WaitTypeOK, WaitInv
<1>5. outcome' # "none" => stage' \in {"delete", "returned"}
  BY DEF GetPod, Finished, Check, CreatePod, Executed, DeletePod, ReturnJob, Enter,
         JobInv
<1>6. JobTypeOK' /\ PodTypeOK'
  BY <1>1, <1>3, <1>4 DEF JobTypeOK, PodTypeOK, Stages
<1>7. JobInv'
  BY <1>1, <1>3, <1>5 DEF JobInv
<1>8. StreamInv' /\ StreamedOnce'
  <2>1. stage \notin {"stream", "join"} /\ stage' \notin {"stream", "join"}
    BY <1>3
  <2>2. stage' \in {"get", "starting"} => stage = "get"
    BY <1>3, <2>1 DEF JobInv
  <2>3. StreamInv'
    BY <1>1, <2>1, <2>2 DEF StreamInv
  <2>4. StreamedOnce'
    BY <1>1, <2>1 DEF StreamedOnce
  <2> QED BY <2>3, <2>4
<1>9. LogsMeanSucceeded'
  <2>1. CASE Check
    <3>1. stage = "check" /\ job = "StreamLogsV2"
      BY <2>1 DEF Check, ReturnJob, Enter, JobInv
    <3>2. outcome' = "nil" => phase' = "Succeeded"
      BY <2>1 DEF Check, ReturnJob
    <3> QED BY <1>1, <3>1, <3>2 DEF LogsMeanSucceeded, StreamInv
  <2>2. CASE Executed
    <3>1. /\ job = "Executef" /\ outcome' = result
          /\ fn = "WaitForPod" /\ asked = {"Succeeded"}
      BY <2>2 DEF Executed, JobInv
    <3>2. result = "nil" => seen \in {"Succeeded", "Failed"}
      BY <3>1 DEF WaitInv, ResultInv, Satisfied
    <3> QED BY <1>1, <3>1, <3>2 DEF LogsMeanSucceeded
  <2>3. CASE DeletePod
    BY <1>1, <2>3 DEF DeletePod, LogsMeanSucceeded
  <2>4. CASE GetPod \/ Finished \/ CreatePod
    <3>1. outcome' # "nil"
      BY <2>4 DEF GetPod, Finished, CreatePod, ReturnJob, JobInv, Enter
    <3> QED BY <3>1 DEF LogsMeanSucceeded
  <2> QED BY <2>1, <2>2, <2>3, <2>4
<1> QED BY <1>2, <1>6, <1>7, <1>8, <1>9

(* The containers are started: those asked for are listed, or the job      *)
(* returns.                                                                *)
LEMMA StartedKeeps == ASSUME IInv, Started PROVE IInv'
<1> USE DEF IInv
<1>1. /\ stage = "starting" /\ fn = "WaitForContainerStart"
      /\ UNCHANGED <<fn, asked, pc, seen, expired, late, result, pod, containers, job,
                     streams, opened, phase>>
  BY DEF Started, ReturnJob, waitVars, podState, JobInv
<1>2. WaitInv' /\ PodTypeOK'
  BY <1>1, WaitStays DEF waitVars, PodTypeOK
<1>3. CASE result = "error" /\ ReturnJob("starting", "error")
  <2>1. stage' = "returned" /\ outcome' = "error" /\ UNCHANGED queue
    BY <1>3 DEF ReturnJob, Enter
  <2> QED BY <1>1, <1>2, <2>1
          DEF JobTypeOK, Stages, JobInv, StreamInv, StreamedOnce, LogsMeanSucceeded
<1>4. CASE result = "nil" /\ Enter("starting", "stream") /\ queue' \in Orders(Wanted)
           /\ UNCHANGED outcome
  <2>1. Wanted \subseteq Containers /\ IsFiniteSet(Wanted)
    <3>1. asked \subseteq Containers
      BY <1>1 DEF WaitInv, WaitTypeOK, Arguments
    <3>2. Wanted \subseteq Containers
      BY <3>1 DEF Wanted
    <3> QED BY <3>2, WaitLoopsAssumption, FS_Subset
  <2>2. queue' \in Seq(Wanted) /\ OnceEach(queue') /\ Elements(queue') = Wanted
    BY <1>4, <2>1, OrderElements
  <2>3. queue' \in Seq(Containers)
    BY <2>1, <2>2
  <2>4. /\ stage' = "stream" /\ result = "nil"
        /\ \A c \in Containers : opened[c] = 0
        /\ job = "StreamLogsV2" /\ Wanted' = Wanted
    BY <1>1, <1>4 DEF Enter, StreamInv, JobInv, Wanted
  <2>5. JobTypeOK' /\ JobInv'
    BY <1>1, <1>4, <2>3, <2>4 DEF JobTypeOK, Stages, JobInv
  <2>6. StreamInv'
    BY <1>1, <2>2, <2>4 DEF StreamInv
  <2>7. StreamedOnce' /\ LogsMeanSucceeded'
    BY <1>1, <1>4, <2>4 DEF StreamedOnce, LogsMeanSucceeded, JobInv
  <2> QED BY <1>2, <2>5, <2>6, <2>7
<1> QED BY <1>3, <1>4 DEF Started

(* A stream is opened or put back; the list and the streams agree.         *)
LEMMA StreamKeeps == ASSUME IInv, StreamFails \/ StreamOpens PROVE IInv'
<1> USE DEF IInv
<1>1. /\ stage = "stream" /\ queue # <<>> /\ queue \in Seq(Containers)
      /\ OnceEach(queue)
      /\ UNCHANGED <<fn, asked, pc, seen, expired, late, result, pod, containers, job,
                     stage, phase, outcome>>
  BY DEF StreamFails, StreamOpens, waitVars, podState, StreamInv, JobTypeOK
<1>2. WaitInv' /\ PodTypeOK'
  BY <1>1, WaitStays DEF waitVars, PodTypeOK
<1>3. JobInv'
  BY <1>1 DEF JobInv
<1>4. LogsMeanSucceeded'
  BY <1>1 DEF LogsMeanSucceeded, JobInv
<1>5. Wanted' = Wanted
  BY <1>1 DEF Wanted
<1>6. CASE StreamFails
  <2>1. queue' = Append(Tail(queue), Head(queue)) /\ UNCHANGED <<streams, opened>>
    BY <1>6 DEF StreamFails
  <2>2. /\ queue' \in Seq(Containers) /\ OnceEach(queue')
        /\ Elements(queue') = Elements(queue)
    BY <1>1, <2>1, RotatedElements
  <2>3. JobTypeOK'
    BY <1>1, <2>1, <2>2 DEF JobTypeOK
  <2>4. StreamInv' /\ StreamedOnce'
    BY <1>1, <1>5, <2>1, <2>2 DEF StreamInv, StreamedOnce
  <2> QED BY <1>2, <1>3, <1>4, <2>3, <2>4
<1>7. CASE StreamOpens
  <2> DEFINE h == Head(queue)
  <2>1. /\ h \in Containers /\ queue' = Tail(queue) /\ queue' \in Seq(Containers)
        /\ OnceEach(queue') /\ h \notin Elements(queue')
        /\ Elements(queue) = Elements(queue') \union {h}
    BY <1>1, <1>7, TailElements DEF StreamOpens
  <2>2. /\ streams' = [streams EXCEPT ![h] = "open"]
        /\ opened' = [opened EXCEPT ![h] = @ + 1]
    BY <1>7 DEF StreamOpens
  <2>3. opened[h] = 0
    BY <1>1, <2>1 DEF StreamInv
  <2>4. /\ opened'[h] = 1 /\ \A c \in Containers \ {h} : opened'[c] = opened[c]
        /\ opened' \in [Containers -> 0 .. 2]
        /\ streams' \in [Containers -> {"none", "open", "ended"}]
    BY <2>1, <2>2, <2>3 DEF JobTypeOK
  <2> HIDE DEF h
  <2>5. JobTypeOK'
    BY <1>1, <2>1, <2>4 DEF JobTypeOK
  <2>6. StreamInv'
    BY <1>1, <1>5, <2>1, <2>3, <2>4 DEF StreamInv
  <2>7. StreamedOnce'
    BY <1>1, <2>4 DEF StreamedOnce
  <2> QED BY <1>2, <1>3, <1>4, <2>5, <2>6, <2>7
<1> QED BY <1>6, <1>7

(* All streams are open, or one of them ends. *)
LEMMA StreamingKeeps ==
    ASSUME IInv,
           AllStreaming \/ \E c \in Containers : StreamEnds(c) \/ StreamBreaks(c)
    PROVE  IInv'
<1> USE DEF IInv
<1>1. UNCHANGED <<fn, asked, pc, seen, expired, late, result, pod, containers, job,
                  queue, opened, phase, outcome>>
  BY DEF AllStreaming, StreamEnds, StreamBreaks, waitVars, podState
<1>2. WaitInv' /\ PodTypeOK'
  BY <1>1, WaitStays DEF waitVars, PodTypeOK
<1>3. Wanted' = Wanted
  BY <1>1 DEF Wanted
<1>4. CASE AllStreaming
  <2>1. stage = "stream" /\ stage' = "join" /\ queue = <<>> /\ UNCHANGED streams
    BY <1>4 DEF AllStreaming, Enter
  <2>2. Elements(queue) = {}
    BY <2>1 DEF Elements
  <2>3. JobTypeOK' /\ JobInv'
    BY <1>1, <2>1 DEF JobTypeOK, Stages, JobInv
  <2>4. StreamInv' /\ LogsMeanSucceeded'
    BY <1>1, <2>1 DEF StreamInv, LogsMeanSucceeded, JobInv
  <2>5. StreamedOnce'
    BY <1>1, <1>3, <2>1, <2>2 DEF StreamInv, StreamedOnce
  <2> QED BY <1>2, <2>3, <2>4, <2>5
<1>5. CASE \E c \in Containers : StreamEnds(c) \/ StreamBreaks(c)
  <2>1. PICK c \in Containers : StreamEnds(c) \/ StreamBreaks(c)
    BY <1>5
  <2>2. streams' = [streams EXCEPT ![c] = "ended"] /\ UNCHANGED stage
    BY <2>1 DEF StreamEnds, StreamBreaks
  <2>3. /\ streams' \in [Containers -> {"none", "open", "ended"}]
        /\ \A d \in Containers : streams'[d] = "open" => streams[d] = "open"
    BY <2>2 DEF JobTypeOK
  <2>4. JobTypeOK' /\ JobInv'
    BY <1>1, <2>2, <2>3 DEF JobTypeOK, JobInv
  <2>5. StreamInv' /\ StreamedOnce' /\ LogsMeanSucceeded'
    BY <1>1, <1>3, <2>2, <2>3 DEF StreamInv, StreamedOnce, LogsMeanSucceeded
  <2> QED BY <1>2, <2>4, <2>5
<1> QED BY <1>4, <1>5

(* The streams have ended, and the pod is waited for. *)
LEMMA JoinKeeps == ASSUME IInv, Join PROVE IInv'
<1> USE DEF IInv
<1>1. /\ stage = "join" /\ stage' = "finishing" /\ job = "StreamLogsV2"
      /\ \A c \in Containers : streams[c] # "open"
      /\ CallNext("WaitForPod", {"Succeeded"})
      /\ UNCHANGED <<pod, containers, job, queue, streams, opened, phase, outcome>>
  BY DEF Join, Enter, podState, JobInv
<1>2. WaitInv'
  <2>1. {"Succeeded"} \in Arguments("WaitForPod")
    BY DEF Arguments
  <2> QED BY <1>1, <2>1, CallStarts
<1>3. JobTypeOK' /\ PodTypeOK'
  BY <1>1 DEF JobTypeOK, Stages, PodTypeOK
<1>4. JobInv'
  BY <1>1 DEF JobInv, CallNext
<1>5. StreamInv' /\ StreamedOnce' /\ LogsMeanSucceeded'
  BY <1>1 DEF StreamInv, StreamedOnce, LogsMeanSucceeded, JobInv
<1> QED BY <1>2, <1>3, <1>4, <1>5

(* The pod of a job changes. *)
LEMMA KubeletKeeps == ASSUME IInv, Kubelet PROVE IInv'
<1> USE DEF IInv
<1>1. UNCHANGED <<fn, asked, pc, seen, expired, late, result, job, stage, queue,
                  streams, opened, phase, outcome>>
  BY DEF Kubelet, waitVars, jobState
<1>2. PodTypeOK'
  BY DEF Kubelet, ContainerStarts, ContainerEnds, PodSucceeds, PodFails, PodDeleted,
         PodTypeOK, Phases
<1>3. WaitInv'
  BY <1>1, WaitStays DEF waitVars
<1>4. JobTypeOK' /\ JobInv'
  BY <1>1 DEF JobTypeOK, JobInv
<1>5. StreamInv' /\ StreamedOnce' /\ LogsMeanSucceeded'
  BY <1>1 DEF StreamInv, StreamedOnce, LogsMeanSucceeded, Wanted
<1> QED BY <1>2, <1>3, <1>4, <1>5

-----------------------------------------------------------------------------
(* The theorems.                                                           *)

(* The invariant of the waits and the jobs. *)
THEOREM JobsInvariant == Spec => []IInv
<1>1. IInv /\ [Next]_vars => IInv'
  <2> SUFFICES ASSUME IInv, [Next]_vars PROVE IInv'
    OBVIOUS
  <2>1. CASE UNCHANGED vars
    <3>1. UNCHANGED <<fn, asked, pc, seen, expired, late, result, job, stage, queue,
                      streams, opened, phase, outcome, pod, containers>>
      BY <2>1 DEF vars, waitVars, jobState, podState
    <3>2. WaitInv'
      BY <3>1, WaitStays DEF waitVars, IInv
    <3> QED BY <3>1, <3>2 DEF IInv, JobTypeOK, PodTypeOK, JobInv, StreamInv, StreamedOnce,
                              LogsMeanSucceeded, Wanted
  <2>2. CASE Next
    BY <2>2, WaitKeepsJobs, StageKeeps, StartedKeeps, StreamKeeps, StreamingKeeps,
       JoinKeeps, KubeletKeeps DEF Next, Caller
  <2> QED BY <2>1, <2>2
<1> QED BY InitInv, <1>1, PTL DEF Spec

(* The variables of the waits and the jobs keep their types. *)
THEOREM TypeCorrect == Spec => []TypeOK
<1>1. IInv => TypeOK
  BY DEF IInv, WaitInv, WaitTypeOK, JobTypeOK, PodTypeOK, TypeOK
<1> QED BY JobsInvariant, <1>1, PTL

(* nil from any of the fourteen waits means that the last answer showed    *)
(* what is waited for, or one of the cases in which wait.go says ready of  *)
(* what is not (wait.go).                                                  *)
THEOREM NilIsServing == Spec => []NilMeansServing
<1>1. IInv => NilMeansServing
  BY SatisfiedServes, OneOfThem
     DEF IInv, WaitInv, ResultInv, WaitTypeOK, NilMeansServing
<1> QED BY JobsInvariant, <1>1, PTL

(* A wait sends at most one request after its timeout, in whatever order   *)
(* its round tests and asks, but for WaitForContainerStart (wait.go:653).  *)
THEOREM LateRequestIsOne == Spec => []OneLateRequest
<1>1. IInv => OneLateRequest
  BY DEF IInv, WaitInv, LateInv, OneLateRequest
<1> QED BY JobsInvariant, <1>1, PTL

(* StreamLogsV2 opens one stream for each container asked for, whatever    *)
(* fails on the way, and no second one (client.go:510-549).                *)
THEOREM EachIsStreamedOnce == Spec => []StreamedOnce
<1>1. IInv => StreamedOnce
  BY DEF IInv
<1> QED BY JobsInvariant, <1>1, PTL

(* nil from StreamLogsV2 means that the pod succeeded and all its streams  *)
(* were read; nil from Executef that the pod has ended (client.go:496-563, *)
(* execute.go:68-97).                                                      *)
THEOREM LogsAreOfSuccess == Spec => []LogsMeanSucceeded
<1>1. IInv => LogsMeanSucceeded
  BY DEF IInv
<1> QED BY JobsInvariant, <1>1, PTL

(* A step that judges an answer and goes on has been shown nothing of what *)
(* is waited for, or one of the things wait.go does not see.               *)
Noticed ==
    At("judge") /\ pc' # "judge" /\ result' = "none"
        => ~Serves(fn, asked, seen) \/ Blind(fn, asked, seen)

(* An answer that shows what is waited for ends the wait (wait.go).        *)
THEOREM ServingEndsWait == Spec => ServingIsNoticed
<1>1. IInv /\ [Next]_vars => [Noticed]_vars
  <2> SUFFICES ASSUME IInv, Next, At("judge"), pc' # "judge", result' = "none",
                      Serves(fn, asked, seen)
               PROVE  Blind(fn, asked, seen)
    BY DEF Noticed
  <2>1. result = "none" /\ pc = "judge"
    BY DEF At
  <2>2. stage # "join"
    BY <2>1 DEF IInv, JobInv
  <2>3. Judge
    <3>1. Wait
      BY <2>1, <2>2
         DEF Next, Caller, Deadline, Expire, GetPod, Started, StreamFails, StreamOpens,
             AllStreaming, Join, Enter, Finished, Check, CreatePod, Executed, DeletePod,
             StreamEnds, StreamBreaks, Kubelet, waitVars
    <3> QED BY <2>1, <3>1 DEF Wait, OwnStep, Answered, Ask, Connect, ConnectFails,
                              TestDeadline, Pause, At
  <2>4. ~Satisfied(fn, asked, seen)
    BY <2>3 DEF Judge
  <2> QED BY <2>4, ServesSatisfies, OneOfThem DEF IInv, WaitInv, WaitTypeOK
<1> QED BY JobsInvariant, <1>1, PTL DEF Spec, ServingIsNoticed, Noticed

=============================================================================
