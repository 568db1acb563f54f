------------------------------ MODULE WaitLoops ------------------------------
(***************************************************************************)
(* The polling loops of wait.go (and GetJobPod of client.go).  Each is a   *)
(* round of the same steps in an order of its own: ask the server, test    *)
(* the deadline, judge the answer, pause.  The server may answer anything  *)
(* at any time: objects appear, change and go between two requests.        *)
(* Dry runs, which return at once, are left out.                           *)
(***************************************************************************)
EXTENDS Readiness

CONSTANTS
    Waits,          \* the functions called
    Unanswered,     \* a request that failed otherwise than with NotFound
    Containers      \* the containers of a pod

EveryWait ==
    {"WaitForNamespace", "WaitForResource", "WaitForAPIResource",
     "WaitForJob", "WaitForPodByLabel", "WaitForContainerStart",
     "WaitForPod", "WaitForDeployment", "WaitForStatefulSet",
     "WaitForDaemonSet", "WaitForNode", "WaitForTaintRemoval",
     "WaitForPodCommand", "GetJobPod"}

ASSUME WaitLoopsAssumption == Waits \subseteq EveryWait /\ IsFiniteSet(Containers)

Phases == {"Pending", "Running", "Succeeded", "Failed"}

VARIABLES
    fn,         \* the function called
    asked,      \* what it is asked for: phases, names, statuses
    pc,         \* its next step
    seen,       \* the last answer
    expired,    \* the timeout has passed since the call
    late,       \* requests sent after that, counted up to 2
    result      \* "none" while it runs

waitVars == <<fn, asked, pc, seen, expired, late, result>>

-----------------------------------------------------------------------------
(* What distinguishes the functions.                                       *)

(* The order of a round.  WaitForContainerStart returns or starts over     *)
(* before it comes to its test.                                            *)
Order(f) ==
    CASE f \in {"WaitForAPIResource", "WaitForTaintRemoval"} ->
             <<"test", "ask", "judge", "pause">>
      [] f \in {"WaitForPodByLabel", "WaitForPodCommand", "GetJobPod"} ->
             <<"ask", "judge", "test", "pause">>
      [] f = "WaitForContainerStart" -> <<"ask", "judge", "pause">>
      [] OTHER -> <<"ask", "test", "judge", "pause">>

After(f, step) ==
    LET i == CHOOSE i \in DOMAIN Order(f) : Order(f)[i] = step
    IN  Order(f)[(i % Len(Order(f))) + 1]

(* An error of the request is returned, not retried. *)
ReturnsErrors(f) ==
    f \in {"WaitForDaemonSet", "WaitForTaintRemoval", "GetJobPod"}

(* Without a client the first of these poll on, the others return. *)
PollsUnconnected(f) ==
    f \in {"WaitForNamespace", "WaitForAPIResource", "WaitForNode",
           "WaitForPodCommand"}

Failures == {NoItem, Unanswered}

Answers(f) ==
    CASE f = "WaitForNamespace" -> SUBSET [clean : BOOLEAN, phase : Phases]
      [] f = "WaitForResource" -> Items
      [] f = "WaitForAPIResource" -> [served : BOOLEAN, foreign : BOOLEAN]
      [] f = "WaitForJob" ->
             SUBSET [type : {"Complete", "Failed"}, status : {"True", "False"}]
      [] f = "WaitForPodByLabel" -> SUBSET Phases
      [] f = "WaitForContainerStart" ->
             [Containers -> {"waiting", "running", "terminated"}]
      [] f = "WaitForPod" -> Phases
      [] f \in {"WaitForDeployment", "WaitForStatefulSet",
                "WaitForDaemonSet"} -> Counts
      [] f = "WaitForNode" -> {"True", "False", "Unknown", "unlisted"}
      [] f = "WaitForTaintRemoval" -> {"tainted", "free"}
      [] f = "WaitForPodCommand" -> {"zero", "nonzero"}
      [] f = "GetJobPod" -> [labelled : BOOLEAN, pods : SUBSET {"first"}]

Arguments(f) ==
    CASE f \in {"WaitForPod", "WaitForPodByLabel"} ->
             {{"Running"}, {"Succeeded"}, {"Running", "Succeeded"}}
      [] f = "WaitForContainerStart" -> SUBSET Containers
      [] f = "WaitForNode" -> {{"True"}, {"False", "Unknown"}}
      [] f = "WaitForAPIResource" -> {{"plural"}, {"kind"}}
      [] OTHER -> {{}}

(* The test of each loop that ends it with nil.  WaitForPod takes a failed *)
(* pod for the end of the wait, WaitForPodByLabel any pod, whatever its    *)
(* phase, and WaitForContainerStart any pod that is there.                 *)
Satisfied(f, a, o) ==
    /\ o \notin Failures
    /\ CASE f = "WaitForNamespace" -> IsNamespaceReady(o)
         [] f = "WaitForResource" -> IsReady(o)
         [] f = "WaitForAPIResource" -> \E by \in a : IsCRDReady(o, by)
         [] f = "WaitForJob" -> [type |-> "Complete", status |-> "True"] \in o
         [] f = "WaitForPodByLabel" -> o # {}
         [] f = "WaitForContainerStart" -> TRUE
         [] f = "WaitForPod" -> o \in a \union {"Failed"}
         [] f \in {"WaitForDeployment", "WaitForStatefulSet",
                   "WaitForDaemonSet"} -> o >= 1
         [] f = "WaitForNode" -> o \in a
         [] f = "WaitForTaintRemoval" -> o = "free"
         [] f = "WaitForPodCommand" -> o = "zero"
         [] f = "GetJobPod" -> o.labelled /\ o.pods # {}

-----------------------------------------------------------------------------
(* The steps.                                                              *)

Call(f, a) ==
    /\ fn = f
    /\ asked = a
    /\ pc = "connect"
    /\ seen = NoItem
    /\ expired = FALSE
    /\ late = 0
    /\ result = "none"

CallNext(f, a) ==
    /\ fn' = f
    /\ asked' = a
    /\ pc' = "connect"
    /\ seen' = NoItem
    /\ expired' = FALSE
    /\ late' = 0
    /\ result' = "none"

WaitInit == \E f \in Waits : \E a \in Arguments(f) : Call(f, a)

At(step) == result = "none" /\ pc = step

(* The clientset is made before the first round. *)
Connect ==
    /\ At("connect")
    /\ pc' = Order(fn)[1]
    /\ UNCHANGED <<fn, asked, seen, expired, late, result>>

ConnectFails ==
    /\ At("connect")
    /\ ~PollsUnconnected(fn)
    /\ result' = "error"
    /\ UNCHANGED <<fn, asked, pc, seen, expired, late>>

(* Errors that return at once.  A missing pod is not one of them for       *)
(* WaitForContainerStart, any other error is.                              *)
Fatal(o) ==
    \/ o \in Failures /\ ReturnsErrors(fn)
    \/ o = Unanswered /\ fn = "WaitForContainerStart"

Ask(o) ==
    /\ At("ask")
    /\ seen' = o
    /\ late' = IF expired /\ late < 2 THEN late + 1 ELSE late
    /\ result' = IF Fatal(o) THEN "error" ELSE "none"
    /\ pc' = After(fn, "ask")
    /\ UNCHANGED <<fn, asked, expired>>

(* Mutant of TestDeadline: the time is taken anew in every round. *)
TestThisRound ==
    /\ At("test")
    /\ expired' = FALSE
    /\ pc' = After(fn, "test")
    /\ UNCHANGED <<fn, asked, seen, late, result>>

(* Mutant of TestDeadline: a pending pod is waited for before the test. *)
TestUnlessPending ==
    /\ At("test")
    /\ result' = IF expired /\ ~(fn = "WaitForPod" /\ seen = "Pending")
                 THEN "error" ELSE "none"
    /\ pc' = After(fn, "test")
    /\ UNCHANGED <<fn, asked, seen, expired, late>>

TestDeadline ==
    /\ At("test")
    /\ result' = IF expired THEN "error" ELSE "none"
    /\ pc' = After(fn, "test")
    /\ UNCHANGED <<fn, asked, seen, expired, late>>

Judge ==
    /\ At("judge")
    /\ result' = IF Satisfied(fn, asked, seen) THEN "nil" ELSE "none"
    /\ pc' = After(fn, "judge")
    /\ UNCHANGED <<fn, asked, seen, expired, late>>

(* From 1 to 5 seconds; one nanosecond in WaitForContainerStart; none in   *)
(* WaitForPod unless the pod is pending.  The next round has its own       *)
(* answer.                                                                 *)
Pause ==
    /\ At("pause")
    /\ pc' = After(fn, "pause")
    /\ seen' = NoItem
    /\ UNCHANGED <<fn, asked, expired, late, result>>

(* The clock. *)
Expire ==
    /\ result = "none"
    /\ ~expired
    /\ expired' = TRUE
    /\ UNCHANGED <<fn, asked, pc, seen, late, result>>

OwnStep == Connect \/ ConnectFails \/ TestDeadline \/ Judge \/ Pause

-----------------------------------------------------------------------------
(* What the names and comments of wait.go say is waited for.               *)

Number(count) == IF count = Absent THEN 0 ELSE count

Up(item) ==
    CASE item.kind = "Pod" -> Listed(item) /\ Has(item, "Ready", {"True"})
      [] item.kind = "Node" ->
            /\ Listed(item)
            /\ Has(item, "Ready", {"True"})
            /\ ~\E t \in Types \ {"Ready"} : Has(item, t, {"True"})
      [] item.kind \in {"Kafka", "Other"} ->
            /\ Listed(item)
            /\ Has(item, "Ready", {"True"})
            /\ item.kind = "Other" => ~Has(item, "Pressure", {"True", "Unknown"})
      [] item.kind \in Built ->
            Listed(item) /\ Has(item, "Ready", {"True"}) /\ item.latestImage
      [] item.kind = "App" ->
            item.reported /\ Number(item.readyReplicas) = item.spec
      [] item.kind = "Service" ->
            IF item.balanced THEN item.ingress ELSE item.endpoints = "addresses"
      [] OTHER -> IsReady(item)

Serves(f, a, o) ==
    /\ o \notin Failures
    /\ CASE f = "WaitForResource" -> Up(o)
         [] f = "WaitForAPIResource" -> o.served
         [] f = "WaitForPod" -> o \in a
         [] f = "WaitForPodByLabel" -> o \intersect a # {}
         [] f = "WaitForContainerStart" ->
               \E c \in IF a = {} THEN Containers ELSE a : o[c] # "waiting"
         [] OTHER -> Satisfied(f, a, o)

(* Said to be ready although not up: a pod only the scheduler has reported *)
(* on; a node that is not heard of; a resource without any condition of    *)
(* failure, or whose Ready is listed before one; an image or builder with  *)
(* a latest image; Endpoints without addresses; a set of which fewer or    *)
(* more replicas exist than are wanted.                                    *)
LenientItem(item) ==
    CASE item.kind \in Conditioned \union Built ->
            \/ /\ item.kind # "Kafka"
               /\ ~Has(item, "Ready",
                       CASE item.kind = "Pod" -> {"True", "False", "Unknown"}
                         [] item.kind = "Node" -> {"True", "False"}
                         [] OTHER -> {"True"})
            \/ item.kind = "Other" /\ Has(item, "Pressure", {"True", "Unknown"})
      [] item.kind = "Service" -> item.endpoints = "empty"
      [] item.kind = "App" -> Number(item.replicas) # item.spec
      [] OTHER -> FALSE

(* A pod that failed for one that is in the phase asked for, any pod with  *)
(* the label, any pod for its containers, a type of another group with the *)
(* same prefix.                                                            *)
Lenient(f, o) ==
    \/ f = "WaitForResource" /\ LenientItem(o)
    \/ f = "WaitForAPIResource" /\ o.foreign
    \/ f = "WaitForPod" /\ o = "Failed"
    \/ f \in {"WaitForPodByLabel", "WaitForContainerStart"}

(* Waited for until the timeout although it is there: a type asked for by  *)
(* its kind, as Apply does; a pod with a condition of a type the code does *)
(* not know; a built image with another condition that is not True; a set  *)
(* with a surplus of replicas, or scaled to none, with only one of the     *)
(* counts reported; a resource whose failure is listed before Ready.       *)
Blind(f, a, o) ==
    \/ f = "WaitForAPIResource" /\ "kind" \in a
    \/ /\ f = "WaitForResource"
       /\ \/ o.kind = "Pod" /\ \E t \in Types \ SuccessTypes :
                                   Has(o, t, {"True", "Unknown"})
          \/ o.kind = "Pod" /\ Has(o, "Scheduled", {"False", "Unknown"})
          \/ o.kind = "Builder" /\ \E t \in Types \ {"Ready"} :
                                       Has(o, t, {"False", "Unknown"})
          \/ o.kind = "App" /\ Number(o.replicas) # o.spec
          \/ o.kind = "App" /\ o.spec = 0
=============================================================================
