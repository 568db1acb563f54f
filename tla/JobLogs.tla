------------------------------- MODULE JobLogs -------------------------------
(***************************************************************************)
(* The callers of the waits: any of them called directly, StreamLogsV2 of  *)
(* client.go, which waits for containers, streams their logs from one      *)
(* goroutine each and waits for the pod, and Executef of execute.go, which *)
(* creates a pod, waits for it and deletes it.                             *)
(***************************************************************************)
EXTENDS WaitLoops

CONSTANTS
    Jobs            \* which of "StreamLogsV2", "Executef" are called

VARIABLES
    job,        \* the function called, "none" for a wait alone
    stage,      \* where it is: see Stages
    pod,        \* the phase of the pod on the server, or "gone"
    containers, \* the state of each of its containers
    queue,      \* the containers still to be streamed
    streams,    \* each container's stream: "none", "open" or "ended"
    opened,     \* how many streams of each container were opened
    phase,      \* the phase StreamLogsV2 read last
    outcome     \* what the job returned: "none" while it runs

jobState == <<job, stage, queue, streams, opened, phase, outcome>>
podState == <<pod, containers>>
vars == <<waitVars, jobState, podState>>

(* "get", "starting", "stream", "join", "finishing", "check"  StreamLogsV2 *)
(* "create", "finishing", "delete"                            Executef     *)
Stages == {"alone", "get", "starting", "stream", "join", "create",
           "finishing", "check", "delete", "returned"}

(* The calls, answers and results, and the pod of a job. *)
TypeOK ==
    /\ fn \in Waits \union {"WaitForContainerStart", "WaitForPod"}
    /\ asked \in Arguments(fn)
    /\ pc \in {"connect", "ask", "test", "judge", "pause"}
    /\ seen \in Answers(fn) \union Failures
    /\ expired \in BOOLEAN
    /\ late \in 0 .. 2
    /\ result \in {"none", "nil", "error"}
    /\ job \in Jobs \union {"none"}
    /\ stage \in Stages
    /\ pod \in Phases \union {"gone"}
    /\ containers \in [Containers -> {"waiting", "running", "terminated"}]
    /\ queue \in Seq(Containers)
    /\ streams \in [Containers -> {"none", "open", "ended"}]
    /\ opened \in [Containers -> 0 .. 2]
    /\ phase \in Phases \union {"none"}
    /\ outcome \in {"none", "nil", "error"}

PodInit ==
    /\ pod = "Pending"
    /\ containers = [c \in Containers |-> "waiting"]

Init ==
    /\ PodInit
    /\ queue = <<>>
    /\ streams = [c \in Containers |-> "none"]
    /\ opened = [c \in Containers |-> 0]
    /\ phase = "none"
    /\ outcome = "none"
    /\ \/ WaitInit /\ job = "none" /\ stage = "alone"
       \/ /\ job = "StreamLogsV2" /\ job \in Jobs /\ stage = "get"
          /\ \E names \in SUBSET Containers :
                Call("WaitForContainerStart", names)
       \/ /\ job = "Executef" /\ job \in Jobs /\ stage = "create"
          /\ Call("WaitForPod", {"Succeeded"})

-----------------------------------------------------------------------------
(* The waits: alone they may be answered anything, those of a job are      *)
(* answered from its pod.  Any request may fail.                           *)

Waiting == stage \in {"alone", "starting", "finishing"}

PodAnswers ==
    IF pod = "gone" THEN {NoItem}
    ELSE IF fn = "WaitForPod" THEN {pod} ELSE {containers}

Answered ==
    \E o \in {Unanswered} \union
             (IF stage = "alone" THEN Answers(fn) \union {NoItem}
              ELSE PodAnswers) :
        Ask(o)

Wait == Waiting /\ (OwnStep \/ Answered) /\ UNCHANGED <<jobState, podState>>

Deadline == Waiting /\ Expire /\ UNCHANGED <<jobState, podState>>

-----------------------------------------------------------------------------
(* StreamLogsV2.                                                           *)

Enter(from, to) == stage = from /\ stage' = to

ReturnJob(from, v) ==
    /\ Enter(from, "returned")
    /\ outcome' = v
    /\ UNCHANGED <<job, queue, streams, opened, phase>>

GetPod ==
    /\ stage = "get"
    /\ \/ /\ pod # "gone"
          /\ Enter("get", "starting")
          /\ UNCHANGED <<job, queue, streams, opened, phase, outcome>>
       \/ ReturnJob("get", "error")
    /\ UNCHANGED <<waitVars, podState>>

Wanted == IF asked = {} THEN Containers ELSE asked

Orders(S) == {s \in [1 .. Cardinality(S) -> S] :
                 \A j, k \in DOMAIN s : s[j] = s[k] => j = k}

(* The containers of the specification, in its order. *)
Started ==
    /\ stage = "starting"
    /\ \/ /\ result = "nil"
          /\ Enter("starting", "stream")
          /\ queue' \in Orders(Wanted)
          /\ UNCHANGED <<job, streams, opened, phase, outcome>>
       \/ result = "error" /\ ReturnJob("starting", "error")
    /\ UNCHANGED <<waitVars, podState>>

(* Mutant of StreamFails: a container whose stream fails is given up. *)
StreamGivenUp ==
    /\ stage = "stream"
    /\ queue # <<>>
    /\ queue' = Tail(queue)
    /\ UNCHANGED <<waitVars, podState, job, stage, streams, opened, phase,
                   outcome>>

(* Mutant of StreamFails: the container is put back but not taken off. *)
StreamDoubled ==
    /\ stage = "stream"
    /\ queue # <<>>
    /\ queue' = Append(queue, Head(queue))
    /\ UNCHANGED <<waitVars, podState, job, stage, streams, opened, phase,
                   outcome>>

(* A stream that fails is put back at the end of the list, without end. *)
StreamFails ==
    /\ stage = "stream"
    /\ queue # <<>>
    /\ queue' = Append(Tail(queue), Head(queue))
    /\ UNCHANGED <<waitVars, podState, job, stage, streams, opened, phase,
                   outcome>>

StreamOpens ==
    /\ stage = "stream"
    /\ queue # <<>>
    /\ pod # "gone"
    /\ containers[Head(queue)] # "waiting"
    /\ streams' = [streams EXCEPT ![Head(queue)] = "open"]
    /\ opened' = [opened EXCEPT ![Head(queue)] = @ + 1]
    /\ queue' = Tail(queue)
    /\ UNCHANGED <<waitVars, podState, job, stage, phase, outcome>>

AllStreaming ==
    /\ queue = <<>>
    /\ Enter("stream", "join")
    /\ UNCHANGED <<waitVars, podState, job, queue, streams, opened, phase,
                   outcome>>

(* The goroutine of a container, at the end of its stream. *)
StreamEnds(c) ==
    /\ streams[c] = "open"
    /\ containers[c] = "terminated" \/ pod = "gone"
    /\ streams' = [streams EXCEPT ![c] = "ended"]
    /\ UNCHANGED <<waitVars, podState, job, stage, queue, opened, phase,
                   outcome>>

(* Or earlier: the connection breaks, or a line is too long for the scanner. *)
StreamBreaks(c) ==
    /\ streams[c] = "open"
    /\ streams' = [streams EXCEPT ![c] = "ended"]
    /\ UNCHANGED <<waitVars, podState, job, stage, queue, opened, phase,
                   outcome>>

(* wg.Wait, then the call of WaitForPod. *)
Join ==
    /\ \A c \in Containers : streams[c] # "open"
    /\ Enter("join", "finishing")
    /\ CallNext("WaitForPod", {"Succeeded"})
    /\ UNCHANGED <<podState, job, queue, streams, opened, phase, outcome>>

Finished ==
    /\ stage = "finishing"
    /\ job = "StreamLogsV2"
    /\ \/ /\ result = "nil"
          /\ Enter("finishing", "check")
          /\ UNCHANGED <<job, queue, streams, opened, phase, outcome>>
       \/ result = "error" /\ ReturnJob("finishing", "error")
    /\ UNCHANGED <<waitVars, podState>>

(* Mutant of Check: nil of WaitForPod is taken for success. *)
CheckTrusting ==
    /\ ReturnJob("check", "nil")
    /\ UNCHANGED <<waitVars, podState>>

(* The pod is read once more: WaitForPod returns nil for a failed pod. *)
Check ==
    /\ stage = "check"
    /\ \/ /\ pod # "gone"
          /\ phase' = pod
          /\ outcome' = IF pod = "Succeeded" THEN "nil" ELSE "error"
          /\ Enter("check", "returned")
          /\ UNCHANGED <<job, queue, streams, opened>>
       \/ ReturnJob("check", "error")
    /\ UNCHANGED <<waitVars, podState>>

-----------------------------------------------------------------------------
(* Executef.                                                               *)

CreatePod ==
    /\ stage = "create"
    /\ \/ /\ Enter("create", "finishing")
          /\ UNCHANGED <<job, queue, streams, opened, phase, outcome>>
       \/ ReturnJob("create", "error")
    /\ UNCHANGED <<waitVars, podState>>

(* The log is read whatever the wait returned; a log that cannot be read   *)
(* is a text.  Then the deferred delete.                                   *)
Executed ==
    /\ stage = "finishing"
    /\ job = "Executef"
    /\ result # "none"
    /\ Enter("finishing", "delete")
    /\ outcome' = result
    /\ UNCHANGED <<waitVars, podState, job, queue, streams, opened, phase>>

(* The error of the delete is not looked at. *)
DeletePod ==
    /\ Enter("delete", "returned")
    /\ \/ pod' = "gone"
       \/ pod' = pod
    /\ UNCHANGED <<waitVars, containers, job, queue, streams, opened, phase,
                   outcome>>

-----------------------------------------------------------------------------
(* The kubelet and other clients, on the pod of a job.                     *)

Alive == job # "none" /\ pod \in {"Pending", "Running"}

(* A pod whose init containers run is still pending. *)
ContainerStarts(c) ==
    /\ Alive
    /\ containers[c] = "waiting"
    /\ containers' = [containers EXCEPT ![c] = "running"]
    /\ pod' \in {pod, "Running"}

ContainerEnds(c) ==
    /\ Alive
    /\ containers[c] = "running"
    /\ containers' = [containers EXCEPT ![c] = "terminated"]
    /\ pod' = pod

PodSucceeds ==
    /\ Alive
    /\ \A c \in Containers : containers[c] = "terminated"
    /\ pod' = "Succeeded"
    /\ containers' = containers

(* Also before every container has started: an init container that fails. *)
PodFails ==
    /\ Alive
    /\ pod' = "Failed"
    /\ containers' = [c \in Containers |->
                         IF containers[c] = "running" THEN "terminated"
                         ELSE containers[c]]

PodDeleted ==
    /\ job # "none"
    /\ pod # "gone"
    /\ pod' = "gone"
    /\ containers' = containers

Kubelet ==
    /\ \/ \E c \in Containers : ContainerStarts(c) \/ ContainerEnds(c)
       \/ PodSucceeds
       \/ PodFails
       \/ PodDeleted
    /\ UNCHANGED <<waitVars, jobState>>

Caller ==
    \/ Wait
    \/ GetPod
    \/ Started
    \/ StreamFails
    \/ StreamOpens
    \/ AllStreaming
    \/ Join
    \/ Finished
    \/ Check
    \/ CreatePod
    \/ Executed
    \/ DeletePod

Next ==
    \/ Caller
    \/ Deadline
    \/ \E c \in Containers : StreamEnds(c) \/ StreamBreaks(c)
    \/ Kubelet

Spec == Init /\ [][Next]_vars

(* The runtime runs what can run, requests are answered, the clock runs.   *)
(* Nothing is assumed of the server's answers, the kubelet, or the stream  *)
(* requests, which may fail for ever.                                      *)
FairSpec ==
    /\ Spec
    /\ WF_vars(Caller)
    /\ WF_vars(Deadline)
    /\ \A c \in Containers : WF_vars(StreamEnds(c))

-----------------------------------------------------------------------------
(* Properties.                                                             *)

(* A wait returns nil only for what its name or comment says it waits for, *)
(* or in one of the cases Lenient lists, in which wait.go says ready of    *)
(* something that is not.                                                  *)
NilMeansServing ==
    result = "nil" => Serves(fn, asked, seen) \/ Lenient(fn, seen)

(* An answer that shows what is waited for ends the wait (wait.go), except *)
(* in the cases Blind lists, in which the wait goes on until its timeout.  *)
ServingIsNoticed ==
    [][At("judge") /\ pc' # "judge" /\ result' = "none"
         => ~Serves(fn, asked, seen) \/ Blind(fn, asked, seen)]_vars

(* Once its timeout has passed a wait sends at most one more request, in   *)
(* whatever order its round tests and asks (wait.go); a missing pod is     *)
(* asked for again and again by WaitForContainerStart.                     *)
OneLateRequest == late = 2 => fn = "WaitForContainerStart"

(* Before it joins the streams, StreamLogsV2 has opened exactly one for    *)
(* each container asked for, whatever failed on the way, and never opens a *)
(* second (client.go, StreamLogsV2).                                       *)
StreamedOnce ==
    /\ \A c \in Containers : opened[c] <= 1
    /\ stage = "join" => \A c \in Containers : opened[c] = 1 <=> c \in Wanted

(* nil from StreamLogsV2 means the pod succeeded and no stream is still    *)
(* read; nil from Executef only that the pod has ended, for WaitForPod     *)
(* returns nil for a failed pod too (execute.go, client.go).               *)
LogsMeanSucceeded ==
    outcome = "nil" =>
        IF job = "StreamLogsV2"
        THEN /\ phase = "Succeeded"
             /\ \A c \in Containers : streams[c] # "open"
        ELSE seen \in {"Succeeded", "Failed"}

Returned == IF job = "none" THEN result # "none" ELSE stage = "returned"

(* The three places at which a call may stay for ever: WaitForContainerStart *)
(* while the pod is missing, StreamLogsV2 while a stream cannot be opened,  *)
(* and while a container runs.                                              *)
Endless ==
    \/ fn = "WaitForContainerStart" /\ result = "none" /\ seen = NoItem
    \/ stage = "stream" /\ queue # <<>>
    \/ stage = "join" /\ \E c \in Containers : streams[c] = "open"

(* Every other wait of wait.go returns by its timeout, and so do the       *)
(* functions that call it.                                                 *)
Returns == <>Returned \/ <>[]Endless

(* The comment of WaitForContainerStart (wait.go:651): it waits for the    *)
(* containers to be started.                                               *)
StartedMeansStarted ==
    fn = "WaitForContainerStart" /\ result = "nil" =>
        Serves(fn, asked, seen)
=============================================================================
