# A verification development for flanksource/kommons

kommons is a Go library of helpers around the Kubernetes client: it applies objects, waits for
them, drains nodes, runs commands in pods, reads configuration. Its own logic is small; what makes
it hard is that almost every operation is a *sequence of requests* to a server that other clients
write at the same time, some with goroutines, timers and deferred clean-up around them. This
directory holds TLA+ models of the parts where that matters most, the TLC runs that check them,
and proofs of their safety for every value of the constants.

Source references are `file:line` of the repository.

## 1. Inventory

| component | state it keeps | operations | what is hard | what makes it correct |
|---|---|---|---|---|
| **Pod removal** `drain/drain.go` `DeleteOrEvictPods` | per call: goroutines, a channel of capacity 1, a context with deadline, the list of pending pods | `CheckEvictionSupport`; `evictPods` (one goroutine per pod: evict, back off on 429, poll); `deletePods` (delete all, poll in rounds) | concurrency, deadlines, retries, lost answers, failed Gets, pods deleted or replaced by others | no goroutine leaks; no result lost or counted twice; nil, an error and the callback mean what they say; the call returns |
| **Pod filters** `drain/filters.go` `GetPodsForDeletion` | the list of pods and statuses | five filters in order, accessors | the order, options, early exit | mirror, DaemonSet and unmanaged pods are protected; finished pods go; errors are reported |
| **Pod eviction** `evict.go` `EvictPod`, `shortcuts.go` `ScalePod`, `GetPodReplicas` | on the server: a ReplicaSet's replicas, claims; per call: the deferred scaling back | scale up, failover, remove, renew the claims, scale back | several callers on one ReplicaSet, partial failure, an ignored timeout | the scaling is undone; claims are renewed only after the pod went |
| **Node drain** `evict.go` `Drain`, `EvictNode`, `Cordon`, `unsafe.go` `RemoveVolumeAttachment` | on the server: the node, volume attachments | cordon, list, evict one by one, detach | a list that grows stale, failure half-way, read-modify-write of the node | success means the listed pods are gone; volumes of running pods stay; taints survive |
| **Apply** `apply.go` `Apply` | on the server: the object and its version | get, create, compare, update, replace | concurrent appliers, failing requests, delete and create | nil means applied; unread edits survive |
| **Waiting** `wait.go`, `GetJobPod` of `client.go` | none (polling loops); each call its deadline and its last answer | `WaitFor*`, `Is*Ready` | timeouts racing answers, failed Gets, loops without a pause, the order of test and request | returns by the timeout, nil only when ready, readiness noticed |
| **Client, REST mapping** `client.go` | `Client.restMapper`, the shared `rest.Config`, discovery files on disk | `GetRestMapper`, `WaitForRestMapping`, `ResetRestMapper`, `GetRestClient` | stale caches, shared state without a lock | a mapping is found once it exists; a client is for the group asked |
| **Environment values** `shortcuts.go`, `types.go` | the process-wide `envCache` | `GetEnvValue`, `GetEnvValueFromCache`, `GetCacheKey` | the cache key, expiry, slow fetches | how old a value may be |
| **Conditions** `conditions.go`, `api/v1` | the item in hand; on the server, the status | `Refresh`, `SetCondition`, `GetConditions`, `Update` | read-modify-write by several controllers | nil means set; no condition of another is put back |
| **Created if missing** `shortcuts.go` | on the server | `GetOrCreateSecret`, `GetOrCreatePVC`, `CreateOrUpdateNamespace`, `ExposeIngress` | check then act, twice over when Apply follows | what others made is kept |
| **Exec, logs, jobs** `execute.go`, `client.go` | a list of containers, a wait group, streams | `StreamLogsV2`, `Executef`, `GetJobPod` | goroutines, streams that fail, waits that lie | every container is streamed once; nil means success |
| **Defaults and names** `defaults.go`, `utils.go` | none | `Defaults`, `DefaultSubjects`, `GetDNS1192Name` | boundaries, being applied twice | what is given is kept; twice is once |
| **Patches, immutable fields** `helper.go`, `apply.go` | the text not yet read | `templatizePatch`, `copyImmutable` | termination, indices | every piece is read, ports stay |
| drain's cordon helpers, proxy, health and smoke tests, templates, builders, generated code | – | I/O, text, deep copies | – | – |

The components interact by calls and through the server: `Drain` calls `Cordon` and `EvictNode`,
which calls `EvictPod` per pod, which calls `ScalePod` and `DeleteOrEvictPods`; `StreamLogsV2` and
`Executef` call the waits; `CreateOrUpdateNamespace` and `GetOrCreateSecret` go through `Apply`,
which fills in the defaults first. The server's objects are the shared state between callers in
several processes; within one process the calls share `restMapper`, the `rest.Config` and the
`envCache`. `PROJECT.json` lists the components with their status, and the hazards at their lines.

## 2. Modules

```
PodRemoval            what DeleteOrEvictPods promises            (abstract)
   ^ implemented by
DeleteOrEvict  ---- INSTANCE ----> EvictPods, DeletePods ---- EXTENDS ---> PodServer
NodeDrain ---- EXTENDS ---> EvictPod (whose eviction step is PodRemoval's promise)
PodFilters            Apply
JobLogs ---- EXTENDS ---> WaitLoops ---- EXTENDS ---> Readiness
MCClientCalls ---- EXTENDS ---> RestMapper, RestConfig, EnvCache, Conditions, Ensure,
                                Defaults, Helpers
MCxxx                 instances for TLC        xxxProofs    theorems

EvictPodsProofs, DeletePodsProofs ---- EXTENDS ---> PodServerProofs
DrainHelperProofs ---- INSTANCE ---> EvictPodsProofs, DeletePodsProofs
                  ---- EXTENDS ----> DeleteOrEvict, PodFilters, PodServerProofs
NodeDrainProofs (EvictPod and NodeDrain), ApplyProofs, JobLogsProofs (WaitLoops and
JobLogs), ClientCallsProofs (MCClientCalls)
```

* **PodServer** – what the API server holds of the pods of one call (`obj`) and what other clients
  do to it. It is external to the repository: modelled from the requests the code sends and the
  answers it distinguishes. `RemoveByName` acts on whatever has the name (no UID precondition is
  set, drain.go:122-152); `LooksGone` is the test of drain.go:338, which a failed Get satisfies too
  (the typed client returns an empty object beside the error).
* **EvictPods** – `evictPods` (drain.go:226-299) with the goroutine of each pod (`pc`), the channel
  `returnCh`, the count `doneCount`, the deadline `expired`. One action per request, test of the
  context, sleep, send and receive.
* **DeletePods** – `deletePods` and the rounds of `waitForDelete` (drain.go:301-365), with the timer
  of `wait.PollImmediate`: a round started by the closed timer is the last.
* **DeleteOrEvict** – `DeleteOrEvictPods` (drain.go:202-224): asks for eviction support, then takes
  one of the two ways over one server. Runs check this module.
* **PodFilters** – `GetPodsForDeletion` (drain.go:154-199) and the filters. A pod is the record of
  what the filters read of it. Its names differ from those of DeleteOrEvict, so that one module can
  prove about both methods of `drain.Helper`.
* **EvictPod** – `Client.EvictPod` and `ScalePod` with optimistic versions; the deferred scaling
  back is the location "unwind". **NodeDrain** – `Drain`/`EvictNode`/`Cordon` for several nodes,
  calling EvictPod one pod after the other, beside the scheduler (which may bind a pod it nominated
  before the cordon), the attach-detach controller and writers of nodes and ReplicaSets.
* **Apply** – `Client.Apply` (apply.go:208-319) for one object, several appliers, other clients.
  `Shape` stands for the immutable fields, `Replaceable` for the kinds of `RequiresReplacement`.
* **Readiness** – the predicates of wait.go, as operators over what each reads of an object: its
  conditions with types and statuses, counts of replicas, phases. A missing status and one without
  conditions are answered alike by each, so they are one value. What a predicate asks the server
  for (Endpoints, the sets behind a database) is part of the item.
* **WaitLoops** – the fourteen loops, as one machine whose differences are operators: the order of a
  round (`Order`: request, test of the deadline, judgement, pause), which errors end the wait
  (`Fatal`: only `WaitForDaemonSet`, `WaitForTaintRemoval` and `GetJobPod` return the first error of
  a Get, `WaitForContainerStart` any but NotFound), and what ends it well (`Satisfied`; no failed
  request does). `EveryWait` names the functions. The server may answer anything at any time.
* **JobLogs** – who calls the waits: any caller; `StreamLogsV2` (client.go:496-563) with its list of
  containers, a goroutine per stream and the wait group; `Executef` (execute.go) with its deferred
  delete. The last two talk about one pod, which a kubelet and other clients move on.
* **RestMapper** – `WaitForRestMapping`, `GetRestMapper` (test, set and read the field: three steps,
  as there is no lock) and `ResetRestMapper`, over the files and the mapper's own view. What
  client-go's deferred mapper does with them is external and stated at the head of the module.
* **RestConfig** – `GetRestClient` statement by statement over the one shared configuration.
* **EnvCache** – `GetEnvValueFromCache`: hit, miss, fetch (the answer is taken when the server gives
  it and cached later), set, with a clock. `KeyOf` is a constant because the key leaves out the
  namespace (and whether it is a secret): two references may share it.
* **Conditions** – `SetCondition` by controllers with an item in hand each. The object the update
  returns is thrown away, so the next update of the same item conflicts; the item in hand keeps a
  condition the server refused; a heartbeat alone is never written. Kinds with a status subresource
  are out of scope: `Update` does not write their status.
* **Ensure** – the four calls: a look, then nothing, a create, or the Get and update of Apply. The
  arguments of `HasSecret` are swapped in the call (shortcuts.go:244 against 547), so what is looked
  for is another secret: `job.name` says which cases of that there are.
* **Defaults** – defaults.go as operators over records of fields that are unset, given or default.
  The objects given are the constant `GivenObjects`; `DefaultsAssumption` says that they have the
  fields of their types, as Go's structures do. MCClientCalls lists those that TLC tries.
* **Helpers** – the truncation of `GetDNS1192Name` over a name given by the ends of its words, the
  loop of `templatizePatch` over the numbers of the pieces of a patch, the node ports of
  `copyImmutable`.
* **MCClientCalls** – the seven before, which share no variable. Their product would only multiply
  independent states, so the first step chooses the part that runs and the others stay as they are.

In each module, operators described as a "Mutant of X" are plausible slips in the code of X. They
are not part of the specification; replacing X by one makes the property it belongs to fail
(`PROJECT.json`, "mutants"), which shows that the property depends on that code.

## 3. Runs

| run | question | bounds |
|---|---|---|
| drain_safety | are results, verdicts and callbacks right, whatever fails or races? | 3 interchangeable pods (two cannot show three senders on a channel of one), all options on |
| drain_deadline | does the call implement `PodRemoval`, does it return, is every result collected? | 2 pods, with a timeout |
| filter_kinds | what do the filters protect and let through? | one pod of each of 576 kinds under each of 16 option sets; pods do not influence each other, so one is enough |
| apply_concurrent | does nil mean applied, are unread edits safe? | 2 appliers, 3 contents in 2 shapes, 2 foreign steps |
| drain_nodes | are scaling, claims, attachments and taints right, do the verdicts hold? | 2 nodes, 4 pods (shared ReplicaSet, local claim, latecomer, DaemonSet), 1 mishap |
| waits | what does nil of a wait mean, is readiness noticed, how late is the last request, does every call return, what is streamed? | all 14 loops over all answers: lists of up to 2 conditions of 4 types and 3 statuses, counts to 2, 2 containers |
| client_calls | one property for each of seven parts, see below | 2 lookups, 3 mappers, 2 changes of type; 3 builders of 2 groups; 2 readers of 2 references with one key; 2 controllers, 2 types, 2 statuses, 3 versions; 2 ensuring callers, 2 foreign writes; objects, words and ports below |
| namesake, failed_get, filter_errors, apply_bare, container_start | five statements of comments and messages that the code does not keep | the instances above |

`client_calls` checks: a lookup times out only if the server lacked the type meanwhile, and uses a nil
mapper only if another call set the field to nil between its test and its read (`TruthfulMapping`); a
client is for its group unless calls overlapped (`ClientForGroup`); a value is no older than an expiry
and a fetch unless a caller caches for ever (`BoundedStaleness`); `NilMeansSet` and
`OthersConditionsKept` of Conditions; nothing of others is lost but in four named cases
(`EnsureKeepsOthers`); what is given is kept, and defaulting twice is defaulting once
(`DefaultsStable`); a name is at most one character too long and drops no word that fits, a patch is
read whole, in its order, or for ever, and node ports stay (`HelpersBounded`).

**Bounds.** `MaxMishaps` bounds failing requests and foreign writes together: one is enough for
every property that tolerates a failure to be exercised at every point, and each drain has at most
one step that survives a mishap. `MaxEdits` bounds foreign edits; two are needed for one between Get
and update and one between delete and create. Retries, polls and rounds are unbounded, since they
return to the same state; versions and counters are bounded by the number of writers.

In `waits` two conditions are enough for a judgement that depends on their order and for a success
beside a failure; a third only repeats one of the two. Two containers are enough for a stream that
fails while another is read. In `client_calls` two overlapping calls show every conflict of a field
tested and read again (a third mapper is free for a new one), three builders a call before and one
beside; the clock runs to 5, past a default expiry of 2 after a fetch of 1 after another expiry;
expiries are negative (for ever), 0 (the default) and 1. Names have up to 4 words and 12
characters on both sides of a maximum of 5 (40 in the code, of which only the comparison matters),
patches up to 4 pieces, services up to 4 ports. The objects to default have lists of up to two
elements, since a list is defaulted element by element, and every field whose default can matter is
set and not set in one of them.

`CHECK_DEADLOCK FALSE` is set because all calls return and the system then stops.

**Fairness** (`FairSpec` of DeleteOrEvict). Weak fairness of each goroutine's step, of the caller's
receive, return and delete steps: the Go runtime runs what can run, and a request is eventually
answered. With a timeout, weak fairness of the deadline and the timer: the clock runs. Nothing is
assumed of the server: a disruption budget may refuse for ever and a pod may never terminate.
Without a timeout the call may then wait for ever, which is what `Timeout = 0` asks for, so
`Returns` is checked with one.

`FairSpec` of JobLogs. Weak fairness of the caller (a request is answered, with whatever), of the
deadline (the clock runs) and of the end of a stream whose container has ended. Nothing is assumed of
the answers, the kubelet, or the opening of a stream, which may fail for ever. `Returns` names the
three places a call may then stay in: `WaitForContainerStart` while the pod is missing,
`StreamLogsV2` while a stream cannot be opened, and while a container runs.

### What the violations show

* **namesake** – an eviction retried by name may remove a later pod of that name; comments say
  "the give pod" (drain.go:136).
* **failed_get** – a Get that fails is taken for a pod that is gone: the branch that returns the
  error (drain.go:343) is shadowed by the comparison of UIDs (drain.go:338). `NilMeansGone` and
  `PodRemoval` therefore carry the exception `misled`, which records exactly that, so that they
  still say everything else.
* **filter_errors** – `errors()` reads a list that, by drain.go:184, never has a pod refused with an
  error.
* **apply_bare** – "neither the new or old object remain" (apply.go:304) is said although an object
  of that name exists.
* **container_start** – `WaitForContainerStart` returns at its first Get that is not NotFound: its
  test of the timeout and its look at the containers (wait.go:671-682) are dead code, and while the
  pod is missing it asks again every nanosecond.

Facts met on the way that the properties state as exceptions rather than hide:

* A failed Get makes DeleteOrEvictPods return nil for a pod that runs, and then `EvictPod` deletes the
  claim it uses and the drain its volume attachment (`misled` again, in EvictPod); `Cordon` and
  `EvictNode` return nil when no client can be made (evict.go:109, 148; `unconnected`); the volume
  attachments of a pod bound after the list was taken, and of a pod of a kind left alone, are removed
  while it runs (`DetachedWhenEvicted` speaks of the listed, evictable pods); a concurrent caller on
  the same ReplicaSet may scale back the surge of another (`SurgeHeld` speaks of a set with one
  caller); `Drain` ignores its `timeout` parameter.
* `Lenient` (WaitLoops) lists when wait.go calls ready what is not: a pod on which only the scheduler
  has reported, a node that is not heard of, a resource whose `Ready` is listed before its failure or
  that has neither, Endpoints without addresses, a set compared with the replicas that exist instead
  of those wanted, a failed pod (`WaitForPod`), a pod in any phase (`WaitForPodByLabel`), a type of
  another group with the same prefix.
  `Blind` lists when it waits on although all is well: a type asked for by its kind, which is how
  Apply asks; a pod with a condition of a type the code does not know; a set with a surplus, or
  scaled to none with one count reported.
* Two calls of `GetRestClient` at the same time may build a client of the other's group or path, or of
  none (client.go:397-403), and a lookup may use a nil mapper (client.go:231).
* Two references of one key share a value whatever their namespaces (shortcuts.go:373).
* After a failed `SetCondition` a retry with the same item returns nil without writing.
* `CreateOrUpdateNamespace` takes all annotations off when none are given (shortcuts.go:73);
  `GetOrCreateSecret` overwrites an existing secret because it looks for another (shortcuts.go:244).
* `DefaultSubjects` adds a subject each time (defaults.go:47); a termination message path without a
  policy and rolling-update parameters without a type are overwritten (defaults.go:141, 211, 229, 245).
* A DNS name may be one character too long (utils.go:739); a patch that is empty or ends in two empty
  pieces is never done (helper.go:92); a load balancer with one port more than before panics
  (apply.go:50).

## 4. Proofs

TLAPS checks every theorem for every value of the constants that the assumptions allow: any finite
set of pods, any ReplicaSets, nodes, appliers, controllers, callers, containers, any options,
expiries and bounds, objects with lists of any length, names, patches and services of any length.
The assumptions (`...Assumption`, one in each module with constants) say what the constants are:
types, finiteness, and that a value standing for "none" is none of the others. Five say more: a
lookup always finds a free mapper (`RestMapperAssumption`; there are no more mappers in use than
lookups and the field), there is a longest expiry (`EnvCacheAssumption`; a Go Duration is bounded),
no latecomer is of a kind left alone (`NodeDrainAssumption`), only the fourteen functions are called
(`WaitLoopsAssumption`), and objects have the fields of their types (`DefaultsAssumption`; nothing
is assumed of what is in the fields, but that subjects are a list of such, nor of `Unset`). TLC
evaluates all of them in the runs.

In each module the theorem `...Invariant` or `Invariance` states the inductive invariant; the others
follow from it. Few of the properties below are inductive by themselves; what was missing says where the
difficulty lies.

* **EvictPodsProofs.** `NoGoroutineLeft`, `VerdictExact` and `NilMeansGone` are not inductive: that
  nothing runs when the count is reached depends on what is in the channel and who has sent.
  `EvictPods!IInv` adds `CountInv` (received + buffered = goroutines ended), `ChannelInv`,
  `ResultInv` (a result exactly from the send on), `ErrorsInv` (collected errors = failures of the
  ended goroutines not in the channel), `ReturnInv` and `TruthInv` (what was concluded of a pod
  stays true, since pods only go forward on the server).
* **DeletePodsProofs.** `DeletePods!IInv`: in a round the unsettled pods are those not yet looked at
  and those found pending (`ListInv`), callbacks match what is settled, and conclusions stay true.
* **PodServerProofs.** Lemmas on the server's steps shared by the two ways.
* **DrainHelperProofs.** The composition: both ways' invariants hold until one is taken, then the
  invariant of that way; the other never moves. From it `TypeCorrect`, `NoLeak`, `ExactVerdict`,
  `NilIsTruthful`, `ErrorIsTruthful`, `CallbackOnce`, and `Refinement`: every step of
  DeleteOrEvict is a step of PodRemoval or none. The two ways are instantiated twice, by the
  specification and by the proofs; the lemmas `Same...` identify the instances.
  For the filters, `FiltersInv`: the pod in the filters has passed those before the next one, and the
  list holds, of the pods the loop is done with, exactly those that pass all five. `Protected` and
  `FinishedListed` then are facts about the five filters together (`PassesEach`), for any number of
  pods, which TLC checks one pod at a time.
* **NodeDrainProofs** (EvictPod and NodeDrain). `ScaledBack` says something only when every eviction
  from a set has ended; until then `LiveInv` holds: while an untouched ReplicaSet is at two, some
  caller that surged it will still read it again, or has read its last version, so that its write is
  not refused. `ToldInv` is the same for sets that others write: somebody has been told, or will be
  if refused. Both rest on `SurgedInv` (who is to scale back has scaled up before). `ClaimInv` and
  `RenewInv` follow a claim through its renewal; `LateInv`, `DrainInv` and `CopyInv` connect the
  list, the evictions, the attachments and the node that Cordon has read. The theorems:
  `TypeCorrect` (in it, replicas stay within one and two), `ScalingBack`, `LeftUpTold`,
  `SurgeIsHeld`, `ClaimsOutlivePods`, `NilRenewed`, `NilDrained`, and the action properties
  `VolumesDetachedWhenEvicted` and `TaintsAreKept`.
* **ApplyProofs.** `NilIsTruthful` follows from the types and the history; `UpdatesAreNotBlind`
  needs that a version names one content for ever (`VersionInv`) and that who deletes has read a
  content of another shape (`ReplaceInv`).
* **JobLogsProofs** (WaitLoops and JobLogs). `OneLateRequest` needs `LateInv`: after a late request
  the loop is on its way to its test, by the places its own order of a round leaves in between
  (`Untested`). `NilMeansServing` needs that the answer that ended a wait is still the last one
  (`ResultInv`), and then compares the test in each function with what serving means, function by
  function (`SatisfiedServes`, over `ReadyIsUp` for the objects `IsReady` dispatches on);
  `ServingIsNoticed` is the converse (`ServesSatisfies`, `UpIsReady`). `StreamedOnce` needs
  `StreamInv`: each container asked for is in the list once or has its stream, while a container
  that does not run yet goes to the end of the list (`RotatedElements`). `LogsMeanSucceeded` needs
  `JobInv`, which wait each stage of a job runs and for what phase.
* **ClientCallsProofs** (MCClientCalls). A step of the client is a step of each part or leaves the
  part alone (`PartSteps`), so each part has an invariant of its own. `MapperInv`: a mapper without
  the type that a call can still get after its own flush was loaded while the call ran (`StaleInv`),
  and a call whose time is up has seen the type absent (`OverdueInv`). `ConfigInv`: a call no other
  overlaps is the only one that runs, and the configuration holds what it has written (`AloneInv`).
  `EnvInv`: an answer not yet cached was held since its fetch began (`AnswerInv`), an entry no longer
  before its end than the longest expiry and a fetch (`CachedInv`). `ConditionsInv`: versions are in
  order (`VersionInv`), an item with the object's version differs from it only in what its controller
  set (`AgreeInv`), and what an item says the object said, or an update failed (`ShownInv`).
  `EnsureInv`: no edition is given twice (`EditionInv`), and what a call is about to write follows
  from what it read first (`PlaceInv`).
  For Defaults, one lemma for each function says what is in the fields it makes (`ContainerFields`,
  `PodFields`, `WorkloadFields`, ...), one that it changes nothing a second time (`...Twice`), from
  `FillTwice` upwards: an element that stays makes a list that stays, and so on to the object. What
  was given is kept by the same fields (`...Kept`).
  For Helpers, `KeptFacts` says where the loop over words stops, from which `TruncatedIsBounded`
  follows: the last part has no dash to be left out of the count, which is the one character too
  many. `PatchRead` is not inductive: `TakenInv` says that what is taken so far is what has been read
  and is something, `ReadInv` that a last piece of nothing is only come to past the end. `PortsKept`
  follows from one step.

The proofs made some things of the model explicit that the runs did not need: that no failed
request ends a wait well (the cases of `Satisfied` overlapped there), which functions there are
(`EveryWait`), and the assumptions on finiteness, kinds and expiries. Two parts were rewritten to be
reasoned about: names are given by where words end and pieces by their numbers, since sums and
selections of sequences are recursive functions of the libraries, of which nothing can be proved
here; and the objects to default are a constant instead of an enumeration, which a proof could only
have repeated.

Only model-checked:

* `Returns` (two of that name) and `ResultsReceived`: liveness under fairness is out of the prover's
  reach.

Every other property of a passing run is stated by a theorem.

## 5. Not modelled

* Text, logging and progress output; dry runs; `Uncordon` (Cordon with the other value);
  `ForceDeleteNamespace`; the operations of apply.go other than `Apply`; `GetPodLogs` and
  `TriggerCronJobManually`, which are single requests.
* The cordon helpers of the drain package (`drain/cordon.go`, `default.go`): sequential, and called by
  nothing else in the repository.
* Kubeconfigs, impersonation, `ResetConnection`; kinds and conversions of `utils.go`; what of the
  patches is done by the kustomize library.
* The port-forward proxy (one stream of the client library), health reports and smoke tests (no state
  of their own), templates, builders and the tree walk (construction and text), generated code.

What is external to the repository (API server, kubelet, controllers, scheduler, client-go's mapper)
is modelled only as far as the code can notice it.

## 6. Plan

Done: pod removal first (the most concurrent part), then PodFilters, Apply, EvictPod and NodeDrain;
the waits with their callers; the seven parts of the client; and the proofs of every safety property
and action property of these.

Left: `Uncordon` beside `Cordon`, with `TaintsKept` for both.
