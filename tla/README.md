# pod-proxier: TLA+ models, checks and proofs

pod-proxier publishes Kubernetes Pods and Services through HAProxy. This
directory holds TLA+ models of its controllers, the TLC runs that check them on
small instances, and TLAPS proofs of the results that hold on every instance.
`PROJECT.json` lists the components, runs, mutants, findings, hazards and
theorems, and maps every definition to the lines it models.

## 1. The system

| Part | Source | State | Operations |
|---|---|---|---|
| V2 `ServiceController` | `controller/service_controller.go` | informer store, work queue, `serviceMappings`, `portAllocations`, the worker's locals | three event handlers; `processNextWorkItem` with `syncService`, `processServiceWithTx`, `createServiceProxy`, `removeServiceMappingsWithTx`, `allocatePort`, `releasePort` |
| V1 `Controller` | `controller/pod_controller.go` | Pod store, `asyncQueue` of expiry events | `CreateMapping`, `DefaultMapping`, `changeProxy`, `createProxy`, `pop`, `Run` |
| `HaproxyHandle` | `haproxy/haproxy.go` | a mutex per handle | one HTTP request (or version read plus request) per operation; `handleError` reads the answer |
| HTTP API | `server/v1.go`, `router.go`, `api.go` | none | query and create a V1 mapping, with a TTL |
| Command line | `server/cmd.go`, `main.go` | the flags | `Validate`, `Run` starts V1, V2 and the web server |
| Work queue, informer | client-go (external) | queue, dirty, processing, waiting; the store | `Add`, `Get`, `Done`, `AddRateLimited`, `AddAfter`; watch and resync |
| Data Plane API, HAProxy | external | configuration and its version, open transactions | reads, writes, start and commit of a transaction |

How they interact. The informer's goroutine writes the store and then calls a
handler, which adds the Service's key to the queue. One worker takes a batch of
keys, reads the configuration version, opens a transaction for it, looks each
key up in the store, sends the requests of each proxy under the transaction's
id, gives the keys back and commits. V1 and V2 each own a `HaproxyHandle`, so
nothing serialises them but the version check of the Data Plane API. The process
and HAProxy run in separate containers (`manifests/deployment.yaml`), so a
restart of the process loses the controllers' memory and keeps HAProxy's
configuration.

What is hard: the store changes while the worker uses what it read from it; keys
coalesce while the worker holds them; a batch fails as a whole in the middle of
its bookkeeping; a request takes effect and its answer is lost; a commit collides
with another client; the memory vanishes and the configuration stays; the port
range runs out. In V1 nothing covers a read of the servers and the writes that
follow from it; requests, their timers, the initialisation and the other controller
interleave between any two requests to the API; the timers live in memory only; an
error of the initialisation ends the whole process.

What makes each part correct:

* the books on the ports are exact and no port is given twice (V2);
* a change of a Service is not forgotten, whatever coalesces with it (V2; true as long
  as no key is stranded and commits succeed: section 3 has what happens otherwise);
* every key taken is given back and every queued key is taken (V2);
* between batches HAProxy holds exactly what the mappings stand for, and in the end
  every wanted Service port is served and nothing is left of a deleted Service (V2);
* V1 comes up only behind a complete entry, its backend has one server, a mapped Pod
  always has a revert on its way, and the mapping lasts as long as its request asked for and not longer (V1);
* what V1 sends names the current version, and every request ends (V1, its handle);
* neither controller changes the other's objects or takes the other's port, and
  both come up (both).

## 2. The modules

| Module | What it is |
|---|---|
| `WorkQueue` | the client-go queue as a record of queue, dirty, processing and waiting, with the operations the controllers call |
| `HaproxyHandle` | the client's operations on a configuration, with the fate of each request and `handleError`'s reading of the answer |
| `ServiceController` | the V2 controller: state, one action per step of the code, properties |
| `PortLease` | abstract specification: ports leased to Service ports |
| `PodController` | the V1 controller and the handler `create`: state, actions, properties |
| `PodEntry` | abstract specification: an entry that leads to one target |
| `MappingTTL` | the arithmetic of a mapping's duration, from the request to the timer |
| `PodProxier` | the program: both controllers in one process on one Data Plane API, and `Validate` |
| `MCServiceController`, `MCPodController`, `MCPodProxier` | Services, Pods, requests and contents for TLC |
| `ServiceControllerProofs` | proofs of V2: types, the books on the ports, `PortLease` |
| `ServicePendingProofs`, `ServiceSyncProofs` | proofs of V2, each extending the one before: a deletion reaches the mappings unless its key is stranded, and when no key is; undisturbed, HAProxy equals the mappings, no two frontends have one port and neither a deleted Service's frontend nor a missing proxy is forgotten |
| `PodControllerProofs`, `PodRevertProofs` | proofs of V1: types, the mutex, one server, `PodEntry`, the complete entry; the revert and the time of a mapping |
| `PodProxierProofs`, `PodProxierServiceProofs` | proofs of the program: the isolation of the controllers and V1's results with V2 beside it; V2's books and leases with V1 beside it |
| `MappingTTLProofs` | proofs of the arithmetic |

`ServiceController` and `PodController` extend `WorkQueue` and `HaproxyHandle`;
`PodProxier` instantiates both controllers, with `config` and `version` shared.

### State and actions of `ServiceController`

`indexer` and `notice` are the informer: a `Store...` action changes the store
and leaves a notice, a `handleService...` action runs the handler. `wq`,
`serviceMappings` and `portAllocations` are the controller's fields. `pc`, `keys`,
`idx`, `svc`, `portIdx`, `mappedPort`, `toDelete`, `seenVersion` and `tx` are where
the worker is and its locals. `config` and `version` are the Data Plane API's.
`spent` counts how much of each bound is used up.

| Code | Actions |
|---|---|
| `processNextWorkItem`, the batch | `GetFirst`, `GetNext`, `BatchCollected` |
| `StartTransaction` (two requests) | `ReadVersion`, then `TransactionStarted` or `TransactionRefused` (which includes the re-adds and the deferred `Done`) |
| `syncService` | `SyncDeleted`, `SyncIgnored`, `SyncPresent`, `SyncDone` |
| `processServiceWithTx` | `SkipPort`, `allocatePort`, `PortsDone` |
| `createServiceProxy` | `CreateBackend`, `CreateServer`, `CreateFrontend`, `CreateBind`; failure releases the port, success records the mapping in the same step |
| `removeServiceMappingsWithTx` | `RemoveMapping` per mapping, in any order, `RemoveDone` |
| the end of the batch | `GiveBackNext`, `BatchGivenBack`, `CommitBatch` (with the deferred `Done`) |
| around it | `RetryDelayElapsed`, `ForeignCommit`, `Restart`, `CacheSynced` |

An existence check and the write that depends on it are one step: the check reads
the committed configuration, which only the worker's own commit changes here
(other clients keep to objects of their own).

### State and actions of `PodController`

`lister` is the informer's store. `stage`, `srv`, `todo` and `ttl` say for each
process (`run`, `pop`, one per HTTP request) where it is in its code, which server
it is to install, which servers it still has to replace and how long it was asked
to. `mu` and `seen` are the handle's mutex and the version its holder read. `async`
and `left` are `asyncQueue` and the time left of its delays. `config` and `version`
are the Data Plane API's. `owed` is a history variable, the time the installed Pod
has yet to last; no action looks at it but `Tick`. `used` counts how much of each
bound is used up.

| Code | Actions |
|---|---|
| `Run`, `createProxy` | `PodsSynced`, `CreateBackend`, `CreateFrontend`, `CreateBind`, then `changeProxy("run")`; an error that is not understood panics (`Dies`) |
| a write of the handle | `Lock` (mutex, read of the version), then the write and the unlock in one step (`Sent`) |
| `changeProxy` | `ReadServers`, then `AddServer` or one `ReplaceServers` per server read |
| `create`, `CreateMapping` | `create` (look the Pod up), `changeProxy(r)`, `AddAfter` |
| `pop` | `GetEvent` (`Get`, and no `Done`), `changeProxy("pop")`, whose error is dropped |
| around it | `StorePod`, `Tick`, `Expire`, `ForeignChange`, `Crash`, `StartAgain` |

`EarlyRequests` says whether requests may come before `Run` is done and `FailedReads`
whether the read of the servers is among the requests that go wrong. The code allows
both; `InitRace` shows what the first leads to, and `OneServer` fails in the same way
under the second (section 3). The other runs set them to FALSE to show what holds apart from these two faults.

### `PodProxier`

A step is a step of one controller that leaves the other's memory alone, except that
the end of the process (a panic of V1, or from outside) is the end of both. V2's own
`ForeignCommit` and V1's own `ForeignChange` are not steps here: the other client is
now the other controller. The informers, the timers and the requests are those of the
two modules.

### What is abstracted, and why that is sound

* Names are tuples of what the code formats into them; two names are equal
  exactly when the code's strings are, and V1's names are none of V2's. One name is
  finer: a Pod's server is named after the Pod and its IP, and a Pod of the model stands
  for a namespaced name, where `pod_controller.go:215` formats `pod.Name` alone. The
  code's names are equal when two Pods share name and IP in different namespaces; no
  property looks at the difference. A Service key is a model value, its namespace a
  function of it.
* An object of the configuration keeps what the properties tell apart: which
  backend, server address, frontend, bind and port. Check intervals, statistics
  and modes are left out; `ReplaceBackend` therefore changes nothing.
* A request has one of three fates: `ok`, `refused` (no effect, an error),
  `lost` (takes effect, no answer). HTTP codes and the error texts that
  `handleError` builds are kept as far as a caller looks at them. In particular
  the type switch is modelled as Go evaluates it: callers pass pointers, the cases
  are value types, so the text of a 409 is empty. HAProxy's refusal of an
  inconsistent configuration at commit is a `refused` fate.
* V2's delays have any length; V1's are counted in `left`, in units of one tick,
  and `Expire` may come any time after. An item that waits already keeps the
  earlier of the two deadlines, as in client-go. `Forget` only shortens the next delay and has no
  counterpart.
* `syncService` returns an error only for a malformed key, which the handlers
  never queue; the branches for it in `processNextWorkItem` (`AddRateLimited` of
  one key, `DiscardTransaction`) are dead code and have no action.
* `MappingTTL` keeps the integers' width as the parameter `MaxInt`. The runs use 10
  bits with a second of 16 units, so that TLC tries every value a request may carry
  and the multiplication wraps; the theorems hold for every width.
* A panic of `Run` and a crash from outside lose all of the process's memory; the
  requests in flight end without an answer. HAProxy's configuration stays.
* An update may repeat the old content (metadata) or change the cluster IP (the
  informer reports a deletion and a creation it missed as one update). A resync
  carries equal resource versions and the handler drops it.

## 3. The runs

Deadlock is not checked: once the bounded changes are used up and the queues are
empty, nothing has to happen.

### V2 alone (`MCServiceController`)

| Run | Instance | Shows |
|---|---|---|
| `ServiceFaults` | 2 Services, batch 2, ports 9000-9001, 4 changes, 1 fault, 1 foreign change, 1 restart | `TypeOK`; the books are exact (`PortsAccounted`) and exclusive (`PortsExclusive`); a mapping in memory whose Service is gone has its key on the way to `syncService`, unless the key was stranded (`OrphansPending`); `PortLeased` |
| `ServiceSync` | 3 Services, one in a forbidden namespace, 4 contents (headless, no target port, two ports), batch 2, 3 changes, no faults, fair | `MissingPending`: an unmapped wanted port always has work pending; `RemovalsPending`: so has a frontend in HAProxy whose Service is gone; `Coherent`: between batches HAProxy equals the mappings; `BindsExclusive`: no two frontends have one port; `KeysReturned`, `KeysTaken`: every key taken is given back and every queued key is taken; `EventuallyServed`: in the end every wanted port is served and nothing listens for a Service that is gone |

`Pending` means that the key will reach `syncService`: it is in an event, the queue, a
delay or the batch, and it is not `Stranded`, one that the worker took and will never
give back. `StrandedKeys` shows that such keys exist, and `OrphansPending` names them as
the exception. It is about the mappings. What HAProxy keeps is `RemovalsPending`, which
takes that every commit succeeds and the process is not restarted: a removal whose
commit is refused is in no mapping any more, and neither is anything after a restart.
`EventuallyServed` does not say that only the right Services are served: one that
turns headless or loses the port keeps its mapping, since a mapping that exists is
skipped.

The bounds. Two Services are the least that can compete for a port, share a batch
and be confused; three exceed the batch. Four changes let a Service be created,
deleted and created again around another one; three do so for a single one. One fault
reaches each failure of each request; one foreign change falls before the start or
before the commit; one restart leaves objects behind.

### V1 alone (`MCPodController`) and its arithmetic (`MappingTTL`)

| Run | Instance | Shows |
|---|---|---|
| `PodRaces` | 3 Pods, a request for each, TTL 0 to 2, 3 changes, no faults, fair | `VersionsFresh`: the mutex does its work; `RevertPending`: a mapped Pod always has a revert on its way; `EventuallyUp`, `EventuallyReverted`; `EntryKept` (refinement of `PodEntry` with its fairness) |
| `PodConflicts` | 2 Pods, 2 requests, 2 contents, 3 changes, 1 failed or unanswered write, 1 foreign change, 1 restart, fair | `OneServer`, `PodTypeOK`, `EntryComplete`: `Run` comes up only behind a frontend with its bind, though it goes on after a frontend that failed; `EntryGuarded` (the safety part of `PodEntry`), `RequestsEnd` |
| `TTLDelay` | every integer of 10 bits | `DelayExact`: a time within the maximum arrives exactly; `NeverLonger` |

Three requests are the least in which the timer of one, the revert of another and the
replacement of a third overlap. A TTL of 0 (or below) queues the event at once; 2
lets another mapping be made while a timer runs. The two contents differ in IP, and
one declares the port twice (the last counts), the other not at all. `RequestsEnd` is about
the mutex: in the model every HTTP request ends, with an answer or an error. The code
passes `context.TODO()`, so a connection that hangs without either is not covered.

### Both (`MCPodProxier`)

| Run | Instance | Shows |
|---|---|---|
| `BothIsolated` | 1 Pod, 1 request with TTL 2, 2 Services, 2 changes of Services, 1 restart | `Isolated`: neither changes the other's objects although a commit replaces the whole configuration; `OnePodServer` and `PodNeverEarly` with V2's version conflicts and the panics they cause |

### Runs that are expected to be violated

They state what a comment or the repository's README says and the code does not do;
`PROJECT.json` quotes the lines.

| Run | Property | What TLC finds |
|---|---|---|
| `StrandedKeys` | `KeysTaken` | batch of two, the transaction cannot be opened: the second key is re-added but never `Done`, and stays in processing for ever |
| `CommitConflict` | `EventuallyServed` | another client's change between start and commit: the commit is refused and only logged (`service_controller.go:289`), the mapping is recorded and never reaches HAProxy |
| `RestartClash` | `PortsApart` | after a restart a new Service gets the port of a frontend that survived in HAProxy |
| `RepeatedMapping` | `EventuallyReverted` | `pop` never calls `Done`: the second mapping of one Pod never reverts |
| `InitRace` | `OneServer` | a request during the initialisation: both find the backend empty and both add a server |
| `StartupPanic` | `BothUp` | V2's commit falls between V1's read of the version and its write: V1 panics, and at every start after it (the backend exists, the 409 has an empty text) |

The same properties fail in further ways when one constant of a run above is changed.
This is why the passing runs keep these constants at zero or FALSE:

| Property (run) | Changed constant | What TLC finds |
|---|---|---|
| `BindsExclusive` (`ServiceSync`) | `MaxFaults = 1` | a bind whose answer is lost, or a frontend whose deletion fails, keeps a port that is released and handed out again (`service_controller.go:367`, `:404`) |
| `EventuallyServed` (`CommitConflict`) | `MaxRestarts = 1`, `MaxForeign = 0` | objects that survive a restart are never adopted (the server answers 409 with an empty text, `haproxy.go:559`, and the proxy is abandoned for good) nor removed |
| `EventuallyReverted` (`PodRaces`) | `MaxPodForeign = 1` | the revert collides with another client's change; `pop` drops its error (`pod_controller.go:89`) |
| `EventuallyReverted` (`PodRaces`) | `MaxPodRestarts = 1` | a Pod mapped before a restart stays: the timers were in memory |
| `RevertPending` (`PodRaces`) | `MaxPodFaults = 1` | the replacement takes effect without an answer: the Pod is installed and `create` starts no timer (`pod_controller.go:219`) |
| `EventuallyUp` (`PodRaces`) | `MaxPodRestarts = 1` | after a restart `Run` panics at its first write, at every start (`pod_controller.go:261`) |
| `OneServer` (`PodConflicts`) | `FailedReads = TRUE` | a failed read looks like an empty backend (`haproxy.go:346`): a second server is added |
| `PodNeverEarly` (`BothIsolated`), for V1 alone | two Pods with a request each | `pop` does not look at the Event it gets, so the timer of one mapping reverts a later mapping of the other Pod before its time (`pod_controller.go:223`) |
| `PortsApart` (`RestartClash`) | `DefaultMappingPort = 9000`, no restart | the range may contain `--default-map-port` (`cmd.go:167`), and V2 hands it out |

Three facts are about what no property here says. A Service that finds the range full has
its key forgotten (`service_controller.go:356`) and is not mapped when a port is freed; the
range of `ServiceSync` is large enough for its Services. A mapping that exists is skipped
(`service_controller.go:351`), so an update of a port or a cluster IP is never applied;
the step is in the model (`AlreadyMapped`). And `create` compares seconds with
nanoseconds (`v1.go:52`), so a time above `--max-mapping-time` is not capped; `NeverLonger`
is what remains true of it.

### Fairness

V2: the handlers (the informer's goroutine), the worker (`wait.Until` restarts it,
`Get` blocks only on an empty queue) and each running delay are weakly fair. V1: `Run`,
`pop` and every request that has arrived are weakly fair (goroutines run, and Go's
mutex, which is free again and again but not for ever, starves nobody: a process that
waits is enabled again until it is its turn, and with the finitely many requests of an
instance weak fairness is enough); time passes, timers fire, and a container that
ended is started again. Nothing is assumed of the cluster, of clients (nobody has to
send a request), of faults, of other clients or of crashes. The eventualities are
stated for behaviours in which the bounded changes have come to an end.

## 4. The proofs

`ServiceControllerProofs` proves, for every set of Services and contents, every port
range, batch size and number of changes, faults, foreign changes and restarts:

* `TypeCorrect`: `Spec => []TypeOK`;
* `PortsAreAccounted`: `Spec => []PortsAccounted`;
* `PortsAreExclusive`: `Spec => []PortsExclusive`;
* `PortsAreLeased`: `Spec => PortLeased`, the refinement of `PortLease`.

The assumptions are `ServiceAssumption` and `RangeAssumption`: the shape of a
Service's content, and a range of positive ports that is not empty, which
`Validate` guarantees. That no port is 0 matters: `mappedPort = 0` stands for no
port.

The inductive invariant is `IInv == TypeOK /\ Control /\ Books`. The books
(`PortsAccounted`, `PortsExclusive`) are not inductive alone: that `releasePort`
after a failure frees no port in use needs the port being set up to be outside the
mappings; that recording a mapping loses none needs its key to be new; that a
removal finds its mapping needs `toDelete` to be part of the mappings. `Control`
says where in the code each of these holds. There is one step per action; actions
that leave the memory alone share `BooksUnchanged`. The refinement needs `IInv` too:
a recorded mapping is a `Grant` only because nobody else holds the port.

`ServicePendingProofs` builds on `IInv`:

* `DeletionsArePending`: `Spec => []OrphansPending`, with no condition on faults, foreign
  changes, restarts or batches. The invariant `PInv` says that a deletion is noted (in an
  event, the queue, a delay or the batch) until its key is looked up; what is noted is
  pending unless the key is stranded. `PInv` adds that the informer is in one handler at a
  time (the handler that has yet to queue a key is the only one) and `SvcCurrent`: the
  content the worker is on is the store's or its key is noted. The second is what makes a
  deletion while a proxy is being created safe: the mapping that is recorded after it has
  its key queued again.
* `KeysAreReturned`: `Spec => []KeysReturned`, with batches of one key or without faults
  and foreign changes. `StrandedKeys` shows that some such condition is needed. Under it the exception in
  `OrphansPending` is empty (`NothingStranded`). `KInv`
  adds that a queued key is queued once and is not being processed (`QueueOK`), that no
  key is in a batch twice, and that the version read is current when a transaction is
  asked for.

`ServiceSyncProofs` proves `ConfigurationIsCoherent`: `Spec => []Coherent` without
faults, foreign changes and restarts (section 3 shows what each of the three leads to).
The invariant `CInv` says at every point of the worker's code what the open transaction
holds: the objects of the mappings, and those of the proxy being created that the worker
has got to (`TxBuilt`); while mappings are removed, the objects of those that stay
(`TxRemoving`). `ConfigKnown` relates the committed configuration, which the existence
checks read, to the mappings of the Services the batch has yet to go through: without it
`CreateBackend` could replace what the transaction does not hold. That no two objects
are confused rests on the names: a frontend carries its port, and ports are exclusive.

From the same invariant follows `BindsAreExclusive`: `Spec => []BindsExclusive`. Only a
commit changes the configuration, and after it the configuration is what the mappings
stand for (`CInv`), whose ports are exclusive (`IInv`); until the next commit it stays.
The two parts meet in the temporal step: the property is not stated of a transaction
that is still open.

`RemovalsArePending`: `Spec => []RemovalsPending`, under the same three conditions, joins
`CInv` and `PInv`: a committed frontend is that of a mapping, whose key is pending when
its Service is gone, or the open transaction has removed it (`RemovalsFollow`).

It also proves `MissingArePending`: `Spec => []MissingPending` under the same three
conditions and `EnoughPorts`, one target port name and a range with a port for each
allowed Service, which is what `ServiceSync` has. The code needs them: a proxy
that fails, or finds the range full, is given up and its key forgotten. `MInv` adds to
`CInv` and `PInv` that only the asked for port of allowed Services is mapped, that the
ports the worker has gone past are mapped, and that a Service whose mappings are being
removed is gone or noted. That `allocatePort` finds a port is a pigeonhole argument:
one mapping per Service at most, and the Service at hand has none.

`PodControllerProofs` proves, for every set of Pods, contents and concurrent requests,
and every number of changes, faults, foreign changes and restarts, from
`PodAssumption` (the shape of a Pod, positive ports, `run` and `pop` are no requests):

* `PodTypes`: `Spec => []PodTypeOK`. Not inductive alone: that the event a request
  leaves is an event needs `Served`, what a request installs is the server of its Pod.
  That the port chosen is one of the Pod's needs a last position of the name to exist
  (`LastPosition`, from the well-foundedness of the naturals).
* `VersionsAreFresh`: `Spec => []VersionsFresh`, when no request fails and no other
  client writes. The invariant adds that the mutex has one holder at most.
* `OneServerOnly`: `Spec => []OneServer`, and `EntryIsGuarded`: `Spec => EntryGuarded`,
  both when requests come after the initialisation and reads of the servers succeed
  (neither condition can be dropped: `InitRace`, and the table of section 3). Writes may be refused,
  unanswered or in conflict.
* `EntryIsComplete`: `Spec => []EntryComplete`, with no condition. No step takes a frontend
  or a bind of V1 away; `Run` goes past `AddBind` only when it reports success, which it
  does only behind the frontend (`BindEffects`), and an error never brings it up
  (`Answers`).

The invariant of `OneServerOnly` and `EntryIsGuarded` is `SInv == TInv /\ Phases /\ Servers`. `Phases`: until
`Run` is up, no request is under way, `pop` is idle and no event exists. `Servers`:
at most one server, none between the creation of the backend and the default mapping,
one when `Run` is up, and no server without the backend. The argument for the second
start is that `AddBackend` succeeds only without the backend, hence without servers;
that an error never says "already exists" (`Answers`) rules out coming up any other
way. `Moves` says what a step may do to the servers, and gives the refinement.

`PodRevertProofs` builds on `SInv`:

* `RevertIsPending`: `Spec => []RevertPending` for any number of concurrent requests for
  different Pods, without faults, foreign changes and restarts and with requests after
  the initialisation. `RepeatedMapping` shows what two requests for one Pod lead to,
  the table of section 3 what a fault, a foreign change and a restart do. The invariant `RInv` adds `Timers`: an event
  in the queue or a delay belongs to a request that is done, and none waits that is being
  processed, so that the queue never swallows a new one (`pop` calls no `Done`); and
  `OneRead`: a process that replaces has read one server. The case that matters is a
  replacement by `pop` that misses because another request was faster: the server it
  misses came with a revert of its own.
* `NextDue`, the step lemma behind `PodIsNeverEarly` below. `Due` says that once `pop` has
  work the time is over and that a delay that runs is at least as long as the time that
  is left. It holds whatever fails, for a lone request.

`PodProxierProofs` proves of the program, for every instance of both controllers:

* `ControllersAreIsolated`: `System => Isolated`, with no condition at all. The invariant
  `Separate` says that a transaction whose base is the current version holds V1's objects
  as they are in the configuration (`TxCurrent`) and that no recorded mapping names an
  object of V1 (`MappingsApart`). A write of V1 moves the version, so it makes the first
  vacuous; a commit of V2 is carried out only while it holds.
* `OneServerBesideV2`: `System => []OnePodServer`, and `PodIsNeverEarly`:
  `System => PodNeverEarly`, under the conditions of `OneServerOnly`, the second for a
  lone request. The argument is a simulation. `P` instantiates V1's module and its proofs
  with `config <- PodPart(config)`: on its own part of the configuration every request of
  V1 has the effect and the answer that it has on the whole (`Parallel`), so a step of V1
  in the program is a step of `P!Next`, and a step of V2 changes for `P` at most the
  version, which `SInv` and `Due` do not depend on. The step lemmas of `PodController`
  then apply as they are.

`PodProxierServiceProofs` proves the other direction, for every instance and with no
condition on requests, faults or restarts:

* `BooksBesideV1`: `System => [](V2!PortsAccounted /\ V2!PortsExclusive)`;
* `LeasesBesideV1`: `System => V2!PortLeased`, the refinement of `PortLease` by the program.

No run repeats these two: `ServiceFaults` already has the foreign changes and the restart
that V1 amounts to for V2's memory, and faults as well. The theorems make that argument.
The argument is again a simulation. `Q` instantiates V2's module and its proofs with
`config <- ServicePart(config)` and `tx <- ServiceTx(tx)`, the parts that are not V1's.
A request of V2 has on that part the effect and the answer that it has on the whole
(`Alike`, one lemma per operation), so every step of V2 is the same step of `Q`
(`ServiceAlike`); `Separate` supplies that the names in the mappings are not V1's. A
step of V1 is for `Q` a change of the version or the end of the process (`Beside`),
which `BesidePending` and `BesideLeases` cover: neither `PInv` nor the leases depend on
the version, and the end of the process resets all of V2's memory together.

`PodProxier` assumes of the constants what V1 and V2 do (`ProgramAssumption`). `Validate`
guarantees the range when V2 is on.

`MappingTTLProofs` proves `DelayIsExact` and `DelayNeverLonger` for every width of the
integers, from `TTLAssumption` (three hours and the maximum fit the width). The lemmas
are about `Wrap`: the identity within the range, and never an increase.

All the invariants and action properties that a passing run checks are theorems, and
so are the safety parts of both refinements. TLC checked every inductive invariant on
an instance before it was proved. Only model-checked are the eventualities
(`EventuallyServed`, `KeysTaken`, `EventuallyUp`, `EventuallyReverted`, `RequestsEnd`) and
the fairness part of `EntryKept`: liveness under fairness is out of the prover's reach.
None of the modules has a RECURSIVE operator.

## 5. Plan

Done: `ServiceController` with `WorkQueue`, `HaproxyHandle`, `PortLease`;
`PodController` with `PodEntry`; `MappingTTL`; `PodProxier`; the proofs above.

Left, and why:

1. `RevertPending` with V2 beside V1 is false (a conflict drops the revert), and so are
   `Coherent`, `MissingPending`, `RemovalsPending` and, for batches of more than one key,
   `KeysReturned` with V1 beside V2 (a conflict drops the batch). What could still be stated is what a
   conflict may cost; that calls for a history of the conflicts.
2. The eventualities have no proof, for the reason above.

## 6. Not modelled

* Operations of `HaproxyHandle` that no controller calls, `ListServiceMappings` and
  `QueryPodExists` (they read and change nothing), the queues of V1 that are created
  and never used.
* The HTTP server, routing, the binding of the request's body, the response tables and
  the handler `query` (a read); JSON and HTTP encoding, authentication.
* The declaration and printing of the command-line flags; logging.
* Dockerfiles, manifests and the Helm chart, which are static. They justify the crash
  model: pod-proxier and HAProxy run in containers of their own.
* client-go and the Data Plane API themselves: they are modelled from how the code
  uses them (`WorkQueue`, and the configuration, versions and answers of
  `HaproxyHandle`).
