-------------------------- MODULE ServiceController --------------------------
(***************************************************************************)
(* controller/service_controller.go: the V2 controller. An informer keeps  *)
(* a store of the cluster's Services and queues the key of each one that   *)
(* changes; one worker takes keys in batches, opens a Data Plane API       *)
(* transaction per batch, gives every matching Service port a port of the  *)
(* configured range and a backend, server, frontend and bind in HAProxy,   *)
(* removes those of deleted Services, and commits the transaction.         *)
(*                                                                         *)
(* Concurrent with the worker: the informer's goroutine, the delays of the *)
(* work queue, other clients of the Data Plane API (the V1 controller has  *)
(* its own handle), and a restart of the process, which HAProxy, in its    *)
(* own container, survives with its configuration.                         *)
(***************************************************************************)
EXTENDS WorkQueue, HaproxyHandle

CONSTANTS
  Services,          \* Service keys ("namespace/name")
  NamespaceOf,       \* the namespace in a Service key
  AllowedNamespaces, \* --allowed-namespaces
  TargetPortNames,   \* {--port-name}
  ServiceObjects,    \* the Services' possible contents
  NoService,         \* a key the store does not hold
  PortRangeStart, PortRangeEnd,
  MaxBatchSize,
  MaxChanges,        \* bound: changes of Services the informer sees
  MaxFaults,         \* bound: requests to the Data Plane API that go wrong
  MaxForeign,        \* bound: configuration changes by other clients
  MaxRestarts        \* bound: restarts of the process

\* A Service's content is its cluster IP and its named ports. The port range is
\* not empty: PodProxier.Validate refuses a start that is not below the end.
ASSUME ServiceAssumption ==
  /\ NamespaceOf \in [Services -> STRING]
  /\ AllowedNamespaces \subseteq STRING /\ TargetPortNames \subseteq STRING
  /\ ServiceObjects \subseteq
       [clusterIP : STRING, ports : Seq([name : STRING, port : Nat])]
  /\ NoService \notin ServiceObjects

\* The bounds of validation and of the model.
ASSUME RangeAssumption ==
  /\ PortRangeStart \in Nat \ {0} /\ PortRangeEnd \in Nat
  /\ PortRangeStart < PortRangeEnd
  /\ MaxBatchSize \in Int
  /\ MaxChanges \in Nat /\ MaxFaults \in Nat
  /\ MaxForeign \in Nat /\ MaxRestarts \in Nat

VARIABLES
  \* the informer
  indexer,          \* serviceLister: the store
  notice,           \* the event whose handler has yet to run (at most one)
  \* the controller's memory
  wq,               \* queue
  serviceMappings,  \* from <<Service key, port name>> to the mapping
  portAllocations,  \* the ports marked allocated
  \* the worker: where it is in its code, and its locals
  pc,
  keys, idx,        \* the batch and the position in it
  svc, portIdx,     \* the Service being processed and the position in its ports
  mappedPort,       \* the port allocated for it and not yet recorded, or 0
  toDelete,         \* mappingsToDelete
  seenVersion, tx,  \* the version read, and the open transaction
  \* the Data Plane API
  config, version,
  \* how much of each bound is used up
  spent

informerVars == <<indexer, notice>>
memoryVars   == <<serviceMappings, portAllocations>>
batchVars    == <<keys, idx>>
serviceVars  == <<svc, portIdx, mappedPort, toDelete>>
txVars       == <<seenVersion, tx>>
apiVars      == <<config, version>>

vars == <<informerVars, wq, memoryVars, pc, batchVars, serviceVars, txVars,
          apiVars, spent>>

\* Mutant: the loop begins one port too early.
PortRangeTooEarly == (PortRangeStart - 1)..PortRangeEnd

PortRange == PortRangeStart..PortRangeEnd

\* The keys of serviceMappings: "namespace/serviceName/portName".
PortNames == UNION {{o.ports[i].name : i \in DOMAIN o.ports} : o \in ServiceObjects}
MappingKeys == Services \X PortNames

NoTx == [base |-> -1, cfg |-> EmptyConfig]

\* A request with fate o, or two of them, under the bound on faults.
Cost(o) == IF o = "ok" THEN 0 ELSE 1
Spend(n) == /\ spent.faults + n <= MaxFaults
            /\ spent' = [spent EXCEPT !.faults = @ + n]

-----------------------------------------------------------------------------
(* Names of the HAProxy objects.                                           *)

BackendName(s, port)    == <<"SVC_BACKEND", s, port>>
FrontendName(s, mapped) == <<"SVC_FRONTEND", s, mapped>>
BindName(s, portName)   == <<"SVC_BIND", s, portName>>
ServerName(ip, port)    == <<ip, port>>

-----------------------------------------------------------------------------
(* The informer and the event handlers.                                    *)

\* The store changes first and the handler runs next, on the same goroutine.
Store(s, o, type) ==
  /\ notice = {}
  /\ spent.changes < MaxChanges
  /\ spent' = [spent EXCEPT !.changes = @ + 1]
  /\ indexer' = [indexer EXCEPT ![s] = o]
  /\ notice' = {[type |-> type, key |-> s, sameVersion |-> FALSE]}
  /\ UNCHANGED <<wq, memoryVars, pc, batchVars, serviceVars, txVars, apiVars>>

StoreAdd(s) ==
  /\ indexer[s] = NoService
  /\ \E o \in ServiceObjects : Store(s, o, "add")

\* The new content may equal the old one: an update of the Service's metadata.
\* It may have a new cluster IP: the informer reports a deletion and a creation
\* it was disconnected for as one update.
StoreUpdate(s) ==
  /\ indexer[s] # NoService
  /\ \E o \in ServiceObjects : Store(s, o, "update")

StoreDelete(s) ==
  /\ indexer[s] # NoService
  /\ Store(s, NoService, "delete")

\* The periodic resync reports every object as updated, at the same version.
StoreResync(s) ==
  /\ notice = {} /\ indexer[s] # NoService
  /\ notice' = {[type |-> "update", key |-> s, sameVersion |-> TRUE]}
  /\ UNCHANGED <<indexer, wq, memoryVars, pc, batchVars, serviceVars, txVars,
                 apiVars, spent>>

Handled == /\ notice' = {}
           /\ UNCHANGED <<indexer, memoryVars, pc, batchVars, serviceVars,
                          txVars, apiVars, spent>>

handleServiceAdd ==
  \E e \in notice : /\ e.type = "add"
                    /\ wq' = Add(wq, e.key)
                    /\ Handled

\* Mutant: the handler drops every update.
handleServiceUpdateNever ==
  \E e \in notice : e.type = "update" /\ wq' = wq /\ Handled

handleServiceUpdate ==
  \E e \in notice : /\ e.type = "update"
                    /\ wq' = IF e.sameVersion THEN wq ELSE Add(wq, e.key)
                    /\ Handled

\* Mutant: the handler drops every deletion.
handleServiceDeleteNever ==
  \E e \in notice : e.type = "delete" /\ wq' = wq /\ Handled

handleServiceDelete ==
  \E e \in notice : /\ e.type = "delete"
                    /\ wq' = Add(wq, e.key)
                    /\ Handled

-----------------------------------------------------------------------------
(* processNextWorkItem: taking a batch and opening its transaction.        *)

\* Run: WaitForCacheSync returns once the handlers of the initial list, which
\* reports additions, have run.
CacheSynced ==
  /\ pc = "stopped" /\ \A e \in notice : e.type # "add"
  /\ pc' = "idle"
  /\ UNCHANGED <<informerVars, wq, memoryVars, batchVars, serviceVars, txVars,
                 apiVars, spent>>

GetFirst ==
  /\ pc = "idle" /\ wq.queue # <<>>
  /\ pc' = "collect"
  /\ keys' = <<Head(wq.queue)>>
  /\ wq' = Get(wq)
  /\ UNCHANGED <<informerVars, memoryVars, idx, serviceVars, txVars, apiVars,
                 spent>>

BatchOpen == Len(keys) < MaxBatchSize /\ wq.queue # <<>>

GetNext ==
  /\ pc = "collect" /\ BatchOpen
  /\ keys' = Append(keys, Head(wq.queue))
  /\ wq' = Get(wq)
  /\ UNCHANGED <<informerVars, memoryVars, pc, idx, serviceVars, txVars,
                 apiVars, spent>>

BatchCollected ==
  /\ pc = "collect" /\ ~BatchOpen
  /\ pc' = "version"
  /\ UNCHANGED <<informerVars, wq, memoryVars, batchVars, serviceVars, txVars,
                 apiVars, spent>>

\* StartTransaction's first request ...
ReadVersion ==
  /\ pc = "version"
  /\ \E o \in ReadFates :
       /\ Spend(Cost(o))
       /\ seenVersion' = getVersion(version, o)
  /\ pc' = "start"
  /\ UNCHANGED <<informerVars, wq, memoryVars, batchVars, serviceVars, tx,
                 apiVars>>

KeySet == {keys[i] : i \in DOMAIN keys}

\* ... and its second one, when it opens the transaction,
TransactionStarted ==
  /\ pc = "start"
  /\ StartTransaction(version, seenVersion, "ok")
  /\ tx' = [base |-> version, cfg |-> config]
  /\ pc' = "sync" /\ idx' = 1
  /\ UNCHANGED <<informerVars, wq, memoryVars, keys, serviceVars, seenVersion,
                 apiVars, spent>>

\* The keys go back with a delay; the deferred Done is that of the first key.
GiveBack(q) == Done(AddDelayed(q, KeySet), keys[1])

\* and when it does not.
TransactionRefused ==
  /\ pc = "start"
  /\ \E o \in ReadFates :
       /\ ~StartTransaction(version, seenVersion, o)
       /\ Spend(Cost(o))
  /\ wq' = GiveBack(wq)
  /\ pc' = "idle" /\ keys' = <<>> /\ idx' = 0 /\ seenVersion' = -1
  /\ UNCHANGED <<informerVars, memoryVars, serviceVars, tx, apiVars>>

-----------------------------------------------------------------------------
(* syncService. It returns an error only for a malformed key, which the    *)
(* queue never holds: every key of a batch counts as a success and the     *)
(* branches of processNextWorkItem for a failed key (AddRateLimited) and   *)
(* for a batch without a success (DiscardTransaction) are never taken.     *)

isNamespaceAllowed(ns) == ns \in AllowedNamespaces

isTargetPortName(name) == TargetPortNames = {} \/ name \in TargetPortNames

HasClusterIP(o) == o.clusterIP \notin {"", "None"}

MappingsOf(s) == {k \in DOMAIN serviceMappings : k[1] = s}

SyncDeleted ==
  /\ pc = "sync" /\ idx <= Len(keys)
  /\ indexer[keys[idx]] = NoService
  /\ pc' = "remove" /\ toDelete' = MappingsOf(keys[idx])
  /\ UNCHANGED <<informerVars, wq, memoryVars, batchVars, svc, portIdx,
                 mappedPort, txVars, apiVars, spent>>

Proxied(s, o) == isNamespaceAllowed(NamespaceOf[s]) /\ HasClusterIP(o)

SyncIgnored ==
  /\ pc = "sync" /\ idx <= Len(keys)
  /\ indexer[keys[idx]] # NoService
  /\ ~Proxied(keys[idx], indexer[keys[idx]])
  /\ idx' = idx + 1
  /\ UNCHANGED <<informerVars, wq, memoryVars, pc, keys, serviceVars, txVars,
                 apiVars, spent>>

SyncPresent ==
  /\ pc = "sync" /\ idx <= Len(keys)
  /\ indexer[keys[idx]] # NoService
  /\ Proxied(keys[idx], indexer[keys[idx]])
  /\ pc' = "port" /\ svc' = indexer[keys[idx]] /\ portIdx' = 1
  /\ UNCHANGED <<informerVars, wq, memoryVars, batchVars, mappedPort, toDelete,
                 txVars, apiVars, spent>>

\* Mutant: the second key of the batch is passed over when the keys are given
\* back.
SyncDoneSkipsSecond ==
  /\ pc = "sync" /\ idx > Len(keys)
  /\ pc' = "finish" /\ idx' = 3
  /\ UNCHANGED <<informerVars, wq, memoryVars, keys, serviceVars, txVars,
                 apiVars, spent>>

SyncDone ==
  /\ pc = "sync" /\ idx > Len(keys)
  /\ pc' = "finish" /\ idx' = 2
  /\ UNCHANGED <<informerVars, wq, memoryVars, keys, serviceVars, txVars,
                 apiVars, spent>>

-----------------------------------------------------------------------------
(* processServiceWithTx: the loop over the Service's ports.                *)

Port == svc.ports[portIdx]
MappingKey == <<keys[idx], Port.name>>

PortsDone ==
  /\ pc = "port" /\ portIdx > Len(svc.ports)
  /\ pc' = "sync" /\ idx' = idx + 1 /\ svc' = NoService /\ portIdx' = 0
  /\ UNCHANGED <<informerVars, wq, memoryVars, keys, mappedPort, toDelete,
                 txVars, apiVars, spent>>

\* Mutant: a mapped port is mapped again.
AlreadyMappedNever(k) == FALSE

AlreadyMapped(k) == k \in DOMAIN serviceMappings

\* Another port, a port mapped before, or no port of the range left.
SkipPort ==
  /\ pc = "port" /\ portIdx <= Len(svc.ports)
  /\ \/ ~isTargetPortName(Port.name)
     \/ AlreadyMapped(MappingKey)
     \/ PortRange \subseteq portAllocations
  /\ portIdx' = portIdx + 1
  /\ UNCHANGED <<informerVars, wq, memoryVars, pc, batchVars, svc, mappedPort,
                 toDelete, txVars, apiVars, spent>>

\* Mutant: the first port of the range, allocated or not.
FirstFreeUnchecked(p) == p = PortRangeStart

\* The lowest port of the range that is not allocated.
FirstFree(p) == /\ p \in PortRange \ portAllocations
                /\ \A q \in PortRange : q < p => q \in portAllocations

allocatePort ==
  /\ pc = "port" /\ portIdx <= Len(svc.ports)
  /\ isTargetPortName(Port.name)
  /\ ~AlreadyMapped(MappingKey)
  /\ \E p \in PortRange :
       /\ FirstFree(p)
       /\ mappedPort' = p
       /\ portAllocations' = portAllocations \cup {p}
  /\ pc' = "backend"
  /\ UNCHANGED <<informerVars, wq, serviceMappings, batchVars, svc, portIdx,
                 toDelete, txVars, apiVars, spent>>

-----------------------------------------------------------------------------
(* createServiceProxy: one step for the requests on each object. The       *)
(* existence checks name no transaction, so they read the committed        *)
(* configuration; the changes go to the transaction's.                     *)

\* Mutant: the port stays allocated.
releasePortNever(ports, p) == ports

releasePort(ports, p) == ports \ {p}

\* The proxy could not be created: the port is released and the loop goes on.
ProxyFailed(cfg) ==
  /\ tx' = [tx EXCEPT !.cfg = cfg]
  /\ portAllocations' = releasePort(portAllocations, mappedPort)
  /\ mappedPort' = 0
  /\ pc' = "port" /\ portIdx' = portIdx + 1
  /\ UNCHANGED serviceMappings

ProxyContinues(cfg, next) ==
  /\ tx' = [tx EXCEPT !.cfg = cfg]
  /\ pc' = next
  /\ UNCHANGED <<memoryVars, mappedPort, portIdx>>

Step(r, next) ==
  IF r.err = NoError \/ SaysExists(r.err)
  THEN ProxyContinues(r.cfg, next)
  ELSE ProxyFailed(r.cfg)

createRest == UNCHANGED <<informerVars, wq, batchVars, svc, toDelete,
                          seenVersion, apiVars>>

CreateBackend ==
  LET b == BackendName(keys[idx], Port.port)
  IN  /\ pc = "backend"
      /\ \E g \in ReadFates, o \in Fates :
           /\ Spend(Cost(g) + Cost(o))
           /\ Step(IF EnsureBackend(config, b, g)
                   THEN ReplaceBackend(tx.cfg, b, o)
                   ELSE AddBackend(tx.cfg, b, o), "server")
      /\ createRest

\* The server of the backend is the Service's cluster IP. It is replaced when
\* the API says that it exists.
CreateServer ==
  LET b == BackendName(keys[idx], Port.port)
      n == ServerName(svc.clusterIP, Port.port)
  IN  /\ pc = "server"
      /\ \E o, o2 \in Fates :
           LET r == AddServerToBackend(tx.cfg, b, n, n, o)
           IN  IF SaysExists(r.err)
               THEN /\ Spend(Cost(o) + Cost(o2))
                    /\ Step(ReplaceServerFromBackend(r.cfg, b, n, n, n, o2),
                            "frontend")
               ELSE Spend(Cost(o)) /\ Step(r, "frontend")
      /\ createRest

CreateFrontend ==
  LET f == FrontendName(keys[idx], mappedPort)
      b == BackendName(keys[idx], Port.port)
  IN  /\ pc = "frontend"
      /\ \E g \in ReadFates, o \in Fates :
           /\ Spend(Cost(g) + Cost(o))
           /\ Step(IF EnsureFrontend(config, f, g)
                   THEN ReplaceFrontend(tx.cfg, f, b, o)
                   ELSE AddFrontend(tx.cfg, f, b, o), "bind")
      /\ createRest

NewMapping ==
  [servicePort  |-> Port.port,
   mappedPort   |-> mappedPort,
   backendName  |-> BackendName(keys[idx], Port.port),
   frontendName |-> FrontendName(keys[idx], mappedPort),
   clusterIP    |-> svc.clusterIP]

\* The mapping is recorded and the loop goes on to the next port.
MappingCreated(cfg) ==
  /\ tx' = [tx EXCEPT !.cfg = cfg]
  /\ serviceMappings' =
       [k \in DOMAIN serviceMappings \cup {MappingKey} |->
          IF k = MappingKey THEN NewMapping ELSE serviceMappings[k]]
  /\ mappedPort' = 0
  /\ pc' = "port" /\ portIdx' = portIdx + 1
  /\ UNCHANGED portAllocations

CreateBind ==
  /\ pc = "bind"
  /\ \E o \in Fates :
       LET r == AddBind(tx.cfg, FrontendName(keys[idx], mappedPort),
                        BindName(keys[idx], Port.name), mappedPort, o)
       IN  /\ Spend(Cost(o))
           /\ IF r.err = NoError \/ SaysExists(r.err)
              THEN MappingCreated(r.cfg)
              ELSE ProxyFailed(r.cfg)
  /\ createRest

-----------------------------------------------------------------------------
(* removeServiceMappingsWithTx: in the order of a map iteration, whatever  *)
(* becomes of the two requests.                                            *)

\* Mutant: the frontend is left behind.
DeleteBackendOnly(cfg, m, o1, o2) == DeleteBackend(cfg, m.backendName, o2).cfg

DeleteObjects(cfg, m, o1, o2) ==
  DeleteBackend(DeleteFrontend(cfg, m.frontendName, o1).cfg, m.backendName, o2).cfg

RemoveMapping ==
  /\ pc = "remove"
  /\ \E k \in toDelete, o1, o2 \in Fates :
       LET m == serviceMappings[k]
       IN  /\ Spend(Cost(o1) + Cost(o2))
           /\ tx' = [tx EXCEPT !.cfg = DeleteObjects(tx.cfg, m, o1, o2)]
           /\ portAllocations' = releasePort(portAllocations, m.mappedPort)
           /\ serviceMappings' =
                [j \in DOMAIN serviceMappings \ {k} |-> serviceMappings[j]]
           /\ toDelete' = toDelete \ {k}
  /\ UNCHANGED <<informerVars, wq, pc, batchVars, svc, portIdx, mappedPort,
                 seenVersion, apiVars>>

RemoveDone ==
  /\ pc = "remove" /\ toDelete = {}
  /\ pc' = "sync" /\ idx' = idx + 1
  /\ UNCHANGED <<informerVars, wq, memoryVars, keys, serviceVars, txVars,
                 apiVars, spent>>

-----------------------------------------------------------------------------
(* processNextWorkItem: giving the batch back and committing.              *)

\* Mutant: the Done of line 285 is left out.
GiveBackNextNever ==
  /\ pc = "finish" /\ idx <= Len(keys)
  /\ idx' = idx + 1
  /\ UNCHANGED <<informerVars, wq, memoryVars, pc, keys, serviceVars, txVars,
                 apiVars, spent>>

GiveBackNext ==
  /\ pc = "finish" /\ idx <= Len(keys)
  /\ wq' = Done(wq, keys[idx]) /\ idx' = idx + 1
  /\ UNCHANGED <<informerVars, memoryVars, pc, keys, serviceVars, txVars,
                 apiVars, spent>>

BatchGivenBack ==
  /\ pc = "finish" /\ idx > Len(keys)
  /\ pc' = "commit"
  /\ UNCHANGED <<informerVars, wq, memoryVars, batchVars, serviceVars, txVars,
                 apiVars, spent>>

\* A failed commit is logged; nothing else depends on its outcome. The deferred
\* Done gives the first key back.
CommitBatch ==
  /\ pc = "commit"
  /\ \E o \in Fates :
       /\ Spend(Cost(o))
       /\ IF CommitTransaction(version, tx, o)
          THEN config' = tx.cfg /\ version' = version + 1
          ELSE UNCHANGED apiVars
  /\ wq' = Done(wq, keys[1])
  /\ pc' = "idle" /\ keys' = <<>> /\ idx' = 0 /\ seenVersion' = -1 /\ tx' = NoTx
  /\ UNCHANGED <<informerVars, memoryVars, serviceVars>>

-----------------------------------------------------------------------------
(* What happens around the controller.                                     *)

RetryDelayElapsed(s) ==
  /\ s \in wq.waiting
  /\ wq' = DelayElapsed(wq, s)
  /\ UNCHANGED <<informerVars, memoryVars, pc, batchVars, serviceVars, txVars,
                 apiVars, spent>>

\* Another client changes objects of its own: only the version moves here.
ForeignCommit ==
  /\ spent.foreign < MaxForeign
  /\ spent' = [spent EXCEPT !.foreign = @ + 1]
  /\ version' = version + 1
  /\ UNCHANGED <<informerVars, wq, memoryVars, pc, batchVars, serviceVars,
                 txVars, config>>

\* The process comes back with an empty memory (newServiceController); HAProxy
\* keeps its configuration and forgets the open transaction.
Forgets ==
  /\ indexer' = [s \in Services |-> NoService] /\ notice' = {}
  /\ wq' = EmptyQueue
  /\ serviceMappings' = <<>> /\ portAllocations' = {}
  /\ pc' = "stopped" /\ keys' = <<>> /\ idx' = 0
  /\ svc' = NoService /\ portIdx' = 0 /\ mappedPort' = 0 /\ toDelete' = {}
  /\ seenVersion' = -1 /\ tx' = NoTx

Restart ==
  /\ spent.restarts < MaxRestarts
  /\ spent' = [spent EXCEPT !.restarts = @ + 1]
  /\ Forgets
  /\ UNCHANGED apiVars

-----------------------------------------------------------------------------
Init ==
  /\ indexer = [s \in Services |-> NoService] /\ notice = {}
  /\ wq = EmptyQueue
  /\ serviceMappings = <<>> /\ portAllocations = {}
  /\ pc = "stopped" /\ keys = <<>> /\ idx = 0
  /\ svc = NoService /\ portIdx = 0 /\ mappedPort = 0 /\ toDelete = {}
  /\ seenVersion = -1 /\ tx = NoTx
  /\ config = EmptyConfig /\ version = 1
  /\ spent = [changes |-> 0, faults |-> 0, foreign |-> 0, restarts |-> 0]

Informer ==
  \E s \in Services :
    StoreAdd(s) \/ StoreUpdate(s) \/ StoreDelete(s) \/ StoreResync(s)

Handlers == handleServiceAdd \/ handleServiceUpdate \/ handleServiceDelete

Worker ==
  \/ CacheSynced
  \/ GetFirst \/ GetNext \/ BatchCollected
  \/ ReadVersion \/ TransactionStarted \/ TransactionRefused
  \/ SyncDeleted \/ SyncIgnored \/ SyncPresent \/ SyncDone
  \/ PortsDone \/ SkipPort \/ allocatePort
  \/ CreateBackend \/ CreateServer \/ CreateFrontend \/ CreateBind
  \/ RemoveMapping \/ RemoveDone
  \/ GiveBackNext \/ BatchGivenBack \/ CommitBatch

Delays == \E s \in Services : RetryDelayElapsed(s)

Next == Informer \/ Handlers \/ Worker \/ Delays \/ ForeignCommit \/ Restart

Spec == Init /\ [][Next]_vars

\* The process's own goroutines and timers run; nothing forces the cluster to
\* change, a request to fail, another client to act or the process to restart.
Fairness == /\ WF_vars(Handlers) /\ WF_vars(Worker)
            /\ \A s \in Services : WF_vars(RetryDelayElapsed(s))

FairSpec == Spec /\ Fairness

-----------------------------------------------------------------------------
(* Properties.                                                             *)

Creating == {"backend", "server", "frontend", "bind"}
AtRest   == {"stopped", "idle", "collect", "version", "start"}
PCs      == AtRest \cup Creating \cup {"sync", "port", "remove", "finish", "commit"}

BackendNames  == {"SVC_BACKEND"} \X Services \X Nat
FrontendNames == {"SVC_FRONTEND"} \X Services \X PortRange
BindNames     == {"SVC_BIND"} \X Services \X STRING
ServerNames   == STRING \X Nat

Mappings == [servicePort : Nat, mappedPort : PortRange,
             backendName : BackendNames, frontendName : FrontendNames,
             clusterIP : STRING]

Configs ==
  [backends  : SUBSET BackendNames,
   servers   : SUBSET [backend : BackendNames, name : ServerNames,
                       addr : ServerNames],
   frontends : SUBSET [name : FrontendNames, backend : BackendNames],
   binds     : SUBSET [frontend : FrontendNames, name : BindNames,
                       port : PortRange]]

\* Types of the controller's state and of the objects it creates in HAProxy.
TypeOK ==
  /\ indexer \in [Services -> ServiceObjects \cup {NoService}]
  /\ notice \subseteq [type : {"add", "update", "delete"}, key : Services,
                       sameVersion : BOOLEAN]
  /\ wq \in [queue : Seq(Services), dirty : SUBSET Services,
             processing : SUBSET Services, waiting : SUBSET Services]
  /\ DOMAIN serviceMappings \subseteq MappingKeys
  /\ serviceMappings \in [DOMAIN serviceMappings -> Mappings]
  /\ portAllocations \subseteq PortRangeStart..PortRangeEnd
  /\ pc \in PCs
  /\ keys \in Seq(Services) /\ idx \in Nat
  /\ svc \in ServiceObjects \cup {NoService} /\ portIdx \in Nat
  /\ mappedPort \in PortRange \cup {0}
  /\ toDelete \subseteq MappingKeys
  /\ seenVersion \in Nat \cup {-1}
  /\ tx \in [base : Nat \cup {-1}, cfg : Configs]
  /\ config \in Configs /\ version \in Nat
  /\ spent \in [changes : Nat, faults : Nat, foreign : Nat, restarts : Nat]

MappedPorts == {serviceMappings[k].mappedPort : k \in DOMAIN serviceMappings}

\* allocatePort and releasePort keep exact books whatever fails: the allocated
\* ports are those of the recorded mappings and the one being set up. No port is
\* leaked by a failed proxy or a removal, and none is freed while in use.
PortsAccounted == portAllocations = MappedPorts \cup ({mappedPort} \ {0})

\* Two Service ports are never given the same port of the range, one that is
\* still being set up included.
PortsExclusive ==
  /\ \A j, k \in DOMAIN serviceMappings :
       serviceMappings[j].mappedPort = serviceMappings[k].mappedPort => j = k
  /\ mappedPort \notin MappedPorts

\* The key at position i of the batch has yet to be looked up in the store.
Unread(i) == \/ pc \in {"collect", "version", "start"}
             \/ pc = "sync" /\ i >= idx
             \/ pc \in Creating \cup {"port", "remove"} /\ i > idx

\* The keys the worker has taken and will still give back.
Held == CASE pc = "finish" -> {keys[i] : i \in {1} \cup (idx..Len(keys))}
          [] pc = "commit" -> {keys[1]}
          [] OTHER -> KeySet

\* A change of s is noted: in its event, its key in the queue, a delay or the batch.
Noted(s) == \/ \E e \in notice : e.key = s /\ ~e.sameVersion
            \/ s \in wq.dirty \cup wq.waiting
            \/ \E i \in DOMAIN keys : keys[i] = s /\ Unread(i)

\* The keys whose Done never comes: the queue marks them dirty and does not hand
\* them out again, so what is noted of them does not reach syncService.
Stranded == wq.processing \ Held

Pending(s) == Noted(s) /\ s \notin Stranded

\* A stranded key is the only way in which a recorded mapping outlives its deleted
\* Service for good: any other such mapping has its key on the way to syncService
\* or is about to be removed. Coalesced keys, the retry of a refused transaction,
\* changes while the worker holds the key lose none. (This is about the mappings in
\* memory, not about what a refused commit or a restart leaves in HAProxy.)
OrphansPending ==
  \A k \in DOMAIN serviceMappings :
    indexer[k[1]] = NoService =>
      \/ Pending(k[1])
      \/ pc = "remove" /\ k \in toDelete
      \/ k[1] \in Stranded

\* A deletion reaches HAProxy: a committed frontend of a Service that is gone has
\* its key pending, its mapping about to be removed, or is gone from the open
\* transaction (when every commit succeeds).
RemovalsPending ==
  \A f \in config.frontends :
    indexer[f.name[2]] = NoService =>
      \/ Pending(f.name[2])
      \/ pc = "remove" /\ \E k \in toDelete :
                            serviceMappings[k].frontendName = f.name
      \/ pc \notin AtRest /\ f \notin tx.cfg.frontends

\* The ports of s that the controller has to map, by the store.
WantedPorts(s) ==
  {k \in {s} \X {indexer[s].ports[i].name : i \in DOMAIN indexer[s].ports} :
     isTargetPortName(k[2])}

Wanted == UNION {WantedPorts(s) : s \in {x \in Services :
            indexer[x] # NoService /\ Proxied(x, indexer[x])}}

\* A wanted Service port without a mapping has its key pending, or is the one the
\* worker is on (requests succeed, and the range is large enough).
MissingPending ==
  \A k \in Wanted \ DOMAIN serviceMappings :
    \/ Pending(k[1])
    \/ pc \in Creating \cup {"port"} /\ keys[idx] = k[1]

\* The objects in HAProxy that a set of mappings stands for.
Rendered(m) ==
  [backends  |-> {m[k].backendName : k \in DOMAIN m},
   servers   |-> {[backend |-> m[k].backendName,
                   name |-> ServerName(m[k].clusterIP, m[k].servicePort),
                   addr |-> ServerName(m[k].clusterIP, m[k].servicePort)]
                    : k \in DOMAIN m},
   frontends |-> {[name |-> m[k].frontendName, backend |-> m[k].backendName]
                    : k \in DOMAIN m},
   binds     |-> {[frontend |-> m[k].frontendName,
                   name |-> BindName(k[1], k[2]),
                   port |-> m[k].mappedPort] : k \in DOMAIN m}]

\* Between batches HAProxy holds exactly the objects of the recorded mappings
\* (when every request succeeds).
Coherent == pc \in AtRest => config = Rendered(serviceMappings)

\* Every key that a Get took from the queue is given back by a Done.
KeysReturned == wq.processing = Held

\* No two frontends of HAProxy's configuration listen on the same port.
BindsExclusive ==
  \A x, y \in config.binds : x.port = y.port => x.frontend = y.frontend

\* Every queued key is eventually taken by the worker.
KeysTaken == \A s \in Services : s \in wq.dirty ~> s \notin wq.dirty

\* k is served: its mapping is recorded and HAProxy has its objects.
Served(k) ==
  /\ k \in DOMAIN serviceMappings
  /\ LET m == serviceMappings[k]
     IN  /\ [name |-> m.frontendName, backend |-> m.backendName]
              \in config.frontends
         /\ [frontend |-> m.frontendName, name |-> BindName(k[1], k[2]),
             port |-> m.mappedPort] \in config.binds
         /\ m.backendName \in config.backends

\* Once the Services stop changing, every wanted Service port is served by
\* HAProxy, and nothing in HAProxy listens for a Service that is gone. (A Service
\* that is no longer wanted, headless or without the port, may stay served.)
EventuallyServed ==
  <>[](/\ \A k \in Wanted : Served(k)
       /\ \A b \in config.binds : indexer[b.frontend[2]] # NoService)

-----------------------------------------------------------------------------
(* The controller implements the leasing of ports.                         *)

Leases == INSTANCE PortLease WITH
  Holders <- MappingKeys,
  Ports   <- PortRange,
  lease   <- [k \in DOMAIN serviceMappings |-> serviceMappings[k].mappedPort]

\* Every step of the controller grants one Service port a port nobody else holds,
\* takes one back, or starts over: a published port never changes while its
\* mapping lives (ServiceMapping.MappedPort).
PortLeased == Leases!Spec
==============================================================================
