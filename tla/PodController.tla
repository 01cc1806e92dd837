---------------------------- MODULE PodController ----------------------------
(***************************************************************************)
(* controller/pod_controller.go and the handler create of server/v1.go:    *)
(* the V1 controller. One HAProxy frontend leads to one backend, whose     *)
(* only server is either the program itself (the default mapping) or the   *)
(* Pod that the last HTTP request asked for. A successful request starts a *)
(* timer; when it expires, pop puts the default mapping back.              *)
(*                                                                         *)
(* Processes: Run, which sets the objects up, pop, and one per HTTP        *)
(* request. They share one HaproxyHandle, whose mutex covers the read of   *)
(* the version and the write of one operation, and nothing covers the      *)
(* read of the servers and the writes that follow from it. Other clients   *)
(* of the Data Plane API move the version at any time. A panic of Run ends *)
(* the process; its container is started again and HAProxy, in its own     *)
(* container, keeps the configuration.                                     *)
(***************************************************************************)
EXTENDS WorkQueue, HaproxyHandle

CONSTANTS
  Pods,               \* Pod keys ("namespace/name")
  PodObjects,         \* the Pods' possible contents
  NoPod,              \* a key the store does not hold
  Requests,           \* the HTTP requests POST /mapping
  PodOf,              \* the Pod each of them names
  TTLs,               \* the durations they may ask for
  JprofilerPortName,  \* --jprofiler-port-name
  DefaultMappingPort, \* --default-map-port
  ControllerPort,     \* --listen-port
  EarlyRequests,      \* whether requests come before Run has set everything up
  FailedReads,        \* whether GetServers is among the requests that go wrong
  MaxPodChanges,      \* bound: changes of Pods the informer sees
  MaxPodFaults,       \* bound: requests to the Data Plane API that go wrong
  MaxPodForeign,      \* bound: configuration changes by other clients
  MaxPodRestarts      \* bound: restarts of the process from outside

\* A Pod's content is its IP and the ports of its containers, in order.
ASSUME PodAssumption ==
  /\ PodObjects \subseteq
       [ip : STRING, ports : Seq([name : STRING, port : Nat \ {0}])]
  /\ NoPod \notin PodObjects
  /\ PodOf \in [Requests -> Pods]
  /\ Requests \cap {"run", "pop"} = {}
  /\ TTLs \subseteq Int
  /\ DefaultMappingPort \in Nat \ {0} /\ ControllerPort \in Nat \ {0}
  /\ EarlyRequests \in BOOLEAN /\ FailedReads \in BOOLEAN
  /\ MaxPodChanges \in Nat /\ MaxPodFaults \in Nat
  /\ MaxPodForeign \in Nat /\ MaxPodRestarts \in Nat

VARIABLES
  lister,   \* the informer's store of Pods
  stage,    \* where each process is in its code
  srv,      \* the server each process is to install
  todo,     \* the names of the servers each process still has to replace
  ttl,      \* the duration each request asked for
  mu,       \* the processes that hold the handle's mutex
  seen,     \* the version each of them read
  async,    \* asyncQueue
  left,     \* the time left of each delay that runs in asyncQueue
  owed,     \* the time the installed Pod mapping has yet to last (history)
  config, version,
  used      \* how much of each bound is used up

callVars  == <<stage, srv, todo, ttl>>
lockVars  == <<mu, seen>>
timerVars == <<async, left>>
apiVars   == <<config, version>>
vars      == <<lister, callVars, lockVars, timerVars, owed, used, apiVars>>

Procs == {"run", "pop"} \cup Requests

\* A request with fate o, under the bound on faults.
SpendPod(o) ==
  LET n == IF o = "ok" THEN 0 ELSE 1
  IN  /\ used.faults + n <= MaxPodFaults
      /\ used' = [used EXCEPT !.faults = @ + n]

-----------------------------------------------------------------------------
(* The names of the HAProxy objects and the two kinds of servers.          *)

Backend  == <<"BACKEND">>
Frontend == <<"FRONTEND">>
Bind     == <<"BIND">>

\* Mutant: a Pod without the port is mapped at port 0.
PortOfUnset(o) ==
  LET named == {i \in DOMAIN o.ports : o.ports[i].name = JprofilerPortName}
  IN  IF named = {}
      THEN 0
      ELSE o.ports[CHOOSE i \in named : \A j \in named : j <= i].port

\* The last container port of the configured name, or the default port.
PortOf(o) ==
  LET named == {i \in DOMAIN o.ports : o.ports[i].name = JprofilerPortName}
  IN  IF named = {}
      THEN DefaultMappingPort
      ELSE o.ports[CHOOSE i \in named : \A j \in named : j <= i].port

\* Pods stand for namespaced names, so this name tells apart two Pods that share
\* name and IP in different namespaces, which pod.Name with the IP does not.
PodServer(pod, o) == [name |-> <<"POD", pod, o.ip>>, addr |-> <<o.ip, PortOf(o)>>]

DefaultServer == [name |-> <<"DEFAULT_APP">>, addr |-> <<"127.0.0.1", ControllerPort>>]

\* The servers of V1's backend, and whether one of them is a Pod.
Installed == {s \in config.servers : s.backend = Backend}
Mapped    == \E s \in Installed : s.name # DefaultServer.name

\* The Event a request leaves for pop: equal for requests for one Pod and port.
EventOf(r) == [host |-> PodOf[r], port |-> srv[r].addr[2]]

PodPorts == {PortOf(o) : o \in PodObjects}
Events   == [host : Pods, port : PodPorts]

-----------------------------------------------------------------------------
(* The informer: the handlers do nothing, the store is all there is.       *)

StorePod(p) ==
  /\ stage["run"] # "dead"
  /\ used.changes < MaxPodChanges
  /\ used' = [used EXCEPT !.changes = @ + 1]
  /\ \E o \in PodObjects \cup {NoPod} : lister' = [lister EXCEPT ![p] = o]
  /\ UNCHANGED <<callVars, lockVars, timerVars, owed, apiVars>>

-----------------------------------------------------------------------------
(* The end of the process, with everything in its memory.                  *)

\* A request that is being served ends without an answer.
StageAfterDeath(p) ==
  CASE p = "run" -> "dead"
    [] p = "pop" -> "idle"
    [] OTHER -> IF stage[p] \in {"new", "done", "failed"} THEN stage[p] ELSE "failed"

Dies ==
  /\ lister' = [p \in Pods |-> NoPod]
  /\ stage' = [p \in Procs |-> StageAfterDeath(p)]
  /\ srv' = [p \in Procs |-> DefaultServer]
  /\ todo' = [p \in Procs |-> {}]
  /\ mu' = {} /\ seen' = [p \in Procs |-> -1]
  /\ async' = EmptyQueue /\ left' = [e \in Events |-> 0]

\* Run stays up when the text of the error says so, and panics on any other.
Initialised(err) == IF err = NoError \/ SaysExists(err) THEN "up" ELSE "dead"

\* What the caller of changeProxy does with its outcome: pop drops it, create
\* answers with an error, or starts the timer if there is none.
Returned(p, err) ==
  CASE p = "run" -> Initialised(err)
    [] p = "pop" -> "idle"
    [] OTHER -> IF err = NoError THEN "after" ELSE "failed"

-----------------------------------------------------------------------------
(* One operation of the handle. Lock and the read of the version ...       *)

Writing == {"backend", "frontend", "bind", "add", "replace"}

\* Mutant: nobody waits for the mutex.
MutexFreeAlways == TRUE

MutexFree == mu = {}

Lock(p) ==
  /\ stage[p] \in Writing
  /\ MutexFree /\ p \notin mu
  /\ mu' = mu \cup {p}
  /\ \E o \in ReadFates :
       /\ SpendPod(o)
       /\ seen' = [seen EXCEPT ![p] = getVersion(version, o)]
  /\ UNCHANGED <<lister, callVars, timerVars, owed, apiVars>>

\* Mutant: the mutex stays locked after an error.
UnlockedIfDone(p, r) == IF r.err = NoError THEN mu \ {p} ELSE mu

\* The deferred unlock, whatever the result r.
Unlocked(p, r) == mu \ {p}

\* ... then the write, whose result is r, and the unlock. The caller goes on to
\* stage next with the names rest still to replace, or the process dies.
Sent(p, r, next, rest) ==
  /\ config' = r.cfg
  /\ version' = IF r.done THEN version + 1 ELSE version
  /\ IF next = "dead"
     THEN Dies
     ELSE /\ mu' = Unlocked(p, r) /\ seen' = [seen EXCEPT ![p] = -1]
          /\ stage' = [stage EXCEPT ![p] = next]
          /\ todo' = [todo EXCEPT ![p] = rest]
          /\ UNCHANGED <<lister, srv, timerVars>>
  /\ UNCHANGED ttl

\* A request that installs its Pod owes it the duration asked for.
Owes(p, r) ==
  owed' = IF p \in Requests /\ r.done THEN ttl[p] ELSE owed

-----------------------------------------------------------------------------
(* changeProxy.                                                            *)

\* Mutant: a server is added whatever the backend holds.
NextWriteAdds(names) == "add"

NextWrite(names) == IF names = {} THEN "add" ELSE "replace"

ReadServers(p) ==
  /\ stage[p] = "read"
  /\ \E o \in ReadFates :
       /\ FailedReads \/ o = "ok"
       /\ SpendPod(o)
       /\ todo' = [todo EXCEPT ![p] = GetServers(config, Backend, o)]
       /\ stage' = [stage EXCEPT ![p] = NextWrite(GetServers(config, Backend, o))]
  /\ UNCHANGED <<lister, srv, ttl, lockVars, timerVars, owed, apiVars>>

\* The error that counts is that of the last replacement.
ReplaceServers(p) ==
  /\ stage[p] = "replace" /\ p \in mu
  /\ \E n \in todo[p], o \in Fates :
       LET r == Direct(ReplaceServerFromBackend(config, Backend, n, srv[p].name,
                                                srv[p].addr, o),
                       config, version, seen[p], o)
       IN  /\ SpendPod(o)
           /\ Sent(p, r, IF todo[p] = {n} THEN Returned(p, r.err) ELSE "replace",
                   todo[p] \ {n})
           /\ Owes(p, r)

AddServer(p) ==
  /\ stage[p] = "add" /\ p \in mu
  /\ \E o \in Fates :
       LET r == Direct(AddServerToBackend(config, Backend, srv[p].name,
                                          srv[p].addr, o),
                       config, version, seen[p], o)
       IN  /\ SpendPod(o)
           /\ Sent(p, r, Returned(p, r.err), {})
           /\ Owes(p, r)

changeProxy(p) == ReadServers(p) \/ ReplaceServers(p) \/ AddServer(p)

-----------------------------------------------------------------------------
(* Run and createProxy: AddBackend, AddFrontend, AddBind, DefaultMapping.  *)
(* Only an error that says "already exists" stops after AddFrontend; the   *)
(* text of a payload by pointer never does, so a failed AddFrontend is     *)
(* followed by AddBind all the same.                                       *)

\* WaitForCacheSync returns.
PodsSynced ==
  /\ stage["run"] = "sync"
  /\ stage' = [stage EXCEPT !["run"] = "backend"]
  /\ UNCHANGED <<lister, srv, todo, ttl, lockVars, timerVars, owed, used, apiVars>>

\* Mutant: the bind is asked for before its frontend.
AfterBackendBind(err) == IF err = NoError THEN "bind" ELSE Initialised(err)

AfterBackend(err)  == IF err = NoError THEN "frontend" ELSE Initialised(err)

\* Mutant: without its frontend the bind is left out.
AfterFrontendRead(err) == IF err = NoError THEN "bind" ELSE "read"

AfterFrontend(err) == IF SaysExists(err) THEN Initialised(err) ELSE "bind"

\* Mutant: DefaultMapping is left out.
AfterBindUp(err) == Initialised(err)

AfterBind(err)     == IF err = NoError THEN "read" ELSE Initialised(err)

\* One write of createProxy: the answer r of a request of fate o, after which Run
\* goes on to stage next.
Creates(r, o, next) ==
  /\ "run" \in mu
  /\ SpendPod(o)
  /\ Sent("run", r, next, {})
  /\ UNCHANGED owed

CreateBackend ==
  /\ stage["run"] = "backend"
  /\ \E o \in Fates :
       LET r == Direct(AddBackend(config, Backend, o),
                       config, version, seen["run"], o)
       IN  Creates(r, o, AfterBackend(r.err))

CreateFrontend ==
  /\ stage["run"] = "frontend"
  /\ \E o \in Fates :
       LET r == Direct(AddFrontend(config, Frontend, Backend, o),
                       config, version, seen["run"], o)
       IN  Creates(r, o, AfterFrontend(r.err))

CreateBind ==
  /\ stage["run"] = "bind"
  /\ \E o \in Fates :
       LET r == Direct(AddBind(config, Frontend, Bind, DefaultMappingPort, o),
                       config, version, seen["run"], o)
       IN  Creates(r, o, AfterBind(r.err))

createProxy == CreateBackend \/ CreateFrontend \/ CreateBind

-----------------------------------------------------------------------------
(* CreateMapping, called by create.                                        *)

\* The request arrives and the Pod is looked up in the store.
create(r) ==
  /\ stage[r] = "new" /\ stage["run"] # "dead"
  /\ EarlyRequests \/ stage["run"] = "up"
  /\ \E t \in TTLs : ttl' = [ttl EXCEPT ![r] = t]
  /\ IF lister[PodOf[r]] = NoPod
     THEN /\ stage' = [stage EXCEPT ![r] = "failed"]
          /\ UNCHANGED srv
     ELSE /\ stage' = [stage EXCEPT ![r] = "read"]
          /\ srv' = [srv EXCEPT ![r] = PodServer(PodOf[r], lister[PodOf[r]])]
  /\ UNCHANGED <<lister, todo, lockVars, timerVars, owed, used, apiVars>>

\* Mutant: the timer does not wait.
DelayedUntilNow(e, t) == async' = Add(async, e) /\ UNCHANGED left

\* asyncQueue.AddAfter: an item that waits already keeps the earlier deadline.
DelayedUntil(e, t) ==
  IF t <= 0
  THEN async' = Add(async, e) /\ UNCHANGED left
  ELSE /\ async' = AddDelayed(async, {e})
       /\ left' = [left EXCEPT ![e] = IF e \in async.waiting /\ @ < t THEN @ ELSE t]

AddAfter(r) ==
  /\ stage[r] = "after"
  /\ DelayedUntil(EventOf(r), ttl[r])
  /\ stage' = [stage EXCEPT ![r] = "done"]
  /\ UNCHANGED <<lister, srv, todo, ttl, lockVars, owed, used, apiVars>>

\* The steps of a request that has arrived.
CreateMapping(r) == Lock(r) \/ changeProxy(r) \/ AddAfter(r)

-----------------------------------------------------------------------------
(* pop: Get without Done, then DefaultMapping, whatever becomes of it.     *)

\* Mutant: the event is taken and DefaultMapping left out.
GetEventOnly ==
  /\ stage["pop"] = "idle" /\ async.queue # <<>>
  /\ async' = Get(async)
  /\ UNCHANGED <<lister, callVars, lockVars, left, owed, used, apiVars>>

GetEvent ==
  /\ stage["pop"] = "idle" /\ async.queue # <<>>
  /\ async' = Get(async)
  /\ stage' = [stage EXCEPT !["pop"] = "read"]
  /\ UNCHANGED <<lister, srv, todo, ttl, lockVars, left, owed, used, apiVars>>

pop == GetEvent \/ Lock("pop") \/ changeProxy("pop")

-----------------------------------------------------------------------------
(* What happens around the controller.                                     *)

\* Time passes while a delay runs or a Pod mapping is owed time.
Tick ==
  /\ owed > 0 \/ \E e \in Events : left[e] > 0
  /\ left' = [e \in Events |-> IF left[e] > 0 THEN left[e] - 1 ELSE 0]
  /\ owed' = IF owed > 0 THEN owed - 1 ELSE 0
  /\ UNCHANGED <<lister, callVars, lockVars, async, used, apiVars>>

Expire(e) ==
  /\ e \in async.waiting /\ left[e] = 0
  /\ async' = DelayElapsed(async, e)
  /\ UNCHANGED <<lister, callVars, lockVars, left, owed, used, apiVars>>

\* Another client (V2) changes objects of its own: only the version moves here.
ForeignChange ==
  /\ used.foreign < MaxPodForeign
  /\ used' = [used EXCEPT !.foreign = @ + 1]
  /\ version' = version + 1
  /\ UNCHANGED <<lister, callVars, lockVars, timerVars, owed, config>>

\* The process is ended from outside ...
Crash ==
  /\ stage["run"] # "dead"
  /\ used.restarts < MaxPodRestarts
  /\ used' = [used EXCEPT !.restarts = @ + 1]
  /\ Dies
  /\ UNCHANGED <<ttl, owed, apiVars>>

\* ... and its container is started again, after a panic too.
StartAgain ==
  /\ stage["run"] = "dead"
  /\ stage' = [stage EXCEPT !["run"] = "sync"]
  /\ UNCHANGED <<lister, srv, todo, ttl, lockVars, timerVars, owed, used, apiVars>>

-----------------------------------------------------------------------------
PodInit ==
  /\ lister = [p \in Pods |-> NoPod]
  /\ stage = [p \in Procs |-> CASE p = "run" -> "sync"
                               [] p = "pop" -> "idle"
                               [] OTHER -> "new"]
  /\ srv = [p \in Procs |-> DefaultServer]
  /\ todo = [p \in Procs |-> {}]
  /\ ttl = [r \in Requests |-> 0]
  /\ mu = {} /\ seen = [p \in Procs |-> -1]
  /\ async = EmptyQueue /\ left = [e \in Events |-> 0]
  /\ owed = 0
  /\ used = [changes |-> 0, faults |-> 0, foreign |-> 0, restarts |-> 0]

Init == PodInit /\ config = EmptyConfig /\ version = 1

Run == PodsSynced \/ Lock("run") \/ createProxy \/ changeProxy("run")

Next ==
  \/ \E p \in Pods : StorePod(p)
  \/ Run \/ pop
  \/ \E r \in Requests : create(r) \/ CreateMapping(r)
  \/ Tick \/ \E e \in Events : Expire(e)
  \/ ForeignChange \/ Crash \/ StartAgain

Spec == Init /\ [][Next]_vars

\* The goroutines run, a request that has arrived is served (Go's mutex starves
\* nobody), time passes, timers fire and the container is started again. Nobody
\* is forced to send a request and nothing forces a fault, a foreign change or a
\* crash.
Fairness ==
  /\ WF_vars(Run) /\ WF_vars(pop)
  /\ \A r \in Requests : WF_vars(CreateMapping(r))
  /\ WF_vars(Tick) /\ \A e \in Events : WF_vars(Expire(e))
  /\ WF_vars(StartAgain)

FairSpec == Spec /\ Fairness

-----------------------------------------------------------------------------
(* Properties.                                                             *)

Stages == Writing \cup {"sync", "read", "up", "dead", "idle", "new", "after",
                         "done", "failed"}

PodIPs      == {o.ip : o \in PodObjects}
ServerNames == {DefaultServer.name} \cup ({"POD"} \X Pods \X PodIPs)
Addresses   == ({"127.0.0.1"} \cup PodIPs) \X (Nat \ {0})

PodConfigs ==
  [backends  : SUBSET {Backend},
   servers   : SUBSET [backend : {Backend}, name : ServerNames, addr : Addresses],
   frontends : SUBSET [name : {Frontend}, backend : {Backend}],
   binds     : SUBSET [frontend : {Frontend}, name : {Bind},
                       port : {DefaultMappingPort}]]

\* Types of the controller's state and of V1's objects in HAProxy; no server has
\* port 0, whatever the Pod declares.
PodTypeOK ==
  /\ lister \in [Pods -> PodObjects \cup {NoPod}]
  /\ stage \in [Procs -> Stages]
  /\ srv \in [Procs -> [name : ServerNames, addr : Addresses]]
  /\ todo \in [Procs -> SUBSET ServerNames]
  /\ ttl \in [Requests -> Int]
  /\ mu \subseteq Procs /\ seen \in [Procs -> Nat \cup {-1}]
  /\ async \in [queue : Seq(Events), dirty : SUBSET Events,
                processing : SUBSET Events, waiting : SUBSET Events]
  /\ left \in [Events -> Nat] /\ owed \in Int
  /\ config \in PodConfigs /\ version \in Nat
  /\ used \in [changes : Nat, faults : Nat, foreign : Nat, restarts : Nat]

\* The backend never has two servers, between which HAProxy would share the
\* traffic, and has one from the end of the initialisation on, although
\* changeProxy reads the servers and replaces them without a lock over both.
OneServer ==
  /\ \A x, y \in Installed : x = y
  /\ stage["run"] = "up" => Installed # {}

\* Run installs the default mapping and comes up only behind an entry that is
\* complete, although it goes on to the bind after a frontend that failed, and
\* although an answer may be lost or the process may have died half-way before.
EntryComplete ==
  stage["run"] \in {"read", "add", "replace", "up"} =>
    /\ [name |-> Frontend, backend |-> Backend] \in config.frontends
    /\ [frontend |-> Frontend, name |-> Bind, port |-> DefaultMappingPort]
         \in config.binds

\* The mutex of the handle does its work: what a process sends names the current
\* version, so V1 never refuses its own writes.
VersionsFresh == \A p \in mu : seen[p] = version

\* A revert of the installed server s is on its way: its request is about to
\* start a timer, a timer runs, an event is queued, or pop is about to read the
\* servers or has read that of s.
Reverting(s) ==
  \/ \E r \in Requests : stage[r] = "after" /\ srv[r].name = s.name
  \/ async.waiting # {} \/ async.queue # <<>>
  \/ stage["pop"] = "read"
  \/ stage["pop"] = "replace" /\ s.name \in todo["pop"]

\* A Pod is never installed without a revert on its way, however requests for
\* different Pods, the timers of earlier ones and pop interleave (TTL-managed
\* mappings; every Pod is asked for once, requests succeed).
RevertPending == \A s \in Installed : s.name # DefaultServer.name => Reverting(s)

\* In the end the default mapping is back and stays.
EventuallyReverted == <>[]~Mapped

\* Every request that arrives is answered or dies with the process: nobody waits
\* for the mutex for ever, whatever fails while it is held.
RequestsEnd ==
  \A r \in Requests :
    stage[r] \in Writing \cup {"read", "after"} ~> stage[r] \in {"done", "failed"}

\* In the end Run has set everything up and stays up.
EventuallyUp == <>[](stage["run"] = "up")

-----------------------------------------------------------------------------
(* The controller implements the entry it promises.                        *)

Entry == INSTANCE PodEntry WITH
  Nowhere <- {},
  Default <- {DefaultServer.name},
  Targets <- {{PodServer(p, o).name} : p \in Pods, o \in PodObjects},
  target  <- {s.name : s \in Installed}

\* Whatever fails, an open entry leads to exactly one target, and a step switches
\* it from one to one other.
EntryGuarded == Entry!Spec

\* Every step of the controller leaves the entry alone, opens it to the default
\* target, or switches it from one target to one other, and a Pod makes way for
\* another or for the default in the end.
EntryKept == Entry!FairSpec
==============================================================================
