------------------------ MODULE ServiceSyncProofs ----------------------------
(***************************************************************************)
(* Proofs about the V2 controller when nothing disturbs it (no request     *)
(* fails, no other client commits and the process is not restarted):       *)
(* whenever no transaction is open, HAProxy's configuration is exactly     *)
(* what the recorded mappings stand for; no two frontends ever listen on   *)
(* one port; no frontend of a deleted Service is forgotten; and, if one    *)
(* port name is asked for and the range has a port for every Service, no   *)
(* Service port that has to be mapped is forgotten.                        *)
(***************************************************************************)
EXTENDS ServicePendingProofs, FiniteSetTheorems

-----------------------------------------------------------------------------
(* The inductive invariant: what the open transaction holds at each point  *)
(* of the worker's code.                                                   *)

Undisturbed == MaxFaults = 0 /\ MaxForeign = 0 /\ MaxRestarts = 0

R == Rendered(serviceMappings)

Building == Loop \cup {"sync", "finish", "commit"}

\* The objects' names carry the Service and the port they are for.
WellNamed ==
  \A k \in DOMAIN serviceMappings :
    /\ serviceMappings[k].frontendName
         = FrontendName(k[1], serviceMappings[k].mappedPort)
    /\ serviceMappings[k].backendName
         = BackendName(k[1], serviceMappings[k].servicePort)

\* The transaction can be committed.
TxBase == pc \in Building \cup {"remove"} => tx.base = version

\* The objects of the proxy that is being created.
TheBackend  == BackendName(keys[idx], Port.port)
TheServer   == [backend |-> TheBackend,
                name |-> ServerName(svc.clusterIP, Port.port),
                addr |-> ServerName(svc.clusterIP, Port.port)]
TheFrontend == [name |-> FrontendName(keys[idx], mappedPort),
                backend |-> TheBackend]

\* The transaction holds the objects of the mappings, and those of the proxy
\* being created that the worker has got to.
TxBuilt ==
  pc \in Building =>
    /\ tx.cfg.backends = R.backends \cup
         (IF pc \in {"server", "frontend", "bind"} THEN {TheBackend} ELSE {})
    /\ tx.cfg.servers = R.servers \cup
         (IF pc \in {"frontend", "bind"} THEN {TheServer} ELSE {})
    /\ tx.cfg.frontends = R.frontends \cup
         (IF pc = "bind" THEN {TheFrontend} ELSE {})
    /\ tx.cfg.binds = R.binds

ServerOf(k) ==
  [backend |-> serviceMappings[k].backendName,
   name |-> ServerName(serviceMappings[k].clusterIP, serviceMappings[k].servicePort),
   addr |-> ServerName(serviceMappings[k].clusterIP, serviceMappings[k].servicePort)]

FrontendOf(k) == [name |-> serviceMappings[k].frontendName,
                  backend |-> serviceMappings[k].backendName]

BindOf(k) == [frontend |-> serviceMappings[k].frontendName,
              name |-> BindName(k[1], k[2]), port |-> serviceMappings[k].mappedPort]

\* While the mappings of a Service are removed one by one, a backend that two of
\* them share goes with the first.
TxRemoving ==
  pc = "remove" =>
    /\ toDelete = MappingsOf(keys[idx])
    /\ tx.cfg.backends \subseteq R.backends /\ tx.cfg.servers \subseteq R.servers
    /\ tx.cfg.frontends = R.frontends /\ tx.cfg.binds = R.binds
    /\ \A x \in tx.cfg.servers : x.backend \in tx.cfg.backends
    /\ \A k \in DOMAIN serviceMappings \ toDelete :
         /\ serviceMappings[k].backendName \in tx.cfg.backends
         /\ ServerOf(k) \in tx.cfg.servers

\* The frontends and backends HAProxy has for a Service the worker has yet to get
\* through are those of its mappings.
Known(s) ==
  /\ \A x \in config.frontends : x.name[2] = s => x \in R.frontends
  /\ \A b \in config.backends : b[2] = s => b \in R.backends

ConfigKnown ==
  pc \in Loop \cup {"sync", "remove"} =>
    \A i \in DOMAIN keys :
      i >= idx /\ (pc = "remove" => i > idx) => Known(keys[i])

CInv == /\ KInv /\ WellNamed /\ TxBase /\ TxBuilt /\ TxRemoving /\ ConfigKnown
        /\ Coherent

-----------------------------------------------------------------------------
(* What the requests do when none of them fails.                           *)

\* Without a budget for faults every request is carried out and answered.
LEMMA NoFault ==
  ASSUME Undisturbed, TypeOK, NEW o, NEW o2
  PROVE  /\ Spend(Cost(o)) => o = "ok"
         /\ Spend(Cost(o) + Cost(o2)) => o = "ok" /\ o2 = "ok"
  BY DEF Undisturbed, TypeOK, Spend, Cost

\* The client takes the answers 200 and 201 as successes, and 404 and 409 as
\* failures that do not say that the object exists, for a payload by pointer.
LEMMA Answers ==
  ASSUME NEW c, NEW c2, NEW t \in {"*Backend", "*Server", "*Frontend", "*Bind"},
         NEW code \in {200, 201, 404, 409}
  PROVE  LET r == Request(t, c, code, c2, "ok")
         IN  /\ r.cfg = c2 /\ ~SaysExists(r.err)
             /\ r.err = NoError <=> code \in {200, 201}
  <1> DEFINE e == handleError(t, code).err
  <1>1. /\ Request(t, c, code, c2, "ok").cfg = c2
        /\ Request(t, c, code, c2, "ok").err = e
    BY DEF Request
  <1>2. CASE code \in {200, 201}
    <2>1. e = NoError
      BY <1>2 DEF handleError, LogText, PayloadTypes, NoError
    <2>2. QED
      BY <1>1, <1>2, <2>1 DEF NoError, SaysExists
  <1>3. CASE code \in {404, 409}
    <2>1. e # NoError /\ ~SaysExists(e)
      BY <1>3 DEF handleError, LogText, PayloadTypes, NoError, SaysExists
    <2>2. QED
      BY <1>1, <1>3, <2>1
  <1>4. QED
    BY <1>2, <1>3

\* The client takes a 404 for an object that does not exist.
LEMMA NotFound ==
  ASSUME NEW c, NEW f, ~HasFrontend(c, f)
  PROVE  ~EnsureFrontend(c, f, "ok")
  <1> DEFINE S == {0, 200, 201, 202, 204, 409}
             n == 404
  <1>1. n \notin S
    OBVIOUS
  <1>2. handleError("string", n).exist = (n \in S)
    BY DEF handleError
  <1>3. EnsureFrontend(c, f, "ok") = handleError("string", n).exist
    BY DEF EnsureFrontend, Request
  <1> HIDE DEF S, n
  <1>4. QED
    BY <1>1, <1>2, <1>3, Zenon

\* The deletions of a mapping's frontend and backend.
LEMMA Deletions ==
  ASSUME NEW c \in Configs, NEW f, NEW b
  PROVE  /\ DeleteFrontend(c, f, "ok").cfg =
              IF HasFrontend(c, f)
              THEN [c EXCEPT !.frontends = {x \in @ : x.name # f},
                             !.binds = {x \in @ : x.frontend # f}]
              ELSE c
         /\ DeleteBackend(c, b, "ok").cfg =
              IF b \in c.backends
              THEN [c EXCEPT !.backends = @ \ {b},
                             !.servers = {x \in @ : x.backend # b}]
              ELSE c
  BY DEF DeleteFrontend, DeleteBackend, Request

-----------------------------------------------------------------------------
(* The objects of the mappings.                                            *)

\* The objects of the mappings, one set of each kind.
LEMMA Objects ==
  /\ R.backends = {serviceMappings[k].backendName : k \in DOMAIN serviceMappings}
  /\ R.servers = {ServerOf(k) : k \in DOMAIN serviceMappings}
  /\ R.frontends = {FrontendOf(k) : k \in DOMAIN serviceMappings}
  /\ R.binds = {BindOf(k) : k \in DOMAIN serviceMappings}
  BY DEF R, Rendered, ServerOf, FrontendOf, BindOf

\* One more mapping stands for one more object of each kind.
LEMMA OneMore ==
  ASSUME NEW m, NEW k, k \notin DOMAIN m, NEW n, NEW m2,
         m2 = [j \in DOMAIN m \cup {k} |-> IF j = k THEN n ELSE m[j]]
  PROVE  LET a == ServerName(n.clusterIP, n.servicePort)
         IN  /\ Rendered(m2).backends = Rendered(m).backends \cup {n.backendName}
             /\ Rendered(m2).servers = Rendered(m).servers
                  \cup {[backend |-> n.backendName, name |-> a, addr |-> a]}
             /\ Rendered(m2).frontends = Rendered(m).frontends
                  \cup {[name |-> n.frontendName, backend |-> n.backendName]}
             /\ Rendered(m2).binds = Rendered(m).binds
                  \cup {[frontend |-> n.frontendName, name |-> BindName(k[1], k[2]),
                         port |-> n.mappedPort]}
  <1>1. /\ DOMAIN m2 = DOMAIN m \cup {k} /\ m2[k] = n
        /\ \A j \in DOMAIN m : m2[j] = m[j]
    OBVIOUS
  <1>2. Rendered(m2).backends = Rendered(m).backends \cup {n.backendName}
    BY <1>1 DEF Rendered
  <1>3. LET a == ServerName(n.clusterIP, n.servicePort)
        IN  Rendered(m2).servers = Rendered(m).servers
              \cup {[backend |-> n.backendName, name |-> a, addr |-> a]}
    BY <1>1 DEF Rendered
  <1>4. Rendered(m2).frontends = Rendered(m).frontends
          \cup {[name |-> n.frontendName, backend |-> n.backendName]}
    BY <1>1 DEF Rendered
  <1>5. Rendered(m2).binds = Rendered(m).binds
          \cup {[frontend |-> n.frontendName, name |-> BindName(k[1], k[2]),
                 port |-> n.mappedPort]}
    BY <1>1 DEF Rendered
  <1>6. QED
    BY <1>2, <1>3, <1>4, <1>5

\* A configuration with these four sets is the one the mappings stand for.
LEMMA SameConfig ==
  ASSUME NEW c \in Configs,
         c.backends = R.backends, c.servers = R.servers,
         c.frontends = R.frontends, c.binds = R.binds
  PROVE  c = R
  BY DEF Configs, R, Rendered

\* A step that leaves the mappings alone leaves their objects alone.
LEMMA SameObjects ==
  ASSUME UNCHANGED serviceMappings
  PROVE  /\ R' = R /\ (WellNamed => WellNamed')
         /\ \A k : ServerOf(k)' = ServerOf(k)
  BY DEF R, Rendered, WellNamed, ServerOf

-----------------------------------------------------------------------------
(* The steps that leave the transaction alone.                             *)

CRest == WellNamed /\ TxBase /\ TxBuilt /\ TxRemoving /\ ConfigKnown /\ Coherent

\* The informer, its handlers and the delays touch nothing of this, and there is
\* nothing else beside the worker.
LEMMA CoherentAround ==
  ASSUME CInv, Undisturbed, [Next]_vars, ~Worker
  PROVE  CRest'
  <1>1. ~ForeignCommit /\ ~Restart
    BY DEF Undisturbed, ForeignCommit, Restart, CInv, KInv, IInv, TypeOK
  <1>2. UNCHANGED <<memoryVars, pc, batchVars, serviceVars, txVars, apiVars>>
    BY <1>1 DEF Next, Informer, StoreAdd, StoreUpdate, StoreDelete, StoreResync,
       Store, Handlers, handleServiceAdd, handleServiceUpdate, handleServiceDelete,
       Handled, Delays, RetryDelayElapsed, vars
  <1>3. UNCHANGED serviceMappings
    BY <1>2 DEF memoryVars
  <1>4. R' = R /\ WellNamed' /\ \A k : ServerOf(k)' = ServerOf(k)
    BY <1>3, SameObjects DEF CInv
  <1>5. UNCHANGED <<pc, keys, idx, svc, portIdx, mappedPort, toDelete, tx, config,
                    version>>
    BY <1>2 DEF batchVars, serviceVars, txVars, apiVars
  <1>6. TxBase' /\ Coherent'
    BY <1>4, <1>5 DEF CInv, TxBase, Coherent, R
  <1>7. TxBuilt'
    BY <1>4, <1>5 DEF CInv, TxBuilt, TheBackend, TheServer, TheFrontend, Port
  <1>8. TxRemoving'
    BY <1>3, <1>4, <1>5 DEF CInv, TxRemoving, MappingsOf
  <1>9. ConfigKnown'
    BY <1>4, <1>5 DEF CInv, ConfigKnown, Known
  <1>10. QED
    BY <1>4, <1>6, <1>7, <1>8, <1>9 DEF CRest

\* Between transactions only the batch is collected.
LEMMA CoherentAtRest ==
  ASSUME CInv, pc \in AtRest, pc' \in AtRest, UNCHANGED <<serviceMappings, config>>
  PROVE  CRest'
  <1>1. R' = R /\ WellNamed'
    BY SameObjects DEF CInv
  <1>2. Coherent'
    BY <1>1 DEF CInv, Coherent, R
  <1>3. pc' \notin Building \cup {"remove"}
    BY DEF AtRest, Building, Loop, Creating
  <1>4. QED
    BY <1>1, <1>2, <1>3 DEF CRest, TxBase, TxBuilt, TxRemoving, ConfigKnown,
                            Building

\* The worker moves on in its batch, outside of the creation of a proxy and of
\* the removal of mappings.
LEMMA CoherentQuiet ==
  ASSUME CInv, pc \in {"sync", "port", "finish", "commit"},
         pc' \in {"sync", "port", "backend", "finish", "commit"},
         pc' \in Loop \cup {"sync"} => pc \in {"sync", "port"} /\ idx' >= idx,
         UNCHANGED <<serviceMappings, keys, tx, config, version>>, idx' \in Nat
  PROVE  CRest'
  <1>1. R' = R /\ WellNamed'
    BY SameObjects DEF CInv
  <1>2. TxBase' /\ TxBuilt'
    BY <1>1 DEF CInv, TxBase, TxBuilt, Building, Loop, Creating
  <1>3. TxRemoving' /\ Coherent'
    BY DEF TxRemoving, Coherent, AtRest
  <1>4. ConfigKnown'
    <2> SUFFICES ASSUME pc' \in Loop \cup {"sync"},
                        NEW i \in DOMAIN keys', i >= idx'
                 PROVE  Known(keys[i])'
      BY DEF ConfigKnown, Loop, Creating
    <2>1. keys \in Seq(Services) /\ idx \in Nat
      BY DEF CInv, KInv, IInv, TypeOK
    <2>2. i \in DOMAIN keys /\ i \in Nat /\ i >= idx
      BY <2>1
    <2>3. Known(keys[i])
      BY <2>2 DEF CInv, ConfigKnown, Loop, Creating
    <2>4. QED
      BY <1>1, <2>3 DEF Known
  <1>5. QED
    BY <1>1, <1>2, <1>3, <1>4 DEF CRest

\* From taking a batch to opening its transaction.
LEMMA CoherentBatch ==
  ASSUME CInv,
         \/ CacheSynced \/ GetFirst \/ GetNext \/ BatchCollected \/ ReadVersion
         \/ TransactionStarted \/ TransactionRefused
  PROVE  CRest'
  <1>1. CASE TransactionStarted
    <2>1. /\ pc = "start" /\ pc' = "sync" /\ idx' = 1
          /\ tx' = [base |-> version, cfg |-> config]
          /\ UNCHANGED <<serviceMappings, keys, config, version>>
      BY <1>1 DEF TransactionStarted, memoryVars, apiVars
    <2>2. R' = R /\ WellNamed'
      BY <2>1, SameObjects DEF CInv
    <2>3. config = R
      BY <2>1 DEF CInv, Coherent, AtRest, R
    <2>4. TxBase' /\ TxBuilt' /\ TxRemoving' /\ Coherent' /\ ConfigKnown'
      BY <2>1, <2>2, <2>3 DEF TxBase, TxBuilt, TxRemoving, Coherent, ConfigKnown,
                              Known, AtRest
    <2>5. QED
      BY <2>2, <2>4 DEF CRest
  <1>2. CASE ~TransactionStarted
    <2>1. /\ pc \in AtRest /\ pc' \in AtRest
          /\ UNCHANGED <<serviceMappings, config>>
      BY <1>2 DEF CacheSynced, GetFirst, GetNext, BatchCollected, ReadVersion,
         TransactionRefused, AtRest, memoryVars, apiVars
    <2>2. QED
      BY <2>1, CoherentAtRest
  <1>3. QED
    BY <1>1, <1>2

\* Looking the keys up and going through the ports of a Service.
LEMMA CoherentSync ==
  ASSUME CInv,
         \/ SyncDeleted \/ SyncIgnored \/ SyncPresent \/ SyncDone
         \/ PortsDone \/ SkipPort \/ allocatePort
  PROVE  CRest'
  <1>1. CASE SyncDeleted
    <2>1. /\ pc = "sync" /\ pc' = "remove" /\ toDelete' = MappingsOf(keys[idx])
          /\ UNCHANGED <<serviceMappings, keys, idx, tx, config, version>>
      BY <1>1 DEF SyncDeleted, memoryVars, batchVars, txVars, apiVars
    <2>2. R' = R /\ WellNamed' /\ \A k : ServerOf(k)' = ServerOf(k)
      BY <2>1, SameObjects DEF CInv
    <2>3. TxBase' /\ TxBuilt' /\ Coherent'
      BY <2>1 DEF CInv, TxBase, TxBuilt, Coherent, AtRest, Building, Loop, Creating
    <2>4. /\ tx.cfg.backends = R.backends /\ tx.cfg.servers = R.servers
          /\ tx.cfg.frontends = R.frontends /\ tx.cfg.binds = R.binds
      BY <2>1 DEF CInv, TxBuilt, Building
    <2>5. TxRemoving'
      <3>1. \A x \in R.servers : x.backend \in R.backends
        BY Objects DEF ServerOf
      <3>2. \A k \in DOMAIN serviceMappings :
              /\ serviceMappings[k].backendName \in R.backends
              /\ ServerOf(k) \in R.servers
        BY Objects
      <3>3. MappingsOf(keys[idx])' = MappingsOf(keys[idx])
        BY <2>1 DEF MappingsOf
      <3>4. QED
        BY <2>1, <2>2, <2>4, <3>1, <3>2, <3>3 DEF TxRemoving
    <2>6. ConfigKnown'
      BY <2>1, <2>2 DEF CInv, ConfigKnown, Known, KInv, IInv, TypeOK
    <2>7. QED
      BY <2>2, <2>3, <2>5, <2>6 DEF CRest
  <1>2. CASE ~SyncDeleted
    <2>1. /\ pc \in {"sync", "port"} /\ pc' \in {"sync", "port", "backend", "finish"}
          /\ UNCHANGED <<serviceMappings, keys, tx, config, version>>
      BY <1>2 DEF SyncIgnored, SyncPresent, SyncDone, PortsDone, SkipPort,
         allocatePort, memoryVars, batchVars, txVars, apiVars
    <2>2. idx \in Nat /\ idx' \in Nat /\ (pc' # "finish" => idx' >= idx)
      BY <1>2 DEF CInv, KInv, IInv, TypeOK, SyncIgnored, SyncPresent, SyncDone,
         PortsDone, SkipPort, allocatePort, batchVars
    <2>3. QED
      BY <2>1, <2>2, CoherentQuiet DEF Loop, Creating
  <1>3. QED
    BY <1>1, <1>2

-----------------------------------------------------------------------------
(* createServiceProxy: each object is added, or nothing is left behind.    *)

\* What is left to show for a step of createServiceProxy.
LEMMA Creation ==
  ASSUME CInv, pc \in Creating, pc' \in Loop, createRest,
         NEW c, tx' = [tx EXCEPT !.cfg = c],
         R.frontends \subseteq R'.frontends, R.backends \subseteq R'.backends,
         WellNamed', TxBuilt'
  PROVE  CRest'
  <1>1. UNCHANGED <<keys, idx, config, version>>
    BY DEF createRest, batchVars, apiVars
  <1>2. TxBase'
    BY <1>1 DEF CInv, KInv, IInv, TypeOK, TxBase, Building, Loop
  <1>3. TxRemoving' /\ Coherent'
    BY DEF TxRemoving, Coherent, Loop, Creating, AtRest
  <1>4. ConfigKnown'
    <2>1. \A s : Known(s) => Known(s)'
      BY <1>1 DEF Known
    <2>2. \A i \in DOMAIN keys : i >= idx => Known(keys[i])
      BY DEF CInv, ConfigKnown, Loop, Creating
    <2>3. QED
      BY <1>1, <2>1, <2>2 DEF ConfigKnown
  <1>5. QED
    BY <1>2, <1>3, <1>4 DEF CRest

\* A proxy that fails leaves nothing behind if the transaction holds only the
\* objects of the mappings then.
LEMMA CoherentFailed ==
  ASSUME CInv, pc \in Creating, createRest, NEW c, ProxyFailed(c),
         c.backends = R.backends, c.servers = R.servers,
         c.frontends = R.frontends, c.binds = R.binds
  PROVE  CRest'
  <1>1. /\ tx' = [tx EXCEPT !.cfg = c] /\ pc' = "port" /\ UNCHANGED serviceMappings
    BY DEF ProxyFailed
  <1>2. R' = R /\ WellNamed'
    BY <1>1, SameObjects DEF CInv
  <1>3. tx'.cfg = c
    BY <1>1 DEF CInv, KInv, IInv, TypeOK
  <1>4. TxBuilt'
    BY <1>1, <1>2, <1>3 DEF TxBuilt
  <1>5. QED
    BY <1>1, <1>2, <1>4, Creation DEF Loop

\* A proxy of which one more object is there.
LEMMA CoherentContinues ==
  ASSUME CInv, pc \in Creating, createRest, NEW c,
         NEW next \in {"server", "frontend", "bind"}, ProxyContinues(c, next),
         c.backends = R.backends \cup {TheBackend},
         c.servers = R.servers \cup
           (IF next \in {"frontend", "bind"} THEN {TheServer} ELSE {}),
         c.frontends = R.frontends \cup
           (IF next = "bind" THEN {TheFrontend} ELSE {}),
         c.binds = R.binds
  PROVE  CRest'
  <1>1. /\ tx' = [tx EXCEPT !.cfg = c] /\ pc' = next
        /\ UNCHANGED <<serviceMappings, mappedPort, portIdx, keys, idx, svc>>
    BY DEF ProxyContinues, createRest, memoryVars, batchVars
  <1>2. R' = R /\ WellNamed'
    BY <1>1, SameObjects DEF CInv
  <1>3. tx'.cfg = c
    BY <1>1 DEF CInv, KInv, IInv, TypeOK
  <1>4. /\ TheBackend' = TheBackend /\ TheServer' = TheServer
        /\ TheFrontend' = TheFrontend
    BY <1>1 DEF TheBackend, TheServer, TheFrontend, Port
  <1>5. TxBuilt'
    BY <1>1, <1>2, <1>3, <1>4 DEF TxBuilt
  <1>6. QED
    BY <1>1, <1>2, <1>5, Creation DEF Loop, Creating

\* The backend is added, found, or refused without a trace.
LEMMA BackendCreated ==
  ASSUME CInv, Undisturbed, CreateBackend
  PROVE  CRest'
  <1> DEFINE b == TheBackend
             c == tx.cfg
  <1>1. PICK g \in ReadFates, o \in Fates :
          /\ Spend(Cost(g) + Cost(o))
          /\ Step(IF EnsureBackend(config, b, g)
                  THEN ReplaceBackend(c, b, o) ELSE AddBackend(c, b, o), "server")
    BY DEF CreateBackend, TheBackend
  <1>2. o = "ok"
    BY <1>1, NoFault DEF CInv, KInv, IInv
  <1>3. pc = "backend" /\ pc \in Creating /\ createRest /\ c \in Configs
    BY DEF CreateBackend, Creating, CInv, KInv, IInv, TypeOK
  <1>4. /\ c.backends = R.backends /\ c.servers = R.servers
        /\ c.frontends = R.frontends /\ c.binds = R.binds
    BY <1>3 DEF CInv, TxBuilt, Building, Loop
  <1> DEFINE d == [c EXCEPT !.backends = @ \cup {b}]
  <1>5. /\ d.backends = R.backends \cup {b} /\ d.servers = R.servers
        /\ d.frontends = R.frontends /\ d.binds = R.binds
    BY <1>3, <1>4 DEF Configs
  <1> HIDE DEF b, c, d
  <1>6. PICK r : /\ Step(r, "server")
                 /\ \/ r.err = NoError /\ r.cfg = d
                    \/ r.err = NoError /\ r.cfg = c /\ b \in c.backends
                    \/ r.err # NoError /\ ~SaysExists(r.err) /\ r.cfg = c
    <2>1. LET r == ReplaceBackend(c, b, "ok")
          IN  \/ r.err = NoError /\ r.cfg = c /\ b \in c.backends
              \/ r.err # NoError /\ ~SaysExists(r.err) /\ r.cfg = c
      BY Answers DEF ReplaceBackend
    <2>2. LET r == AddBackend(c, b, "ok")
          IN  \/ r.err = NoError /\ r.cfg = d
              \/ r.err # NoError /\ ~SaysExists(r.err) /\ r.cfg = c
      BY Answers DEF AddBackend, d
    <2>3. QED
      BY <1>1, <1>2, <2>1, <2>2
  <1>7. CASE r.err = NoError
    <2>1. ProxyContinues(r.cfg, "server")
      BY <1>6, <1>7 DEF Step
    <2>2. /\ r.cfg.backends = R.backends \cup {b} /\ r.cfg.servers = R.servers
          /\ r.cfg.frontends = R.frontends /\ r.cfg.binds = R.binds
      BY <1>4, <1>5, <1>6, <1>7
    <2>3. QED
      BY <1>3, <2>1, <2>2, CoherentContinues DEF b
  <1>8. CASE r.err # NoError
    <2>1. ProxyFailed(r.cfg) /\ r.cfg = c
      BY <1>6, <1>8 DEF Step
    <2>2. QED
      BY <1>3, <1>4, <2>1, CoherentFailed
  <1>9. QED
    BY <1>7, <1>8

\* The server is added, or is there already, and then so was its backend.
LEMMA ServerCreated ==
  ASSUME CInv, Undisturbed, CreateServer
  PROVE  CRest'
  <1> DEFINE b == TheBackend
             n == ServerName(svc.clusterIP, Port.port)
             c == tx.cfg
             r == AddServerToBackend(c, b, n, n, "ok")
             d == [c EXCEPT !.servers =
                     @ \cup {[backend |-> b, name |-> n, addr |-> n]}]
  <1>1. PICK o \in Fates, o2 \in Fates :
          LET q == AddServerToBackend(c, b, n, n, o)
          IN  IF SaysExists(q.err)
              THEN Spend(Cost(o) + Cost(o2))
              ELSE Spend(Cost(o)) /\ Step(q, "frontend")
    BY DEF CreateServer, TheBackend
  <1>2. o = "ok"
    BY <1>1, NoFault DEF CInv, KInv, IInv
  <1>3. pc = "server" /\ pc \in Creating /\ createRest /\ c \in Configs
    BY DEF CreateServer, Creating, CInv, KInv, IInv, TypeOK
  <1>4. /\ c.backends = R.backends \cup {b} /\ c.servers = R.servers
        /\ c.frontends = R.frontends /\ c.binds = R.binds
    BY <1>3 DEF CInv, TxBuilt, Building, Loop, Creating
  <1>5. /\ d.backends = R.backends \cup {b} /\ d.servers = R.servers \cup {TheServer}
        /\ d.frontends = R.frontends /\ d.binds = R.binds
    BY <1>3, <1>4 DEF Configs, TheServer
  <1>6. ~SaysExists(r.err)
    BY Answers DEF AddServerToBackend
  <1>7. Step(r, "frontend")
    BY <1>1, <1>2, <1>6
  <1>8. b \in c.backends
    BY <1>4
  <1>9. CASE HasServer(c, b, n)
    <2>1. r.err # NoError /\ r.cfg = c
      BY <1>8, <1>9, Answers DEF AddServerToBackend
    <2>2. ProxyFailed(c)
      BY <1>6, <1>7, <2>1 DEF Step
    <2>3. b \in R.backends
      BY <1>4, <1>9, Objects DEF HasServer, ServerOf
    <2>4. QED
      BY <1>3, <1>4, <2>2, <2>3, CoherentFailed
  <1>10. CASE ~HasServer(c, b, n)
    <2>1. r.err = NoError /\ r.cfg = d
      BY <1>8, <1>10, Answers DEF AddServerToBackend
    <2>2. ProxyContinues(d, "frontend")
      BY <1>7, <2>1 DEF Step
    <2> HIDE DEF d, c, n
    <2>3. QED
      BY <1>3, <1>5, <2>2, CoherentContinues
  <1>11. QED
    BY <1>9, <1>10

\* The port that is being set up is in no frontend's name and no bind.
LEMMA FrontendIsNew ==
  ASSUME CInv, pc \in Creating
  PROVE  LET f == FrontendName(keys[idx], mappedPort)
         IN  /\ \A k \in DOMAIN serviceMappings : serviceMappings[k].frontendName # f
             /\ ~HasFrontend(config, f)
             /\ \A x \in R.frontends : x.name # f
             /\ \A x \in R.binds : x.frontend # f
  <1> DEFINE f == FrontendName(keys[idx], mappedPort)
  <1>1. \A k \in DOMAIN serviceMappings : serviceMappings[k].frontendName # f
    <2> SUFFICES ASSUME NEW k \in DOMAIN serviceMappings,
                        serviceMappings[k].frontendName = f
                 PROVE  FALSE
      OBVIOUS
    <2>1. serviceMappings[k].mappedPort = mappedPort
      BY DEF CInv, WellNamed, FrontendName
    <2>2. QED
      BY <2>1 DEF CInv, KInv, IInv, Books, PortsExclusive, MappedPorts
  <1>2. \A x \in R.frontends : x.name # f
    BY <1>1, Objects DEF FrontendOf
  <1>3. \A x \in R.binds : x.frontend # f
    BY <1>1, Objects DEF BindOf
  <1>4. ~HasFrontend(config, f)
    <2> SUFFICES ASSUME NEW x \in config.frontends, x.name = f PROVE FALSE
      BY DEF HasFrontend
    <2>1. x.name[2] = keys[idx]
      BY DEF FrontendName
    <2>2. idx \in DOMAIN keys /\ idx \in Nat
      BY DEF CInv, KInv, IInv, TypeOK, Control
    <2>3. pc \in Loop /\ pc # "remove"
      BY DEF Loop, Creating
    <2>4. x \in R.frontends
      BY <2>1, <2>2, <2>3 DEF CInv, ConfigKnown, Known
    <2>5. QED
      BY <1>2, <2>4
  <1>5. QED
    BY <1>1, <1>2, <1>3, <1>4

\* The frontend is always added: no other step used its name.
LEMMA FrontendAdded ==
  ASSUME CInv, Undisturbed, CreateFrontend
  PROVE  ProxyContinues([tx.cfg EXCEPT !.frontends = @ \cup {TheFrontend}], "bind")
  <1> DEFINE f == FrontendName(keys[idx], mappedPort)
             b == TheBackend
             c == tx.cfg
  <1>1. PICK g \in ReadFates, o \in Fates :
          /\ Spend(Cost(g) + Cost(o))
          /\ Step(IF EnsureFrontend(config, f, g)
                  THEN ReplaceFrontend(c, f, b, o) ELSE AddFrontend(c, f, b, o),
                  "bind")
    BY DEF CreateFrontend, TheBackend
  <1>2. g = "ok" /\ o = "ok"
    BY <1>1, NoFault DEF CInv, KInv, IInv
  <1>3. c.frontends = R.frontends
    BY DEF CreateFrontend, CInv, TxBuilt, Building, Loop, Creating
  <1>4. ~HasFrontend(config, f) /\ ~HasFrontend(c, f)
    BY <1>3, FrontendIsNew DEF HasFrontend, CreateFrontend, Creating
  <1>5. ~EnsureFrontend(config, f, "ok")
    BY <1>4, NotFound
  <1>6. /\ AddFrontend(c, f, b, "ok").cfg
             = [c EXCEPT !.frontends = @ \cup {TheFrontend}]
        /\ AddFrontend(c, f, b, "ok").err = NoError
    BY <1>4, Answers DEF AddFrontend, TheFrontend
  <1>7. QED
    BY <1>1, <1>2, <1>5, <1>6 DEF Step

\* The transaction then holds it.
LEMMA FrontendCreated ==
  ASSUME CInv, Undisturbed, CreateFrontend
  PROVE  CRest'
  <1> DEFINE c == tx.cfg
             d == [c EXCEPT !.frontends = @ \cup {TheFrontend}]
  <1>1. pc = "frontend" /\ pc \in Creating /\ createRest /\ c \in Configs
    BY DEF CreateFrontend, Creating, CInv, KInv, IInv, TypeOK
  <1>2. /\ c.backends = R.backends \cup {TheBackend}
        /\ c.servers = R.servers \cup {TheServer}
        /\ c.frontends = R.frontends /\ c.binds = R.binds
    BY <1>1 DEF CInv, TxBuilt, Building, Loop, Creating
  <1>3. /\ d.backends = c.backends /\ d.servers = c.servers
        /\ d.frontends = R.frontends \cup {TheFrontend} /\ d.binds = R.binds
    BY <1>1, <1>2 DEF Configs
  <1>4. ProxyContinues(d, "bind")
    BY FrontendAdded
  <1> HIDE DEF c, d
  <1>5. QED
    BY <1>1, <1>2, <1>3, <1>4, CoherentContinues

\* The bind is always added.
LEMMA BindAdded ==
  ASSUME CInv, Undisturbed, CreateBind
  PROVE  MappingCreated(
           [tx.cfg EXCEPT !.binds =
              @ \cup {[frontend |-> FrontendName(keys[idx], mappedPort),
                      name |-> BindName(keys[idx], Port.name),
                      port |-> mappedPort]}])
  <1> DEFINE f == FrontendName(keys[idx], mappedPort)
             n == BindName(keys[idx], Port.name)
             c == tx.cfg
             new == [frontend |-> f, name |-> n, port |-> mappedPort]
             r == AddBind(c, f, n, mappedPort, "ok")
  <1>1. PICK o \in Fates :
          LET q == AddBind(c, f, n, mappedPort, o)
          IN  /\ Spend(Cost(o))
              /\ IF q.err = NoError \/ SaysExists(q.err)
                 THEN MappingCreated(q.cfg) ELSE ProxyFailed(q.cfg)
    BY DEF CreateBind
  <1>2. o = "ok"
    BY <1>1, NoFault DEF CInv, KInv, IInv
  <1>3. pc = "bind" /\ pc \in Creating
    BY DEF CreateBind, Creating
  <1>4. c.frontends = R.frontends \cup {TheFrontend} /\ c.binds = R.binds
    BY <1>3 DEF CInv, TxBuilt, Building, Loop, Creating
  <1>5. HasFrontend(c, f) /\ ~\E x \in c.binds : x.frontend = f /\ x.name = n
    <2>1. TheFrontend \in c.frontends /\ TheFrontend.name = f
      BY <1>4 DEF TheFrontend
    <2>2. \A x \in c.binds : x.frontend # f
      BY <1>3, <1>4, FrontendIsNew
    <2>3. QED
      BY <2>1, <2>2 DEF HasFrontend
  <1>6. r.cfg = [c EXCEPT !.binds = @ \cup {new}] /\ r.err = NoError
    BY <1>5, Answers DEF AddBind
  <1>7. QED
    BY <1>1, <1>2, <1>6

\* The mapping recorded stands for what the transaction holds.
LEMMA BindCreated ==
  ASSUME CInv, Undisturbed, CreateBind
  PROVE  CRest'
  <1> DEFINE f == FrontendName(keys[idx], mappedPort)
             n == BindName(keys[idx], Port.name)
             c == tx.cfg
             new == [frontend |-> f, name |-> n, port |-> mappedPort]
             d == [c EXCEPT !.binds = @ \cup {new}]
             k == MappingKey
             D == DOMAIN serviceMappings
  <1>1. pc = "bind" /\ pc \in Creating /\ createRest /\ c \in Configs
    BY DEF CreateBind, Creating, CInv, KInv, IInv, TypeOK
  <1>2. /\ c.backends = R.backends \cup {TheBackend}
        /\ c.servers = R.servers \cup {TheServer}
        /\ c.frontends = R.frontends \cup {TheFrontend} /\ c.binds = R.binds
    BY <1>1 DEF CInv, TxBuilt, Building, Loop, Creating
  <1>3. /\ d.backends = c.backends /\ d.servers = c.servers
        /\ d.frontends = c.frontends /\ d.binds = c.binds \cup {new}
    BY <1>1 DEF Configs
  <1>4. MappingCreated(d)
    BY BindAdded
  <1>5. /\ tx' = [tx EXCEPT !.cfg = d] /\ pc' = "port"
        /\ serviceMappings' = [j \in D \cup {k} |-> IF j = k THEN NewMapping
                                                     ELSE serviceMappings[j]]
    BY <1>4 DEF MappingCreated
  <1>6. tx'.cfg = d
    BY <1>5 DEF CInv, KInv, IInv, TypeOK
  <1>7. k \notin D
    BY <1>1 DEF CInv, KInv, IInv, Control
  <1> DEFINE N == NewMapping
  <1>8. /\ N.backendName = TheBackend /\ N.frontendName = f
         /\ N.mappedPort = mappedPort /\ N.clusterIP = svc.clusterIP
         /\ N.servicePort = Port.port /\ k[1] = keys[idx] /\ k[2] = Port.name
    BY DEF NewMapping, TheBackend, MappingKey
  <1> HIDE DEF c, d, N, k
  <1>9. /\ DOMAIN serviceMappings' = D \cup {k} /\ serviceMappings'[k] = N
         /\ \A j \in D : serviceMappings'[j] = serviceMappings[j]
    BY <1>5, <1>7 DEF N
  <1>10. WellNamed'
    BY <1>8, <1>9 DEF CInv, WellNamed, TheBackend
  <1>11. /\ R'.backends = R.backends \cup {TheBackend}
         /\ R'.servers = R.servers \cup {TheServer}
         /\ R'.frontends = R.frontends \cup {TheFrontend}
         /\ R'.binds = R.binds \cup {new}
    <2>1. serviceMappings' = [j \in D \cup {k} |-> IF j = k THEN N
                                                   ELSE serviceMappings[j]]
      BY <1>5 DEF N
    <2>2. R' = Rendered(serviceMappings') /\ R = Rendered(serviceMappings)
      BY DEF R
    <2>3. QED
      BY <1>7, <1>8, <2>1, <2>2, OneMore DEF TheServer, TheFrontend
  <1>12. TxBuilt'
    BY <1>2, <1>3, <1>5, <1>6, <1>11 DEF TxBuilt
  <1>13. /\ pc' \in Loop /\ R.frontends \subseteq R'.frontends
         /\ R.backends \subseteq R'.backends
    BY <1>5, <1>11 DEF Loop
  <1>14. QED
    BY <1>1, <1>5, <1>10, <1>12, <1>13, Creation

-----------------------------------------------------------------------------
(* removeServiceMappingsWithTx and the end of a batch.                     *)

\* Removing a mapping takes its objects out of the transaction, and no others but
\* those of a mapping of the same Service that is removed next.
LEMMA MappingRemoved ==
  ASSUME CInv, Undisturbed, RemoveMapping
  PROVE  CRest'
  <1> DEFINE D == DOMAIN serviceMappings
             c == tx.cfg
  <1>1. PICK k \in toDelete, o1 \in Fates, o2 \in Fates :
          LET m == serviceMappings[k]
          IN  /\ Spend(Cost(o1) + Cost(o2))
              /\ tx' = [tx EXCEPT !.cfg = DeleteObjects(c, m, o1, o2)]
              /\ serviceMappings' = [j \in D \ {k} |-> serviceMappings[j]]
              /\ toDelete' = toDelete \ {k}
    BY DEF RemoveMapping
  <1>2. o1 = "ok" /\ o2 = "ok"
    BY <1>1, NoFault DEF CInv, KInv, IInv
  <1>3. /\ pc = "remove" /\ pc' = "remove"
        /\ UNCHANGED <<keys, idx, config, version>>
    BY DEF RemoveMapping, batchVars, apiVars
  <1>4. /\ toDelete = MappingsOf(keys[idx]) /\ k \in D /\ k[1] = keys[idx]
        /\ c.backends \subseteq R.backends /\ c.servers \subseteq R.servers
        /\ c.frontends = R.frontends /\ c.binds = R.binds
        /\ \A x \in c.servers : x.backend \in c.backends
        /\ \A j \in D \ toDelete : serviceMappings[j].backendName \in c.backends
                                   /\ ServerOf(j) \in c.servers
    BY <1>3 DEF CInv, TxRemoving, MappingsOf
  <1>5. c \in Configs
    BY DEF CInv, KInv, IInv, TypeOK
  <1> DEFINE f == serviceMappings[k].frontendName
             b == serviceMappings[k].backendName
             d == DeleteFrontend(c, f, "ok").cfg
             e == DeleteBackend(d, b, "ok").cfg
  <1>6. /\ d \in Configs /\ d.backends = c.backends /\ d.servers = c.servers
        /\ d.frontends = {x \in c.frontends : x.name # f}
        /\ d.binds = {x \in c.binds : x.frontend # f}
    <2>1. FrontendOf(k) \in c.frontends /\ FrontendOf(k).name = f
      BY <1>4, Objects DEF FrontendOf
    <2>2. HasFrontend(c, f)
      BY <2>1 DEF HasFrontend
    <2>3. d = [c EXCEPT !.frontends = {x \in @ : x.name # f},
                        !.binds = {x \in @ : x.frontend # f}]
      BY <1>5, <2>2, Deletions
    <2>4. d \in Configs
      BY <1>5, DeleteFrontendType
    <2> HIDE DEF f, d, c
    <2>5. QED
      BY <1>5, <2>3, <2>4 DEF Configs
  <1> HIDE DEF d
  <1>7. /\ e.backends = d.backends \ {b}
        /\ e.servers = {x \in d.servers : x.backend # b}
        /\ e.frontends = d.frontends /\ e.binds = d.binds
    <2>1. CASE b \in d.backends
      <3>1. e = [d EXCEPT !.backends = @ \ {b},
                          !.servers = {x \in @ : x.backend # b}]
        BY <1>6, <2>1, Deletions
      <3> HIDE DEF e, b, c
      <3>2. QED
        BY <1>6, <3>1 DEF Configs
    <2>2. CASE b \notin d.backends
      <3>1. e = d
        BY <1>6, <2>2, Deletions
      <3> HIDE DEF e, b, c
      <3>2. \A x \in d.servers : x.backend # b
        BY <1>4, <1>6, <2>2
      <3>3. QED
        BY <2>2, <3>1, <3>2
    <2>3. QED
      BY <2>1, <2>2
  <1>8. tx'.cfg = e /\ tx'.base = tx.base
    BY <1>1, <1>2 DEF DeleteObjects, CInv, KInv, IInv, TypeOK, d
  <1>9. /\ DOMAIN serviceMappings' = D \ {k}
        /\ \A j \in D \ {k} : serviceMappings'[j] = serviceMappings[j]
    BY <1>1
  <1>10. \A j \in D : serviceMappings[j].frontendName = f => j = k
    <2>1. \A j \in D : serviceMappings[j].frontendName = f =>
            serviceMappings[j].mappedPort = serviceMappings[k].mappedPort
      BY <1>4 DEF CInv, WellNamed, FrontendName
    <2>2. QED
      BY <1>4, <2>1 DEF CInv, KInv, IInv, Books, PortsExclusive
  <1>11. \A j \in D : serviceMappings[j].backendName = b => j[1] = k[1]
    BY <1>4 DEF CInv, WellNamed, BackendName
  <1> DEFINE m2 == serviceMappings'
             Q == Rendered(m2)
  <1>12. R' = Q
    BY DEF R
  <1>13. /\ Q.backends = {serviceMappings[j].backendName : j \in D \ {k}}
         /\ Q.servers = {ServerOf(j) : j \in D \ {k}}
         /\ Q.frontends = {FrontendOf(j) : j \in D \ {k}}
         /\ Q.binds = {BindOf(j) : j \in D \ {k}}
    BY <1>9 DEF Rendered, ServerOf, FrontendOf, BindOf
  <1> HIDE DEF Q, m2, e, f, b, c
  <1>14. e.backends \subseteq Q.backends
    BY <1>4, <1>6, <1>7, <1>13, Objects DEF b
  <1>15. e.servers \subseteq Q.servers
    <2>1. \A j \in D : ServerOf(j).backend = serviceMappings[j].backendName
      BY DEF ServerOf
    <2>2. \A x \in e.servers : x \in c.servers /\ x.backend # b
      BY <1>6, <1>7
    <2>3. QED
      BY <1>4, <1>13, <2>1, <2>2, Objects DEF b
  <1>16. e.frontends = Q.frontends
    <2>1. \A j \in D : FrontendOf(j).name = serviceMappings[j].frontendName
      BY DEF FrontendOf
    <2>2. QED
      BY <1>4, <1>6, <1>7, <1>10, <1>13, <2>1, Objects DEF f
  <1>17. e.binds = Q.binds
    <2>1. \A j \in D : BindOf(j).frontend = serviceMappings[j].frontendName
      BY DEF BindOf
    <2>2. QED
      BY <1>4, <1>6, <1>7, <1>10, <1>13, <2>1, Objects DEF f
  <1>18. \A x \in e.servers : x.backend \in e.backends
    BY <1>4, <1>6, <1>7
  <1>19. \A j \in (D \ {k}) \ toDelete' :
           /\ serviceMappings'[j].backendName \in e.backends
           /\ ServerOf(j)' \in e.servers
    <2> SUFFICES ASSUME NEW j \in (D \ {k}) \ toDelete'
                 PROVE  /\ serviceMappings'[j].backendName \in e.backends
                        /\ ServerOf(j)' \in e.servers
      OBVIOUS
    <2>1. j \in D \ toDelete /\ j[1] # k[1]
      BY <1>1, <1>4 DEF MappingsOf
    <2>2. serviceMappings[j].backendName # b
      BY <1>11, <2>1
    <2>3. ServerOf(j)' = ServerOf(j)
      BY <1>9 DEF ServerOf
    <2>4. ServerOf(j).backend = serviceMappings[j].backendName
      BY DEF ServerOf
    <2>5. QED
      BY <1>4, <1>6, <1>7, <1>9, <2>1, <2>2, <2>3, <2>4
  <1>20. toDelete' = MappingsOf(keys[idx])'
    BY <1>1, <1>3, <1>4, <1>9 DEF MappingsOf
  <1>21. TxRemoving'
    BY <1>3, <1>8, <1>9, <1>12, <1>14, <1>15, <1>16, <1>17, <1>18, <1>19, <1>20
       DEF TxRemoving
  <1>22. WellNamed'
    BY <1>9 DEF CInv, WellNamed
  <1>23. TxBase' /\ TxBuilt' /\ Coherent'
    BY <1>3, <1>8 DEF CInv, TxBase, TxBuilt, Coherent, Building, Loop, Creating, AtRest
  <1>24. ConfigKnown'
    <2> SUFFICES ASSUME NEW i \in DOMAIN keys, i > idx
                 PROVE  Known(keys[i])'
      BY <1>3 DEF ConfigKnown
    <2>1. idx \in DOMAIN keys /\ idx \in Nat /\ i \in Nat
      BY <1>3 DEF CInv, KInv, IInv, TypeOK, Control
    <2>2. keys[i] # keys[idx]
      BY <2>1 DEF CInv, KInv, Batch
    <2>3. Known(keys[i])
      BY <1>3, <2>1 DEF CInv, ConfigKnown
    <2>4. ASSUME NEW x \in config.frontends, x.name[2] = keys[i]
          PROVE  x \in Q.frontends
      <3>1. PICK j \in D : x = FrontendOf(j)
        BY <2>3, <2>4, Objects DEF Known
      <3>2. x.name[2] = j[1]
        BY <3>1 DEF CInv, WellNamed, FrontendOf, FrontendName
      <3>3. QED
        BY <1>4, <1>13, <2>2, <2>4, <3>1, <3>2
    <2>5. ASSUME NEW x \in config.backends, x[2] = keys[i]
          PROVE  x \in Q.backends
      <3>1. PICK j \in D : x = serviceMappings[j].backendName
        BY <2>3, <2>5, Objects DEF Known
      <3>2. x[2] = j[1]
        BY <3>1 DEF CInv, WellNamed, BackendName
      <3>3. QED
        BY <1>4, <1>13, <2>2, <2>5, <3>1, <3>2
    <2>6. QED
      BY <1>3, <1>12, <2>4, <2>5 DEF Known
  <1>25. QED
    BY <1>21, <1>22, <1>23, <1>24 DEF CRest

\* When the last mapping is removed the transaction holds the objects of those
\* that are left.
LEMMA RemovalDone ==
  ASSUME CInv, RemoveDone
  PROVE  CRest'
  <1>1. /\ pc = "remove" /\ pc' = "sync" /\ toDelete = {} /\ idx' = idx + 1
        /\ UNCHANGED <<serviceMappings, keys, tx, config, version>>
    BY DEF RemoveDone, memoryVars, txVars, apiVars
  <1>2. R' = R /\ WellNamed'
    BY <1>1, SameObjects DEF CInv
  <1>3. /\ tx.cfg.backends = R.backends /\ tx.cfg.servers = R.servers
        /\ tx.cfg.frontends = R.frontends /\ tx.cfg.binds = R.binds
    <2>1. /\ tx.cfg.backends \subseteq R.backends
          /\ tx.cfg.servers \subseteq R.servers
          /\ tx.cfg.frontends = R.frontends /\ tx.cfg.binds = R.binds
          /\ \A k \in DOMAIN serviceMappings :
               /\ serviceMappings[k].backendName \in tx.cfg.backends
               /\ ServerOf(k) \in tx.cfg.servers
      BY <1>1 DEF CInv, TxRemoving
    <2>2. QED
      BY <2>1, Objects
  <1>4. TxBase' /\ TxBuilt' /\ TxRemoving' /\ Coherent'
    BY <1>1, <1>2, <1>3 DEF CInv, TxBase, TxBuilt, TxRemoving, Coherent, AtRest
  <1>5. ConfigKnown'
    <2>1. \A i \in DOMAIN keys : i >= idx + 1 => i >= idx /\ i > idx
      BY DEF CInv, KInv, IInv, TypeOK
    <2>2. \A i \in DOMAIN keys : i >= idx + 1 => Known(keys[i])
      BY <1>1, <2>1 DEF CInv, ConfigKnown
    <2>3. \A t : Known(t) => Known(t)'
      BY <1>1, <1>2 DEF Known
    <2>4. QED
      BY <1>1, <2>2, <2>3 DEF ConfigKnown
  <1>6. QED
    BY <1>2, <1>4, <1>5 DEF CRest

\* The commit makes the transaction HAProxy's configuration.
LEMMA CoherentFinish ==
  ASSUME CInv, Undisturbed, GiveBackNext \/ BatchGivenBack \/ CommitBatch
  PROVE  CRest'
  <1>1. CASE GiveBackNext \/ BatchGivenBack
    <2>1. /\ pc = "finish" /\ pc' \in {"finish", "commit"} /\ idx' \in Nat
          /\ UNCHANGED <<serviceMappings, keys, tx, config, version>>
      BY <1>1 DEF GiveBackNext, BatchGivenBack, memoryVars, batchVars, txVars,
                  apiVars, CInv, KInv, IInv, TypeOK
    <2>2. QED
      BY <2>1, CoherentQuiet DEF Loop, Creating
  <1>2. CASE CommitBatch
    <2>1. PICK o \in Fates :
            /\ Spend(Cost(o))
            /\ CommitTransaction(version, tx, o) => config' = tx.cfg
      BY <1>2 DEF CommitBatch
    <2>2. pc = "commit" /\ pc' = "idle" /\ UNCHANGED serviceMappings
      BY <1>2 DEF CommitBatch, memoryVars
    <2>3. CommitTransaction(version, tx, o)
      BY <2>1, <2>2, NoFault DEF CInv, KInv, IInv, TxBase, Building, CommitTransaction
    <2>4. tx.cfg \in Configs
      BY DEF CInv, KInv, IInv, TypeOK
    <2>5. tx.cfg = R
      BY <2>2, <2>4, SameConfig DEF CInv, TxBuilt, Building
    <2>6. R' = R /\ WellNamed'
      BY <2>2, SameObjects DEF CInv
    <2>7. config' = Rendered(serviceMappings')
      BY <2>1, <2>3, <2>5, <2>6 DEF R
    <2>8. TxBase' /\ TxBuilt' /\ TxRemoving' /\ ConfigKnown' /\ Coherent'
      BY <2>2, <2>7 DEF TxBase, TxBuilt, TxRemoving, ConfigKnown, Coherent,
                        Building, Loop, Creating
    <2>9. QED
      BY <2>6, <2>8 DEF CRest
  <1>3. QED
    BY <1>1, <1>2

-----------------------------------------------------------------------------
(* The theorem.                                                            *)

\* Every step keeps what the transaction and the configuration hold.
LEMMA CoherentStep ==
  ASSUME CInv, Undisturbed, [Next]_vars
  PROVE  CRest'
  <1>1. CASE ~Worker
    BY <1>1, CoherentAround
  <1>2. CASE Worker
    <2>1. CASE \/ CacheSynced \/ GetFirst \/ GetNext \/ BatchCollected
               \/ ReadVersion \/ TransactionStarted \/ TransactionRefused
      BY <2>1, CoherentBatch
    <2>2. CASE \/ SyncDeleted \/ SyncIgnored \/ SyncPresent \/ SyncDone
               \/ PortsDone \/ SkipPort \/ allocatePort
      BY <2>2, CoherentSync
    <2>3. CASE CreateBackend \/ CreateServer \/ CreateFrontend \/ CreateBind
      BY <2>3, BackendCreated, ServerCreated, FrontendCreated, BindCreated
    <2>4. CASE RemoveMapping \/ RemoveDone
      BY <2>4, MappingRemoved, RemovalDone
    <2>5. CASE GiveBackNext \/ BatchGivenBack \/ CommitBatch
      BY <2>5, CoherentFinish
    <2>6. QED
      BY <1>2, <2>1, <2>2, <2>3, <2>4, <2>5 DEF Worker
  <1>3. QED
    BY <1>1, <1>2

\* The invariant, when nothing disturbs the controller.
LEMMA CoherentInv ==
  ASSUME Undisturbed
  PROVE  Spec => []CInv
  <1>1. Init => CRest
    <2> SUFFICES ASSUME Init PROVE CRest
      OBVIOUS
    <2>1. /\ serviceMappings = <<>> /\ DOMAIN serviceMappings = {} /\ pc = "stopped"
          /\ config = EmptyConfig
      BY DEF Init
    <2>2. Rendered(serviceMappings) = EmptyConfig
      BY <2>1 DEF Rendered, EmptyConfig
    <2>3. QED
      BY <2>1, <2>2 DEF CRest, WellNamed, TxBase, TxBuilt, TxRemoving,
         ConfigKnown, Coherent, Building, Loop, Creating
  <1>2. MaxBatchSize <= 1 \/ Reliable
    BY DEF Undisturbed, Reliable
  <1>3. Spec => []KInv
    BY <1>2, KeysInv
  <1>4. KInv /\ CRest /\ [Next]_vars => CRest'
    BY CoherentStep DEF CInv, CRest
  <1>5. Spec => [](KInv /\ CRest)
    BY <1>1, <1>3, <1>4, PTL DEF Spec
  <1>6. KInv /\ CRest => CInv
    BY DEF CInv, CRest
  <1>7. QED
    BY <1>5, <1>6, PTL

\* Whenever no transaction is open, HAProxy holds exactly the backends, servers,
\* frontends and binds of the recorded mappings: for every history of the
\* Services, every batch, every port range and every port a Service may have, a
\* proxy that createServiceProxy gives up leaves nothing behind and a removal
\* takes nothing of another Service's. (No request fails, no other client commits
\* and the process is not restarted; the runs show what goes wrong otherwise.)
THEOREM ConfigurationIsCoherent ==
  ASSUME MaxFaults = 0, MaxForeign = 0, MaxRestarts = 0
  PROVE  Spec => []Coherent
  <1>1. Undisturbed
    BY DEF Undisturbed
  <1>2. Spec => []CInv
    BY <1>1, CoherentInv
  <1>3. CInv => Coherent
    BY DEF CInv
  <1>4. QED
    BY <1>2, <1>3, PTL

-----------------------------------------------------------------------------
(* No two frontends listen on one port.                                    *)

\* The configuration that the mappings stand for has one frontend per port,
\* because the books on the ports are right.
LEMMA RenderedBinds ==
  ASSUME PortsExclusive, config = Rendered(serviceMappings)
  PROVE  BindsExclusive
  <1> SUFFICES ASSUME NEW x \in config.binds, NEW y \in config.binds,
                      x.port = y.port
               PROVE  x.frontend = y.frontend
    BY DEF BindsExclusive
  <1>1. PICK j \in DOMAIN serviceMappings : x = BindOf(j)
    BY DEF Rendered, BindOf
  <1>2. PICK k \in DOMAIN serviceMappings : y = BindOf(k)
    BY DEF Rendered, BindOf
  <1>3. j = k
    BY <1>1, <1>2 DEF PortsExclusive, BindOf
  <1>4. QED
    BY <1>1, <1>2, <1>3

\* Only a commit changes the configuration, and it ends the batch.
LEMMA ConfigChange ==
  ASSUME [Next]_vars
  PROVE  UNCHANGED config \/ pc' \in AtRest
  <1>1. CASE Informer \/ Handlers \/ Delays \/ UNCHANGED vars
    BY <1>1 DEF Informer, StoreAdd, StoreUpdate, StoreDelete, StoreResync, Store,
       Handlers, handleServiceAdd, handleServiceUpdate, handleServiceDelete, Handled,
       Delays, RetryDelayElapsed, vars, apiVars
  <1>2. CASE ForeignCommit \/ Restart
    BY <1>2 DEF ForeignCommit, Restart, apiVars
  <1>3. CASE \/ CacheSynced \/ GetFirst \/ GetNext \/ BatchCollected \/ ReadVersion
             \/ TransactionStarted \/ TransactionRefused
    BY <1>3 DEF CacheSynced, GetFirst, GetNext, BatchCollected, ReadVersion,
                TransactionStarted, TransactionRefused, apiVars
  <1>4. CASE \/ SyncDeleted \/ SyncIgnored \/ SyncPresent \/ SyncDone
             \/ PortsDone \/ SkipPort \/ allocatePort
    BY <1>4 DEF SyncDeleted, SyncIgnored, SyncPresent, SyncDone, PortsDone,
                SkipPort, allocatePort, apiVars
  <1>5. CASE \/ CreateBackend \/ CreateServer \/ CreateFrontend \/ CreateBind
             \/ RemoveMapping \/ RemoveDone \/ GiveBackNext \/ BatchGivenBack
    BY <1>5 DEF CreateBackend, CreateServer, CreateFrontend, CreateBind, createRest,
                RemoveMapping, RemoveDone, GiveBackNext, BatchGivenBack, apiVars
  <1>6. CASE CommitBatch
    BY <1>6 DEF CommitBatch, AtRest
  <1>7. QED
    BY <1>1, <1>2, <1>3, <1>4, <1>5, <1>6 DEF Next, Worker

\* HAProxy never has two frontends on one port, a batch in progress included:
\* allocatePort, releasePort and the order in which a removal and a creation
\* reach HAProxy keep a freed port from being bound again before its old bind is
\* gone. RestartClash has the counterexample for a process that restarts.
THEOREM BindsAreExclusive ==
  ASSUME MaxFaults = 0, MaxForeign = 0, MaxRestarts = 0
  PROVE  Spec => []BindsExclusive
  <1>1. Spec => []CInv
    BY CoherentInv DEF Undisturbed
  <1>2. Init => BindsExclusive
    BY DEF Init, EmptyConfig, BindsExclusive
  <1>3. CInv /\ pc \in AtRest => BindsExclusive
    BY RenderedBinds DEF CInv, KInv, IInv, Books, Coherent
  <1>4. BindsExclusive /\ [Next]_vars => BindsExclusive' \/ (pc \in AtRest)'
    <2> SUFFICES ASSUME BindsExclusive, UNCHANGED config PROVE BindsExclusive'
      BY ConfigChange
    <2>1. QED
      BY DEF BindsExclusive
  <1>5. QED
    BY <1>1, <1>2, <1>3, <1>4, PTL DEF Spec

-----------------------------------------------------------------------------
(* No frontend is forgotten.                                               *)

\* A committed frontend whose Service is gone is that of a mapping, whose key is
\* pending, or the open transaction has removed it.
LEMMA RemovalsFollow ==
  ASSUME CInv, PInv
  PROVE  RemovalsPending
  <1> SUFFICES ASSUME NEW f \in config.frontends, indexer[f.name[2]] = NoService
               PROVE  \/ Pending(f.name[2])
                      \/ pc = "remove" /\ \E k \in toDelete :
                                            serviceMappings[k].frontendName = f.name
                      \/ pc \notin AtRest /\ f \notin tx.cfg.frontends
    BY DEF RemovalsPending
  <1>1. CASE f \in R.frontends
    <2>1. PICK k \in DOMAIN serviceMappings : f = FrontendOf(k)
      BY <1>1, Objects
    <2>2. f.name = serviceMappings[k].frontendName /\ f.name[2] = k[1]
      BY <2>1 DEF FrontendOf, CInv, WellNamed, FrontendName
    <2>3. Noted(k[1]) \/ (pc = "remove" /\ k \in toDelete)
      BY <2>2 DEF PInv, OrphansNoted
    <2>4. Noted(k[1]) => Pending(k[1])
      BY NothingStranded DEF CInv, KInv
    <2>5. QED
      BY <2>2, <2>3, <2>4
  <1>2. CASE f \notin R.frontends
    <2>1. pc \notin AtRest
      BY <1>2 DEF CInv, Coherent, R
    <2>2. pc \in Building \cup {"remove"}
      BY <2>1 DEF CInv, KInv, IInv, TypeOK, PCs, Building, Loop
    <2>3. pc # "bind" => tx.cfg.frontends = R.frontends
      BY <2>2 DEF CInv, TxBuilt, TxRemoving
    <2>4. CASE pc = "bind"
      <3>1. tx.cfg.frontends = R.frontends \cup {TheFrontend}
        BY <2>4 DEF CInv, TxBuilt, Building, Loop, Creating
      <3>2. ~HasFrontend(config, FrontendName(keys[idx], mappedPort))
        BY <2>4, FrontendIsNew DEF Creating
      <3>3. f # TheFrontend
        BY <3>2 DEF HasFrontend, TheFrontend
      <3>4. QED
        BY <1>2, <2>1, <3>1, <3>3
    <2>5. QED
      BY <1>2, <2>1, <2>3, <2>4
  <1>3. QED
    BY <1>1, <1>2

\* A deletion reaches HAProxy: as long as a committed frontend's Service is gone,
\* its key is going to reach syncService, its mapping is about to be removed, or
\* the open transaction has removed it already. (No request fails, no other client
\* commits and the process is not restarted: a refused commit or a restart leaves
\* the frontend there for good.)
THEOREM RemovalsArePending ==
  ASSUME MaxFaults = 0, MaxForeign = 0, MaxRestarts = 0
  PROVE  Spec => []RemovalsPending
  <1>1. Spec => []CInv
    BY CoherentInv DEF Undisturbed
  <1>2. QED
    BY <1>1, PendingInv, RemovalsFollow, PTL

-----------------------------------------------------------------------------
(* No Service port that has to be mapped is forgotten: the inductive       *)
(* invariant.                                                              *)

AllowedServices == {s \in Services : isNamespaceAllowed(NamespaceOf[s])}

\* --port-name is one name, and every allowed Service can have a port.
EnoughPorts ==
  /\ \E n : TargetPortNames = {n}
  /\ IsFiniteSet(AllowedServices)
  /\ Cardinality(AllowedServices) <= PortRangeEnd - PortRangeStart + 1

\* Only the asked for port of allowed Services is mapped.
OnlyWanted ==
  /\ \A k \in DOMAIN serviceMappings :
       k[1] \in AllowedServices /\ isTargetPortName(k[2])
  /\ pc \in Loop => keys[idx] \in AllowedServices
  /\ pc \in Creating => isTargetPortName(Port.name)

\* The ports of the Service that the worker has gone past are mapped.
PassedMapped ==
  pc \in Loop =>
    \A i \in DOMAIN svc.ports :
      i < portIdx /\ isTargetPortName(svc.ports[i].name) =>
        <<keys[idx], svc.ports[i].name>> \in DOMAIN serviceMappings

\* A wanted Service port without a mapping has its key noted, or is the one the
\* worker is on.
MissingNoted ==
  \A k \in Wanted \ DOMAIN serviceMappings :
    \/ Noted(k[1])
    \/ pc \in Creating \cup {"port"} /\ keys[idx] = k[1]

\* A Service whose mappings are being removed is gone, or its key is noted.
RemovalCurrent ==
  pc = "remove" => indexer[keys[idx]] = NoService \/ Noted(keys[idx])

MInv == /\ CInv /\ PInv /\ OnlyWanted /\ PassedMapped /\ RemovalCurrent
        /\ MissingNoted

-----------------------------------------------------------------------------
(* No proxy fails, and no port is missing.                                 *)

\* There is one mapping per Service at most.
LEMMA OneMapping ==
  ASSUME MInv, EnoughPorts,
         NEW j \in DOMAIN serviceMappings, NEW k \in MappingKeys,
         isTargetPortName(k[2]), j[1] = k[1]
  PROVE  j = k
  <1>1. j \in MappingKeys /\ isTargetPortName(j[2])
    BY DEF MInv, CInv, KInv, IInv, TypeOK, OnlyWanted
  <1>2. j[2] = k[2]
    BY <1>1 DEF EnoughPorts, isTargetPortName
  <1>3. QED
    BY <1>1, <1>2 DEF MappingKeys

\* While the worker is on a port that is not mapped, its Service has no mapping.
LEMMA NoOther ==
  ASSUME MInv, EnoughPorts, pc \in Loop, portIdx <= Len(svc.ports),
         isTargetPortName(Port.name), MappingKey \notin DOMAIN serviceMappings
  PROVE  \A j \in DOMAIN serviceMappings : j[1] # keys[idx]
  <1>1. MappingKey \in MappingKeys
    BY PortType DEF MInv, CInv, KInv, IInv, Loop
  <1>2. MappingKey[1] = keys[idx] /\ MappingKey[2] = Port.name
    BY DEF MappingKey
  <1>3. QED
    BY <1>1, <1>2, OneMapping

\* So its backend is new, in HAProxy and in the transaction.
LEMMA BackendIsNew ==
  ASSUME MInv, EnoughPorts, pc \in Creating
  PROVE  TheBackend \notin R.backends /\ TheBackend \notin config.backends
  <1>1. /\ pc \in Loop /\ pc # "remove" /\ portIdx <= Len(svc.ports)
        /\ isTargetPortName(Port.name) /\ MappingKey \notin DOMAIN serviceMappings
        /\ idx \in DOMAIN keys /\ idx >= idx
    BY DEF MInv, CInv, KInv, IInv, TypeOK, Control, OnlyWanted, Loop, Creating
  <1>2. \A j \in DOMAIN serviceMappings : j[1] # keys[idx]
    BY <1>1, NoOther
  <1>3. TheBackend[2] = keys[idx]
    BY DEF TheBackend, BackendName
  <1>4. \A j \in DOMAIN serviceMappings : serviceMappings[j].backendName[2] = j[1]
    BY DEF MInv, CInv, WellNamed, BackendName
  <1>5. TheBackend \notin R.backends
    BY <1>2, <1>3, <1>4, Objects
  <1>6. Known(keys[idx])
    BY <1>1 DEF MInv, CInv, ConfigKnown
  <1>7. QED
    BY <1>3, <1>5, <1>6 DEF Known

\* The client takes a 404 for a backend that does not exist.
LEMMA BackendNotFound ==
  ASSUME NEW c, NEW b, b \notin c.backends
  PROVE  ~EnsureBackend(c, b, "ok")
  <1> DEFINE S == {0, 200, 201, 202, 204, 409}
             n == 404
  <1>1. n \notin S
    OBVIOUS
  <1>2. handleError("string", n).exist = (n \in S)
    BY DEF handleError
  <1>3. EnsureBackend(c, b, "ok") = handleError("string", n).exist
    BY DEF EnsureBackend, Request
  <1> HIDE DEF S, n
  <1>4. QED
    BY <1>1, <1>2, <1>3, Zenon

\* Every request of createServiceProxy succeeds: the worker goes on to the next
\* object, or records the mapping.
LEMMA NoProxyFails ==
  ASSUME MInv, Undisturbed, EnoughPorts,
         CreateBackend \/ CreateServer \/ CreateFrontend \/ CreateBind
  PROVE  \/ /\ pc' \in Creating
            /\ UNCHANGED <<serviceMappings, portIdx, svc, keys, idx>>
         \/ /\ pc' = "port" /\ portIdx' = portIdx + 1
            /\ DOMAIN serviceMappings' = DOMAIN serviceMappings \cup {MappingKey}
            /\ UNCHANGED <<svc, keys, idx>>
  <1>1. UNCHANGED <<svc, keys, idx>> /\ pc \in Creating
    BY DEF CreateBackend, CreateServer, CreateFrontend, CreateBind, createRest,
           batchVars, Creating
  <1>2. CInv /\ TypeOK
    BY DEF MInv, CInv, KInv, IInv
  <1>3. ASSUME NEW c, NEW next \in {"server", "frontend", "bind"},
               ProxyContinues(c, next)
        PROVE  pc' \in Creating /\ UNCHANGED <<serviceMappings, portIdx>>
    BY <1>3 DEF ProxyContinues, Creating, memoryVars
  <1>4. CASE CreateBackend
    <2> DEFINE b == TheBackend
    <2>1. PICK g \in ReadFates, o \in Fates :
            /\ Spend(Cost(g) + Cost(o))
            /\ Step(IF EnsureBackend(config, b, g)
                    THEN ReplaceBackend(tx.cfg, b, o)
                    ELSE AddBackend(tx.cfg, b, o), "server")
      BY <1>4 DEF CreateBackend, TheBackend
    <2>2. g = "ok" /\ o = "ok"
      BY <1>2, <2>1, NoFault
    <2>3. b \notin R.backends /\ ~EnsureBackend(config, b, "ok")
      BY <1>1, BackendIsNew, BackendNotFound
    <2>4. b \notin tx.cfg.backends
      BY <1>4, <2>3 DEF CreateBackend, MInv, CInv, TxBuilt, Building, Loop, Creating
    <2>5. AddBackend(tx.cfg, b, "ok").err = NoError
      BY <2>4, Answers DEF AddBackend
    <2>6. ProxyContinues(AddBackend(tx.cfg, b, "ok").cfg, "server")
      BY <2>1, <2>2, <2>3, <2>5 DEF Step
    <2>7. QED
      BY <1>1, <1>3, <2>6
  <1>5. CASE CreateServer
    <2> DEFINE b == TheBackend
               n == ServerName(svc.clusterIP, Port.port)
               r == AddServerToBackend(tx.cfg, b, n, n, "ok")
    <2>1. PICK o \in Fates, o2 \in Fates :
            LET q == AddServerToBackend(tx.cfg, b, n, n, o)
            IN  IF SaysExists(q.err)
                THEN Spend(Cost(o) + Cost(o2))
                ELSE Spend(Cost(o)) /\ Step(q, "frontend")
      BY <1>5 DEF CreateServer, TheBackend
    <2>2. o = "ok"
      BY <1>2, <2>1, NoFault
    <2>3. /\ tx.cfg.backends = R.backends \cup {b} /\ tx.cfg.servers = R.servers
      BY <1>5 DEF CreateServer, MInv, CInv, TxBuilt, Building, Loop, Creating
    <2>4. b \notin R.backends
      BY <1>1, BackendIsNew
    <2>5. ~HasServer(tx.cfg, b, n)
      BY <2>3, <2>4, Objects DEF HasServer, ServerOf
    <2>6. r.err = NoError /\ ~SaysExists(r.err)
      BY <2>3, <2>5, Answers DEF AddServerToBackend
    <2>7. ProxyContinues(r.cfg, "frontend")
      BY <2>1, <2>2, <2>6 DEF Step
    <2>8. QED
      BY <1>1, <1>3, <2>7
  <1>6. CASE CreateFrontend
    BY <1>1, <1>2, <1>3, <1>6, FrontendAdded
  <1>7. CASE CreateBind
    BY <1>1, <1>2, <1>7, BindAdded DEF MappingCreated
  <1>8. QED
    BY <1>4, <1>5, <1>6, <1>7

\* The range has a port left for a Service that has no mapping.
LEMMA PortLeft ==
  ASSUME MInv, EnoughPorts, pc = "port", portIdx <= Len(svc.ports),
         isTargetPortName(Port.name), MappingKey \notin DOMAIN serviceMappings
  PROVE  ~(PortRange \subseteq portAllocations)
  <1> SUFFICES ASSUME PortRange \subseteq portAllocations PROVE FALSE
    OBVIOUS
  <1> DEFINE D == DOMAIN serviceMappings
             holder(p) == CHOOSE k \in D : serviceMappings[k].mappedPort = p
             T == AllowedServices \ {keys[idx]}
             f == [p \in PortRange |-> holder(p)[1]]
  <1>1. pc \in Loop /\ mappedPort = 0
    BY DEF MInv, CInv, KInv, IInv, Control, Loop, Creating
  <1>2. PortRange \subseteq MappedPorts
    BY <1>1 DEF MInv, CInv, KInv, IInv, Books, PortsAccounted
  <1>3. \A p \in PortRange :
          holder(p) \in D /\ serviceMappings[holder(p)].mappedPort = p
    BY <1>2 DEF MappedPorts
  <1>4. \A k \in D : /\ k \in MappingKeys /\ k[1] \in AllowedServices
                     /\ isTargetPortName(k[2]) /\ k[1] # keys[idx]
    BY <1>1, NoOther DEF MInv, CInv, KInv, IInv, TypeOK, OnlyWanted
  <1> HIDE DEF holder
  <1>5. f \in [PortRange -> T]
    BY <1>3, <1>4
  <1>6. \A p, q \in PortRange : f[p] = f[q] => p = q
    <2> SUFFICES ASSUME NEW p \in PortRange, NEW q \in PortRange, f[p] = f[q]
                 PROVE  p = q
      OBVIOUS
    <2>1. holder(p) \in D /\ holder(q) \in D /\ holder(p)[1] = holder(q)[1]
      BY <1>3
    <2>2. holder(p) = holder(q)
      BY <1>4, <2>1, OneMapping
    <2>3. QED
      BY <1>3, <2>2
  <1>7. f \in Injection(PortRange, T)
    BY <1>5, <1>6 DEF Injection, IsInjective
  <1>8. keys[idx] \in AllowedServices
    BY <1>1 DEF MInv, OnlyWanted
  <1>9. IsFiniteSet(T) /\ Cardinality(T) = Cardinality(AllowedServices) - 1
    BY <1>8, FS_RemoveElement DEF EnoughPorts
  <1> HIDE DEF f, T
  <1>10. Cardinality(PortRange) <= Cardinality(T)
    BY <1>7, <1>9, FS_Injection
  <1>11. Cardinality(PortRange) = PortRangeEnd - PortRangeStart + 1
    BY FS_Interval, RangeAssumption DEF PortRange
  <1>12. Cardinality(AllowedServices) \in Nat
    BY FS_CardinalityType DEF EnoughPorts
  <1>13. QED
    BY <1>9, <1>10, <1>11, <1>12, RangeAssumption DEF EnoughPorts

-----------------------------------------------------------------------------
(* The steps keep the invariant.                                           *)

\* The loop over the ports is left at its end.
LEMMA LoopLeft ==
  ASSUME [Next]_vars, ~Restart, pc \in Loop, pc' \notin Loop
  PROVE  PortsDone
  <1>1. pc' # pc
    OBVIOUS
  <1>2. Worker
    BY <1>1 DEF Next, Informer, StoreAdd, StoreUpdate, StoreDelete, StoreResync,
       Store, Handlers, handleServiceAdd, handleServiceUpdate, handleServiceDelete,
       Handled, Delays, RetryDelayElapsed, ForeignCommit, vars
  <1>3. ~(CreateBackend \/ CreateServer \/ CreateFrontend \/ CreateBind)
    BY DEF CreateBackend, CreateServer, CreateFrontend, CreateBind, Step,
       ProxyContinues, ProxyFailed, MappingCreated, Loop, Creating
  <1>4. QED
    BY <1>2, <1>3 DEF Worker, CacheSynced, GetFirst, GetNext, BatchCollected,
       ReadVersion, TransactionStarted, TransactionRefused, SyncDeleted,
       SyncIgnored, SyncPresent, SyncDone, SkipPort, allocatePort, RemoveMapping,
       RemoveDone, GiveBackNext, BatchGivenBack, CommitBatch, Loop, Creating

\* A port is chosen by allocatePort, and the worker stays on it while its proxy is
\* created.
LEMMA CreationEntered ==
  ASSUME MInv, [Next]_vars, pc' \in Creating
  PROVE  allocatePort \/ (pc \in Creating /\ UNCHANGED <<svc, portIdx>>)
  <1>1. CASE Informer \/ UNCHANGED vars \/ ForeignCommit
    BY <1>1 DEF Informer, StoreAdd, StoreUpdate, StoreDelete, StoreResync, Store,
       vars, ForeignCommit, serviceVars
  <1>2. CASE Handlers \/ Delays
    BY <1>2 DEF Handlers, Delays, RetryDelayElapsed, handleServiceAdd,
       handleServiceUpdate, handleServiceDelete, Handled, serviceVars
  <1>3. ~\/ CacheSynced \/ GetFirst \/ GetNext \/ BatchCollected \/ ReadVersion
         \/ TransactionStarted \/ TransactionRefused \/ Restart
    BY DEF CacheSynced, GetFirst, GetNext, BatchCollected, ReadVersion,
           TransactionStarted, TransactionRefused, Restart, Forgets, Creating
  <1>4. ~\/ SyncDeleted \/ SyncIgnored \/ SyncPresent \/ SyncDone \/ PortsDone
         \/ SkipPort \/ RemoveMapping \/ RemoveDone
         \/ GiveBackNext \/ BatchGivenBack \/ CommitBatch
    BY DEF SyncDeleted, SyncIgnored, SyncPresent, SyncDone, PortsDone, SkipPort,
           RemoveMapping, RemoveDone, GiveBackNext, BatchGivenBack, CommitBatch,
           Creating
  <1>5. CASE CreateBackend \/ CreateServer \/ CreateFrontend \/ CreateBind
    BY <1>5 DEF CreateBackend, CreateServer, CreateFrontend, CreateBind, Step,
       ProxyContinues, ProxyFailed, MappingCreated, createRest, Creating
  <1>6. QED
    BY <1>1, <1>2, <1>3, <1>4, <1>5 DEF Next, Worker

\* Only asked for ports of allowed Services are mapped.
LEMMA OnlyWantedStep ==
  ASSUME MInv, [Next]_vars
  PROVE  OnlyWanted'
  <1>1. ASSUME NEW k \in DOMAIN serviceMappings'
        PROVE  k[1] \in AllowedServices /\ isTargetPortName(k[2])
    <2>1. CASE k \in DOMAIN serviceMappings
      BY <2>1 DEF MInv, OnlyWanted
    <2>2. CASE k \notin DOMAIN serviceMappings
      <3>1. k = MappingKey /\ pc \in Loop
        BY <2>2, NewKeys
      <3>2. CreateBind
        <4>1. ~Restart
          BY <1>1 DEF Restart, Forgets
        <4>2. ~RemoveMapping
          BY <1>1, <2>2 DEF RemoveMapping
        <4>3. QED
          BY <1>1, <2>2, <4>1, <4>2, MappingsChange
      <3>3. pc \in Creating
        BY <3>2 DEF CreateBind, Creating
      <3>4. QED
        BY <3>1, <3>3 DEF MInv, OnlyWanted, MappingKey
    <2>3. QED
      BY <2>1, <2>2
  <1>2. ASSUME pc' \in Loop PROVE keys'[idx'] \in AllowedServices
    <2>1. CASE SyncPresent
      <3>1. /\ UNCHANGED <<keys, idx>> /\ idx <= Len(keys) /\ idx >= 1
            /\ isNamespaceAllowed(NamespaceOf[keys[idx]])
        BY <2>1 DEF SyncPresent, Proxied, batchVars, MInv, CInv, KInv, IInv, Control
      <3>2. keys[idx] \in Services
        BY <3>1 DEF MInv, CInv, KInv, IInv, TypeOK
      <3>3. QED
        BY <3>1, <3>2 DEF AllowedServices
    <2>2. CASE ~SyncPresent
      BY <1>2, <2>2, LoopEntered DEF MInv, OnlyWanted
    <2>3. QED
      BY <2>1, <2>2
  <1>3. ASSUME pc' \in Creating PROVE isTargetPortName(Port.name)'
    <2>1. CASE allocatePort
      BY <2>1 DEF allocatePort, Port, isTargetPortName
    <2>2. CASE pc \in Creating /\ UNCHANGED <<svc, portIdx>>
      BY <2>2 DEF MInv, OnlyWanted, Port, isTargetPortName
    <2>3. QED
      BY <1>3, <2>1, <2>2, CreationEntered
  <1>4. QED
    BY <1>1, <1>2, <1>3 DEF OnlyWanted, AllowedServices, isNamespaceAllowed,
                            isTargetPortName

\* A port that the worker goes past is mapped.
LEMMA PassedStep ==
  ASSUME MInv, Undisturbed, EnoughPorts, [Next]_vars
  PROVE  PassedMapped'
  <1> SUFFICES ASSUME pc' \in Loop, NEW i \in DOMAIN svc'.ports, i < portIdx',
                      isTargetPortName(svc'.ports[i].name)
               PROVE  <<keys'[idx'], svc'.ports[i].name>> \in DOMAIN serviceMappings'
    BY DEF PassedMapped, isTargetPortName
  <1>1. CASE SyncPresent
    <2>1. svc' \in ServiceObjects /\ portIdx' = 1
      <3>1. idx \in DOMAIN keys
        BY <1>1 DEF SyncPresent, MInv, CInv, KInv, IInv, TypeOK, Control
      <3>2. indexer[keys[idx]] \in ServiceObjects \cup {NoService}
        BY <3>1 DEF MInv, CInv, KInv, IInv, TypeOK
      <3>3. QED
        BY <1>1, <3>2 DEF SyncPresent
    <2>2. svc'.ports \in Seq([name : STRING, port : Nat])
      BY <2>1, ServiceAssumption
    <2>3. QED
      BY <2>1, <2>2
  <1>2. CASE ~SyncPresent
    <2>1. pc \in Loop /\ UNCHANGED <<svc, keys, idx>>
      BY <1>2, LoopEntered
    <2>2. svc \in ServiceObjects /\ portIdx \in Nat
      BY <2>1 DEF MInv, CInv, KInv, IInv, TypeOK, Control, Loop
    <2>3. i \in Nat /\ i \in DOMAIN svc.ports
      <3>1. svc.ports \in Seq([name : STRING, port : Nat])
        BY <2>2, ServiceAssumption
      <3>2. QED
        BY <2>1, <3>1
    <2> DEFINE k == <<keys[idx], svc.ports[i].name>>
    <2>4. i < portIdx => k \in DOMAIN serviceMappings
      BY <2>1, <2>3 DEF MInv, PassedMapped
    <2>5. DOMAIN serviceMappings \subseteq DOMAIN serviceMappings'
      <3>1. ~Restart /\ ~RemoveMapping
        BY DEF Restart, Forgets, RemoveMapping, Loop, Creating
      <3>2. CASE CreateBind
        BY <3>2, NoProxyFails
      <3>3. QED
        BY <3>1, <3>2, MappingsChange
    <2>6. CASE portIdx' = portIdx
      BY <2>1, <2>4, <2>5, <2>6
    <2>7. CASE portIdx' # portIdx
      <3>1. \/ SkipPort
            \/ CreateBackend \/ CreateServer \/ CreateFrontend \/ CreateBind
        <4>1. Worker
          BY <2>7 DEF Next, Informer, StoreAdd, StoreUpdate, StoreDelete,
             StoreResync, Store, Handlers, handleServiceAdd, handleServiceUpdate,
             handleServiceDelete, Handled, Delays, RetryDelayElapsed, ForeignCommit,
             vars, serviceVars, Restart, Forgets, Loop, Creating
        <4>2. QED
          BY <2>1, <2>7, <4>1 DEF Worker, CacheSynced, GetFirst, GetNext,
             BatchCollected, ReadVersion, TransactionStarted, TransactionRefused,
             SyncDeleted, SyncIgnored, SyncPresent, SyncDone, PortsDone,
             allocatePort, RemoveMapping, RemoveDone, GiveBackNext, BatchGivenBack,
             CommitBatch, Loop, Creating
      <3>2. CASE SkipPort
        <4>1. /\ pc = "port" /\ portIdx' = portIdx + 1 /\ portIdx <= Len(svc.ports)
              /\ \/ ~isTargetPortName(Port.name)
                 \/ MappingKey \in DOMAIN serviceMappings
                 \/ PortRange \subseteq portAllocations
          BY <3>2 DEF SkipPort, AlreadyMapped
        <4>2. CASE i = portIdx
          <5>1. isTargetPortName(Port.name) /\ MappingKey = k
            BY <2>1, <4>2 DEF Port, MappingKey
          <5>2. MappingKey \in DOMAIN serviceMappings
            BY <4>1, <5>1, PortLeft
          <5>3. QED
            BY <2>1, <2>5, <5>1, <5>2
        <4>3. CASE i < portIdx
          BY <2>1, <2>4, <2>5, <4>3
        <4>4. QED
          BY <2>2, <2>3, <4>1, <4>2, <4>3
      <3>3. CASE CreateBackend \/ CreateServer \/ CreateFrontend \/ CreateBind
        <4>1. /\ portIdx' = portIdx + 1
              /\ DOMAIN serviceMappings' = DOMAIN serviceMappings \cup {MappingKey}
          BY <2>7, <3>3, NoProxyFails
        <4>2. CASE i = portIdx
          BY <2>1, <4>1, <4>2 DEF Port, MappingKey
        <4>3. CASE i < portIdx
          BY <2>1, <2>4, <2>5, <4>3
        <4>4. QED
          BY <2>2, <2>3, <4>1, <4>2, <4>3
      <3>4. QED
        BY <3>1, <3>2, <3>3
    <2>8. QED
      BY <2>6, <2>7
  <1>3. QED
    BY <1>1, <1>2

\* The worker removes mappings of a Service that it found deleted.
LEMMA RemovalEntered ==
  ASSUME [Next]_vars, pc' = "remove", ~SyncDeleted
  PROVE  pc = "remove" /\ UNCHANGED <<keys, idx>> /\ ~Lookup /\ ~Restart
  <1>1. CASE Informer \/ UNCHANGED vars \/ ForeignCommit
    BY <1>1 DEF Informer, StoreAdd, StoreUpdate, StoreDelete, StoreResync, Store,
       vars, ForeignCommit, batchVars, Lookup, SyncIgnored, SyncPresent, Restart,
       Forgets
  <1>2. CASE Handlers \/ Delays
    BY <1>2 DEF Handlers, Delays, RetryDelayElapsed, handleServiceAdd,
       handleServiceUpdate, handleServiceDelete, Handled, batchVars,
       Lookup, SyncIgnored, SyncPresent, Restart, Forgets
  <1>3. ~Restart /\ ~Lookup
    BY DEF Restart, Forgets, Lookup, SyncIgnored, SyncPresent
  <1>4. CASE Worker
    <2>1. ~(CreateBackend \/ CreateServer \/ CreateFrontend \/ CreateBind)
      BY DEF CreateBackend, CreateServer, CreateFrontend, CreateBind, Step,
         ProxyContinues, ProxyFailed, MappingCreated
    <2>2. RemoveMapping
      BY <1>3, <1>4, <2>1 DEF Worker, CacheSynced, GetFirst, GetNext,
         BatchCollected, ReadVersion, TransactionStarted, TransactionRefused,
         Lookup, SyncDone, PortsDone, SkipPort, allocatePort, RemoveDone,
         GiveBackNext, BatchGivenBack, CommitBatch
    <2>3. QED
      BY <1>3, <2>2 DEF RemoveMapping, batchVars
  <1>5. QED
    BY <1>1, <1>2, <1>3, <1>4 DEF Next

\* It stays deleted, or its key becomes noted.
LEMMA RemovalStep ==
  ASSUME MInv, [Next]_vars
  PROVE  RemovalCurrent'
  <1> SUFFICES ASSUME pc' = "remove"
               PROVE  (indexer[keys[idx]] = NoService \/ Noted(keys[idx]))'
    BY DEF RemovalCurrent
  <1>1. CASE SyncDeleted
    BY <1>1 DEF SyncDeleted, informerVars, batchVars
  <1>2. CASE ~SyncDeleted
    <2>1. pc = "remove" /\ UNCHANGED <<keys, idx>> /\ ~Lookup /\ ~Restart
      BY <1>2, RemovalEntered
    <2>2. PICK s \in Services : s = keys[idx]
      BY <2>1 DEF MInv, CInv, KInv, IInv, TypeOK, Control
    <2>3. s = keys'[idx']
      BY <2>1, <2>2
    <2>4. indexer[s] = NoService \/ Noted(s)
      BY <2>1, <2>2 DEF MInv, RemovalCurrent
    <2>5. Noted(s) => Noted(s)'
      BY <2>1, PendingKept DEF MInv, PInv
    <2>6. indexer'[s] # indexer[s] => Noted(s)'
      BY <2>1, InformerOnly, InformerPending
    <2>7. indexer'[s] = NoService \/ Noted(s)'
      BY <2>4, <2>5, <2>6
    <2>8. QED
      BY <2>3, <2>7 DEF Noted
  <1>3. QED
    BY <1>1, <1>2

\* Which Service ports are wanted depends on the store's content of the Service.
LEMMA WantedBy ==
  ASSUME NEW k
  PROVE  k \in Wanted <=>
           \E s \in Services :
             /\ k[1] = s /\ indexer[s] # NoService /\ Proxied(s, indexer[s])
             /\ \E i \in DOMAIN indexer[s].ports : k = <<s, indexer[s].ports[i].name>>
             /\ isTargetPortName(k[2])
  BY DEF Wanted, WantedPorts

\* A wanted Service port is mapped, noted or being worked on after every step.
LEMMA MissingStep ==
  ASSUME MInv, Undisturbed, [Next]_vars
  PROVE  MissingNoted'
  <1> SUFFICES ASSUME NEW k \in Wanted', k \notin DOMAIN serviceMappings'
               PROVE  \/ Noted(k[1])'
                      \/ pc' \in Loop /\ keys'[idx'] = k[1]
    BY DEF MissingNoted, Loop, Noted
  <1>1. ~Restart
    BY DEF Undisturbed, Restart, MInv, CInv, KInv, IInv, TypeOK
  <1>2. PICK s \in Services :
          /\ k[1] = s /\ indexer'[s] # NoService /\ Proxied(s, indexer'[s])
          /\ \E i \in DOMAIN indexer'[s].ports : k = <<s, indexer'[s].ports[i].name>>
          /\ isTargetPortName(k[2])
    BY DEF Wanted, WantedPorts, Proxied, isTargetPortName
  <1>3. Noted(s) /\ (Lookup => s # keys[idx]) => Noted(s)'
    BY <1>1, PendingKept DEF MInv, PInv
  <1>4. CASE indexer'[s] # indexer[s]
    BY <1>1, <1>2, <1>4, InformerOnly, InformerPending
  <1>5. CASE indexer'[s] = indexer[s]
    <2>1. k \in Wanted
      BY <1>2, <1>5, WantedBy
    <2>2. CASE k \in DOMAIN serviceMappings
      <3>1. RemoveMapping
        <4>1. ~CreateBind
          BY <2>2 DEF CreateBind, MappingCreated, ProxyFailed
        <4>2. QED
          BY <1>1, <2>2, <4>1, MappingsChange
      <3>2. pc = "remove" /\ k \in toDelete /\ ~Lookup
        BY <2>2, <3>1 DEF RemoveMapping, Lookup, SyncDeleted, SyncIgnored, SyncPresent
      <3>3. s = keys[idx]
        BY <1>2, <3>2 DEF MInv, CInv, TxRemoving, MappingsOf
      <3>4. Noted(s)
        BY <1>2, <1>5, <3>2, <3>3 DEF MInv, RemovalCurrent
      <3>5. QED
        BY <1>2, <1>3, <3>2, <3>4
    <2>3. CASE k \notin DOMAIN serviceMappings
      <3>1. Noted(s) \/ (pc \in Loop /\ keys[idx] = s)
        BY <1>2, <2>1, <2>3 DEF MInv, MissingNoted, Loop
      <3>2. CASE Noted(s)
        <4>1. CASE Lookup /\ s = keys[idx]
          BY <1>2, <1>5, <4>1 DEF Lookup, SyncDeleted, SyncIgnored, SyncPresent,
                                  Loop, batchVars
        <4>2. QED
          BY <1>2, <1>3, <3>2, <4>1
      <3>3. CASE ~Noted(s) /\ pc \in Loop /\ keys[idx] = s
        <4>1. svc = indexer[s]
          BY <3>3 DEF MInv, PInv, SvcCurrent, Loop
        <4>2. CASE pc' \in Loop
          <5>1. ~SyncPresent
            BY <3>3 DEF SyncPresent, Loop, Creating
          <5>2. QED
            BY <1>2, <3>3, <4>2, <5>1, LoopEntered
        <4>3. CASE pc' \notin Loop
          <5>1. portIdx > Len(svc.ports)
            BY <1>1, <3>3, <4>3, LoopLeft DEF PortsDone
          <5>2. PICK i \in DOMAIN svc.ports : k = <<s, svc.ports[i].name>>
            BY <1>2, <1>5, <4>1
          <5>3. svc.ports \in Seq([name : STRING, port : Nat]) /\ portIdx \in Nat
            BY <3>3, ServiceAssumption
               DEF MInv, CInv, KInv, IInv, TypeOK, Control, Loop
          <5>4. i < portIdx
            BY <5>1, <5>3
          <5>5. isTargetPortName(svc.ports[i].name)
            BY <1>2, <5>2
          <5>6. QED
            BY <2>3, <3>3, <5>2, <5>4, <5>5 DEF MInv, PassedMapped
        <4>4. QED
          BY <4>2, <4>3
      <3>4. QED
        BY <3>1, <3>2, <3>3
    <2>4. QED
      BY <2>2, <2>3
  <1>6. QED
    BY <1>4, <1>5

\* No Service port that handleServiceAdd, handleServiceUpdate or the initial list
\* reports is ever forgotten: as long as it has no mapping, its key is on its way
\* to syncService or createServiceProxy is about to get to it. This takes one
\* --port-name, a range with a port for each allowed Service, and requests that
\* succeed: the controller does not come back to a port it gave up.
THEOREM MissingArePending ==
  ASSUME MaxFaults = 0, MaxForeign = 0, MaxRestarts = 0, EnoughPorts
  PROVE  Spec => []MissingPending
  <1> DEFINE Rest == OnlyWanted /\ PassedMapped /\ RemovalCurrent /\ MissingNoted
  <1>1. Undisturbed
    BY DEF Undisturbed
  <1>2. Spec => []CInv /\ []PInv
    BY <1>1, CoherentInv, PendingInv
  <1>3. Init => Rest
    BY DEF Init, OnlyWanted, PassedMapped, RemovalCurrent, MissingNoted, Wanted,
           Loop, Creating
  <1>4. CInv /\ PInv /\ Rest /\ [Next]_vars => Rest'
    BY <1>1, OnlyWantedStep, PassedStep, RemovalStep, MissingStep DEF MInv
  <1>5. CInv /\ Rest => MissingPending
    <2> SUFFICES ASSUME CInv, MissingNoted, NEW k \in Wanted \ DOMAIN serviceMappings
                 PROVE  \/ Pending(k[1])
                        \/ pc \in Creating \cup {"port"} /\ keys[idx] = k[1]
      BY DEF MissingPending
    <2>1. \/ Noted(k[1])
          \/ pc \in Creating \cup {"port"} /\ keys[idx] = k[1]
      BY DEF MissingNoted
    <2>2. QED
      BY <2>1, NothingStranded DEF CInv, KInv
  <1>6. QED
    BY <1>2, <1>3, <1>4, <1>5, PTL DEF Spec
==============================================================================
