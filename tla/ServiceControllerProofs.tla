----------------------- MODULE ServiceControllerProofs -----------------------
(***************************************************************************)
(* Proofs about the V2 controller, for every set of Services, port range,  *)
(* batch size and number of faults, foreign changes and restarts.          *)
(***************************************************************************)
EXTENDS ServiceController, TLAPS

-----------------------------------------------------------------------------
(* The work queue keeps its type.                                          *)

QueueType == [queue : Seq(Services), dirty : SUBSET Services,
              processing : SUBSET Services, waiting : SUBSET Services]

\* What Sequences' operators give on a sequence of Service keys.
LEMMA SeqType ==
  ASSUME NEW s \in Seq(Services)
  PROVE  /\ \A k \in Services : Append(s, k) \in Seq(Services)
         /\ s # <<>> => Head(s) \in Services /\ Tail(s) \in Seq(Services)
  OBVIOUS

\* A queue with any other parts of the right types is a queue.
LEMMA QueueParts ==
  ASSUME NEW q \in QueueType, NEW s \in Seq(Services),
         NEW d \in SUBSET Services, NEW p \in SUBSET Services
  PROVE  /\ [q EXCEPT !.dirty = d, !.queue = s] \in QueueType
         /\ [q EXCEPT !.queue = s, !.dirty = d, !.processing = p] \in QueueType
         /\ [q EXCEPT !.processing = p, !.queue = s] \in QueueType
  BY DEF QueueType

\* The types of a queue's parts.
LEMMA QueueFields ==
  ASSUME NEW q \in QueueType
  PROVE  /\ q.queue \in Seq(Services) /\ q.dirty \in SUBSET Services
         /\ q.processing \in SUBSET Services /\ q.waiting \in SUBSET Services
  BY DEF QueueType

\* Adding a Service key to a queue of Service keys gives such a queue.
LEMMA AddType ==
  ASSUME NEW q \in QueueType, NEW k \in Services
  PROVE  Add(q, k) \in QueueType
  <1> DEFINE s == IF k \in q.processing THEN q.queue ELSE Append(q.queue, k)
             d == q.dirty \cup {k}
  <1>1. s \in Seq(Services) /\ d \in SUBSET Services
    BY QueueFields, SeqType
  <1> HIDE DEF s, d
  <1>2. [q EXCEPT !.dirty = d, !.queue = s] \in QueueType
    BY <1>1, QueueParts
  <1>3. QED
    BY <1>2 DEF Add, s, d

\* Taking the head of a non-empty queue gives a queue, and the head is a key.
LEMMA GetType ==
  ASSUME NEW q \in QueueType, q.queue # <<>>
  PROVE  Get(q) \in QueueType /\ Head(q.queue) \in Services
  <1> DEFINE h == Head(q.queue)
             d == q.dirty \ {h}
             p == q.processing \cup {h}
             s == Tail(q.queue)
  <1>1. h \in Services /\ s \in Seq(Services)
    BY QueueFields, SeqType
  <1>2. d \in SUBSET Services /\ p \in SUBSET Services
    BY <1>1, QueueFields
  <1> HIDE DEF s, d, p
  <1>3. [q EXCEPT !.queue = s, !.dirty = d, !.processing = p] \in QueueType
    BY <1>1, <1>2, QueueParts
  <1>4. QED
    BY <1>1, <1>3 DEF Get, s, d, p

\* Giving a key back gives a queue (a key that is queued again was dirty).
LEMMA DoneType ==
  ASSUME NEW q \in QueueType, NEW k
  PROVE  Done(q, k) \in QueueType
  <1> DEFINE p == q.processing \ {k}
             s == IF k \in q.dirty THEN Append(q.queue, k) ELSE q.queue
  <1>1. s \in Seq(Services) /\ p \in SUBSET Services
    BY QueueFields, SeqType
  <1> HIDE DEF s, p
  <1>2. [q EXCEPT !.processing = p, !.queue = s] \in QueueType
    BY <1>1, QueueFields, QueueParts
  <1>3. QED
    BY <1>2 DEF Done, s, p

\* Delaying Service keys gives a queue.
LEMMA AddDelayedType ==
  ASSUME NEW q \in QueueType, NEW ks \in SUBSET Services
  PROVE  AddDelayed(q, ks) \in QueueType
  BY DEF AddDelayed, QueueType

\* The end of a delay gives a queue.
LEMMA DelayElapsedType ==
  ASSUME NEW q \in QueueType, NEW k \in Services
  PROVE  DelayElapsed(q, k) \in QueueType
  <1> DEFINE r == [q EXCEPT !.waiting = @ \ {k}]
  <1>1. r \in QueueType
    BY DEF QueueType
  <1>2. QED
    BY <1>1, AddType DEF DelayElapsed

-----------------------------------------------------------------------------
(* The requests to the Data Plane API keep the type of the configuration.  *)

\* A request leaves one of the two configurations it is given.
LEMMA RequestCfg ==
  ASSUME NEW type, NEW c, NEW code, NEW c2, NEW o
  PROVE  Request(type, c, code, c2, o).cfg \in {c, c2}
  BY DEF Request

\* The operations on backends.
LEMMA BackendType ==
  ASSUME NEW c \in Configs, NEW b \in BackendNames, NEW o
  PROVE  /\ AddBackend(c, b, o).cfg \in Configs
         /\ ReplaceBackend(c, b, o).cfg \in Configs
         /\ DeleteBackend(c, b, o).cfg \in Configs
  <1>1. [c EXCEPT !.backends = @ \cup {b}] \in Configs
    BY DEF Configs
  <1>2. [c EXCEPT !.backends = @ \ {b},
                  !.servers = {s \in @ : s.backend # b}] \in Configs
    BY DEF Configs
  <1>3. QED
    BY <1>1, <1>2, RequestCfg DEF AddBackend, ReplaceBackend, DeleteBackend

\* The operations on servers.
LEMMA ServerType ==
  ASSUME NEW c \in Configs, NEW b \in BackendNames, NEW old,
         NEW n \in ServerNames, NEW o
  PROVE  /\ AddServerToBackend(c, b, n, n, o).cfg \in Configs
         /\ ReplaceServerFromBackend(c, b, old, n, n, o).cfg \in Configs
  <1> DEFINE new == [backend |-> b, name |-> n, addr |-> n]
  <1>1. [c EXCEPT !.servers = @ \cup {new}] \in Configs
    BY DEF Configs
  <1>2. [c EXCEPT !.servers = {s \in @ : ~(s.backend = b /\ s.name = old)}
                                \cup {new}] \in Configs
    BY DEF Configs
  <1>3. AddServerToBackend(c, b, n, n, o).cfg \in Configs
    BY <1>1, RequestCfg DEF AddServerToBackend
  <1>4. ReplaceServerFromBackend(c, b, old, n, n, o).cfg \in Configs
    BY <1>2, RequestCfg DEF ReplaceServerFromBackend
  <1>5. QED
    BY <1>3, <1>4

\* The operations on frontends and binds.
LEMMA FrontendType ==
  ASSUME NEW c \in Configs, NEW f \in FrontendNames, NEW b \in BackendNames,
         NEW n \in BindNames, NEW p \in PortRange, NEW o
  PROVE  /\ AddFrontend(c, f, b, o).cfg \in Configs
         /\ ReplaceFrontend(c, f, b, o).cfg \in Configs
         /\ AddBind(c, f, n, p, o).cfg \in Configs
  <1>1. [c EXCEPT !.frontends = @ \cup {[name |-> f, backend |-> b]}] \in Configs
    BY DEF Configs
  <1>2. [c EXCEPT !.frontends = {x \in @ : x.name # f}
                                  \cup {[name |-> f, backend |-> b]}] \in Configs
    BY DEF Configs
  <1>3. [c EXCEPT !.binds = @ \cup {[frontend |-> f, name |-> n, port |-> p]}]
          \in Configs
    BY DEF Configs
  <1>4. AddFrontend(c, f, b, o).cfg \in Configs
    BY <1>1, RequestCfg DEF AddFrontend
  <1>5. ReplaceFrontend(c, f, b, o).cfg \in Configs
    BY <1>2, RequestCfg DEF ReplaceFrontend
  <1>6. AddBind(c, f, n, p, o).cfg \in Configs
    BY <1>3, RequestCfg DEF AddBind
  <1>7. QED
    BY <1>4, <1>5, <1>6

\* The deletion of a frontend and its binds.
LEMMA DeleteFrontendType ==
  ASSUME NEW c \in Configs, NEW f, NEW o
  PROVE  DeleteFrontend(c, f, o).cfg \in Configs
  <1>1. [c EXCEPT !.frontends = {x \in @ : x.name # f},
                  !.binds = {x \in @ : x.frontend # f}] \in Configs
    BY DEF Configs
  <1>2. QED
    BY <1>1, RequestCfg DEF DeleteFrontend
-----------------------------------------------------------------------------
(* The inductive invariant. The books on the ports are right only because  *)
(* of where the worker is: a port is held apart from the mappings exactly  *)
(* while a proxy is being created, for a key that has no mapping yet, and  *)
(* the mappings about to be removed exist.                                 *)

Control ==
  /\ pc \notin Creating => mappedPort = 0
  /\ pc \in Creating =>
       /\ mappedPort # 0 /\ portIdx <= Len(svc.ports)
       /\ MappingKey \notin DOMAIN serviceMappings
  /\ pc \in Creating \cup {"port"} =>
       svc \in ServiceObjects /\ idx <= Len(keys) /\ idx >= 1 /\ portIdx >= 1
  /\ pc \in {"sync", "remove", "finish"} => idx >= 1
  /\ pc = "remove" => idx <= Len(keys)
  /\ toDelete \subseteq DOMAIN serviceMappings
  /\ pc # "remove" => toDelete = {}

Books == PortsAccounted /\ PortsExclusive

IInv == TypeOK /\ Control /\ Books

\* A step that leaves the controller's memory and the port being set up alone
\* leaves the books alone.
LEMMA BooksUnchanged ==
  ASSUME Books, UNCHANGED <<memoryVars, mappedPort>>
  PROVE  Books'
  BY DEF Books, PortsAccounted, PortsExclusive, MappedPorts, memoryVars

\* The ports of the mappings are ports of the range, and 0 is none of them.
LEMMA MappedPortsType ==
  ASSUME TypeOK
  PROVE  MappedPorts \subseteq PortRange /\ 0 \notin MappedPorts
  <1>1. \A k \in DOMAIN serviceMappings : serviceMappings[k].mappedPort \in PortRange
    BY DEF TypeOK, Mappings
  <1>2. 0 \notin PortRange
    BY RangeAssumption DEF PortRange
  <1>3. QED
    BY <1>1, <1>2 DEF MappedPorts

\* The initial state satisfies the invariant.
LEMMA InitInv == Init => IInv
  <1> SUFFICES ASSUME Init PROVE IInv
    OBVIOUS
  <1>1. EmptyConfig \in Configs
    BY DEF EmptyConfig, Configs
  <1>2. EmptyQueue \in QueueType
    BY DEF EmptyQueue, QueueType
  <1>3. TypeOK
    BY <1>1, <1>2 DEF Init, TypeOK, QueueType, NoTx, PCs, AtRest
  <1>4. Control
    BY DEF Init, Control, Creating
  <1>5. Books
    BY DEF Init, Books, PortsAccounted, PortsExclusive, MappedPorts
  <1>6. QED
    BY <1>3, <1>4, <1>5 DEF IInv

\* A bound is used up by one.
SpentType == [changes : Nat, faults : Nat, foreign : Nat, restarts : Nat]

LEMMA CountType ==
  ASSUME NEW u \in SpentType
  PROVE  /\ [u EXCEPT !.changes = @ + 1] \in SpentType
         /\ [u EXCEPT !.foreign = @ + 1] \in SpentType
         /\ [u EXCEPT !.restarts = @ + 1] \in SpentType
  <1>1. u.changes + 1 \in Nat /\ u.foreign + 1 \in Nat /\ u.restarts + 1 \in Nat
    BY DEF SpentType
  <1>2. \A n \in Nat : /\ [u EXCEPT !.changes = n] \in SpentType
                       /\ [u EXCEPT !.foreign = n] \in SpentType
                       /\ [u EXCEPT !.restarts = n] \in SpentType
    BY DEF SpentType
  <1>3. QED
    BY <1>1, <1>2

\* The informer changes the store, announces an event and touches nothing else.
LEMMA InformerStep == IInv /\ Informer => IInv'
  <1> SUFFICES ASSUME IInv, Informer PROVE IInv'
    OBVIOUS
  <1> DEFINE Notices == [type : {"add", "update", "delete"}, key : Services,
                         sameVersion : BOOLEAN]
  <1>1. UNCHANGED <<wq, memoryVars, pc, batchVars, serviceVars, txVars, apiVars>>
    BY DEF Informer, StoreAdd, StoreUpdate, StoreDelete, StoreResync, Store
  <1>2. ASSUME NEW t \in {"add", "update", "delete"}, NEW s \in Services,
               NEW b \in BOOLEAN
        PROVE  {[type |-> t, key |-> s, sameVersion |-> b]} \subseteq Notices
    OBVIOUS
  <1>3. ASSUME NEW s \in Services, NEW o \in ServiceObjects \cup {NoService},
               NEW t \in {"add", "update", "delete"}, Store(s, o, t)
        PROVE  /\ indexer' \in [Services -> ServiceObjects \cup {NoService}]
               /\ notice' \subseteq Notices
               /\ spent' \in [changes : Nat, faults : Nat, foreign : Nat,
                              restarts : Nat]
    <2>1. indexer' \in [Services -> ServiceObjects \cup {NoService}]
      BY <1>3 DEF IInv, TypeOK, Store
    <2>2. notice' \subseteq Notices
      <3> HIDE DEF Notices
      <3>1. QED
        BY <1>2, <1>3 DEF Store
    <2>3. spent' \in [changes : Nat, faults : Nat, foreign : Nat, restarts : Nat]
      <3>1. spent \in SpentType /\ spent' = [spent EXCEPT !.changes = @ + 1]
        BY <1>3 DEF IInv, TypeOK, Store, SpentType
      <3>2. QED
        BY <3>1, CountType DEF SpentType
    <2>4. QED
      BY <2>1, <2>2, <2>3
  <1>4. /\ indexer' \in [Services -> ServiceObjects \cup {NoService}]
        /\ notice' \subseteq Notices
        /\ spent' \in [changes : Nat, faults : Nat, foreign : Nat, restarts : Nat]
    <2> PICK s \in Services :
          StoreAdd(s) \/ StoreUpdate(s) \/ StoreDelete(s) \/ StoreResync(s)
      BY DEF Informer
    <2> HIDE DEF Notices
    <2>1. CASE StoreAdd(s) \/ StoreUpdate(s) \/ StoreDelete(s)
      BY <1>3, <2>1 DEF StoreAdd, StoreUpdate, StoreDelete
    <2>2. CASE StoreResync(s)
      BY <1>2, <2>2 DEF StoreResync, IInv, TypeOK
    <2>3. QED
      BY <2>1, <2>2
  <1>5. TypeOK'
    BY <1>1, <1>4 DEF IInv, TypeOK, memoryVars, batchVars, serviceVars, txVars,
                      apiVars
  <1>6. Control'
    BY <1>1 DEF IInv, Control, MappingKey, Port, memoryVars, batchVars, serviceVars
  <1>7. QED
    BY <1>1, <1>5, <1>6, BooksUnchanged DEF IInv, serviceVars

\* A handler, and the end of a delay, only add a key to the queue.
LEMMA QueueStep == IInv /\ (Handlers \/ Delays) => IInv'
  <1> SUFFICES ASSUME IInv, Handlers \/ Delays PROVE IInv'
    OBVIOUS
  <1>1. /\ UNCHANGED <<indexer, memoryVars, pc, batchVars, serviceVars, txVars,
                       apiVars, spent>>
        /\ notice' \subseteq notice
    BY DEF Handlers, Delays, RetryDelayElapsed, handleServiceAdd, informerVars,
           handleServiceUpdate, handleServiceDelete, Handled
  <1>2. wq \in QueueType
    BY DEF IInv, TypeOK, QueueType
  <1>3. wq' \in QueueType
    <2>1. CASE Handlers
      BY <1>2, <2>1, AddType DEF IInv, TypeOK, Handlers, handleServiceAdd,
         handleServiceUpdate, handleServiceDelete
    <2>2. CASE Delays
      BY <1>2, <2>2, DelayElapsedType DEF Delays, RetryDelayElapsed
    <2>3. QED
      BY <2>1, <2>2
  <1>4. TypeOK'
    BY <1>1, <1>3 DEF IInv, TypeOK, QueueType, memoryVars, batchVars, serviceVars,
                      txVars, apiVars
  <1>5. Control'
    BY <1>1 DEF IInv, Control, MappingKey, Port, memoryVars, batchVars, serviceVars
  <1>6. QED
    BY <1>1, <1>4, <1>5, BooksUnchanged DEF IInv, serviceVars

\* Another client moves the version, and changes nothing of the controller's.
LEMMA OtherClient ==
  ASSUME IInv, version' \in Nat, spent' \in SpentType, UNCHANGED config,
         UNCHANGED <<informerVars, wq, memoryVars, pc, batchVars, serviceVars, txVars>>
  PROVE  IInv'
  <1>1. TypeOK'
    BY DEF IInv, TypeOK, informerVars, memoryVars, batchVars, serviceVars, txVars,
           SpentType
  <1>2. Control'
    BY DEF IInv, Control, MappingKey, Port, memoryVars, batchVars, serviceVars
  <1>3. QED
    BY <1>1, <1>2, BooksUnchanged DEF IInv, serviceVars

\* The memory is emptied.
LEMMA Forgotten ==
  ASSUME IInv, Forgets, version' \in Nat, spent' \in SpentType, UNCHANGED config
  PROVE  IInv'
  <1>1. EmptyConfig \in Configs
    BY DEF EmptyConfig, Configs
  <1>2. EmptyQueue \in QueueType
    BY DEF EmptyQueue, QueueType
  <1>3. TypeOK'
    <2>1. config' \in Configs
      BY DEF IInv, TypeOK
    <2>2. QED
      BY <1>1, <1>2, <2>1
      DEF TypeOK, Forgets, QueueType, NoTx, PCs, AtRest, SpentType
  <1>4. Control'
    BY DEF Forgets, Control, Creating
  <1>5. Books'
    BY DEF Forgets, Books, PortsAccounted, PortsExclusive, MappedPorts
  <1>6. QED
    BY <1>3, <1>4, <1>5 DEF IInv

\* Another client's commit and a restart.
LEMMA AroundStep == IInv /\ (ForeignCommit \/ Restart) => IInv'
  <1> SUFFICES ASSUME IInv, ForeignCommit \/ Restart PROVE IInv'
    OBVIOUS
  <1>0. spent \in SpentType /\ version \in Nat
    BY DEF IInv, TypeOK, SpentType
  <1>1. CASE ForeignCommit
    <2>1. spent' \in SpentType
      BY <1>0, <1>1, CountType DEF ForeignCommit
    <2>2. /\ version' \in Nat /\ UNCHANGED config
          /\ UNCHANGED <<informerVars, wq, memoryVars, pc, batchVars, serviceVars,
                         txVars>>
      BY <1>0, <1>1 DEF ForeignCommit
    <2>3. QED
      BY <2>1, <2>2, OtherClient
  <1>2. CASE Restart
    <2>1. spent' \in SpentType
      BY <1>0, <1>2, CountType DEF Restart
    <2>2. Forgets /\ version' \in Nat /\ UNCHANGED config
      BY <1>0, <1>2 DEF Restart, apiVars
    <2>3. QED
      BY <2>1, <2>2, Forgotten
  <1>3. QED
    BY <1>1, <1>2

-----------------------------------------------------------------------------
(* The worker's steps, in the order of the code.                           *)

\* The fate of a request is charged to a counter that stays a number.
LEMMA SpendType ==
  ASSUME TypeOK, NEW n \in Nat, Spend(n)
  PROVE  spent' \in [changes : Nat, faults : Nat, foreign : Nat, restarts : Nat]
  <1> DEFINE f == spent.faults + n
  <1>1. f \in Nat
    BY DEF TypeOK
  <1>2. spent' = [spent EXCEPT !.faults = f]
    BY DEF Spend
  <1> HIDE DEF f
  <1>3. QED
    BY <1>1, <1>2 DEF TypeOK

\* Taking a batch and opening its transaction.
LEMMA BatchStep ==
  IInv /\ (\/ CacheSynced \/ GetFirst \/ GetNext \/ BatchCollected \/ ReadVersion
           \/ TransactionStarted \/ TransactionRefused) => IInv'
  <1> SUFFICES ASSUME IInv PROVE
        (\/ CacheSynced \/ GetFirst \/ GetNext \/ BatchCollected \/ ReadVersion
         \/ TransactionStarted \/ TransactionRefused) => IInv'
    OBVIOUS
  <1> USE DEF IInv
  <1>q. wq \in QueueType
    BY DEF TypeOK, QueueType
  <1>1. CASE CacheSynced
    <2>1. TypeOK'
      BY <1>1 DEF TypeOK, CacheSynced, PCs, AtRest, informerVars, memoryVars,
                  batchVars, serviceVars, txVars, apiVars
    <2>2. Control'
      BY <1>1 DEF Control, CacheSynced, Creating, memoryVars, batchVars, serviceVars
    <2>3. QED
      BY <1>1, <2>1, <2>2, BooksUnchanged DEF CacheSynced, serviceVars
  <1>2. CASE GetFirst
    <2>1. wq' \in QueueType /\ keys' \in Seq(Services)
      BY <1>2, <1>q, GetType DEF GetFirst
    <2>2. TypeOK'
      BY <1>2, <2>1 DEF TypeOK, GetFirst, QueueType, PCs, AtRest, informerVars,
                        memoryVars, serviceVars, txVars, apiVars
    <2>3. Control'
      BY <1>2 DEF Control, GetFirst, Creating, memoryVars, serviceVars
    <2>4. QED
      BY <1>2, <2>2, <2>3, BooksUnchanged DEF GetFirst, serviceVars
  <1>3. CASE GetNext
    <2>1. wq' \in QueueType /\ Head(wq.queue) \in Services
      BY <1>3, <1>q, GetType DEF GetNext, BatchOpen
    <2>2. keys' \in Seq(Services)
      BY <1>3, <2>1, SeqType DEF TypeOK, GetNext
    <2>3. TypeOK'
      BY <1>3, <2>1, <2>2 DEF TypeOK, GetNext, QueueType, informerVars, memoryVars,
                              serviceVars, txVars, apiVars
    <2>4. Control'
      BY <1>3 DEF Control, GetNext, Creating, memoryVars, serviceVars
    <2>5. QED
      BY <1>3, <2>3, <2>4, BooksUnchanged DEF GetNext, serviceVars
  <1>4. CASE BatchCollected
    <2>1. TypeOK'
      BY <1>4 DEF TypeOK, BatchCollected, PCs, AtRest, informerVars, memoryVars,
                  batchVars, serviceVars, txVars, apiVars
    <2>2. Control'
      BY <1>4 DEF Control, BatchCollected, Creating, memoryVars, batchVars,
                  serviceVars
    <2>3. QED
      BY <1>4, <2>1, <2>2, BooksUnchanged DEF BatchCollected, serviceVars
  <1>5. CASE ReadVersion
    <2>1. /\ spent' \in [changes : Nat, faults : Nat, foreign : Nat, restarts : Nat]
          /\ seenVersion' \in Nat \cup {-1}
      BY <1>5, SpendType DEF ReadVersion, Cost, getVersion, TypeOK
    <2>2. TypeOK'
      BY <1>5, <2>1 DEF TypeOK, ReadVersion, PCs, AtRest, informerVars, memoryVars,
                        batchVars, serviceVars, apiVars
    <2>3. Control'
      BY <1>5 DEF Control, ReadVersion, Creating, memoryVars, batchVars, serviceVars
    <2>4. QED
      BY <1>5, <2>2, <2>3, BooksUnchanged DEF ReadVersion, serviceVars
  <1>6. CASE TransactionStarted
    <2>1. TypeOK'
      BY <1>6 DEF TypeOK, TransactionStarted, PCs, informerVars, memoryVars,
                  serviceVars, apiVars
    <2>2. Control'
      BY <1>6 DEF Control, TransactionStarted, Creating, memoryVars, serviceVars
    <2>3. QED
      BY <1>6, <2>1, <2>2, BooksUnchanged DEF TransactionStarted, serviceVars
  <1>7. CASE TransactionRefused
    <2>1. KeySet \in SUBSET Services
      BY DEF TypeOK, KeySet
    <2>2. wq' \in QueueType
      BY <1>7, <1>q, <2>1, AddDelayedType, DoneType DEF TransactionRefused, GiveBack
    <2>3. spent' \in [changes : Nat, faults : Nat, foreign : Nat, restarts : Nat]
      BY <1>7, SpendType DEF TransactionRefused, Cost
    <2>4. TypeOK'
      <3>1. /\ pc' = "idle" /\ keys' = <<>> /\ idx' = 0 /\ seenVersion' = -1
            /\ UNCHANGED <<informerVars, memoryVars, serviceVars, tx, apiVars>>
        BY <1>7 DEF TransactionRefused
      <3>2. /\ pc' \in PCs /\ keys' \in Seq(Services) /\ idx' \in Nat
            /\ seenVersion' \in Nat \cup {-1}
        BY <3>1 DEF PCs, AtRest
      <3>3. QED
        BY <2>2, <2>3, <3>1, <3>2
        DEF TypeOK, QueueType, informerVars, memoryVars, serviceVars, apiVars
    <2>5. Control'
      BY <1>7 DEF Control, TransactionRefused, Creating, memoryVars, serviceVars
    <2>6. QED
      BY <1>7, <2>4, <2>5, BooksUnchanged DEF TransactionRefused, serviceVars
  <1>8. QED
    BY <1>1, <1>2, <1>3, <1>4, <1>5, <1>6, <1>7

\* Looking a key up in the store.
LEMMA SyncStep ==
  IInv /\ (SyncDeleted \/ SyncIgnored \/ SyncPresent \/ SyncDone) => IInv'
  <1> SUFFICES ASSUME IInv PROVE
        (SyncDeleted \/ SyncIgnored \/ SyncPresent \/ SyncDone) => IInv'
    OBVIOUS
  <1> USE DEF IInv
  <1>1. CASE SyncDeleted
    <2>1. TypeOK'
      BY <1>1 DEF TypeOK, SyncDeleted, MappingsOf, PCs, informerVars, memoryVars,
                  batchVars, txVars, apiVars
    <2>2. Control'
      BY <1>1 DEF Control, SyncDeleted, MappingsOf, Creating, memoryVars, batchVars
    <2>3. QED
      BY <1>1, <2>1, <2>2, BooksUnchanged DEF SyncDeleted
  <1>2. CASE SyncIgnored
    <2>1. TypeOK'
      BY <1>2 DEF TypeOK, SyncIgnored, informerVars, memoryVars, serviceVars,
                  txVars, apiVars
    <2>2. Control'
      BY <1>2 DEF Control, TypeOK, SyncIgnored, Creating, memoryVars, serviceVars
    <2>3. QED
      BY <1>2, <2>1, <2>2, BooksUnchanged DEF SyncIgnored, serviceVars
  <1>3. CASE SyncPresent
    <2>1. keys[idx] \in Services
      BY <1>3 DEF TypeOK, Control, SyncPresent
    <2>2. svc' \in ServiceObjects
      BY <1>3, <2>1 DEF TypeOK, SyncPresent
    <2>3. TypeOK'
      BY <1>3, <2>2 DEF TypeOK, SyncPresent, PCs, informerVars, memoryVars,
                        batchVars, txVars, apiVars
    <2>4. Control'
      BY <1>3, <2>2 DEF Control, SyncPresent, Creating, memoryVars, batchVars
    <2>5. QED
      BY <1>3, <2>3, <2>4, BooksUnchanged DEF SyncPresent
  <1>4. CASE SyncDone
    <2>1. TypeOK'
      BY <1>4 DEF TypeOK, SyncDone, PCs, informerVars, memoryVars, serviceVars,
                  txVars, apiVars
    <2>2. Control'
      BY <1>4 DEF Control, SyncDone, Creating, memoryVars, serviceVars
    <2>3. QED
      BY <1>4, <2>1, <2>2, BooksUnchanged DEF SyncDone, serviceVars
  <1>5. QED
    BY <1>1, <1>2, <1>3, <1>4

\* The elements of a sequence over a set.
LEMMA SeqElement ==
  ASSUME NEW S, NEW s \in Seq(S), NEW i \in DOMAIN s
  PROVE  s[i] \in S
  OBVIOUS

\* The Service port the worker is on, and the names made from it, have their
\* types while the worker is in the loop over the ports.
LEMMA PortType ==
  ASSUME TypeOK, Control, pc \in Creating \cup {"port"}, portIdx <= Len(svc.ports)
  PROVE  /\ keys[idx] \in Services /\ svc.clusterIP \in STRING
         /\ Port.port \in Nat /\ Port.name \in STRING /\ Port.name \in PortNames
         /\ MappingKey \in MappingKeys
         /\ BackendName(keys[idx], Port.port) \in BackendNames
         /\ BindName(keys[idx], Port.name) \in BindNames
         /\ ServerName(svc.clusterIP, Port.port) \in ServerNames
  <1>1. svc \in ServiceObjects /\ portIdx \in DOMAIN svc.ports
    BY ServiceAssumption DEF TypeOK, Control
  <1>2. svc \in [clusterIP : STRING, ports : Seq([name : STRING, port : Nat])]
    BY <1>1, ServiceAssumption
  <1>3. svc.clusterIP \in STRING /\ svc.ports \in Seq([name : STRING, port : Nat])
    BY <1>2
  <1>4. Port \in [name : STRING, port : Nat]
    BY <1>1, <1>3, SeqElement DEF Port
  <1>5. Port.port \in Nat /\ Port.name \in STRING
    BY <1>4
  <1>6. Port.name \in PortNames
    BY <1>1 DEF Port, PortNames
  <1>7. keys[idx] \in Services
    BY DEF TypeOK, Control
  <1>8. QED
    BY <1>3, <1>5, <1>6, <1>7
       DEF MappingKey, MappingKeys, BackendName, BindName, ServerName,
           BackendNames, BindNames, ServerNames

\* The loop over the ports, and the allocation of a port.
LEMMA LoopStep == IInv /\ (PortsDone \/ SkipPort \/ allocatePort) => IInv'
  <1> SUFFICES ASSUME IInv PROVE (PortsDone \/ SkipPort \/ allocatePort) => IInv'
    OBVIOUS
  <1> USE DEF IInv
  <1>1. CASE PortsDone
    <2>1. TypeOK'
      BY <1>1 DEF TypeOK, PortsDone, PCs, informerVars, memoryVars, txVars, apiVars
    <2>2. Control'
      BY <1>1 DEF TypeOK, Control, PortsDone, Creating, memoryVars
    <2>3. QED
      BY <1>1, <2>1, <2>2, BooksUnchanged DEF PortsDone
  <1>2. CASE SkipPort
    <2>1. TypeOK'
      BY <1>2 DEF TypeOK, SkipPort, informerVars, memoryVars, batchVars, txVars,
                  apiVars
    <2>2. Control'
      BY <1>2 DEF TypeOK, Control, SkipPort, Creating, memoryVars, batchVars
    <2>3. QED
      BY <1>2, <2>1, <2>2, BooksUnchanged DEF SkipPort
  <1>3. CASE allocatePort
    <2>1. PICK p \in PortRange \ portAllocations :
            mappedPort' = p /\ portAllocations' = portAllocations \cup {p}
      BY <1>3 DEF allocatePort, FirstFree
    <2>2. p # 0
      BY RangeAssumption DEF PortRange
    <2>3. TypeOK'
      BY <1>3, <2>1 DEF TypeOK, allocatePort, PortRange, PCs, Creating,
                        informerVars, batchVars, txVars, apiVars
    <2>4. Control'
      BY <1>3, <2>1, <2>2 DEF Control, allocatePort, AlreadyMapped, MappingKey,
                              Port, Creating, batchVars
    <2>5. Books'
      BY <1>3, <2>1, <2>2 DEF Control, Creating, Books, PortsAccounted,
         PortsExclusive, MappedPorts, allocatePort
    <2>6. QED
      BY <2>3, <2>4, <2>5
  <1>4. QED
    BY <1>1, <1>2, <1>3

\* The transaction with another configuration.
LEMMA TxCfgType ==
  ASSUME TypeOK, NEW cfg \in Configs
  PROVE  [tx EXCEPT !.cfg = cfg] \in [base : Nat \cup {-1}, cfg : Configs]
  BY DEF TypeOK

\* A proxy that cannot be created gives its port back: the port was not that of
\* any mapping, so the books stay right.
LEMMA FailedStep ==
  ASSUME IInv, pc \in Creating, NEW cfg \in Configs, ProxyFailed(cfg), createRest,
         spent' \in [changes : Nat, faults : Nat, foreign : Nat, restarts : Nat]
  PROVE  IInv'
  <1> USE DEF IInv
  <1>1. TypeOK'
    <2>1. tx' \in [base : Nat \cup {-1}, cfg : Configs]
      BY TxCfgType DEF ProxyFailed
    <2>2. portAllocations' \subseteq PortRangeStart..PortRangeEnd
      BY DEF TypeOK, ProxyFailed, releasePort
    <2>3. /\ mappedPort' \in PortRange \cup {0} /\ pc' \in PCs /\ portIdx' \in Nat
          /\ UNCHANGED serviceMappings
      BY DEF TypeOK, ProxyFailed, PCs
    <2>4. QED
      BY <2>1, <2>2, <2>3 DEF TypeOK, createRest, informerVars, batchVars, apiVars
  <1>2. Control'
    BY DEF TypeOK, Control, ProxyFailed, createRest, Creating, batchVars
  <1>3. Books'
    <2>1. MappedPorts' = MappedPorts /\ mappedPort' = 0
      BY DEF MappedPorts, ProxyFailed
    <2>2. mappedPort # 0 /\ 0 \notin MappedPorts
      BY MappedPortsType DEF Control
    <2>3. PortsAccounted'
      BY <2>1, <2>2 DEF Books, PortsAccounted, PortsExclusive, ProxyFailed,
                        releasePort
    <2>4. PortsExclusive'
      BY <2>1, <2>2 DEF Books, PortsExclusive, ProxyFailed
    <2>5. QED
      BY <2>3, <2>4 DEF Books
  <1>4. QED
    BY <1>1, <1>2, <1>3

\* A proxy that is not finished yet changes the transaction alone.
LEMMA ContinuesStep ==
  ASSUME IInv, pc \in Creating, NEW cfg \in Configs, NEW next \in Creating,
         ProxyContinues(cfg, next), createRest,
         spent' \in [changes : Nat, faults : Nat, foreign : Nat, restarts : Nat]
  PROVE  IInv'
  <1> USE DEF IInv
  <1>1. TypeOK'
    <2>1. tx' \in [base : Nat \cup {-1}, cfg : Configs]
      BY TxCfgType DEF ProxyContinues
    <2>2. pc' = next /\ UNCHANGED <<memoryVars, mappedPort, portIdx>>
      BY DEF ProxyContinues
    <2>3. QED
      BY <2>1, <2>2 DEF TypeOK, createRest, PCs, informerVars, memoryVars,
                        batchVars, apiVars
  <1>2. Control'
    BY DEF Control, ProxyContinues, createRest, Creating, MappingKey, Port,
           memoryVars, batchVars
  <1>3. QED
    BY <1>1, <1>2, BooksUnchanged DEF ProxyContinues

\* Either way the outcome of a request leads to.
LEMMA OutcomeStep ==
  ASSUME IInv, pc \in Creating, NEW r, r.cfg \in Configs, NEW next \in Creating,
         Step(r, next), createRest,
         spent' \in [changes : Nat, faults : Nat, foreign : Nat, restarts : Nat]
  PROVE  IInv'
  BY FailedStep, ContinuesStep DEF Step

\* The mapping is recorded under a key that had none, with the port being set up:
\* the port moves from one side of the books to the other.
LEMMA CreatedStep ==
  ASSUME IInv, pc \in Creating, NEW cfg \in Configs, MappingCreated(cfg),
         createRest,
         spent' \in [changes : Nat, faults : Nat, foreign : Nat, restarts : Nat]
  PROVE  IInv'
  <1> USE DEF IInv
  <1> DEFINE k == MappingKey
             D == DOMAIN serviceMappings
             n == NewMapping
  <1>1. k \in MappingKeys /\ k \notin D
    BY PortType DEF Control
  <1>2. mappedPort \in PortRange /\ mappedPort # 0
    BY DEF TypeOK, Control
  <1>3. n \in Mappings /\ n.mappedPort = mappedPort
    <2>1. FrontendName(keys[idx], mappedPort) \in FrontendNames
      BY <1>2, PortType DEF Control, FrontendName, FrontendNames
    <2>2. QED
      BY <1>2, <2>1, PortType DEF Control, NewMapping, Mappings
  <1> HIDE DEF k, n
  <1>4. /\ DOMAIN serviceMappings' = D \cup {k}
        /\ \A j \in D : serviceMappings'[j] = serviceMappings[j]
        /\ serviceMappings'[k] = n
        /\ serviceMappings' \in [D \cup {k} -> Mappings]
    <2>1. serviceMappings' = [j \in D \cup {k} |-> IF j = k THEN n
                                                   ELSE serviceMappings[j]]
      BY DEF MappingCreated, k, n
    <2>2. serviceMappings \in [D -> Mappings]
      BY DEF TypeOK
    <2>3. QED
      BY <1>1, <1>3, <2>1, <2>2
  <1>5. TypeOK'
    <2>1. tx' \in [base : Nat \cup {-1}, cfg : Configs]
      BY TxCfgType DEF MappingCreated
    <2>2. /\ DOMAIN serviceMappings' \subseteq MappingKeys
          /\ serviceMappings' \in [DOMAIN serviceMappings' -> Mappings]
      <3>1. D \subseteq MappingKeys
        BY DEF TypeOK
      <3>2. QED
        BY <1>1, <1>4, <3>1
    <2>3. /\ mappedPort' \in PortRange \cup {0} /\ pc' \in PCs /\ portIdx' \in Nat
          /\ UNCHANGED portAllocations
      BY DEF TypeOK, MappingCreated, PCs
    <2>4. QED
      BY <2>1, <2>2, <2>3 DEF TypeOK, createRest, informerVars, batchVars, apiVars
  <1>6. Control'
    BY <1>4 DEF TypeOK, Control, MappingCreated, createRest, Creating, batchVars
  <1>7. MappedPorts' = MappedPorts \cup {mappedPort}
    <2>1. MappedPorts' = {serviceMappings'[j].mappedPort : j \in D \cup {k}}
      BY <1>4 DEF MappedPorts
    <2>2. \A j \in D : serviceMappings'[j].mappedPort = serviceMappings[j].mappedPort
      BY <1>4
    <2>3. serviceMappings'[k].mappedPort = mappedPort
      BY <1>3, <1>4
    <2> DEFINE new(j) == serviceMappings'[j].mappedPort
               old(j) == serviceMappings[j].mappedPort
    <2>4. (\A j \in D : new(j) = old(j)) /\ new(k) = mappedPort
      BY <2>2, <2>3
    <2>5. MappedPorts' = {new(j) : j \in D \cup {k}} /\ MappedPorts = {old(j) : j \in D}
      BY <2>1 DEF MappedPorts
    <2> HIDE DEF new, old
    <2>6. {new(j) : j \in D \cup {k}} = {old(j) : j \in D} \cup {mappedPort}
      BY <2>4
    <2>7. QED
      BY <2>5, <2>6
  <1>8. PortsAccounted'
    BY <1>2, <1>7 DEF Books, PortsAccounted, MappingCreated
  <1>9. PortsExclusive'
    <2>1. mappedPort' \notin MappedPorts'
      BY <1>2, <1>7, MappedPortsType DEF MappingCreated
    <2>2. ASSUME NEW i \in D \cup {k}, NEW j \in D \cup {k},
                 serviceMappings'[i].mappedPort = serviceMappings'[j].mappedPort
          PROVE  i = j
      BY <1>3, <1>4, <2>2 DEF Books, PortsExclusive, MappedPorts
    <2>3. QED
      BY <1>4, <2>1, <2>2 DEF PortsExclusive
  <1>10. QED
    BY <1>5, <1>6, <1>8, <1>9 DEF Books

\* Creating the backend, the server, the frontend and the bind.
LEMMA CreateStep ==
  IInv /\ (CreateBackend \/ CreateServer \/ CreateFrontend \/ CreateBind) => IInv'
  <1> SUFFICES ASSUME IInv PROVE
        (CreateBackend \/ CreateServer \/ CreateFrontend \/ CreateBind) => IInv'
    OBVIOUS
  <1> DEFINE b == BackendName(keys[idx], Port.port)
             n == ServerName(svc.clusterIP, Port.port)
             f == FrontendName(keys[idx], mappedPort)
             m == BindName(keys[idx], Port.name)
  <1>1. ASSUME pc \in Creating
        PROVE  /\ b \in BackendNames /\ n \in ServerNames /\ m \in BindNames
               /\ f \in FrontendNames /\ mappedPort \in PortRange
    <2>1. mappedPort \in PortRange
      BY <1>1 DEF IInv, TypeOK, Control
    <2>2. QED
      BY <1>1, <2>1, PortType DEF IInv, Control, FrontendName, FrontendNames
  <1>2. tx.cfg \in Configs
    BY DEF IInv, TypeOK
  <1>3. \A o, o2 : Cost(o) \in Nat /\ Cost(o) + Cost(o2) \in Nat
    BY DEF Cost
  <1>4. TypeOK
    BY DEF IInv
  <1> HIDE DEF b, n, f, m
  <1>5. CASE CreateBackend
    <2>1. PICK g \in ReadFates, o \in Fates :
            /\ Spend(Cost(g) + Cost(o))
            /\ Step(IF EnsureBackend(config, b, g)
                    THEN ReplaceBackend(tx.cfg, b, o)
                    ELSE AddBackend(tx.cfg, b, o), "server")
      BY <1>5 DEF CreateBackend, b
    <2>2. pc \in Creating /\ createRest
      BY <1>5 DEF CreateBackend, Creating
    <2>3. /\ ReplaceBackend(tx.cfg, b, o).cfg \in Configs
          /\ AddBackend(tx.cfg, b, o).cfg \in Configs
      BY <1>1, <1>2, <2>2, BackendType
    <2>4. spent' \in [changes : Nat, faults : Nat, foreign : Nat, restarts : Nat]
      BY <1>3, <1>4, <2>1, SpendType
    <2>5. "server" \in Creating
      BY DEF Creating
    <2>6. QED
      BY <2>1, <2>2, <2>3, <2>4, <2>5, OutcomeStep
  <1>6. CASE CreateServer
    <2>1. PICK o \in Fates, o2 \in Fates :
            LET r == AddServerToBackend(tx.cfg, b, n, n, o)
            IN  IF SaysExists(r.err)
                THEN /\ Spend(Cost(o) + Cost(o2))
                     /\ Step(ReplaceServerFromBackend(r.cfg, b, n, n, n, o2),
                             "frontend")
                ELSE Spend(Cost(o)) /\ Step(r, "frontend")
      BY <1>6 DEF CreateServer, b, n
    <2>2. pc \in Creating /\ createRest
      BY <1>6 DEF CreateServer, Creating
    <2> DEFINE r == AddServerToBackend(tx.cfg, b, n, n, o)
    <2>3. r.cfg \in Configs
      BY <1>1, <1>2, <2>2, ServerType
    <2>4. ReplaceServerFromBackend(r.cfg, b, n, n, n, o2).cfg \in Configs
      BY <1>1, <2>2, <2>3, ServerType
    <2> HIDE DEF r
    <2>5. spent' \in [changes : Nat, faults : Nat, foreign : Nat, restarts : Nat]
      BY <1>3, <1>4, <2>1, SpendType
    <2>6. "frontend" \in Creating
      BY DEF Creating
    <2>7. \/ Step(ReplaceServerFromBackend(r.cfg, b, n, n, n, o2), "frontend")
          \/ Step(r, "frontend")
      BY <2>1 DEF r
    <2>8. QED
      BY <2>2, <2>3, <2>4, <2>5, <2>6, <2>7, OutcomeStep
  <1>7. CASE CreateFrontend
    <2>1. PICK g \in ReadFates, o \in Fates :
            /\ Spend(Cost(g) + Cost(o))
            /\ Step(IF EnsureFrontend(config, f, g)
                    THEN ReplaceFrontend(tx.cfg, f, b, o)
                    ELSE AddFrontend(tx.cfg, f, b, o), "bind")
      BY <1>7 DEF CreateFrontend, f, b
    <2>2. pc \in Creating /\ createRest
      BY <1>7 DEF CreateFrontend, Creating
    <2>3. /\ ReplaceFrontend(tx.cfg, f, b, o).cfg \in Configs
          /\ AddFrontend(tx.cfg, f, b, o).cfg \in Configs
      BY <1>1, <1>2, <2>2, FrontendType
    <2>4. spent' \in [changes : Nat, faults : Nat, foreign : Nat, restarts : Nat]
      BY <1>3, <1>4, <2>1, SpendType
    <2>5. "bind" \in Creating
      BY DEF Creating
    <2>6. QED
      BY <2>1, <2>2, <2>3, <2>4, <2>5, OutcomeStep
  <1>8. CASE CreateBind
    <2>1. PICK o \in Fates :
            LET r == AddBind(tx.cfg, f, m, mappedPort, o)
            IN  /\ Spend(Cost(o))
                /\ MappingCreated(r.cfg) \/ ProxyFailed(r.cfg)
      BY <1>8 DEF CreateBind, f, m
    <2>2. pc \in Creating /\ createRest
      BY <1>8 DEF CreateBind, Creating
    <2>3. AddBind(tx.cfg, f, m, mappedPort, o).cfg \in Configs
      BY <1>1, <1>2, <2>2, FrontendType
    <2>4. spent' \in [changes : Nat, faults : Nat, foreign : Nat, restarts : Nat]
      BY <1>3, <1>4, <2>1, SpendType
    <2>5. QED
      BY <2>1, <2>2, <2>3, <2>4, CreatedStep, FailedStep
  <1>9. QED
    BY <1>5, <1>6, <1>7, <1>8

\* Removing a mapping frees its port, which no other mapping has.
LEMMA RemoveStep == IInv /\ (RemoveMapping \/ RemoveDone) => IInv'
  <1> SUFFICES ASSUME IInv PROVE (RemoveMapping \/ RemoveDone) => IInv'
    OBVIOUS
  <1> USE DEF IInv
  <1>1. CASE RemoveMapping
    <2> DEFINE D == DOMAIN serviceMappings
    <2>1. PICK k \in toDelete, o1 \in Fates, o2 \in Fates :
            LET m == serviceMappings[k]
            IN  /\ Spend(Cost(o1) + Cost(o2))
                /\ tx' = [tx EXCEPT !.cfg = DeleteObjects(tx.cfg, m, o1, o2)]
                /\ portAllocations' = releasePort(portAllocations, m.mappedPort)
                /\ serviceMappings' = [j \in D \ {k} |-> serviceMappings[j]]
                /\ toDelete' = toDelete \ {k}
      BY <1>1 DEF RemoveMapping
    <2> DEFINE m == serviceMappings[k]
    <2>2. k \in D
      BY DEF Control
    <2>3. /\ m \in Mappings /\ m.frontendName \in FrontendNames
          /\ m.backendName \in BackendNames /\ m.mappedPort \in PortRange
      BY <2>2 DEF TypeOK, Mappings
    <2>4. tx' \in [base : Nat \cup {-1}, cfg : Configs]
      <3> DEFINE c == DeleteFrontend(tx.cfg, m.frontendName, o1).cfg
                 d == DeleteBackend(c, m.backendName, o2).cfg
      <3>1. tx.cfg \in Configs
        BY DEF TypeOK
      <3> HIDE DEF m
      <3>2. c \in Configs
        BY <2>3, <3>1, DeleteFrontendType
      <3>3. d \in Configs
        BY <2>3, <3>2, BackendType
      <3>4. tx' = [tx EXCEPT !.cfg = d]
        BY <2>1 DEF DeleteObjects, m
      <3> HIDE DEF d
      <3>5. QED
        BY <3>3, <3>4 DEF TypeOK
    <2>5. spent' \in [changes : Nat, faults : Nat, foreign : Nat, restarts : Nat]
      <3>1. Cost(o1) + Cost(o2) \in Nat
        BY DEF Cost
      <3>2. QED
        BY <2>1, <3>1, SpendType
    <2>6. /\ DOMAIN serviceMappings' = D \ {k}
          /\ \A j \in D \ {k} : serviceMappings'[j] = serviceMappings[j]
          /\ serviceMappings' \in [D \ {k} -> Mappings]
      <3>1. serviceMappings \in [D -> Mappings]
        BY DEF TypeOK
      <3>2. QED
        BY <2>1, <3>1
    <2>7. TypeOK'
      BY <1>1, <2>1, <2>4, <2>5, <2>6 DEF TypeOK, RemoveMapping, releasePort,
         informerVars, batchVars, apiVars
    <2>8. Control'
      BY <1>1, <2>1, <2>6 DEF Control, RemoveMapping, Creating, batchVars
    <2>9. MappedPorts' = MappedPorts \ {m.mappedPort}
      <3>1. MappedPorts' = {serviceMappings[j].mappedPort : j \in D \ {k}}
        BY <2>6 DEF MappedPorts
      <3>2. \A j \in D \ {k} : serviceMappings[j].mappedPort # m.mappedPort
        BY <2>2 DEF Books, PortsExclusive
      <3>3. QED
        BY <2>2, <3>1, <3>2 DEF MappedPorts
    <2>10. mappedPort = 0 /\ mappedPort' = 0
      BY <1>1 DEF Control, Creating, RemoveMapping
    <2>11. PortsAccounted'
      BY <2>1, <2>9, <2>10 DEF Books, PortsAccounted, releasePort
    <2>12. PortsExclusive'
      BY <2>6, <2>9, <2>10 DEF Books, PortsExclusive
    <2>13. QED
      BY <2>7, <2>8, <2>11, <2>12 DEF Books
  <1>2. CASE RemoveDone
    <2>1. TypeOK'
      BY <1>2 DEF TypeOK, RemoveDone, PCs, informerVars, memoryVars, serviceVars,
                  txVars, apiVars
    <2>2. Control'
      BY <1>2 DEF TypeOK, Control, RemoveDone, Creating, memoryVars, serviceVars
    <2>3. QED
      BY <1>2, <2>1, <2>2, BooksUnchanged DEF RemoveDone, serviceVars
  <1>3. QED
    BY <1>1, <1>2

\* Giving the batch back and committing.
LEMMA FinishStep ==
  IInv /\ (GiveBackNext \/ BatchGivenBack \/ CommitBatch) => IInv'
  <1> SUFFICES ASSUME IInv PROVE
        (GiveBackNext \/ BatchGivenBack \/ CommitBatch) => IInv'
    OBVIOUS
  <1> USE DEF IInv
  <1>q. wq \in QueueType
    BY DEF TypeOK, QueueType
  <1>1. CASE GiveBackNext
    <2>1. wq' \in QueueType
      BY <1>1, <1>q, DoneType DEF GiveBackNext
    <2>2. TypeOK'
      BY <1>1, <2>1 DEF TypeOK, GiveBackNext, QueueType, informerVars, memoryVars,
                        serviceVars, txVars, apiVars
    <2>3. Control'
      BY <1>1 DEF TypeOK, Control, GiveBackNext, Creating, memoryVars, serviceVars
    <2>4. QED
      BY <1>1, <2>2, <2>3, BooksUnchanged DEF GiveBackNext, serviceVars
  <1>2. CASE BatchGivenBack
    <2>1. TypeOK'
      BY <1>2 DEF TypeOK, BatchGivenBack, PCs, informerVars, memoryVars, batchVars,
                  serviceVars, txVars, apiVars
    <2>2. Control'
      BY <1>2 DEF Control, BatchGivenBack, Creating, memoryVars, batchVars,
                  serviceVars
    <2>3. QED
      BY <1>2, <2>1, <2>2, BooksUnchanged DEF BatchGivenBack, serviceVars
  <1>3. CASE CommitBatch
    <2>1. wq' \in QueueType
      BY <1>3, <1>q, DoneType DEF CommitBatch
    <2>2. config' \in Configs /\ version' \in Nat
      BY <1>3 DEF TypeOK, CommitBatch, apiVars
    <2>3. spent' \in [changes : Nat, faults : Nat, foreign : Nat, restarts : Nat]
      BY <1>3, SpendType DEF CommitBatch, Cost
    <2>4. EmptyConfig \in Configs
      BY DEF EmptyConfig, Configs
    <2>5. TypeOK'
      <3>1. /\ pc' = "idle" /\ keys' = <<>> /\ idx' = 0 /\ seenVersion' = -1
            /\ tx' = NoTx
            /\ UNCHANGED <<informerVars, memoryVars, serviceVars>>
        BY <1>3 DEF CommitBatch
      <3>2. NoTx \in [base : Nat \cup {-1}, cfg : Configs]
        BY <2>4 DEF NoTx
      <3>3. /\ pc' \in PCs /\ keys' \in Seq(Services) /\ idx' \in Nat
            /\ seenVersion' \in Nat \cup {-1}
            /\ tx' \in [base : Nat \cup {-1}, cfg : Configs]
        BY <3>1, <3>2 DEF PCs, AtRest
      <3>4. QED
        BY <2>1, <2>2, <2>3, <3>1, <3>3
        DEF TypeOK, QueueType, informerVars, memoryVars, serviceVars
    <2>6. Control'
      BY <1>3 DEF Control, CommitBatch, Creating, memoryVars, serviceVars
    <2>7. QED
      BY <1>3, <2>5, <2>6, BooksUnchanged DEF CommitBatch, serviceVars
  <1>4. QED
    BY <1>1, <1>2, <1>3

-----------------------------------------------------------------------------
(* The theorems.                                                           *)

\* Every step keeps the invariant.
LEMMA NextInv == IInv /\ [Next]_vars => IInv'
  <1> SUFFICES ASSUME IInv, [Next]_vars PROVE IInv'
    OBVIOUS
  <1>1. CASE Informer
    BY <1>1, InformerStep
  <1>2. CASE Handlers \/ Delays
    BY <1>2, QueueStep
  <1>3. CASE ForeignCommit \/ Restart
    BY <1>3, AroundStep
  <1>4. CASE Worker
    BY <1>4, BatchStep, SyncStep, LoopStep, CreateStep, RemoveStep, FinishStep
       DEF Worker
  <1>5. CASE UNCHANGED vars
    <2>1. TypeOK'
      BY <1>5 DEF IInv, TypeOK, vars, informerVars, memoryVars, batchVars,
                  serviceVars, txVars, apiVars
    <2>2. Control'
      BY <1>5 DEF IInv, Control, MappingKey, Port, vars, memoryVars, batchVars,
                  serviceVars
    <2>3. QED
      BY <1>5, <2>1, <2>2, BooksUnchanged DEF IInv, vars, serviceVars
  <1>6. QED
    BY <1>1, <1>2, <1>3, <1>4, <1>5 DEF Next

\* The controller's state and the objects it creates in HAProxy have their types,
\* whatever the requests, the other clients and the restarts do.
THEOREM TypeCorrect == Spec => []TypeOK
  <1>1. IInv => TypeOK
    BY DEF IInv
  <1>2. QED
    BY <1>1, InitInv, NextInv, PTL DEF Spec

\* allocatePort and releasePort keep exact books: no failure of a request, at any
\* of the four objects of a proxy, leaks a port of the range or frees one in use.
THEOREM PortsAreAccounted == Spec => []PortsAccounted
  <1>1. IInv => PortsAccounted
    BY DEF IInv, Books
  <1>2. QED
    BY <1>1, InitInv, NextInv, PTL DEF Spec

\* No two Service ports are given the same port of the range.
THEOREM PortsAreExclusive == Spec => []PortsExclusive
  <1>1. IInv => PortsExclusive
    BY DEF IInv, Books
  <1>2. QED
    BY <1>1, InitInv, NextInv, PTL DEF Spec

\* Only these steps change the mappings.
LEMMA MappingsChange ==
  ASSUME [Next]_vars
  PROVE  \/ UNCHANGED serviceMappings \/ Restart \/ RemoveMapping
         \/ CreateBind /\ serviceMappings' # serviceMappings
  <1>1. CASE Informer
    BY <1>1 DEF Informer, StoreAdd, StoreUpdate, StoreDelete, StoreResync,
                Store, memoryVars
  <1>2. CASE Handlers \/ Delays
    BY <1>2 DEF Handlers, Delays, RetryDelayElapsed, handleServiceAdd,
                handleServiceUpdate, handleServiceDelete, Handled, memoryVars
  <1>3. CASE ForeignCommit \/ UNCHANGED vars
    BY <1>3 DEF ForeignCommit, vars, memoryVars
  <1>4. CASE Worker
    <2>1. CASE \/ CacheSynced \/ GetFirst \/ GetNext \/ BatchCollected
               \/ ReadVersion \/ TransactionStarted \/ TransactionRefused
      BY <2>1 DEF CacheSynced, GetFirst, GetNext, BatchCollected, ReadVersion,
                  TransactionStarted, TransactionRefused, memoryVars
    <2>2. CASE \/ SyncDeleted \/ SyncIgnored \/ SyncPresent \/ SyncDone
               \/ PortsDone \/ SkipPort \/ allocatePort
      BY <2>2 DEF SyncDeleted, SyncIgnored, SyncPresent, SyncDone, PortsDone,
                  SkipPort, allocatePort, memoryVars
    <2>3. CASE CreateBackend \/ CreateServer \/ CreateFrontend
      BY <2>3 DEF CreateBackend, CreateServer, CreateFrontend, Step,
                  ProxyContinues, ProxyFailed, memoryVars
    <2>4. CASE RemoveDone \/ GiveBackNext \/ BatchGivenBack \/ CommitBatch
      BY <2>4 DEF RemoveDone, GiveBackNext, BatchGivenBack, CommitBatch,
                  memoryVars
    <2>5. QED
      BY <1>4, <2>1, <2>2, <2>3, <2>4 DEF Worker
  <1>5. QED
    BY <1>1, <1>2, <1>3, <1>4 DEF Next

\* Which Service port has which port.
Lease == [k \in DOMAIN serviceMappings |-> serviceMappings[k].mappedPort]

\* Every step grants a free port to one Service port, takes one back, starts over,
\* or leaves the leases alone.
LEMMA LeaseStep ==
  ASSUME IInv, [Next]_vars
  PROVE  Leases!Next \/ UNCHANGED Lease
  <1> DEFINE L == Lease
  <1> USE DEF Lease
  <1>1. CASE UNCHANGED serviceMappings
    BY <1>1
  <1>2. CASE Restart
    <2>1. L' = <<>>
      BY <1>2 DEF Restart, Forgets
    <2>2. QED
      BY <2>1 DEF Leases!Next, Leases!Reset
  <1>3. CASE CreateBind /\ serviceMappings' # serviceMappings
    <2> DEFINE k == MappingKey
               D == DOMAIN serviceMappings
               n == NewMapping
               p == mappedPort
    <2>1. pc \in Creating
      BY <1>3 DEF CreateBind, Creating
    <2>2. k \in MappingKeys /\ k \notin D
      BY <2>1, PortType DEF IInv, Control
    <2>3. p \in PortRange /\ \A j \in D : serviceMappings[j].mappedPort # p
      BY <2>1 DEF IInv, TypeOK, Control, Books, PortsExclusive, MappedPorts
    <2>4. n.mappedPort = p
      BY DEF NewMapping
    <2>5. serviceMappings' = [j \in D \cup {k} |-> IF j = k THEN n
                                                   ELSE serviceMappings[j]]
      BY <1>3 DEF CreateBind, MappingCreated, ProxyFailed
    <2> HIDE DEF k, n
    <2>6. L' = [j \in D \cup {k} |-> IF j = k THEN p ELSE L[j]]
      BY <2>2, <2>4, <2>5
    <2>7. PICK h \in MappingKeys, q \in PortRange : h = k /\ q = p
      BY <2>2, <2>3
    <2>8. Leases!Grant(h, q)
      BY <2>2, <2>3, <2>6, <2>7 DEF Leases!Grant
    <2>9. QED
      BY <2>8 DEF Leases!Next
  <1>4. CASE RemoveMapping
    <2>1. PICK k \in toDelete :
            serviceMappings' =
              [j \in DOMAIN serviceMappings \ {k} |-> serviceMappings[j]]
      BY <1>4 DEF RemoveMapping
    <2>2. k \in MappingKeys
      BY DEF IInv, TypeOK
    <2>3. L' = [j \in DOMAIN L \ {k} |-> L[j]]
      BY <2>1
    <2>4. QED
      BY <2>2, <2>3 DEF Leases!Next, Leases!Revoke
  <1>5. QED
    BY <1>1, <1>2, <1>3, <1>4, MappingsChange

\* The controller implements PortLease: every step grants a free port to one
\* Service port, takes one back, starts over, or leaves the leases alone.
THEOREM PortsAreLeased == Spec => PortLeased
  <1>1. Init => Leases!Init
    BY DEF Init, Leases!Init
  <1>2. IInv /\ [Next]_vars => [Leases!Next]_Lease
    BY LeaseStep
  <1>3. QED
    BY <1>1, <1>2, InitInv, NextInv, PTL DEF Spec, PortLeased, Leases!Spec, Lease
==============================================================================
