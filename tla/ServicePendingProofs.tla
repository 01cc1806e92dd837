------------------------ MODULE ServicePendingProofs ------------------------
(***************************************************************************)
(* Proofs about what the V2 controller has yet to do: a deletion stays     *)
(* noted until its key is looked up, whatever fails, and every key taken   *)
(* from the queue is given back as long as transactions can be opened or   *)
(* batches are single keys. Then no key is stranded, and what is noted is  *)
(* pending.                                                                *)
(***************************************************************************)
EXTENDS ServiceControllerProofs

-----------------------------------------------------------------------------
(* Work that is noted stays noted until its key is looked up.              *)

\* The informer's goroutine is in one handler at a time.
OneNotice == \A e, f \in notice : e = f

\* A mapping that outlives its Service is noted or about to be removed.
OrphansNoted ==
  \A k \in DOMAIN serviceMappings :
    indexer[k[1]] = NoService =>
      Noted(k[1]) \/ (pc = "remove" /\ k \in toDelete)

\* The Service content the worker is on is the store's, or its key is noted.
SvcCurrent ==
  pc \in Creating \cup {"port"} =>
    svc = indexer[keys[idx]] \/ Noted(keys[idx])

PInv == IInv /\ OneNotice /\ SvcCurrent /\ OrphansNoted

\* The worker looks the key at the current position up.
Lookup == SyncDeleted \/ SyncIgnored \/ SyncPresent

\* What an Add and a Get do to the keys that wait to be processed,
LEMMA DirtyKeys ==
  ASSUME NEW q \in QueueType, NEW k
  PROVE  /\ Add(q, k).dirty = q.dirty \cup {k} /\ Add(q, k).waiting = q.waiting
         /\ Get(q).dirty = q.dirty \ {Head(q.queue)} /\ Get(q).waiting = q.waiting
  BY DEF Add, Get, QueueType

\* a Done leaves them alone,
LEMMA DoneKeepsDirty ==
  ASSUME NEW q \in QueueType, NEW k
  PROVE  Done(q, k).dirty = q.dirty /\ Done(q, k).waiting = q.waiting
  BY DEF Done, QueueType

\* a delay is started for some,
LEMMA DelayedKeys ==
  ASSUME NEW q \in QueueType, NEW ks \in SUBSET Services
  PROVE  /\ AddDelayed(q, ks).dirty = q.dirty
         /\ AddDelayed(q, ks).waiting = q.waiting \cup ks
  BY DEF AddDelayed, QueueType

\* and ends for one.
LEMMA ElapsedKeys ==
  ASSUME NEW q \in QueueType, NEW k
  PROVE  /\ DelayElapsed(q, k).dirty = q.dirty \cup {k}
         /\ DelayElapsed(q, k).waiting = q.waiting \ {k}
  BY DEF Add, DelayElapsed, QueueType

\* The informer notes its Service and leaves the others as they are.
LEMMA InformerPending ==
  ASSUME Informer, NEW s
  PROVE  /\ Noted(s) => Noted(s)'
         /\ s \in Services /\ indexer'[s] # indexer[s] => Noted(s)'
  <1>1. UNCHANGED <<wq, pc, batchVars>>
    BY DEF Informer, StoreAdd, StoreUpdate, StoreDelete, StoreResync, Store
  <1>2. notice = {}
    BY DEF Informer, StoreAdd, StoreUpdate, StoreDelete, StoreResync, Store
  <1>3. Noted(s) => Noted(s)'
    BY <1>1, <1>2 DEF Noted, Unread, batchVars
  <1>4. ASSUME indexer'[s] # indexer[s], s \in Services PROVE Noted(s)'
    <2>1. PICK x \in Services, o \in ServiceObjects \cup {NoService},
               t \in {"add", "update", "delete"} : Store(x, o, t)
      BY <1>4 DEF Informer, StoreAdd, StoreUpdate, StoreDelete, StoreResync, Store
    <2>2. QED
      BY <1>4, <2>1 DEF Store, Noted
  <1>5. QED
    BY <1>3, <1>4

\* A handler moves the event it is for to the queue, and so does the end of a
\* delay with its key.
LEMMA QueuePending ==
  ASSUME IInv, OneNotice, Handlers \/ Delays, NEW s, Noted(s)
  PROVE  Noted(s)'
  <1>1. wq \in QueueType
    BY DEF IInv, TypeOK, QueueType
  <1>2. UNCHANGED <<pc, batchVars>>
    BY DEF Handlers, Delays, RetryDelayElapsed, handleServiceAdd,
           handleServiceUpdate, handleServiceDelete, Handled
  <1>3. CASE Handlers
    <2>1. PICK e \in notice :
            wq' = IF e.type = "update" /\ e.sameVersion THEN wq ELSE Add(wq, e.key)
      BY <1>3 DEF Handlers, handleServiceAdd, handleServiceUpdate,
                  handleServiceDelete
    <2>2. wq'.waiting = wq.waiting /\ wq.dirty \subseteq wq'.dirty
      BY <1>1, <2>1, DirtyKeys
    <2>3. ~e.sameVersion => e.key \in wq'.dirty
      BY <1>1, <2>1, DirtyKeys
    <2>4. QED
      BY <1>2, <2>2, <2>3 DEF Noted, Unread, OneNotice, batchVars
  <1>4. CASE Delays
    <2>1. PICK k \in Services : wq' = DelayElapsed(wq, k) /\ UNCHANGED notice
      BY <1>4 DEF Delays, RetryDelayElapsed, informerVars
    <2>2. wq.dirty \cup wq.waiting \subseteq wq'.dirty \cup wq'.waiting
      BY <1>1, <2>1, ElapsedKeys
    <2>3. QED
      BY <1>2, <2>1, <2>2 DEF Noted, Unread, batchVars
  <1>5. QED
    BY <1>3, <1>4

\* A step that leaves the events, the queue and the batch alone, and reads no key,
\* leaves what is noted alone.
LEMMA QuietPending ==
  ASSUME UNCHANGED <<notice, wq, keys>>, NEW s, Noted(s),
         \A i \in DOMAIN keys : keys[i] = s /\ Unread(i) => Unread(i)'
  PROVE  Noted(s)'
  BY DEF Noted

\* Taking a batch: a key leaves the queue for the batch, or the batch for the
\* delayed keys.
LEMMA BatchPending ==
  ASSUME IInv, NEW s, Noted(s),
         \/ CacheSynced \/ GetFirst \/ GetNext \/ BatchCollected \/ ReadVersion
         \/ TransactionStarted \/ TransactionRefused
  PROVE  Noted(s)'
  <1>1. wq \in QueueType /\ keys \in Seq(Services) /\ DOMAIN keys = 1..Len(keys)
    BY DEF IInv, TypeOK, QueueType
  <1>2. CASE CacheSynced \/ BatchCollected \/ ReadVersion \/ TransactionStarted
    <2>1. UNCHANGED <<notice, wq, keys>>
      BY <1>2 DEF CacheSynced, BatchCollected, ReadVersion, TransactionStarted,
                  informerVars, batchVars
    <2>2. \A i \in DOMAIN keys : Unread(i) => Unread(i)'
      BY <1>1, <1>2 DEF CacheSynced, BatchCollected, ReadVersion,
         TransactionStarted, Unread, Creating
    <2>3. QED
      BY <2>1, <2>2, QuietPending
  <1>3. CASE GetFirst
    <2>1. wq.queue # <<>> /\ Head(wq.queue) \in Services
      BY <1>1, <1>3, GetType DEF GetFirst
    <2>2. keys' = <<Head(wq.queue)>> /\ pc' = "collect" /\ UNCHANGED notice
      BY <1>3 DEF GetFirst, informerVars
    <2>3. wq'.dirty = wq.dirty \ {Head(wq.queue)} /\ wq'.waiting = wq.waiting
      BY <1>1, <1>3, DirtyKeys DEF GetFirst
    <2>4. 1 \in DOMAIN keys' /\ keys'[1] = Head(wq.queue) /\ Unread(1)'
      BY <2>2 DEF Unread
    <2>5. ~\E i \in DOMAIN keys : Unread(i)
      BY <1>3 DEF GetFirst, Unread, Creating
    <2>6. QED
      BY <2>2, <2>3, <2>4, <2>5 DEF Noted
  <1>4. CASE GetNext
    <2>1. wq.queue # <<>> /\ Head(wq.queue) \in Services
      BY <1>1, <1>4, GetType DEF GetNext, BatchOpen
    <2>2. keys' = Append(keys, Head(wq.queue)) /\ UNCHANGED <<pc, notice>>
      BY <1>4 DEF GetNext, informerVars
    <2>3. wq'.dirty = wq.dirty \ {Head(wq.queue)} /\ wq'.waiting = wq.waiting
      BY <1>1, <1>4, DirtyKeys DEF GetNext
    <2>4. /\ \A i \in DOMAIN keys : i \in DOMAIN keys' /\ keys'[i] = keys[i]
          /\ \E i \in DOMAIN keys' : keys'[i] = Head(wq.queue)
      BY <1>1, <2>1, <2>2
    <2>5. \A i : Unread(i)'
      BY <1>4, <2>2 DEF GetNext, Unread
    <2>6. QED
      BY <2>2, <2>3, <2>4, <2>5 DEF Noted
  <1>5. CASE TransactionRefused
    <2> DEFINE q == AddDelayed(wq, KeySet)
    <2>1. KeySet \in SUBSET Services
      BY <1>1 DEF KeySet
    <2>2. wq'.dirty = wq.dirty /\ wq'.waiting = wq.waiting \cup KeySet
      <3>1. /\ q \in QueueType /\ q.dirty = wq.dirty
            /\ q.waiting = wq.waiting \cup KeySet
        BY <1>1, <2>1, AddDelayedType, DelayedKeys
      <3>2. wq' = Done(q, keys[1])
        BY <1>5 DEF TransactionRefused, GiveBack
      <3> HIDE DEF q
      <3>3. QED
        BY <3>1, <3>2, DoneKeepsDirty
    <2>3. UNCHANGED notice
      BY <1>5 DEF TransactionRefused, informerVars
    <2>4. QED
      BY <2>2, <2>3 DEF Noted, KeySet
  <1>6. QED
    BY <1>2, <1>3, <1>4, <1>5

\* The other steps of the worker take no key and read at most the one they are at.
LEMMA WorkPending ==
  ASSUME IInv, NEW s, Noted(s), Lookup => s # keys[idx],
         \/ Lookup \/ SyncDone \/ PortsDone \/ SkipPort \/ allocatePort
         \/ CreateBackend \/ CreateServer \/ CreateFrontend \/ CreateBind
         \/ RemoveMapping \/ RemoveDone
         \/ GiveBackNext \/ BatchGivenBack \/ CommitBatch
  PROVE  Noted(s)'
  <1>1. wq \in QueueType /\ keys \in Seq(Services) /\ DOMAIN keys = 1..Len(keys)
        /\ idx \in Nat /\ DOMAIN keys \subseteq Nat
    BY DEF IInv, TypeOK, QueueType
  <1>2. CASE Lookup
    <2>1. UNCHANGED <<notice, wq, keys>>
      BY <1>2 DEF Lookup, SyncDeleted, SyncIgnored, SyncPresent, informerVars,
                  batchVars
    <2>2. \A i \in DOMAIN keys : keys[i] = s /\ Unread(i) => Unread(i)'
      BY <1>1, <1>2 DEF Lookup, SyncDeleted, SyncIgnored, SyncPresent, Unread,
                        Creating, batchVars
    <2>3. QED
      BY <2>1, <2>2, QuietPending
  <1>3. CASE SyncDone \/ PortsDone \/ SkipPort \/ allocatePort \/ RemoveDone
    <2>1. UNCHANGED <<notice, wq, keys>>
      BY <1>3 DEF SyncDone, PortsDone, SkipPort, allocatePort, RemoveDone,
                  informerVars, batchVars
    <2>2. \A i \in DOMAIN keys : Unread(i) => Unread(i)'
      BY <1>1, <1>3 DEF SyncDone, PortsDone, SkipPort, allocatePort, RemoveDone,
                        Unread, Creating, batchVars
    <2>3. QED
      BY <2>1, <2>2, QuietPending
  <1>4. CASE \/ CreateBackend \/ CreateServer \/ CreateFrontend \/ CreateBind
             \/ RemoveMapping
    <2>1. UNCHANGED <<notice, wq, keys, idx>>
      BY <1>4 DEF CreateBackend, CreateServer, CreateFrontend, CreateBind,
                  RemoveMapping, createRest, informerVars, batchVars
    <2>2. /\ pc \in Creating \cup {"remove"}
          /\ pc' \in Creating \cup {"port", "remove"}
      BY <1>4 DEF CreateBackend, CreateServer, CreateFrontend, CreateBind,
                  RemoveMapping, Step, ProxyFailed, ProxyContinues, MappingCreated,
                  Creating
    <2>3. \A i \in DOMAIN keys : Unread(i) => Unread(i)'
      BY <2>1, <2>2 DEF Unread, Creating
    <2>4. QED
      BY <2>1, <2>3, QuietPending
  <1>5. CASE GiveBackNext \/ BatchGivenBack \/ CommitBatch
    <2>1. ~\E i \in DOMAIN keys : Unread(i)
      BY <1>5 DEF GiveBackNext, BatchGivenBack, CommitBatch, Unread, Creating
    <2>2. wq'.dirty = wq.dirty /\ wq'.waiting = wq.waiting /\ UNCHANGED notice
      BY <1>1, <1>5, DoneKeepsDirty DEF GiveBackNext, BatchGivenBack, CommitBatch,
                                        informerVars
    <2>3. QED
      BY <2>1, <2>2 DEF Noted
  <1>6. QED
    BY <1>2, <1>3, <1>4, <1>5

\* Nothing but a restart, or the lookup of the key itself, ends what is noted.
LEMMA PendingKept ==
  ASSUME IInv, OneNotice, [Next]_vars, ~Restart, NEW s, Noted(s),
         Lookup => s # keys[idx]
  PROVE  Noted(s)'
  <1>1. CASE ForeignCommit \/ UNCHANGED vars
    <2>1. UNCHANGED <<notice, wq, keys, pc, idx>>
      BY <1>1 DEF ForeignCommit, vars, informerVars, batchVars
    <2>2. QED
      BY <2>1 DEF Noted, Unread
  <1>2. CASE Informer
    BY <1>2, InformerPending
  <1>3. CASE Handlers \/ Delays
    BY <1>3, QueuePending
  <1>4. CASE Worker
    BY <1>4, BatchPending, WorkPending DEF Worker, Lookup
  <1>5. QED
    BY <1>1, <1>2, <1>3, <1>4 DEF Next

-----------------------------------------------------------------------------
(* A deletion is never forgotten.                                          *)

Loop == Creating \cup {"port"}

\* Which steps change the store and the events.
LEMMA InformerOnly ==
  ASSUME [Next]_vars, ~Restart
  PROVE  /\ ~Informer => UNCHANGED indexer
         /\ ~Informer /\ ~Handlers => UNCHANGED notice
  <1>1. CASE Handlers \/ Delays \/ ForeignCommit \/ UNCHANGED vars
    BY <1>1 DEF Handlers, Delays, RetryDelayElapsed, handleServiceAdd,
       handleServiceUpdate, handleServiceDelete, Handled, ForeignCommit, vars,
       informerVars
  <1>2. CASE \/ CacheSynced \/ GetFirst \/ GetNext \/ BatchCollected \/ ReadVersion
             \/ TransactionStarted \/ TransactionRefused
    BY <1>2 DEF CacheSynced, GetFirst, GetNext, BatchCollected, ReadVersion,
                TransactionStarted, TransactionRefused, informerVars
  <1>3. CASE \/ SyncDeleted \/ SyncIgnored \/ SyncPresent \/ SyncDone
             \/ PortsDone \/ SkipPort \/ allocatePort
    BY <1>3 DEF SyncDeleted, SyncIgnored, SyncPresent, SyncDone, PortsDone,
                SkipPort, allocatePort, informerVars
  <1>4. CASE \/ CreateBackend \/ CreateServer \/ CreateFrontend \/ CreateBind
             \/ RemoveMapping
    BY <1>4 DEF CreateBackend, CreateServer, CreateFrontend, CreateBind,
                RemoveMapping, createRest, informerVars
  <1>5. CASE RemoveDone \/ GiveBackNext \/ BatchGivenBack \/ CommitBatch
    BY <1>5 DEF RemoveDone, GiveBackNext, BatchGivenBack, CommitBatch, informerVars
  <1>6. QED
    BY <1>1, <1>2, <1>3, <1>4, <1>5 DEF Next, Worker

\* The worker enters the loop over a Service's ports at SyncPresent and keeps the
\* Service and its key there.
LEMMA LoopEntered ==
  ASSUME [Next]_vars, pc' \in Loop, ~SyncPresent
  PROVE  pc \in Loop /\ UNCHANGED <<svc, keys, idx>> /\ ~Lookup
  <1>1. CASE Informer \/ UNCHANGED vars \/ ForeignCommit
    BY <1>1 DEF Informer, StoreAdd, StoreUpdate, StoreDelete, StoreResync, Store,
       vars, ForeignCommit, batchVars, serviceVars, Loop, Creating, Lookup,
       SyncDeleted, SyncIgnored
  <1>2. CASE Handlers \/ Delays
    BY <1>2 DEF Handlers, Delays, RetryDelayElapsed, handleServiceAdd,
       handleServiceUpdate, handleServiceDelete, Handled, batchVars, serviceVars,
       Loop, Creating, Lookup, SyncDeleted, SyncIgnored
  <1>3. ~\/ CacheSynced \/ GetFirst \/ GetNext \/ BatchCollected \/ ReadVersion
         \/ TransactionStarted \/ TransactionRefused \/ Restart
    BY DEF CacheSynced, GetFirst, GetNext, BatchCollected, ReadVersion,
           TransactionStarted, TransactionRefused, Restart, Forgets, Loop, Creating
  <1>4. ~\/ SyncDeleted \/ SyncIgnored \/ SyncDone \/ PortsDone \/ RemoveMapping
         \/ RemoveDone \/ GiveBackNext \/ BatchGivenBack \/ CommitBatch
    BY DEF SyncDeleted, SyncIgnored, SyncDone, PortsDone, RemoveMapping, RemoveDone,
           GiveBackNext, BatchGivenBack, CommitBatch, Loop, Creating
  <1>5. CASE \/ SkipPort \/ allocatePort
             \/ CreateBackend \/ CreateServer \/ CreateFrontend \/ CreateBind
    <2>1. pc \in Loop /\ UNCHANGED <<svc, keys, idx>>
      BY <1>5 DEF SkipPort, allocatePort, CreateBackend, CreateServer,
         CreateFrontend, CreateBind, createRest, batchVars, Loop, Creating
    <2>2. QED
      BY <1>4, <2>1 DEF Lookup
  <1>6. QED
    BY <1>1, <1>2, <1>3, <1>4, <1>5 DEF Next, Worker

\* The content the worker is on stays current, or its key becomes noted.
LEMMA SvcStep ==
  ASSUME PInv, [Next]_vars
  PROVE  SvcCurrent'
  <1> SUFFICES ASSUME pc' \in Loop
               PROVE  (svc = indexer[keys[idx]] \/ Noted(keys[idx]))'
    BY DEF SvcCurrent, Loop
  <1>1. ~Restart
    BY DEF Restart, Forgets, Loop, Creating
  <1>2. CASE SyncPresent
    BY <1>2 DEF SyncPresent, informerVars, batchVars
  <1>3. CASE ~SyncPresent
    <2>1. pc \in Loop /\ UNCHANGED <<svc, keys, idx>> /\ ~Lookup
      BY <1>3, LoopEntered
    <2>2. keys[idx] \in Services
      BY <2>1 DEF PInv, IInv, TypeOK, Control, Loop
    <2>3. svc = indexer[keys[idx]] \/ Noted(keys[idx])
      BY <2>1 DEF PInv, SvcCurrent, Loop
    <2>4. CASE Noted(keys[idx])
      <3>1. \A s : Noted(s) => Noted(s)'
        BY <1>1, <2>1, PendingKept DEF PInv
      <3>2. PICK s : s = keys[idx]
        OBVIOUS
      <3>3. Noted(s)'
        BY <2>4, <3>1, <3>2
      <3>4. s = keys'[idx']
        BY <2>1, <3>2
      <3>5. QED
        BY <3>3, <3>4 DEF Noted
    <2>5. CASE svc = indexer[keys[idx]] /\ indexer'[keys[idx]] = indexer[keys[idx]]
      BY <2>1, <2>5
    <2>6. CASE indexer'[keys[idx]] # indexer[keys[idx]]
      <3>1. Informer
        BY <1>1, <2>6, InformerOnly
      <3>2. PICK s \in Services : s = keys[idx]
        BY <2>2
      <3>3. Noted(s)'
        BY <2>6, <3>1, <3>2, InformerPending
      <3>4. s = keys'[idx']
        BY <2>1, <3>2
      <3>5. QED
        BY <3>3, <3>4 DEF Noted
    <2>7. QED
      BY <2>3, <2>4, <2>5, <2>6
  <1>4. QED
    BY <1>2, <1>3

\* A mapping is recorded by CreateBind, under the key the worker is on.
LEMMA NewKeys ==
  ASSUME [Next]_vars, NEW k \in DOMAIN serviceMappings',
         k \notin DOMAIN serviceMappings
  PROVE  k = MappingKey /\ pc \in Loop /\ UNCHANGED <<indexer, keys, idx>> /\ ~Lookup
  <1>1. serviceMappings' # serviceMappings
    OBVIOUS
  <1>2. CreateBind
    <2>1. ~Restart
      BY DEF Restart, Forgets
    <2>2. ~RemoveMapping
      BY DEF RemoveMapping
    <2>3. QED
      BY <1>1, <2>1, <2>2, MappingsChange
  <1>3. DOMAIN serviceMappings' = DOMAIN serviceMappings \cup {MappingKey}
    BY <1>1, <1>2 DEF CreateBind, MappingCreated, ProxyFailed
  <1>4. QED
    BY <1>2, <1>3 DEF CreateBind, createRest, informerVars, batchVars, Loop, Creating,
                      Lookup, SyncDeleted, SyncIgnored, SyncPresent

\* While mappings are being removed, the steps of others leave the list alone and
\* the worker shortens it by what it removes.
LEMMA RemovalKept ==
  ASSUME [Next]_vars, ~Restart, pc = "remove", NEW k \in toDelete,
         k \in DOMAIN serviceMappings'
  PROVE  pc' = "remove" /\ k \in toDelete'
  <1>1. CASE Informer \/ UNCHANGED vars \/ ForeignCommit
    BY <1>1 DEF Informer, StoreAdd, StoreUpdate, StoreDelete, StoreResync, Store,
       vars, ForeignCommit, serviceVars
  <1>2. CASE Handlers \/ Delays
    BY <1>2 DEF Handlers, Delays, RetryDelayElapsed, handleServiceAdd,
       handleServiceUpdate, handleServiceDelete, Handled, serviceVars
  <1>3. CASE Worker
    <2>1. RemoveMapping \/ RemoveDone
      BY <1>3 DEF Worker, CacheSynced, GetFirst, GetNext, BatchCollected,
         ReadVersion, TransactionStarted, TransactionRefused, SyncDeleted,
         SyncIgnored, SyncPresent, SyncDone, PortsDone, SkipPort, allocatePort,
         CreateBackend, CreateServer, CreateFrontend, CreateBind, GiveBackNext,
         BatchGivenBack, CommitBatch
    <2>2. QED
      BY <2>1 DEF RemoveMapping, RemoveDone
  <1>4. QED
    BY <1>1, <1>2, <1>3 DEF Next

\* Every step keeps the deletions that have yet to be carried out noted.
LEMMA OrphanStep ==
  ASSUME PInv, [Next]_vars
  PROVE  OrphansNoted'
  <1> SUFFICES ASSUME NEW k \in DOMAIN serviceMappings', indexer'[k[1]] = NoService
               PROVE  Noted(k[1])' \/ (pc' = "remove" /\ k \in toDelete')
    BY DEF OrphansNoted, Noted
  <1>1. ~Restart
    BY DEF Restart, Forgets
  <1>2. \A s : Noted(s) /\ (Lookup => s # keys[idx]) => Noted(s)'
    BY <1>1, PendingKept DEF PInv
  <1>3. CASE k \notin DOMAIN serviceMappings
    <2>1. /\ k = MappingKey /\ pc \in Loop /\ UNCHANGED <<indexer, keys, idx>>
          /\ ~Lookup
      BY <1>3, NewKeys
    <2>2. k[1] = keys[idx]
      BY <2>1 DEF MappingKey
    <2>3. svc # NoService
      BY <2>1, ServiceAssumption DEF PInv, IInv, Control, Loop
    <2>4. Noted(k[1])
      BY <2>1, <2>2, <2>3 DEF PInv, SvcCurrent, Loop
    <2>5. QED
      BY <1>2, <2>1, <2>4
  <1>4. CASE k \in DOMAIN serviceMappings /\ indexer[k[1]] # NoService
    <2>1. Informer
      BY <1>1, <1>4, InformerOnly
    <2>2. k[1] \in Services
      BY <1>4 DEF PInv, IInv, TypeOK, MappingKeys
    <2>3. QED
      BY <1>4, <2>1, <2>2, InformerPending
  <1>5. CASE k \in DOMAIN serviceMappings /\ indexer[k[1]] = NoService
    <2>1. CASE pc = "remove" /\ k \in toDelete
      BY <1>1, <2>1, RemovalKept
    <2>2. CASE Noted(k[1]) /\ (Lookup => k[1] # keys[idx])
      BY <1>2, <2>2
    <2>3. CASE Lookup /\ k[1] = keys[idx]
      BY <1>5, <2>3 DEF Lookup, SyncDeleted, SyncIgnored, SyncPresent, MappingsOf
    <2>4. QED
      BY <1>5, <2>1, <2>2, <2>3 DEF PInv, OrphansNoted
  <1>6. QED
    BY <1>3, <1>4, <1>5

\* At most one event waits for its handler.
LEMMA NoticeStep ==
  ASSUME OneNotice, [Next]_vars
  PROVE  OneNotice'
  <1>1. CASE Restart \/ Handlers
    BY <1>1 DEF OneNotice, Restart, Forgets, Handlers, handleServiceAdd,
                handleServiceUpdate, handleServiceDelete, Handled
  <1>2. CASE Informer
    BY <1>2 DEF OneNotice, Informer, StoreAdd, StoreUpdate, StoreDelete,
                StoreResync, Store
  <1>3. CASE ~Restart /\ ~Handlers /\ ~Informer
    BY <1>3, InformerOnly DEF OneNotice
  <1>4. QED
    BY <1>1, <1>2, <1>3

\* The invariant holds initially,
LEMMA InitPending == Init => PInv
  <1> SUFFICES ASSUME Init PROVE PInv
    OBVIOUS
  <1>1. OneNotice /\ SvcCurrent /\ OrphansNoted
    BY DEF Init, OneNotice, SvcCurrent, Creating, OrphansNoted
  <1>2. QED
    BY <1>1, InitInv DEF PInv

\* after every step of the controller,
LEMMA NextPending == PInv /\ [Next]_vars => PInv'
  BY NextInv, NoticeStep, SvcStep, OrphanStep DEF PInv

\* and whatever becomes of the version, or of the process, in another's step.
LEMMA BesidePending ==
  ASSUME PInv, version' \in Nat, UNCHANGED <<config, spent>>,
         \/ Forgets
         \/ UNCHANGED <<informerVars, wq, memoryVars, pc, batchVars, serviceVars,
                        txVars>>
  PROVE  PInv'
  <1>1. spent' \in SpentType
    BY DEF PInv, IInv, TypeOK, SpentType
  <1>2. IInv'
    BY <1>1, OtherClient, Forgotten DEF PInv
  <1>3. CASE Forgets
    <2>1. OneNotice' /\ SvcCurrent' /\ OrphansNoted'
      BY <1>3 DEF Forgets, OneNotice, SvcCurrent, Creating, OrphansNoted
    <2>2. QED
      BY <1>2, <2>1 DEF PInv
  <1>4. CASE UNCHANGED <<informerVars, wq, memoryVars, pc, batchVars, serviceVars,
                         txVars>>
    <2>1. UNCHANGED <<indexer, notice, wq, serviceMappings, pc, keys, idx, svc,
                      toDelete>>
      BY <1>4 DEF informerVars, memoryVars, batchVars, serviceVars
    <2>2. OneNotice' /\ SvcCurrent' /\ OrphansNoted'
      BY <2>1 DEF PInv, OneNotice, SvcCurrent, OrphansNoted, Noted, Unread
    <2>3. QED
      BY <1>2, <2>2 DEF PInv
  <1>5. QED
    BY <1>3, <1>4

LEMMA PendingInv == Spec => []PInv
  BY InitPending, NextPending, PTL DEF Spec

-----------------------------------------------------------------------------
(* Every key that is taken is given back, if every batch is a single key,  *)
(* or if every transaction that is asked for is opened.                    *)

Reliable == MaxFaults = 0 /\ MaxForeign = 0

\* Every item of the queue is queued once, has to be processed and is not being
\* processed.
QueueOK(q) ==
  \A i \in 1..Len(q.queue) :
    /\ q.queue[i] \in q.dirty \ q.processing
    /\ \A j \in 1..Len(q.queue) : q.queue[i] = q.queue[j] => i = j

\* No key is in the batch twice, and there is a batch unless the worker is idle.
Batch ==
  /\ \A i, j \in DOMAIN keys : keys[i] = keys[j] => i = j
  /\ keys = <<>> <=> pc \in {"stopped", "idle"}
  /\ MaxBatchSize <= 1 => Len(keys) <= 1
  /\ pc = "finish" => idx >= 2

\* A transaction is asked for at the version that is current.
VersionCurrent == Reliable /\ pc = "start" => seenVersion = version

KInv == IInv /\ QueueOK(wq) /\ Batch /\ VersionCurrent /\ KeysReturned

\* An Add queues a key that is not queued,
LEMMA AddOK ==
  ASSUME NEW q \in QueueType, QueueOK(q), NEW k \in Services
  PROVE  QueueOK(Add(q, k)) /\ Add(q, k).processing = q.processing
  <1>1. CASE k \in q.dirty
    BY <1>1 DEF Add
  <1>2. CASE k \notin q.dirty /\ k \in q.processing
    <2>1. /\ Add(q, k).queue = q.queue /\ Add(q, k).dirty = q.dirty \cup {k}
          /\ Add(q, k).processing = q.processing
      BY <1>2 DEF Add, QueueType
    <2>2. QED
      BY <2>1 DEF QueueOK
  <1>3. CASE k \notin q.dirty /\ k \notin q.processing
    <2>1. /\ Add(q, k).queue = Append(q.queue, k)
          /\ Add(q, k).dirty = q.dirty \cup {k}
          /\ Add(q, k).processing = q.processing
      BY <1>3 DEF Add, QueueType
    <2>2. \A i \in 1..Len(q.queue) : q.queue[i] # k
      BY <1>3 DEF QueueOK
    <2>3. q.queue \in Seq(Services)
      BY QueueFields
    <2>4. QED
      BY <1>3, <2>1, <2>2, <2>3 DEF QueueOK
  <1>4. QED
    BY <1>1, <1>2, <1>3

\* a Get takes one that is not being processed,
LEMMA GetOK ==
  ASSUME NEW q \in QueueType, QueueOK(q), q.queue # <<>>
  PROVE  /\ QueueOK(Get(q)) /\ Head(q.queue) \notin q.processing
         /\ Get(q).processing = q.processing \cup {Head(q.queue)}
  <1>1. q.queue \in Seq(Services)
    BY QueueFields
  <1>2. /\ Get(q).queue = Tail(q.queue) /\ Get(q).dirty = q.dirty \ {Head(q.queue)}
        /\ Get(q).processing = q.processing \cup {Head(q.queue)}
    BY DEF Get, QueueType
  <1>3. Head(q.queue) = q.queue[1] /\ 1 \in 1..Len(q.queue)
    BY <1>1
  <1>4. /\ Len(Tail(q.queue)) = Len(q.queue) - 1
        /\ \A i \in 1..Len(Tail(q.queue)) :
             Tail(q.queue)[i] = q.queue[i + 1] /\ i + 1 \in 1..Len(q.queue)
    BY <1>1
  <1>5. QED
    BY <1>2, <1>3, <1>4 DEF QueueOK

\* and a Done queues one again that became dirty in the meantime.
LEMMA DoneOK ==
  ASSUME NEW q \in QueueType, QueueOK(q), NEW k \in q.processing
  PROVE  QueueOK(Done(q, k)) /\ Done(q, k).processing = q.processing \ {k}
  <1>1. /\ Done(q, k).queue = IF k \in q.dirty THEN Append(q.queue, k) ELSE q.queue
        /\ Done(q, k).dirty = q.dirty /\ Done(q, k).processing = q.processing \ {k}
    BY DEF Done, QueueType
  <1>2. \A i \in 1..Len(q.queue) : q.queue[i] # k
    BY DEF QueueOK
  <1>3. q.queue \in Seq(Services) /\ k \in Services
    BY QueueFields
  <1>4. QED
    BY <1>1, <1>2, <1>3 DEF QueueOK

\* The delays run beside the queue.
LEMMA DelayOK ==
  ASSUME NEW q \in QueueType, QueueOK(q)
  PROVE  /\ \A ks \in SUBSET Services :
              /\ QueueOK(AddDelayed(q, ks))
              /\ AddDelayed(q, ks).processing = q.processing
         /\ \A k \in Services :
              /\ QueueOK(DelayElapsed(q, k))
              /\ DelayElapsed(q, k).processing = q.processing
  <1>1. \A ks \in SUBSET Services :
          /\ QueueOK(AddDelayed(q, ks))
          /\ AddDelayed(q, ks).processing = q.processing
    BY DEF AddDelayed, QueueOK, QueueType
  <1>2. ASSUME NEW k \in Services
        PROVE  /\ QueueOK(DelayElapsed(q, k))
               /\ DelayElapsed(q, k).processing = q.processing
    <2> DEFINE r == [q EXCEPT !.waiting = @ \ {k}]
    <2>1. r \in QueueType /\ QueueOK(r) /\ r.processing = q.processing
      BY DEF QueueOK, QueueType
    <2> HIDE DEF r
    <2>2. QueueOK(Add(r, k)) /\ Add(r, k).processing = r.processing
      BY <2>1, AddOK
    <2>3. QED
      BY <2>1, <2>2 DEF DelayElapsed, r
  <1>3. QED
    BY <1>1, <1>2

\* A step that leaves the queue and the batch alone, outside of the end of a
\* batch.
LEMMA KeysQuiet ==
  ASSUME KInv, UNCHANGED <<wq, keys>>,
         {pc, pc'} \cap {"finish", "commit"} = {},
         pc' \in {"stopped", "idle"} <=> pc \in {"stopped", "idle"}
  PROVE  QueueOK(wq)' /\ Batch' /\ KeysReturned'
  BY DEF KInv, QueueOK, Batch, KeysReturned, Held, KeySet

\* The informer, its handlers, the delays and the other clients.
LEMMA KeysAround ==
  ASSUME KInv, Informer \/ Handlers \/ Delays \/ ForeignCommit \/ UNCHANGED vars
  PROVE  QueueOK(wq)' /\ Batch' /\ VersionCurrent' /\ KeysReturned'
  <1>1. UNCHANGED <<pc, keys, idx, seenVersion>>
    BY DEF Informer, StoreAdd, StoreUpdate, StoreDelete, StoreResync, Store,
       Handlers, handleServiceAdd, handleServiceUpdate, handleServiceDelete,
       Handled, Delays, RetryDelayElapsed, ForeignCommit, vars, batchVars, txVars
  <1>2. wq \in QueueType
    BY DEF KInv, IInv, TypeOK, QueueType
  <1>3. QueueOK(wq') /\ wq'.processing = wq.processing
    <2>1. CASE Informer \/ ForeignCommit \/ UNCHANGED vars
      BY <2>1 DEF KInv, Informer, StoreAdd, StoreUpdate, StoreDelete, StoreResync,
         Store, ForeignCommit, vars
    <2>2. CASE Handlers
      <3>1. PICK e \in notice : wq' \in {wq, Add(wq, e.key)}
        BY <2>2 DEF Handlers, handleServiceAdd, handleServiceUpdate,
                    handleServiceDelete
      <3>2. e.key \in Services
        BY DEF KInv, IInv, TypeOK
      <3>3. QED
        BY <1>2, <3>1, <3>2, AddOK DEF KInv
    <2>3. CASE Delays
      BY <1>2, <2>3, DelayOK DEF KInv, Delays, RetryDelayElapsed
    <2>4. QED
      BY <2>1, <2>2, <2>3
  <1>4. Reliable => UNCHANGED version
    BY DEF Reliable, Informer, StoreAdd, StoreUpdate, StoreDelete, StoreResync,
       Store, Handlers, handleServiceAdd, handleServiceUpdate, handleServiceDelete,
       Handled, Delays, RetryDelayElapsed, ForeignCommit, vars, apiVars, KInv, IInv,
       TypeOK
  <1>5. QED
    BY <1>1, <1>3, <1>4 DEF KInv, Batch, QueueOK, KeysReturned, Held, KeySet,
                            VersionCurrent

\* Taking a batch and opening its transaction.
LEMMA KeysTakenStep ==
  ASSUME KInv,
         \/ CacheSynced \/ GetFirst \/ GetNext \/ BatchCollected \/ ReadVersion
         \/ TransactionStarted \/ TransactionRefused,
         MaxBatchSize <= 1 \/ Reliable
  PROVE  QueueOK(wq)' /\ Batch' /\ VersionCurrent' /\ KeysReturned'
  <1>1. wq \in QueueType /\ keys \in Seq(Services) /\ DOMAIN keys = 1..Len(keys)
    BY DEF KInv, IInv, TypeOK, QueueType
  <1>2. CASE CacheSynced \/ BatchCollected \/ ReadVersion \/ TransactionStarted
    <2>1. /\ UNCHANGED <<wq, keys>> /\ {pc, pc'} \cap {"finish", "commit"} = {}
          /\ pc' \in {"stopped", "idle"} <=> pc \in {"stopped", "idle"}
      BY <1>2 DEF CacheSynced, BatchCollected, ReadVersion, TransactionStarted,
                  batchVars
    <2>2. VersionCurrent'
      <3>1. CASE ReadVersion
        <4>1. PICK o \in ReadFates : /\ spent.faults + Cost(o) <= MaxFaults
                                     /\ seenVersion' = getVersion(version, o)
                                     /\ UNCHANGED version
          BY <3>1 DEF ReadVersion, Spend, apiVars
        <4>2. Reliable => o = "ok"
          BY <4>1 DEF Reliable, Cost, KInv, IInv, TypeOK
        <4>3. QED
          BY <4>1, <4>2 DEF VersionCurrent, getVersion
      <3>2. CASE ~ReadVersion
        BY <1>2, <3>2 DEF VersionCurrent, CacheSynced, BatchCollected,
                          TransactionStarted
      <3>3. QED
        BY <3>1, <3>2
    <2>3. QED
      BY <2>1, <2>2, KeysQuiet
  <1>3. CASE GetFirst
    <2> DEFINE h == Head(wq.queue)
    <2>1. /\ QueueOK(Get(wq)) /\ h \in Services
          /\ Get(wq).processing = wq.processing \cup {h}
      BY <1>1, <1>3, GetOK, GetType DEF KInv, GetFirst
    <2>2. wq.processing = {}
      BY <1>3 DEF KInv, Batch, KeysReturned, Held, KeySet, GetFirst
    <2> HIDE DEF h
    <2>3. keys' = <<h>> /\ wq' = Get(wq) /\ pc' = "collect"
      BY <1>3 DEF GetFirst, h
    <2>4. Batch'
      BY <2>1, <2>3 DEF Batch
    <2>5. KeysReturned'
      BY <2>1, <2>2, <2>3 DEF KeysReturned, Held, KeySet
    <2>6. QED
      BY <2>1, <2>3, <2>4, <2>5 DEF VersionCurrent, QueueOK
  <1>4. CASE GetNext
    <2> DEFINE h == Head(wq.queue)
    <2>1. /\ QueueOK(Get(wq)) /\ h \in Services /\ h \notin wq.processing
          /\ Get(wq).processing = wq.processing \cup {h}
      BY <1>1, <1>4, GetOK, GetType DEF KInv, GetNext, BatchOpen
    <2>2. wq.processing = KeySet
      BY <1>4 DEF KInv, KeysReturned, Held, GetNext
    <2>3. \A i \in DOMAIN keys : keys[i] # h
      BY <2>1, <2>2 DEF KeySet
    <2> HIDE DEF h
    <2>4. /\ keys' = Append(keys, h) /\ wq' = Get(wq) /\ pc = "collect"
          /\ pc' = "collect" /\ Len(keys) < MaxBatchSize
      BY <1>4 DEF GetNext, h, BatchOpen
    <2>5. /\ DOMAIN keys' = 1..(Len(keys) + 1) /\ keys'[Len(keys) + 1] = h
          /\ Len(keys) \in Nat /\ Len(keys') = Len(keys) + 1
          /\ \A i \in DOMAIN keys : keys'[i] = keys[i]
      BY <1>1, <2>1, <2>4
    <2>6. Batch'
      <3>1. \A i, j \in DOMAIN keys' : keys'[i] = keys'[j] => i = j
        BY <1>1, <2>3, <2>5 DEF KInv, Batch
      <3>2. keys' # <<>>
        BY <2>1, <2>4, <1>1
      <3>3. MaxBatchSize <= 1 => Len(keys') <= 1
        BY <2>4, <2>5, RangeAssumption
      <3>4. QED
        BY <2>4, <3>1, <3>2, <3>3 DEF Batch
    <2>7. KeySet' = KeySet \cup {h}
      BY <1>1, <2>5 DEF KeySet
    <2>8. KeysReturned'
      BY <2>1, <2>2, <2>4, <2>7 DEF KeysReturned, Held
    <2>9. QED
      BY <2>1, <2>4, <2>6, <2>8 DEF VersionCurrent, QueueOK
  <1>5. CASE TransactionRefused
    <2>1. PICK o \in ReadFates : /\ ~StartTransaction(version, seenVersion, o)
                                 /\ spent.faults + Cost(o) <= MaxFaults
      BY <1>5 DEF TransactionRefused, Spend
    <2>2. ~Reliable
      BY <1>5, <2>1 DEF Reliable, Cost, KInv, IInv, TypeOK, VersionCurrent,
                        StartTransaction, TransactionRefused
    <2>3. keys # <<>> /\ Len(keys) <= 1 /\ pc = "start"
      BY <1>5, <2>2 DEF KInv, Batch, TransactionRefused
    <2>4. Len(keys) = 1 /\ keys[1] \in Services
      BY <1>1, <2>3
    <2>5. KeySet = {keys[1]} /\ wq.processing = {keys[1]}
      BY <1>1, <2>3, <2>4 DEF KInv, KeysReturned, Held, KeySet
    <2> DEFINE q == AddDelayed(wq, KeySet)
               k == keys[1]
    <2>6. q \in QueueType /\ QueueOK(q) /\ q.processing = {k}
      BY <1>1, <2>4, <2>5, DelayOK, AddDelayedType DEF KInv
    <2>7. wq' = Done(q, k)
      BY <1>5 DEF TransactionRefused, GiveBack
    <2> HIDE DEF q, k
    <2>8. QueueOK(wq') /\ wq'.processing = {}
      BY <2>6, <2>7, DoneOK
    <2>9. keys' = <<>> /\ pc' = "idle"
      BY <1>5 DEF TransactionRefused
    <2>10. QED
      BY <2>8, <2>9 DEF Batch, KeysReturned, Held, KeySet, VersionCurrent, QueueOK
  <1>6. QED
    BY <1>2, <1>3, <1>4, <1>5

\* The work on the batch.
LEMMA KeysWorkStep ==
  ASSUME KInv, Worker, pc \in Loop \cup {"sync", "remove"}
  PROVE  QueueOK(wq)' /\ Batch' /\ VersionCurrent' /\ KeysReturned'
  <1>1. CASE SyncDone
    <2>1. /\ UNCHANGED <<wq, keys>> /\ pc = "sync" /\ pc' = "finish" /\ idx' = 2
      BY <1>1 DEF SyncDone
    <2>2. keys # <<>> /\ keys \in Seq(Services)
      BY <2>1 DEF KInv, IInv, TypeOK, Batch
    <2>3. {1} \cup (2..Len(keys)) = DOMAIN keys
      <3>1. Len(keys) \in Nat /\ Len(keys) >= 1 /\ DOMAIN keys = 1..Len(keys)
        BY <2>2
      <3>2. \A n \in Nat : n >= 1 => {1} \cup (2..n) = 1..n
        OBVIOUS
      <3>3. QED
        BY <3>1, <3>2
    <2>4. Held' = {keys[i] : i \in {1} \cup (2..Len(keys))}
      BY <2>1 DEF Held
    <2>5. KeysReturned'
      BY <2>1, <2>3, <2>4 DEF KInv, KeysReturned, Held, KeySet
    <2>6. QED
      BY <2>1, <2>5 DEF KInv, QueueOK, Batch, VersionCurrent
  <1>2. CASE ~SyncDone
    <2>1. \/ SyncDeleted \/ SyncIgnored \/ SyncPresent \/ PortsDone \/ SkipPort
          \/ allocatePort \/ CreateBackend \/ CreateServer \/ CreateFrontend
          \/ CreateBind \/ RemoveMapping \/ RemoveDone
      BY <1>2 DEF Worker, CacheSynced, GetFirst, GetNext, BatchCollected,
         ReadVersion, TransactionStarted, TransactionRefused, GiveBackNext,
         BatchGivenBack, CommitBatch, Loop, Creating
    <2>2. UNCHANGED <<wq, keys>> /\ pc' \in Loop \cup {"sync", "remove"}
      <3>1. CASE \/ SyncDeleted \/ SyncIgnored \/ SyncPresent \/ PortsDone
                 \/ SkipPort \/ allocatePort \/ RemoveMapping \/ RemoveDone
        BY <3>1 DEF SyncDeleted, SyncIgnored, SyncPresent, PortsDone, SkipPort,
           allocatePort, RemoveMapping, RemoveDone, Loop, Creating, batchVars
      <3>2. CASE CreateBackend \/ CreateServer \/ CreateFrontend \/ CreateBind
        BY <3>2 DEF CreateBackend, CreateServer, CreateFrontend, CreateBind,
           createRest, Step, ProxyFailed, ProxyContinues, MappingCreated, Loop,
           Creating, batchVars
      <3>3. QED
        BY <2>1, <3>1, <3>2
    <2>3. /\ {pc, pc'} \cap {"finish", "commit"} = {}
          /\ pc' \in {"stopped", "idle"} <=> pc \in {"stopped", "idle"}
          /\ pc' # "start"
      BY <2>2 DEF Loop, Creating
    <2>4. QED
      BY <2>2, <2>3, KeysQuiet DEF VersionCurrent
  <1>3. QED
    BY <1>1, <1>2

\* Giving the batch back.
LEMMA KeysFinishStep ==
  ASSUME KInv, GiveBackNext \/ BatchGivenBack \/ CommitBatch
  PROVE  QueueOK(wq)' /\ Batch' /\ VersionCurrent' /\ KeysReturned'
  <1>1. /\ wq \in QueueType /\ keys \in Seq(Services) /\ DOMAIN keys = 1..Len(keys)
        /\ idx \in Nat
    BY DEF KInv, IInv, TypeOK, QueueType
  <1>2. keys # <<>> /\ 1 \in DOMAIN keys
    BY <1>1 DEF KInv, Batch, GiveBackNext, BatchGivenBack, CommitBatch
  <1>3. CASE GiveBackNext
    <2>1. /\ pc = "finish" /\ pc' = "finish" /\ idx <= Len(keys) /\ idx' = idx + 1
          /\ wq' = Done(wq, keys[idx]) /\ UNCHANGED keys
      BY <1>3 DEF GiveBackNext
    <2>2. idx >= 2 /\ idx \in DOMAIN keys
      BY <1>1, <2>1 DEF KInv, Batch
    <2>3. wq.processing = {keys[i] : i \in {1} \cup (idx..Len(keys))}
      BY <2>1 DEF KInv, KeysReturned, Held
    <2>4. keys[idx] \in wq.processing
      BY <1>1, <2>2, <2>3
    <2>5. QueueOK(wq') /\ wq'.processing = wq.processing \ {keys[idx]}
      BY <1>1, <2>1, <2>4, DoneOK DEF KInv
    <2>6. {keys[i] : i \in {1} \cup (idx..Len(keys))} \ {keys[idx]}
            = {keys[i] : i \in {1} \cup ((idx + 1)..Len(keys))}
      <3>1. \A i, j \in DOMAIN keys : keys[i] = keys[j] => i = j
        BY DEF KInv, Batch
      <3>2. {1} \cup (idx..Len(keys)) = ({1} \cup ((idx + 1)..Len(keys))) \cup {idx}
        BY <1>1, <2>2
      <3>3. /\ idx \notin {1} \cup ((idx + 1)..Len(keys))
            /\ {1} \cup ((idx + 1)..Len(keys)) \subseteq DOMAIN keys
        BY <1>1, <1>2, <2>2
      <3> DEFINE R == {1} \cup ((idx + 1)..Len(keys))
      <3>4. {keys[i] : i \in R \cup {idx}} = {keys[i] : i \in R} \cup {keys[idx]}
        OBVIOUS
      <3> HIDE DEF R
      <3>5. keys[idx] \notin {keys[i] : i \in R}
        BY <2>2, <3>1, <3>3 DEF R
      <3>6. QED
        BY <3>2, <3>4, <3>5 DEF R
    <2>7. KeysReturned'
      <3>1. Held' = {keys[i] : i \in {1} \cup ((idx + 1)..Len(keys))}
        BY <2>1 DEF Held
      <3>2. QED
        BY <2>3, <2>5, <2>6, <3>1 DEF KeysReturned
    <2>8. QED
      BY <1>1, <2>1, <2>2, <2>5, <2>7 DEF KInv, Batch, VersionCurrent, QueueOK
  <1>4. CASE BatchGivenBack
    <2>1. /\ pc = "finish" /\ pc' = "commit" /\ idx > Len(keys)
          /\ UNCHANGED <<wq, keys, idx>>
      BY <1>4 DEF BatchGivenBack, batchVars
    <2>2. {1} \cup (idx..Len(keys)) = {1}
      BY <1>1, <2>1
    <2>3. {keys[i] : i \in {1} \cup (idx..Len(keys))} = {keys[1]}
      BY <2>2
    <2>4. KeysReturned'
      BY <2>1, <2>3 DEF KInv, KeysReturned, Held
    <2>5. QED
      BY <2>1, <2>4 DEF KInv, Batch, VersionCurrent, QueueOK
  <1>5. CASE CommitBatch
    <2>1. pc = "commit" /\ pc' = "idle" /\ keys' = <<>> /\ wq' = Done(wq, keys[1])
      BY <1>5 DEF CommitBatch
    <2>2. wq.processing = {keys[1]}
      BY <2>1 DEF KInv, KeysReturned, Held
    <2>3. QueueOK(wq') /\ wq'.processing = {}
      BY <1>1, <2>1, <2>2, DoneOK DEF KInv
    <2>4. QED
      BY <2>1, <2>3 DEF Batch, KeysReturned, Held, KeySet, VersionCurrent, QueueOK
  <1>6. QED
    BY <1>3, <1>4, <1>5

\* The invariant of the keys, when no more than one key is taken at a time or
\* every transaction is opened.
LEMMA KeysInv ==
  ASSUME MaxBatchSize <= 1 \/ Reliable
  PROVE  Spec => []KInv
  <1>1. Init => KInv
    <2> SUFFICES ASSUME Init PROVE KInv
      OBVIOUS
    <2>1. QueueOK(wq) /\ Batch /\ VersionCurrent /\ KeysReturned
      BY DEF Init, QueueOK, EmptyQueue, Batch, VersionCurrent, KeysReturned, Held,
             KeySet
    <2>2. QED
      BY <2>1, InitInv DEF KInv
  <1>2. ASSUME KInv, [Next]_vars PROVE KInv'
    <2>1. IInv'
      BY <1>2, NextInv DEF KInv
    <2>2. CASE Informer \/ Handlers \/ Delays \/ ForeignCommit \/ UNCHANGED vars
      BY <1>2, <2>1, <2>2, KeysAround DEF KInv
    <2>3. CASE Restart
      <3>1. (QueueOK(wq) /\ Batch /\ VersionCurrent /\ KeysReturned)'
        BY <2>3 DEF Restart, Forgets, QueueOK, EmptyQueue, Batch, VersionCurrent,
                    KeysReturned, Held, KeySet
      <3>2. QED
        BY <2>1, <3>1 DEF KInv
    <2>4. CASE Worker /\ pc \in Loop \cup {"sync", "remove"}
      BY <1>2, <2>1, <2>4, KeysWorkStep DEF KInv
    <2>5. CASE Worker /\ pc \notin Loop \cup {"sync", "remove"}
      <3>1. \/ CacheSynced \/ GetFirst \/ GetNext \/ BatchCollected \/ ReadVersion
            \/ TransactionStarted \/ TransactionRefused
            \/ GiveBackNext \/ BatchGivenBack \/ CommitBatch
        BY <2>5 DEF Worker, SyncDeleted, SyncIgnored, SyncPresent, SyncDone,
           PortsDone, SkipPort, allocatePort, CreateBackend, CreateServer,
           CreateFrontend, CreateBind, RemoveMapping, RemoveDone, Loop, Creating
      <3>2. QED
        BY <1>2, <2>1, <3>1, KeysTakenStep, KeysFinishStep DEF KInv
    <2>6. QED
      BY <1>2, <2>2, <2>3, <2>4, <2>5 DEF Next
  <1>3. QED
    BY <1>1, <1>2, PTL DEF Spec

\* Every key that processNextWorkItem takes from the queue is given back by a
\* Done, whatever happens if batches are of one key, and for batches of any size
\* if no request fails and no other client commits. StrandedKeys has the
\* counterexample for the rest.
THEOREM KeysAreReturned ==
  ASSUME MaxBatchSize <= 1 \/ (MaxFaults = 0 /\ MaxForeign = 0)
  PROVE  Spec => []KeysReturned
  <1>1. KInv => KeysReturned
    BY DEF KInv
  <1>2. QED
    BY <1>1, KeysInv, PTL DEF Reliable

-----------------------------------------------------------------------------
(* What is noted is pending, if no key is stranded.                        *)

LEMMA NothingStranded ==
  ASSUME KeysReturned, NEW s, Noted(s)
  PROVE  Pending(s)
  BY DEF KeysReturned, Pending, Stranded

\* handleServiceDelete, the queue's coalescing, a transaction that is refused and
\* tried again, and changes while the worker holds the key lose no deletion before
\* its mappings are removed, for every batch size and whatever fails, except
\* those of stranded keys. (Those are real: StrandedKeys. KeysAreReturned says when
\* there are none. A removal that a refused commit undoes in HAProxy has left the
\* mappings and is not meant here.)
THEOREM DeletionsArePending == Spec => []OrphansPending
  <1>1. PInv => OrphansPending
    <2> SUFFICES ASSUME PInv, NEW k \in DOMAIN serviceMappings,
                        indexer[k[1]] = NoService
                 PROVE  \/ Pending(k[1])
                        \/ pc = "remove" /\ k \in toDelete
                        \/ k[1] \in Stranded
      BY DEF OrphansPending
    <2>1. Noted(k[1]) \/ (pc = "remove" /\ k \in toDelete)
      BY DEF PInv, OrphansNoted
    <2>2. QED
      BY <2>1 DEF Pending
  <1>2. QED
    BY <1>1, PendingInv, PTL
==============================================================================
