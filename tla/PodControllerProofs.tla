------------------------- MODULE PodControllerProofs -------------------------
(***************************************************************************)
(* Proofs about the V1 controller, for every set of Pods and requests and  *)
(* every number of changes, faults, foreign changes and restarts.          *)
(***************************************************************************)
EXTENDS PodController, WellFoundedInduction, TLAPS

-----------------------------------------------------------------------------
(* The servers that Pods give rise to.                                     *)

\* A set of positions has a last one.
LEMMA LastPosition ==
  ASSUME NEW n \in Nat, NEW S \in SUBSET (1..n), S # {}
  PROVE  \E i \in S : \A j \in S : j <= i
  <1> DEFINE T == {n - i : i \in S}
  <1>1. T \subseteq Nat /\ T # {}
    <2>1. \A i \in S : i \in 1..n
      OBVIOUS
    <2>2. \A i \in S : n - i \in Nat
      BY <2>1
    <2>3. QED
      BY <2>2
  <1> DEFINE R == OpToRel(<, Nat)
  <1>2. \A x, y \in Nat : y < x => <<y, x>> \in R
    BY DEF OpToRel
  <1>3. IsWellFoundedOn(R, Nat)
    BY NatLessThanWellFounded
  <1> HIDE DEF R
  <1>4. PICK x \in T : \A y \in T : ~(<<y, x>> \in R)
    BY <1>1, <1>3, WFMin
  <1>5. PICK i \in S : x = n - i
    BY <1>4
  <1>6. ASSUME NEW j \in S PROVE j <= i
    <2>1. ~(n - j < n - i)
      BY <1>1, <1>2, <1>4, <1>5
    <2>2. QED
      BY <2>1
  <1>7. QED
    BY <1>6

\* The elements of a sequence.
LEMMA ElementType ==
  ASSUME NEW S, NEW s \in Seq(S), NEW i \in 1..Len(s)
  PROVE  s[i] \in S
  OBVIOUS

\* The port chosen for a Pod is a port of one of its containers or the default,
\* and never 0.
LEMMA PortOfType ==
  ASSUME NEW o \in PodObjects
  PROVE  PortOf(o) \in Nat \ {0}
  <1> DEFINE named == {i \in DOMAIN o.ports : o.ports[i].name = JprofilerPortName}
  <1>1. o.ports \in Seq([name : STRING, port : Nat \ {0}])
    BY PodAssumption
  <1>2. CASE named = {}
    BY <1>2, PodAssumption DEF PortOf
  <1>3. CASE named # {}
    <2>1. Len(o.ports) \in Nat /\ DOMAIN o.ports = 1..Len(o.ports)
      BY <1>1
    <2>2. named \in SUBSET (1..Len(o.ports))
      BY <2>1
    <2>3. \E i \in named : \A j \in named : j <= i
      BY <1>3, <2>1, <2>2, LastPosition
    <2> DEFINE last == CHOOSE i \in named : \A j \in named : j <= i
    <2>4. last \in named
      BY <2>3
    <2>5. PortOf(o) = o.ports[last].port
      BY <1>3 DEF PortOf
    <2> HIDE DEF last, named
    <2>6. o.ports[last] \in [name : STRING, port : Nat \ {0}]
      <3>1. last \in 1..Len(o.ports)
        BY <2>2, <2>4
      <3>2. QED
        BY <1>1, <3>1, ElementType
    <2>7. QED
      BY <2>5, <2>6
  <1>4. QED
    BY <1>2, <1>3

ServerType == [name : ServerNames, addr : Addresses]

\* Both kinds of servers are servers.
LEMMA ServerTypes ==
  /\ DefaultServer \in ServerType
  /\ \A p \in Pods, o \in PodObjects :
       /\ PodServer(p, o) \in ServerType
       /\ PodServer(p, o).addr[2] \in PodPorts
  <1>1. DefaultServer \in ServerType
    <2>1. DefaultServer.name \in ServerNames
      BY DEF ServerNames
    <2>2. <<"127.0.0.1", ControllerPort>> \in Addresses
      BY PodAssumption DEF Addresses
    <2>3. QED
      BY <2>1, <2>2 DEF DefaultServer, ServerType
  <1>2. ASSUME NEW p \in Pods, NEW o \in PodObjects
        PROVE  /\ PodServer(p, o) \in ServerType
               /\ PodServer(p, o).addr[2] \in PodPorts
    <2>1. o.ip \in PodIPs
      BY DEF PodIPs
    <2>2. <<"POD", p, o.ip>> \in ServerNames
      BY <2>1 DEF ServerNames
    <2>3. <<o.ip, PortOf(o)>> \in Addresses
      BY <2>1, PortOfType DEF Addresses
    <2>4. QED
      BY <2>2, <2>3 DEF PodServer, ServerType, PodPorts
  <1>3. QED
    BY <1>1, <1>2

-----------------------------------------------------------------------------
(* The queue of events keeps its type.                                     *)

QueueType == [queue : Seq(Events), dirty : SUBSET Events,
              processing : SUBSET Events, waiting : SUBSET Events]

\* A queue with other parts of the right types is a queue.
LEMMA QueueParts ==
  ASSUME NEW q \in QueueType, NEW s \in Seq(Events),
         NEW d \in SUBSET Events, NEW p \in SUBSET Events
  PROVE  /\ [q EXCEPT !.dirty = d, !.queue = s] \in QueueType
         /\ [q EXCEPT !.queue = s, !.dirty = d, !.processing = p] \in QueueType
         /\ [q EXCEPT !.waiting = d] \in QueueType
         /\ q.queue \in Seq(Events) /\ q.dirty \in SUBSET Events
         /\ q.processing \in SUBSET Events /\ q.waiting \in SUBSET Events
  BY DEF QueueType

\* Adding an event, at once or after a delay, gives a queue.
LEMMA AddType ==
  ASSUME NEW q \in QueueType, NEW e \in Events
  PROVE  /\ Add(q, e) \in QueueType
         /\ AddDelayed(q, {e}) \in QueueType
         /\ DelayElapsed(q, e) \in QueueType
  <1>1. ASSUME NEW x \in QueueType PROVE Add(x, e) \in QueueType
    <2> DEFINE s == IF e \in x.processing THEN x.queue ELSE Append(x.queue, e)
               d == x.dirty \cup {e}
    <2>1. x.queue \in Seq(Events) /\ x.dirty \in SUBSET Events
      BY DEF QueueType
    <2>2. s \in Seq(Events) /\ d \in SUBSET Events
      BY <2>1
    <2> HIDE DEF s, d
    <2>3. [x EXCEPT !.dirty = d, !.queue = s] \in QueueType
      BY <2>2 DEF QueueType
    <2>4. QED
      BY <2>3 DEF Add, s, d
  <1>2. /\ [q EXCEPT !.waiting = @ \cup {e}] \in QueueType
        /\ [q EXCEPT !.waiting = @ \ {e}] \in QueueType
    BY DEF QueueType
  <1>3. QED
    BY <1>1, <1>2 DEF AddDelayed, DelayElapsed

\* Taking an event from a queue that has one gives a queue.
LEMMA GetType ==
  ASSUME NEW q \in QueueType, q.queue # <<>>
  PROVE  Get(q) \in QueueType
  <1> DEFINE s == Tail(q.queue)
             d == q.dirty \ {Head(q.queue)}
             p == q.processing \cup {Head(q.queue)}
  <1>1. q.queue \in Seq(Events)
    BY DEF QueueType
  <1>2. Head(q.queue) \in Events /\ s \in Seq(Events)
    BY <1>1
  <1>3. d \in SUBSET Events /\ p \in SUBSET Events
    BY <1>2 DEF QueueType
  <1> HIDE DEF s, d, p
  <1>4. [q EXCEPT !.queue = s, !.dirty = d, !.processing = p] \in QueueType
    BY <1>2, <1>3, QueueParts
  <1>5. QED
    BY <1>4 DEF Get, s, d, p

-----------------------------------------------------------------------------
(* The requests to the Data Plane API keep the type of the configuration.  *)

\* Every answer leaves a configuration of the right type.
LEMMA AnswerType ==
  ASSUME NEW c \in PodConfigs, NEW o, NEW v, NEW w,
         NEW s \in ServerType, NEW old
  PROVE  /\ Direct(AddBackend(c, Backend, o), c, v, w, o).cfg \in PodConfigs
         /\ Direct(AddFrontend(c, Frontend, Backend, o), c, v, w, o).cfg
              \in PodConfigs
         /\ Direct(AddBind(c, Frontend, Bind, DefaultMappingPort, o), c, v, w, o).cfg
              \in PodConfigs
         /\ Direct(AddServerToBackend(c, Backend, s.name, s.addr, o), c, v, w, o).cfg
              \in PodConfigs
         /\ Direct(ReplaceServerFromBackend(c, Backend, old, s.name, s.addr, o),
                   c, v, w, o).cfg \in PodConfigs
  <1> DEFINE new == [backend |-> Backend, name |-> s.name, addr |-> s.addr]
  <1>1. ASSUME NEW t, NEW code, NEW c2 \in PodConfigs
        PROVE  Request(t, c, code, c2, o).cfg \in PodConfigs
    BY <1>1 DEF Request
  <1>2. ASSUME NEW r, r.cfg \in PodConfigs
        PROVE  Direct(r, c, v, w, o).cfg \in PodConfigs
    BY <1>1, <1>2 DEF Direct
  <1>3. [c EXCEPT !.backends = @ \cup {Backend}] \in PodConfigs
    BY DEF PodConfigs
  <1>4. [c EXCEPT !.frontends = @ \cup {[name |-> Frontend, backend |-> Backend]}]
          \in PodConfigs
    BY DEF PodConfigs
  <1>5. [c EXCEPT !.binds = @ \cup {[frontend |-> Frontend, name |-> Bind,
                                     port |-> DefaultMappingPort]}] \in PodConfigs
    BY DEF PodConfigs
  <1>6. /\ [c EXCEPT !.servers = @ \cup {new}] \in PodConfigs
        /\ [c EXCEPT !.servers = {x \in @ : ~(x.backend = Backend /\ x.name = old)}
                                   \cup {new}] \in PodConfigs
    BY DEF PodConfigs, ServerType
  <1>7. AddBackend(c, Backend, o).cfg \in PodConfigs
    BY <1>1, <1>3 DEF AddBackend
  <1>8. AddFrontend(c, Frontend, Backend, o).cfg \in PodConfigs
    BY <1>1, <1>4 DEF AddFrontend
  <1>9. AddBind(c, Frontend, Bind, DefaultMappingPort, o).cfg \in PodConfigs
    BY <1>1, <1>5 DEF AddBind
  <1>10. AddServerToBackend(c, Backend, s.name, s.addr, o).cfg \in PodConfigs
    BY <1>1, <1>6 DEF AddServerToBackend
  <1>11. ReplaceServerFromBackend(c, Backend, old, s.name, s.addr, o).cfg
           \in PodConfigs
    BY <1>1, <1>6 DEF ReplaceServerFromBackend
  <1>12. QED
    BY <1>2, <1>7, <1>8, <1>9, <1>10, <1>11

-----------------------------------------------------------------------------
(* The types. They rest on one more fact: what a request installs is the   *)
(* server of its Pod, so that the event it leaves for pop is an event.     *)

Ended == {"new", "done", "failed"}

Served ==
  \A r \in Requests :
    stage[r] \notin Ended => srv[r] \in {PodServer(PodOf[r], o) : o \in PodObjects}

TInv == PodTypeOK /\ Served

UsedType == [changes : Nat, faults : Nat, foreign : Nat, restarts : Nat]

\* Run and pop are no requests.
LEMMA Apart ==
  /\ "run" \in Procs /\ "pop" \in Procs /\ Requests \subseteq Procs
  /\ \A r \in Requests : r # "run" /\ r # "pop"
  BY PodAssumption DEF Procs

\* The other bounds are counted too.
LEMMA CountType ==
  ASSUME used \in UsedType
  PROVE  /\ [used EXCEPT !.changes = @ + 1] \in UsedType
         /\ [used EXCEPT !.foreign = @ + 1] \in UsedType
         /\ [used EXCEPT !.restarts = @ + 1] \in UsedType
  BY DEF UsedType

\* A fault is counted.
LEMMA SpendType ==
  ASSUME used \in UsedType, NEW o, SpendPod(o)
  PROVE  used' \in UsedType
  <1>1. \A n \in Nat : [used EXCEPT !.faults = @ + n] \in UsedType
    BY DEF UsedType
  <1>2. QED
    BY <1>1 DEF SpendPod

\* The end of the process leaves every request ended and everything else in
\* memory as at the start.
LEMMA DiesType ==
  ASSUME Dies
  PROVE  /\ lister' \in [Pods -> PodObjects \cup {NoPod}]
         /\ stage' \in [Procs -> Stages]
         /\ srv' \in [Procs -> ServerType]
         /\ todo' \in [Procs -> SUBSET ServerNames]
         /\ mu' \subseteq Procs /\ seen' \in [Procs -> Nat \cup {-1}]
         /\ async' \in QueueType /\ left' \in [Events -> Nat]
         /\ Served'
         /\ \A r \in Requests : stage'[r] \in Ended
  <1>1. ASSUME NEW p \in Procs
        PROVE  /\ StageAfterDeath(p) \in Stages
               /\ p \in Requests => StageAfterDeath(p) \in Ended
    BY Apart DEF StageAfterDeath, Stages, Ended
  <1>2. stage' = [p \in Procs |-> StageAfterDeath(p)]
    BY DEF Dies
  <1>3. stage' \in [Procs -> Stages]
    BY <1>1, <1>2
  <1>4. \A r \in Requests : stage'[r] \in Ended
    BY <1>1, <1>2, Apart
  <1>5. Served'
    BY <1>4 DEF Served
  <1>6. srv' \in [Procs -> ServerType]
    BY ServerTypes DEF Dies
  <1>7. async' \in QueueType
    BY DEF Dies, EmptyQueue, QueueType
  <1>8. QED
    BY <1>3, <1>4, <1>5, <1>6, <1>7 DEF Dies

\* A write whose answer has the right type keeps the types.
LEMMA SentType ==
  ASSUME TInv, NEW p \in Procs, stage[p] \in Writing,
         NEW r, r.cfg \in PodConfigs, NEW next \in Stages,
         NEW rest \in SUBSET ServerNames, Sent(p, r, next, rest),
         owed' \in Int, used' \in UsedType
  PROVE  TInv'
  <1>1. config' \in PodConfigs /\ version' \in Nat
    <2>1. version + 1 \in Nat /\ version \in Nat
      BY DEF TInv, PodTypeOK
    <2>2. QED
      BY <2>1 DEF Sent
  <1>2. ttl' \in [Requests -> Int]
    BY DEF Sent, TInv, PodTypeOK
  <1>3. CASE next = "dead"
    <2>1. Dies
      BY <1>3 DEF Sent
    <2>2. QED
      BY <1>1, <1>2, <2>1, DiesType
         DEF TInv, PodTypeOK, QueueType, ServerType, UsedType
  <1>4. CASE next # "dead"
    <2>1. /\ mu' \subseteq Procs /\ seen' = [seen EXCEPT ![p] = -1]
          /\ stage' = [stage EXCEPT ![p] = next]
          /\ todo' = [todo EXCEPT ![p] = rest]
          /\ UNCHANGED <<lister, srv, timerVars>>
      BY <1>4 DEF Sent, Unlocked, TInv, PodTypeOK
    <2>2. PodTypeOK'
      BY <1>1, <1>2, <2>1 DEF TInv, PodTypeOK, UsedType, timerVars
    <2>3. Served'
      <3>1. stage[p] \notin Ended
        BY DEF Writing, Ended
      <3>2. QED
        BY <2>1, <3>1, Apart DEF TInv, PodTypeOK, Served
    <2>4. QED
      BY <2>2, <2>3 DEF TInv
  <1>5. QED
    BY <1>3, <1>4

\* The initial state.
LEMMA InitType == Init => TInv
  <1> SUFFICES ASSUME Init PROVE TInv
    OBVIOUS
  <1> DEFINE first(p) == CASE p = "run" -> "sync" [] p = "pop" -> "idle"
                           [] OTHER -> "new"
  <1>1. stage = [p \in Procs |-> first(p)]
    BY DEF Init, PodInit
  <1>2. \A p \in Procs : first(p) \in Stages /\ (p \in Requests => first(p) \in Ended)
    BY Apart DEF Stages, Ended
  <1> HIDE DEF first
  <1>3. stage \in [Procs -> Stages] /\ Served
    BY <1>1, <1>2, Apart DEF Served
  <1>4. async \in QueueType
    BY DEF Init, PodInit, EmptyQueue, QueueType
  <1>5. srv \in [Procs -> ServerType]
    BY ServerTypes DEF Init, PodInit
  <1>6. config \in PodConfigs
    BY DEF Init, EmptyConfig, PodConfigs
  <1>7. QED
    BY <1>3, <1>4, <1>5, <1>6
       DEF TInv, PodTypeOK, Init, PodInit, QueueType, ServerType

\* What a caller goes on to after a write.
LEMMA NextStages ==
  ASSUME NEW p, NEW err, NEW names
  PROVE  /\ Returned(p, err) \in Stages /\ NextWrite(names) \in Stages
         /\ AfterBackend(err) \in Stages /\ AfterFrontend(err) \in Stages
         /\ AfterBind(err) \in Stages
  BY DEF Returned, NextWrite, AfterBackend, AfterFrontend, AfterBind, Initialised,
         Stages, Writing

\* The read of the version and of the servers.
LEMMA ReadType ==
  ASSUME TInv, NEW p \in Procs, Lock(p) \/ ReadServers(p)
  PROVE  TInv'
  <1>1. CASE Lock(p)
    <2>1. PICK o \in ReadFates :
            SpendPod(o) /\ seen' = [seen EXCEPT ![p] = getVersion(version, o)]
      BY <1>1 DEF Lock
    <2>2. used' \in UsedType
      BY <2>1, SpendType DEF TInv, PodTypeOK, UsedType
    <2>3. getVersion(version, o) \in Nat \cup {-1}
      BY DEF getVersion, TInv, PodTypeOK
    <2>4. seen' \in [Procs -> Nat \cup {-1}] /\ mu' \subseteq Procs
      BY <1>1, <2>1, <2>3 DEF Lock, TInv, PodTypeOK
    <2>5. UNCHANGED <<lister, callVars, timerVars, owed, apiVars>>
      BY <1>1 DEF Lock
    <2>6. QED
      BY <2>2, <2>4, <2>5
         DEF TInv, PodTypeOK, Served, UsedType, callVars, timerVars, apiVars
  <1>2. CASE ReadServers(p)
    <2>1. PICK o \in ReadFates :
            /\ SpendPod(o)
            /\ todo' = [todo EXCEPT ![p] = GetServers(config, Backend, o)]
            /\ stage' = [stage EXCEPT
                           ![p] = NextWrite(GetServers(config, Backend, o))]
      BY <1>2 DEF ReadServers
    <2>2. used' \in UsedType
      BY <2>1, SpendType DEF TInv, PodTypeOK, UsedType
    <2>3. GetServers(config, Backend, o) \in SUBSET ServerNames
      BY DEF GetServers, TInv, PodTypeOK, PodConfigs
    <2>4. todo' \in [Procs -> SUBSET ServerNames] /\ stage' \in [Procs -> Stages]
      BY <2>1, <2>3, NextStages DEF TInv, PodTypeOK
    <2>5. stage[p] = "read" /\ UNCHANGED <<lister, srv, ttl, lockVars, timerVars,
                                           owed, apiVars>>
      BY <1>2 DEF ReadServers
    <2>6. Served'
      BY <2>1, <2>5, Apart DEF Served, Ended, TInv, PodTypeOK
    <2>7. QED
      BY <2>2, <2>4, <2>5, <2>6
         DEF TInv, PodTypeOK, UsedType, lockVars, timerVars, apiVars
  <1>3. QED
    BY <1>1, <1>2

\* The writes of changeProxy.
LEMMA WriteType ==
  ASSUME TInv, NEW p \in Procs, ReplaceServers(p) \/ AddServer(p)
  PROVE  TInv'
  <1>1. srv[p] \in ServerType /\ todo[p] \in SUBSET ServerNames
        /\ config \in PodConfigs /\ used \in UsedType
    BY DEF TInv, PodTypeOK, ServerType, UsedType
  <1>2. ASSUME NEW r, Owes(p, r) PROVE owed' \in Int
    BY <1>2 DEF Owes, TInv, PodTypeOK
  <1>3. CASE ReplaceServers(p)
    <2> DEFINE res(n, o) == Direct(ReplaceServerFromBackend(config, Backend, n,
                                     srv[p].name, srv[p].addr, o),
                                   config, version, seen[p], o)
               nxt(n, o) == IF todo[p] = {n} THEN Returned(p, res(n, o).err)
                            ELSE "replace"
    <2>1. PICK n \in todo[p], o \in Fates :
            /\ SpendPod(o) /\ Owes(p, res(n, o))
            /\ Sent(p, res(n, o), nxt(n, o), todo[p] \ {n})
      BY <1>3 DEF ReplaceServers
    <2>2. res(n, o).cfg \in PodConfigs
      BY <1>1, AnswerType
    <2>3. nxt(n, o) \in Stages
      BY NextStages DEF Stages, Writing
    <2>4. stage[p] \in Writing
      BY <1>3 DEF ReplaceServers, Writing
    <2>5. used' \in UsedType /\ owed' \in Int
      BY <1>1, <1>2, <2>1, SpendType
    <2>6. todo[p] \ {n} \in SUBSET ServerNames
      BY <1>1
    <2> HIDE DEF res, nxt
    <2>7. QED
      BY <2>1, <2>2, <2>3, <2>4, <2>5, <2>6, SentType
  <1>4. CASE AddServer(p)
    <2> DEFINE res(o) == Direct(AddServerToBackend(config, Backend, srv[p].name,
                                                   srv[p].addr, o),
                                config, version, seen[p], o)
    <2>1. PICK o \in Fates :
            /\ SpendPod(o) /\ Owes(p, res(o))
            /\ Sent(p, res(o), Returned(p, res(o).err), {})
      BY <1>4 DEF AddServer
    <2>2. res(o).cfg \in PodConfigs
      BY <1>1, AnswerType
    <2>3. stage[p] \in Writing
      BY <1>4 DEF AddServer, Writing
    <2>4. used' \in UsedType /\ owed' \in Int
      BY <1>1, <1>2, <2>1, SpendType
    <2>5. Returned(p, res(o).err) \in Stages /\ {} \in SUBSET ServerNames
      BY NextStages
    <2> HIDE DEF res
    <2>6. QED
      BY <2>1, <2>2, <2>3, <2>4, <2>5, SentType
  <1>5. QED
    BY <1>3, <1>4

\* The writes of createProxy.
LEMMA CreateType ==
  ASSUME TInv, createProxy
  PROVE  TInv'
  <1>1. config \in PodConfigs /\ used \in UsedType /\ owed \in Int
    BY DEF TInv, PodTypeOK, UsedType
  <1>2. ASSUME NEW r, NEW o, NEW next \in Stages,
               Direct(r, config, version, seen["run"], o).cfg \in PodConfigs,
               SpendPod(o), UNCHANGED owed, stage["run"] \in Writing,
               Sent("run", Direct(r, config, version, seen["run"], o), next, {})
        PROVE  TInv'
    <2>1. used' \in UsedType /\ owed' \in Int
      BY <1>1, <1>2, SpendType
    <2>2. {} \in SUBSET ServerNames
      OBVIOUS
    <2>3. QED
      BY <1>2, <2>1, <2>2, Apart, SentType
  <1>3. CASE CreateBackend
    <2>1. PICK o \in Fates :
            LET r == Direct(AddBackend(config, Backend, o),
                            config, version, seen["run"], o)
            IN  Creates(r, o, AfterBackend(r.err))
      BY <1>3 DEF CreateBackend
    <2>2. stage["run"] \in Writing
      BY <1>3 DEF CreateBackend, Writing
    <2>3. QED
      BY <1>1, <1>2, <2>1, <2>2, AnswerType, ServerTypes, NextStages DEF Creates
  <1>4. CASE CreateFrontend
    <2>1. PICK o \in Fates :
            LET r == Direct(AddFrontend(config, Frontend, Backend, o),
                            config, version, seen["run"], o)
            IN  Creates(r, o, AfterFrontend(r.err))
      BY <1>4 DEF CreateFrontend
    <2>2. stage["run"] \in Writing
      BY <1>4 DEF CreateFrontend, Writing
    <2>3. QED
      BY <1>1, <1>2, <2>1, <2>2, AnswerType, ServerTypes, NextStages DEF Creates
  <1>5. CASE CreateBind
    <2>1. PICK o \in Fates :
            LET r == Direct(AddBind(config, Frontend, Bind, DefaultMappingPort, o),
                            config, version, seen["run"], o)
            IN  Creates(r, o, AfterBind(r.err))
      BY <1>5 DEF CreateBind
    <2>2. stage["run"] \in Writing
      BY <1>5 DEF CreateBind, Writing
    <2>3. QED
      BY <1>1, <1>2, <2>1, <2>2, AnswerType, ServerTypes, NextStages DEF Creates
  <1>6. QED
    BY <1>3, <1>4, <1>5 DEF createProxy

\* A request arrives, and one that succeeded starts its timer.
LEMMA RequestType ==
  ASSUME TInv, NEW r \in Requests, create(r) \/ AddAfter(r)
  PROVE  TInv'
  <1>1. CASE create(r)
    <2>1. ttl' \in [Requests -> Int]
      BY <1>1, PodAssumption DEF create, TInv, PodTypeOK
    <2>2. UNCHANGED <<lister, todo, lockVars, timerVars, owed, used, apiVars>>
      BY <1>1 DEF create
    <2>3. CASE lister[PodOf[r]] = NoPod
      <3>1. stage' = [stage EXCEPT ![r] = "failed"] /\ UNCHANGED srv
        BY <1>1, <2>3 DEF create
      <3>2. Served'
        BY <3>1, Apart DEF Served, Ended, TInv, PodTypeOK
      <3>3. QED
        BY <2>1, <2>2, <3>1, <3>2
           DEF TInv, PodTypeOK, Stages, lockVars, timerVars, apiVars
    <2>4. CASE lister[PodOf[r]] # NoPod
      <3> DEFINE new == PodServer(PodOf[r], lister[PodOf[r]])
      <3>1. /\ stage' = [stage EXCEPT ![r] = "read"]
            /\ srv' = [srv EXCEPT ![r] = new]
        BY <1>1, <2>4 DEF create
      <3>2. PodOf[r] \in Pods /\ lister[PodOf[r]] \in PodObjects
        BY <2>4, PodAssumption DEF TInv, PodTypeOK
      <3>3. new \in ServerType /\ new \in {PodServer(PodOf[r], o) : o \in PodObjects}
        BY <3>2, ServerTypes
      <3> HIDE DEF new
      <3>4. srv' \in [Procs -> ServerType] /\ stage' \in [Procs -> Stages]
        BY <3>1, <3>3 DEF TInv, PodTypeOK, ServerType, Stages
      <3>5. Served'
        BY <3>1, <3>3, Apart DEF Served, TInv, PodTypeOK
      <3>6. QED
        BY <2>1, <2>2, <3>4, <3>5
           DEF TInv, PodTypeOK, ServerType, lockVars, timerVars, apiVars
    <2>5. QED
      BY <2>3, <2>4
  <1>2. CASE AddAfter(r)
    <2>1. EventOf(r) \in Events
      <3>1. PICK o \in PodObjects : srv[r] = PodServer(PodOf[r], o)
        BY <1>2 DEF AddAfter, TInv, Served, Ended
      <3>2. PodOf[r] \in Pods
        BY PodAssumption
      <3>3. QED
        BY <3>1, <3>2, ServerTypes DEF EventOf, Events
    <2>2. async' \in QueueType /\ left' \in [Events -> Nat]
      <3>1. async \in QueueType /\ left \in [Events -> Nat] /\ ttl[r] \in Int
        BY DEF TInv, PodTypeOK, QueueType
      <3>2. DelayedUntil(EventOf(r), ttl[r])
        BY <1>2 DEF AddAfter
      <3>3. CASE ttl[r] <= 0
        BY <2>1, <3>1, <3>2, <3>3, AddType DEF DelayedUntil
      <3>4. CASE ttl[r] > 0
        <4>1. PICK t \in Nat : left' = [left EXCEPT ![EventOf(r)] = t]
          BY <2>1, <3>1, <3>2, <3>4 DEF DelayedUntil
        <4>2. async' = AddDelayed(async, {EventOf(r)})
          BY <3>1, <3>2, <3>4 DEF DelayedUntil
        <4>3. QED
          BY <2>1, <3>1, <4>1, <4>2, AddType
      <3>5. QED
        BY <3>1, <3>3, <3>4
    <2>3. /\ stage' = [stage EXCEPT ![r] = "done"]
          /\ UNCHANGED <<lister, srv, todo, ttl, lockVars, owed, used, apiVars>>
      BY <1>2 DEF AddAfter
    <2>4. Served'
      BY <2>3, Apart DEF Served, Ended, TInv, PodTypeOK
    <2>5. QED
      BY <2>2, <2>3, <2>4
         DEF TInv, PodTypeOK, QueueType, Stages, lockVars, apiVars
  <1>3. QED
    BY <1>1, <1>2

\* pop takes an event, time passes, a timer fires.
LEMMA TimerType ==
  ASSUME TInv, GetEvent \/ Tick \/ \E e \in Events : Expire(e)
  PROVE  TInv'
  <1>1. async \in QueueType /\ left \in [Events -> Nat] /\ owed \in Int
    BY DEF TInv, PodTypeOK, QueueType
  <1>2. CASE GetEvent
    <2>1. async' \in QueueType
      BY <1>1, <1>2, GetType DEF GetEvent
    <2>2. /\ stage' = [stage EXCEPT !["pop"] = "read"]
          /\ UNCHANGED <<lister, srv, todo, ttl, lockVars, left, owed, used, apiVars>>
      BY <1>2 DEF GetEvent
    <2>3. Served'
      BY <2>2, Apart DEF Served, TInv, PodTypeOK
    <2>4. QED
      BY <2>1, <2>2, <2>3
         DEF TInv, PodTypeOK, QueueType, Stages, lockVars, apiVars
  <1>3. CASE Tick
    <2>1. left' \in [Events -> Nat] /\ owed' \in Int
      BY <1>1, <1>3 DEF Tick
    <2>2. UNCHANGED <<lister, callVars, lockVars, async, used, apiVars>>
      BY <1>3 DEF Tick
    <2>3. QED
      BY <2>1, <2>2 DEF TInv, PodTypeOK, Served, callVars, lockVars, apiVars
  <1>4. CASE \E e \in Events : Expire(e)
    <2>1. async' \in QueueType
      BY <1>1, <1>4, AddType DEF Expire
    <2>2. UNCHANGED <<lister, callVars, lockVars, left, owed, used, apiVars>>
      BY <1>4 DEF Expire
    <2>3. QED
      BY <2>1, <2>2
         DEF TInv, PodTypeOK, QueueType, Served, callVars, lockVars, apiVars
  <1>5. QED
    BY <1>2, <1>3, <1>4

\* What happens around the controller.
LEMMA AroundType ==
  ASSUME TInv,
         \/ \E p \in Pods : StorePod(p)
         \/ PodsSynced \/ ForeignChange \/ Crash \/ StartAgain
  PROVE  TInv'
  <1>0. /\ used \in UsedType /\ version \in Nat
        /\ lister \in [Pods -> PodObjects \cup {NoPod}]
    BY DEF TInv, PodTypeOK, UsedType
  <1>1. CASE \E p \in Pods : StorePod(p)
    <2>1. lister' \in [Pods -> PodObjects \cup {NoPod}] /\ used' \in UsedType
      BY <1>0, <1>1, CountType DEF StorePod
    <2>2. UNCHANGED <<callVars, lockVars, timerVars, owed, apiVars>>
      BY <1>1 DEF StorePod
    <2>3. QED
      BY <2>1, <2>2 DEF TInv, PodTypeOK, Served, UsedType, callVars, lockVars,
                        timerVars, apiVars
  <1>2. CASE PodsSynced \/ StartAgain
    <2>1. PICK x \in {"backend", "sync"} :
            /\ stage' = [stage EXCEPT !["run"] = x]
            /\ UNCHANGED <<lister, srv, todo, ttl, lockVars, timerVars, owed, used,
                           apiVars>>
      BY <1>2 DEF PodsSynced, StartAgain
    <2>2. Served'
      BY <2>1, Apart DEF Served, TInv, PodTypeOK
    <2>3. QED
      BY <2>1, <2>2 DEF TInv, PodTypeOK, Stages, Writing, lockVars, timerVars, apiVars
  <1>3. CASE ForeignChange
    <2>1. used' \in UsedType /\ version' \in Nat
      BY <1>0, <1>3, CountType DEF ForeignChange
    <2>2. QED
      BY <1>3, <2>1 DEF ForeignChange, TInv, PodTypeOK, Served, UsedType, callVars,
                        lockVars, timerVars
  <1>4. CASE Crash
    <2>1. used' \in UsedType
      BY <1>0, <1>4, CountType DEF Crash
    <2>2. Dies /\ UNCHANGED <<ttl, owed, apiVars>>
      BY <1>4 DEF Crash
    <2>3. QED
      BY <2>1, <2>2, DiesType
         DEF TInv, PodTypeOK, QueueType, ServerType, UsedType, apiVars
  <1>5. QED
    BY <1>1, <1>2, <1>3, <1>4

\* The types are inductive.
LEMMA NextType == TInv /\ [Next]_vars => TInv'
  <1> SUFFICES ASSUME TInv, [Next]_vars PROVE TInv'
    OBVIOUS
  <1>1. CASE \E p \in Procs : Lock(p) \/ ReadServers(p)
    BY <1>1, ReadType
  <1>2. CASE \E p \in Procs : ReplaceServers(p) \/ AddServer(p)
    BY <1>2, WriteType
  <1>3. CASE createProxy
    BY <1>3, CreateType
  <1>4. CASE \E r \in Requests : create(r) \/ AddAfter(r)
    BY <1>4, RequestType
  <1>5. CASE GetEvent \/ Tick \/ \E e \in Events : Expire(e)
    BY <1>5, TimerType
  <1>6. CASE \/ \E p \in Pods : StorePod(p)
             \/ PodsSynced \/ ForeignChange \/ Crash \/ StartAgain
    BY <1>6, AroundType
  <1>7. CASE UNCHANGED vars
    BY <1>7 DEF TInv, PodTypeOK, Served, vars, callVars, lockVars, timerVars, apiVars
  <1>8. QED
    BY <1>1, <1>2, <1>3, <1>4, <1>5, <1>6, <1>7, Apart
       DEF Next, Run, pop, CreateMapping, changeProxy

\* The state of the V1 controller and its objects in HAProxy keep their types,
\* whatever fails: no server is ever given port 0.
THEOREM PodTypes == Spec => []PodTypeOK
  <1>1. TInv => PodTypeOK
    BY DEF TInv
  <1>2. QED
    BY <1>1, InitType, NextType, PTL DEF Spec

-----------------------------------------------------------------------------
(* The mutex: one process at a time, so the version it has read is still   *)
(* current when it writes, unless other clients or failures interfere.     *)

LockInv == (\A p, q \in mu : p = q) /\ VersionsFresh

\* The mutex and the version change only where the code takes the mutex, gives
\* it back or dies.
LEMMA NextLock ==
  ASSUME MaxPodFaults = 0, MaxPodForeign = 0, TInv, LockInv, [Next]_vars
  PROVE  LockInv'
  <1> DEFINE Idle == UNCHANGED <<mu, seen, version>>
  <1>1. CASE Idle
    BY <1>1 DEF LockInv, VersionsFresh
  <1>2. CASE \E p \in Procs : Lock(p)
    <2>1. PICK p \in Procs : Lock(p)
      BY <1>2
    <2>2. PICK o \in ReadFates :
            SpendPod(o) /\ seen' = [seen EXCEPT ![p] = getVersion(version, o)]
      BY <2>1 DEF Lock
    <2>3. o = "ok"
      BY <2>2 DEF SpendPod, TInv, PodTypeOK
    <2>4. mu' = {p} /\ version' = version
      BY <2>1 DEF Lock, MutexFree, apiVars
    <2>5. QED
      BY <2>2, <2>3, <2>4 DEF LockInv, VersionsFresh, getVersion, TInv, PodTypeOK
  <1>3. CASE mu' = {}
    BY <1>3 DEF LockInv, VersionsFresh
  <1>4. ASSUME NEW p \in mu, NEW r, NEW next, NEW rest, Sent(p, r, next, rest)
        PROVE  mu' = {}
    BY <1>4 DEF Sent, Unlocked, Dies, LockInv
  <1>5. CASE \E p \in Procs : ReplaceServers(p) \/ AddServer(p)
    BY <1>3, <1>4, <1>5 DEF ReplaceServers, AddServer
  <1>6. CASE createProxy
    BY <1>3, <1>4, <1>6
       DEF createProxy, CreateBackend, CreateFrontend, CreateBind, Creates
  <1>7. CASE Crash
    BY <1>3, <1>7 DEF Crash, Dies
  <1>8. ~ForeignChange
    BY DEF ForeignChange, TInv, PodTypeOK
  <1>9. CASE \E r \in Requests : create(r) \/ AddAfter(r)
    BY <1>1, <1>9 DEF create, AddAfter, lockVars, apiVars
  <1>10. CASE \/ GetEvent \/ Tick \/ \E e \in Events : Expire(e)
              \/ \E p \in Procs : ReadServers(p)
    BY <1>1, <1>10 DEF GetEvent, Tick, Expire, ReadServers, lockVars, apiVars
  <1>11. CASE \/ \E p \in Pods : StorePod(p)
              \/ PodsSynced \/ StartAgain \/ UNCHANGED vars
    BY <1>1, <1>11 DEF StorePod, PodsSynced, StartAgain, vars, lockVars, apiVars
  <1>12. QED
    BY <1>2, <1>5, <1>6, <1>7, <1>8, <1>9, <1>10, <1>11, Apart
       DEF Next, Run, pop, CreateMapping, changeProxy

\* However the goroutines of V1 interleave, every write names the current version:
\* V1 alone on a Data Plane API that answers never has a write refused.
THEOREM VersionsAreFresh ==
  ASSUME MaxPodFaults = 0, MaxPodForeign = 0
  PROVE  Spec => []VersionsFresh
  <1>1. Init => LockInv
    BY DEF Init, PodInit, LockInv, VersionsFresh
  <1>2. TInv /\ LockInv /\ [Next]_vars => LockInv'
    BY NextLock
  <1>3. LockInv => VersionsFresh
    BY DEF LockInv
  <1>4. QED
    BY <1>1, <1>2, <1>3, InitType, NextType, PTL DEF Spec

-----------------------------------------------------------------------------
(* What the answers of the API mean to createProxy and changeProxy.        *)

\* An error never says "already exists", since the payload is a pointer; no error
\* means that the request was answered with success.
LEMMA Answers ==
  ASSUME NEW t \in {"*", "*Backend", "*Frontend", "*Bind", "*Server"},
         NEW c, NEW code \in Nat, NEW c2, NEW o
  PROVE  LET r == Request(t, c, code, c2, o)
         IN  /\ ~SaysExists(r.err)
             /\ r.err = NoError => o = "ok" /\ code \notin {404, 409}
             /\ r.cfg = c \/ r.cfg = c2
             /\ o = "ok" => r.cfg = c2
  <1>1. t \notin PayloadTypes /\ t # "string"
    BY DEF PayloadTypes
  <1> DEFINE k == IF o = "ok" THEN code ELSE NoAnswer
             r == Request(t, c, code, c2, o)
  <1>2. /\ k \in Int
        /\ k \in {0, 200, 201, 202} => o = "ok" /\ code \notin {404, 409}
    BY DEF NoAnswer
  <1>3. /\ r.err = handleError(t, k).err
        /\ r.cfg = IF o = "refused" THEN c ELSE c2
    BY DEF Request
  <1> HIDE DEF k, r
  <1>4. /\ handleError(t, k).err # "already exists"
        /\ handleError(t, k).err = NoError => k \in {0, 200, 201, 202}
    BY <1>1, <1>2 DEF handleError, LogText, NoError
  <1>5. ~SaysExists(r.err) /\ (r.err = NoError => k \in {0, 200, 201, 202})
    BY <1>3, <1>4 DEF SaysExists
  <1>6. (r.cfg = c \/ r.cfg = c2) /\ (o = "ok" => r.cfg = c2)
    BY <1>3
  <1>7. QED
    BY <1>2, <1>5, <1>6 DEF r

NewServer(s) == [backend |-> Backend, name |-> s.name, addr |-> s.addr]

\* The requests of createProxy leave the servers alone, and AddBackend succeeds
\* only when there was no backend.
LEMMA CreateEffects ==
  ASSUME NEW c \in PodConfigs, NEW o, NEW v, NEW w
  PROVE  /\ LET r == Direct(AddBackend(c, Backend, o), c, v, w, o)
            IN  /\ r.cfg.servers = c.servers /\ c.backends \subseteq r.cfg.backends
                /\ ~SaysExists(r.err)
                /\ r.err = NoError => Backend \notin c.backends
         /\ LET r == Direct(AddFrontend(c, Frontend, Backend, o), c, v, w, o)
            IN  /\ r.cfg.servers = c.servers /\ r.cfg.backends = c.backends
                /\ ~SaysExists(r.err)
         /\ LET r == Direct(AddBind(c, Frontend, Bind, DefaultMappingPort, o),
                            c, v, w, o)
            IN  /\ r.cfg.servers = c.servers /\ r.cfg.backends = c.backends
                /\ ~SaysExists(r.err)
  <1> DEFINE cb == [c EXCEPT !.backends = @ \cup {Backend}]
             cf == [c EXCEPT !.frontends =
                               @ \cup {[name |-> Frontend, backend |-> Backend]}]
             cn == [c EXCEPT !.binds =
                               @ \cup {[frontend |-> Frontend, name |-> Bind,
                                        port |-> DefaultMappingPort]}]
  <1>1. /\ cb.servers = c.servers /\ c.backends \subseteq cb.backends
        /\ cf.servers = c.servers /\ cf.backends = c.backends
        /\ cn.servers = c.servers /\ cn.backends = c.backends
    BY DEF PodConfigs
  <1> HIDE DEF cb, cf, cn
  <1> DEFINE no == Request("*", c, 409, c, o)
  <1>2. no.cfg = c /\ ~SaysExists(no.err) /\ no.err # NoError
    BY Answers
  <1>3. ASSUME NEW r PROVE Direct(r, c, v, w, o) \in {r, no}
    BY DEF Direct
  <1> HIDE DEF no
  <1>4. LET r == AddBackend(c, Backend, o)
        IN  /\ r.cfg \in {c, cb} /\ ~SaysExists(r.err)
            /\ r.err = NoError => Backend \notin c.backends
    BY Answers DEF AddBackend, cb
  <1>5. LET r == AddFrontend(c, Frontend, Backend, o)
        IN  r.cfg \in {c, cf} /\ ~SaysExists(r.err)
    BY Answers DEF AddFrontend, cf
  <1>6. LET r == AddBind(c, Frontend, Bind, DefaultMappingPort, o)
        IN  r.cfg \in {c, cn} /\ ~SaysExists(r.err)
    BY Answers DEF AddBind, cn
  <1>7. QED
    BY <1>1, <1>2, <1>3, <1>4, <1>5, <1>6

\* What AddServerToBackend may leave of a backend without servers.
FirstServer(r, c, s) ==
  /\ r.cfg.backends = c.backends /\ ~SaysExists(r.err)
  /\ \/ r.cfg.servers = {} /\ r.err # NoError
     \/ r.cfg.servers = {NewServer(s)} /\ Backend \in c.backends

LEMMA AddEffects ==
  ASSUME NEW c \in PodConfigs, c.servers = {}, NEW s, NEW o, NEW v, NEW w
  PROVE  FirstServer(Direct(AddServerToBackend(c, Backend, s.name, s.addr, o),
                            c, v, w, o), c, s)
  <1> DEFINE c2 == [c EXCEPT !.servers = @ \cup {NewServer(s)}]
             no == Request("*", c, 409, c, o)
             r  == AddServerToBackend(c, Backend, s.name, s.addr, o)
  <1>1. c2.servers = {NewServer(s)} /\ c2.backends = c.backends
    BY DEF PodConfigs
  <1>2. no.cfg = c /\ ~SaysExists(no.err) /\ no.err # NoError
    BY Answers
  <1>3. Direct(r, c, v, w, o) \in {r, no}
    BY DEF Direct
  <1>4. CASE Backend \notin c.backends
    <2>1. r = Request("*Server", c, 404, c, o)
      BY <1>4 DEF AddServerToBackend, HasServer
    <2> HIDE DEF r, no, c2
    <2>2. r.cfg = c /\ ~SaysExists(r.err) /\ r.err # NoError
      BY <2>1, Answers
    <2>3. QED
      BY <1>2, <1>3, <2>2 DEF r, FirstServer
  <1>5. CASE Backend \in c.backends
    <2>1. r = Request("*Server", c, 201, c2, o)
      BY <1>5 DEF AddServerToBackend, HasServer, NewServer
    <2> HIDE DEF r, no, c2
    <2>2. /\ r.cfg \in {c, c2} /\ ~SaysExists(r.err)
          /\ r.err = NoError => r.cfg = c2
      BY <2>1, Answers
    <2>3. QED
      BY <1>1, <1>2, <1>3, <1>5, <2>2 DEF r, FirstServer
  <1>6. QED
    BY <1>4, <1>5

\* What ReplaceServerFromBackend may leave of a backend with at most one server.
OtherServer(r, c, s) ==
  /\ r.cfg.backends = c.backends
  /\ \/ r.cfg.servers = c.servers
     \/ c.servers # {} /\ r.cfg.servers = {NewServer(s)}

LEMMA ReplaceEffects ==
  ASSUME NEW c \in PodConfigs, \A x, y \in c.servers : x = y,
         NEW s, NEW old, NEW o, NEW v, NEW w
  PROVE  OtherServer(Direct(ReplaceServerFromBackend(c, Backend, old, s.name, s.addr, o),
                            c, v, w, o), c, s)
  <1> DEFINE c2 == [c EXCEPT !.servers =
                      {x \in @ : ~(x.backend = Backend /\ x.name = old)}
                        \cup {NewServer(s)}]
             no == Request("*", c, 409, c, o)
             r  == ReplaceServerFromBackend(c, Backend, old, s.name, s.addr, o)
  <1>1. /\ c2.servers = {x \in c.servers : ~(x.backend = Backend /\ x.name = old)}
                          \cup {NewServer(s)}
        /\ c2.backends = c.backends
    BY DEF PodConfigs
  <1>2. no.cfg = c
    BY Answers
  <1>3. Direct(r, c, v, w, o) \in {r, no}
    BY DEF Direct
  <1>4. CASE ~HasServer(c, Backend, old)
    <2>1. r \in {Request("*Server", c, 404, c, o), Request("*Server", c, 409, c, o)}
      BY <1>4 DEF ReplaceServerFromBackend
    <2> HIDE DEF r, no, c2
    <2>2. r.cfg = c
      BY <2>1, Answers
    <2>3. QED
      BY <1>2, <1>3, <2>2 DEF r, OtherServer
  <1>5. CASE HasServer(c, Backend, old)
    <2>1. r.cfg \in {c, c2}
      BY <1>5, Answers DEF ReplaceServerFromBackend, NewServer
    <2>2. c2.servers = {NewServer(s)} /\ c.servers # {}
      <3> HIDE DEF c2
      <3>1. PICK x \in c.servers : x.backend = Backend /\ x.name = old
        BY <1>5 DEF HasServer
      <3>2. QED
        BY <1>1, <3>1
    <2> HIDE DEF r, no, c2
    <2>3. QED
      BY <1>1, <1>2, <1>3, <2>1, <2>2 DEF r, OtherServer
  <1>6. QED
    BY <1>4, <1>5

-----------------------------------------------------------------------------
(* One server. While Run sets the backend up nobody else touches it: no    *)
(* request has arrived and no timer was started. From then on the backend  *)
(* has a server, so that a read of the servers that succeeds leads to      *)
(* replacements only.                                                      *)

RunStages     == {"sync", "backend", "frontend", "bind", "read", "add", "up", "dead"}
PopStages     == {"idle", "read", "replace"}
RequestStages == Ended \cup {"read", "replace", "after"}

Quiet ==
  /\ stage["pop"] = "idle" /\ async.queue = <<>> /\ async.waiting = {}
  /\ \A r \in Requests : stage[r] \in Ended

Phases ==
  /\ stage["run"] \in RunStages /\ stage["pop"] \in PopStages
  /\ \A r \in Requests : stage[r] \in RequestStages
  /\ stage["run"] = "up" \/ Quiet

PodNames == {PodServer(p, o).name : p \in Pods, o \in PodObjects}
Names    == {DefaultServer.name} \cup PodNames

Servers ==
  /\ \A x, y \in config.servers : x = y
  /\ stage["run"] = "up" => config.servers # {}
  /\ config.servers # {} => Backend \in config.backends
  /\ stage["run"] \in {"frontend", "bind", "read", "add"} => config.servers = {}
  /\ srv["run"] = DefaultServer /\ srv["pop"] = DefaultServer
  /\ \A s \in config.servers : s.name \in Names

SInv == TInv /\ Phases /\ Servers

\* What a step does to the servers: nothing, the first one, or one for another.
Moves ==
  \/ config'.servers = config.servers
  \/ config.servers = {} /\ config'.servers = {NewServer(DefaultServer)}
  \/ \E s \in ServerType :
       /\ config.servers # {} /\ config'.servers = {NewServer(s)}
       /\ s.name \in Names

Kept == Phases' /\ Servers' /\ Moves

\* All servers of V1's configuration are in its backend.
LEMMA InstalledAll == PodTypeOK => Installed = config.servers
  BY DEF PodTypeOK, PodConfigs, Installed

\* A step that leaves the servers alone and does not let Run advance.
LEMMA SameServers ==
  ASSUME Servers, config'.servers = config.servers,
         config.backends \subseteq config'.backends,
         srv'["run"] = DefaultServer, srv'["pop"] = DefaultServer,
         stage'["run"] \in {stage["run"], "sync", "backend", "dead"}
  PROVE  Servers' /\ Moves
  BY DEF Servers, Moves

\* The end of the process.
LEMMA DiesPhases ==
  ASSUME Dies
  PROVE  /\ Phases' /\ stage'["run"] = "dead"
         /\ srv'["run"] = DefaultServer /\ srv'["pop"] = DefaultServer
  <1>1. /\ stage'["run"] = "dead" /\ stage'["pop"] = "idle"
        /\ srv'["run"] = DefaultServer /\ srv'["pop"] = DefaultServer
    BY Apart DEF Dies, StageAfterDeath
  <1>2. \A r \in Requests : stage'[r] \in Ended
    BY DiesType
  <1>3. async'.queue = <<>> /\ async'.waiting = {}
    BY DEF Dies, EmptyQueue
  <1>4. QED
    BY <1>1, <1>2, <1>3 DEF Phases, Quiet, RunStages, PopStages, RequestStages

\* A write lets its process go on, or ends them all.
LEMMA SentPhases ==
  ASSUME TInv, Phases, Servers, NEW p \in Procs, stage[p] \in Writing,
         NEW r, NEW next, NEW rest, Sent(p, r, next, rest),
         p = "run" => next \in RunStages,
         p = "pop" => next \in PopStages,
         p \in Requests => next \in RequestStages
  PROVE  /\ Phases' /\ config' = r.cfg
         /\ stage'["run"] \in {IF p = "run" THEN next ELSE stage["run"], "dead"}
         /\ srv'["run"] = DefaultServer /\ srv'["pop"] = DefaultServer
  <1>1. config' = r.cfg
    BY DEF Sent
  <1>2. CASE next = "dead"
    BY <1>1, <1>2, DiesPhases DEF Sent
  <1>3. CASE next # "dead"
    <2>1. /\ stage' = [stage EXCEPT ![p] = next]
          /\ UNCHANGED <<srv, async>>
      BY <1>3 DEF Sent, timerVars
    <2>2. stage \in [Procs -> Stages]
      BY DEF TInv, PodTypeOK
    <2>3. stage'["run"] = IF p = "run" THEN next ELSE stage["run"]
      BY <2>1, <2>2, Apart
    <2>4. CASE p = "run"
      <3>1. Quiet
        BY <2>4 DEF Phases, Writing
      <3>2. Quiet' /\ stage'["pop"] \in PopStages
            /\ \A q \in Requests : stage'[q] \in RequestStages
        BY <2>1, <2>2, <2>4, <3>1, Apart
           DEF Quiet, PopStages, RequestStages
      <3>3. QED
        BY <1>1, <2>1, <2>3, <2>4, <3>2 DEF Phases, Servers
    <2>5. CASE p # "run"
      <3>1. p = "pop" \/ p \in Requests
        BY <2>5 DEF Procs
      <3>2. stage["run"] = "up"
        BY <3>1 DEF Phases, Quiet, Writing, Ended
      <3>3. stage'["pop"] \in PopStages
            /\ \A q \in Requests : stage'[q] \in RequestStages
        BY <2>1, <2>2, <3>1, Apart DEF Phases
      <3>4. QED
        BY <1>1, <2>1, <2>3, <2>5, <3>2, <3>3 DEF Phases, Servers
    <2>6. QED
      BY <2>4, <2>5
  <1>4. QED
    BY <1>2, <1>3

\* The writes of createProxy: the frontend is asked for only in a new backend.
LEMMA CreateKept ==
  ASSUME SInv, createProxy
  PROVE  Kept
  <1>1. /\ TInv /\ Phases /\ Servers /\ config \in PodConfigs /\ "run" \in Procs
    BY Apart DEF SInv, TInv, PodTypeOK
  <1>2. CASE CreateBackend
    <2>1. PICK o \in Fates :
            LET r == Direct(AddBackend(config, Backend, o),
                            config, version, seen["run"], o)
            IN  Creates(r, o, AfterBackend(r.err))
      BY <1>2 DEF CreateBackend
    <2> DEFINE r == Direct(AddBackend(config, Backend, o), config, version,
                           seen["run"], o)
    <2>2. /\ r.cfg.servers = config.servers /\ config.backends \subseteq r.cfg.backends
          /\ ~SaysExists(r.err) /\ (r.err = NoError => Backend \notin config.backends)
      BY <1>1, CreateEffects
    <2>3. Sent("run", r, AfterBackend(r.err), {})
      BY <2>1 DEF Creates
    <2> HIDE DEF r
    <2>4. \/ r.err = NoError /\ AfterBackend(r.err) = "frontend"
          \/ r.err # NoError /\ AfterBackend(r.err) = "dead"
      BY <2>2 DEF AfterBackend, Initialised
    <2>5. stage["run"] = "backend" /\ stage["run"] \in Writing
      BY <1>2 DEF CreateBackend, Writing
    <2>6. /\ Phases' /\ config' = r.cfg
          /\ stage'["run"] \in {AfterBackend(r.err), "dead"}
          /\ srv'["run"] = DefaultServer /\ srv'["pop"] = DefaultServer
      BY <1>1, <2>3, <2>4, <2>5, SentPhases, Apart DEF RunStages
    <2>7. Servers' /\ Moves
      <3>1. CASE stage'["run"] = "dead"
        BY <1>1, <2>2, <2>6, <3>1, SameServers
      <3>2. CASE stage'["run"] # "dead"
        BY <1>1, <2>2, <2>4, <2>6, <3>2 DEF Servers, Moves
      <3>3. QED
        BY <3>1, <3>2
    <2>8. QED
      BY <2>6, <2>7 DEF Kept
  <1>3. ASSUME NEW r, NEW next \in {"bind", "read", "dead"},
               r.cfg.servers = config.servers, r.cfg.backends = config.backends,
               stage["run"] \in {"frontend", "bind"}, Sent("run", r, next, {})
        PROVE  Kept
    <2>1. /\ Phases' /\ config' = r.cfg
          /\ stage'["run"] \in {next, "dead"}
          /\ srv'["run"] = DefaultServer /\ srv'["pop"] = DefaultServer
      BY <1>1, <1>3, SentPhases, Apart DEF RunStages, Writing
    <2>2. Servers' /\ Moves
      BY <1>1, <1>3, <2>1 DEF Servers, Moves
    <2>3. QED
      BY <2>1, <2>2 DEF Kept
  <1>4. CASE CreateFrontend
    <2>1. PICK o \in Fates :
            LET r == Direct(AddFrontend(config, Frontend, Backend, o),
                            config, version, seen["run"], o)
            IN  Creates(r, o, AfterFrontend(r.err))
      BY <1>4 DEF CreateFrontend
    <2> DEFINE r == Direct(AddFrontend(config, Frontend, Backend, o), config,
                           version, seen["run"], o)
    <2>2. /\ r.cfg.servers = config.servers /\ r.cfg.backends = config.backends
          /\ ~SaysExists(r.err)
      BY <1>1, CreateEffects
    <2>3. Sent("run", r, AfterFrontend(r.err), {})
      BY <2>1 DEF Creates
    <2> HIDE DEF r
    <2>4. AfterFrontend(r.err) = "bind"
      BY <2>2 DEF AfterFrontend
    <2>5. QED
      BY <1>3, <1>4, <2>2, <2>3, <2>4 DEF CreateFrontend
  <1>5. CASE CreateBind
    <2>1. PICK o \in Fates :
            LET r == Direct(AddBind(config, Frontend, Bind, DefaultMappingPort, o),
                            config, version, seen["run"], o)
            IN  Creates(r, o, AfterBind(r.err))
      BY <1>5 DEF CreateBind
    <2> DEFINE r == Direct(AddBind(config, Frontend, Bind, DefaultMappingPort, o),
                           config, version, seen["run"], o)
    <2>2. /\ r.cfg.servers = config.servers /\ r.cfg.backends = config.backends
          /\ ~SaysExists(r.err)
      BY <1>1, CreateEffects
    <2>3. Sent("run", r, AfterBind(r.err), {})
      BY <2>1 DEF Creates
    <2> HIDE DEF r
    <2>4. AfterBind(r.err) \in {"read", "dead"}
      BY <2>2 DEF AfterBind, Initialised
    <2>5. QED
      BY <1>3, <1>5, <2>2, <2>3, <2>4 DEF CreateBind
  <1>6. QED
    BY <1>2, <1>4, <1>5 DEF createProxy

\* Only Run adds a server, to an empty backend, and comes up only if it did.
LEMMA AddKept ==
  ASSUME SInv, NEW p \in Procs, AddServer(p)
  PROVE  Kept
  <1>1. /\ TInv /\ Phases /\ Servers /\ config \in PodConfigs
        /\ stage[p] = "add" /\ stage[p] \in Writing
    BY DEF SInv, TInv, PodTypeOK, AddServer, Writing
  <1>2. p = "run"
    BY <1>1 DEF Phases, Procs, PopStages, RequestStages, Ended
  <1>3. srv[p] = DefaultServer /\ config.servers = {}
    BY <1>1, <1>2 DEF Servers
  <1>4. PICK o \in Fates :
          Sent(p, Direct(AddServerToBackend(config, Backend, srv[p].name,
                                            srv[p].addr, o),
                         config, version, seen[p], o),
               Returned(p, Direct(AddServerToBackend(config, Backend, srv[p].name,
                                                     srv[p].addr, o),
                                  config, version, seen[p], o).err), {})
    BY DEF AddServer
  <1> DEFINE r == Direct(AddServerToBackend(config, Backend, srv[p].name,
                                            srv[p].addr, o),
                         config, version, seen[p], o)
  <1>5. /\ r.cfg.backends = config.backends /\ ~SaysExists(r.err)
        /\ \/ r.cfg.servers = {} /\ r.err # NoError
           \/ r.cfg.servers = {NewServer(DefaultServer)} /\ Backend \in config.backends
    <2>1. config \in PodConfigs /\ config.servers = {}
      BY <1>1, <1>3
    <2>2. FirstServer(r, config, srv[p])
      BY <2>1, AddEffects
    <2> HIDE DEF r
    <2>3. QED
      BY <1>3, <2>2 DEF FirstServer
  <1>6. Sent(p, r, Returned(p, r.err), {})
    BY <1>4
  <1> HIDE DEF r
  <1>7. Returned(p, r.err) = IF r.err = NoError THEN "up" ELSE "dead"
    BY <1>2, <1>5 DEF Returned, Initialised
  <1>8. /\ Phases' /\ config' = r.cfg
        /\ stage'["run"] \in {Returned(p, r.err), "dead"}
        /\ srv'["run"] = DefaultServer /\ srv'["pop"] = DefaultServer
    BY <1>1, <1>2, <1>6, <1>7, SentPhases, Apart DEF RunStages
  <1>9. NewServer(DefaultServer).name \in Names
    BY DEF NewServer, Names
  <1>10. Servers' /\ Moves
    BY <1>3, <1>5, <1>7, <1>8, <1>9 DEF Servers, Moves
  <1>11. QED
    BY <1>8, <1>10 DEF Kept

\* A replacement puts one server in the place of the one that is there, or does
\* nothing.
LEMMA ReplaceKept ==
  ASSUME SInv, NEW p \in Procs, ReplaceServers(p)
  PROVE  Kept
  <1>1. /\ TInv /\ Phases /\ Servers /\ config \in PodConfigs
        /\ stage[p] = "replace" /\ stage[p] \in Writing
    BY DEF SInv, TInv, PodTypeOK, ReplaceServers, Writing
  <1>2. p \in {"pop"} \cup Requests
    BY <1>1 DEF Phases, Procs, RunStages
  <1>3. stage["run"] = "up"
    BY <1>1, <1>2 DEF Phases, Quiet, Ended
  <1>4. srv[p] \in ServerType /\ srv[p].name \in Names
    <2>1. CASE p = "pop"
      BY <1>1, <2>1, ServerTypes DEF Servers, Names
    <2>2. CASE p \in Requests
      <3>1. PICK o \in PodObjects : srv[p] = PodServer(PodOf[p], o)
        BY <1>1, <2>2 DEF TInv, Served, Ended
      <3>2. PodOf[p] \in Pods
        BY <2>2, PodAssumption
      <3>3. QED
        BY <3>1, <3>2, ServerTypes DEF Names, PodNames
    <2>3. QED
      BY <1>2, <2>1, <2>2
  <1> DEFINE res(n, o) == Direct(ReplaceServerFromBackend(config, Backend, n,
                                   srv[p].name, srv[p].addr, o),
                                 config, version, seen[p], o)
             nxt(n, o) == IF todo[p] = {n} THEN Returned(p, res(n, o).err)
                          ELSE "replace"
  <1>5. PICK n \in todo[p], o \in Fates :
          Sent(p, res(n, o), nxt(n, o), todo[p] \ {n})
    BY DEF ReplaceServers
  <1>6. OtherServer(res(n, o), config, srv[p])
    <2>1. \A x, y \in config.servers : x = y
      BY <1>1 DEF Servers
    <2>2. QED
      BY <1>1, <2>1, ReplaceEffects
  <1>7. /\ p = "pop" => nxt(n, o) \in PopStages
        /\ p \in Requests => nxt(n, o) \in RequestStages
    BY Apart DEF Returned, PopStages, RequestStages, Ended
  <1> HIDE DEF res, nxt
  <1>8. /\ Phases' /\ config' = res(n, o).cfg
        /\ stage'["run"] \in {stage["run"], "dead"}
        /\ srv'["run"] = DefaultServer /\ srv'["pop"] = DefaultServer
    BY <1>1, <1>2, <1>5, <1>7, SentPhases, Apart
  <1>9. Servers' /\ Moves
    <2>1. CASE config'.servers = config.servers
      BY <1>1, <1>6, <1>8, <2>1, SameServers DEF OtherServer
    <2>2. CASE config'.servers # config.servers
      <3>1. /\ config'.backends = config.backends
            /\ config.servers # {} /\ config'.servers = {NewServer(srv[p])}
        BY <1>6, <1>8, <2>2 DEF OtherServer
      <3>2. NewServer(srv[p]).name \in Names
        BY <1>4 DEF NewServer
      <3>3. Moves
        BY <1>4, <3>1 DEF Moves
      <3>4. Servers'
        BY <1>1, <1>3, <1>8, <3>1, <3>2 DEF Servers
      <3>5. QED
        BY <3>3, <3>4
    <2>3. QED
      BY <2>1, <2>2
  <1>10. QED
    BY <1>8, <1>9 DEF Kept

\* A read that succeeds tells Run that there is no server, and every other
\* process that there is one.
LEMMA ReadKept ==
  ASSUME SInv, ~FailedReads, NEW p \in Procs, Lock(p) \/ ReadServers(p)
  PROVE  Kept
  <1>1. TInv /\ Phases /\ Servers /\ stage \in [Procs -> Stages]
    BY DEF SInv, TInv, PodTypeOK
  <1>2. CASE Lock(p)
    <2>1. UNCHANGED <<stage, srv, async, config>>
      BY <1>2 DEF Lock, callVars, timerVars, apiVars
    <2>2. QED
      BY <1>1, <2>1, SameServers DEF Kept, Phases, Quiet, Servers
  <1>3. CASE ReadServers(p)
    <2> DEFINE names == GetServers(config, Backend, "ok")
    <2>1. /\ stage[p] = "read" /\ stage' = [stage EXCEPT ![p] = NextWrite(names)]
          /\ UNCHANGED <<srv, async, config>>
      BY <1>3 DEF ReadServers, timerVars, apiVars
    <2>2. names = {} <=> config.servers = {}
      <3>1. names = {s.name : s \in Installed}
        BY DEF GetServers, Installed
      <3>2. Installed = config.servers
        BY <1>1, InstalledAll DEF TInv
      <3>3. QED
        BY <3>1, <3>2
    <2> HIDE DEF names
    <2>3. CASE p = "run"
      <3>1. stage' = [stage EXCEPT !["run"] = "add"] /\ Quiet /\ config.servers = {}
        BY <1>1, <2>1, <2>2, <2>3 DEF Phases, Servers, NextWrite
      <3>2. /\ stage'["run"] = "add" /\ stage'["pop"] = stage["pop"]
            /\ \A r \in Requests : stage'[r] = stage[r]
        BY <1>1, <3>1, Apart
      <3>3. Phases'
        BY <1>1, <2>1, <3>1, <3>2 DEF Phases, Quiet, RunStages
      <3>4. Servers' /\ Moves
        BY <1>1, <2>1, <3>1, <3>2 DEF Servers, Moves
      <3>5. QED
        BY <3>3, <3>4 DEF Kept
    <2>4. CASE p # "run"
      <3>1. p = "pop" \/ p \in Requests
        BY <2>4 DEF Procs
      <3>2. stage["run"] = "up"
        BY <1>1, <2>1, <3>1 DEF Phases, Quiet, Ended
      <3>3. stage' = [stage EXCEPT ![p] = "replace"]
        BY <1>1, <2>1, <2>2, <3>2 DEF Servers, NextWrite
      <3>4. /\ stage'["run"] = stage["run"] /\ stage'["pop"] \in PopStages
            /\ \A r \in Requests : stage'[r] \in RequestStages
        BY <1>1, <2>4, <3>1, <3>3, Apart DEF Phases, PopStages, RequestStages
      <3>5. Phases'
        BY <1>1, <3>2, <3>4 DEF Phases
      <3>6. Servers' /\ Moves
        BY <1>1, <2>1, <3>4, SameServers DEF Servers
      <3>7. QED
        BY <3>5, <3>6 DEF Kept
    <2>5. QED
      BY <2>3, <2>4
  <1>4. QED
    BY <1>2, <1>3

\* A request arrives when Run is up, and starts its timer when it still is.
LEMMA RequestKept ==
  ASSUME SInv, ~EarlyRequests, NEW r \in Requests, create(r) \/ AddAfter(r)
  PROVE  Kept
  <1>1. /\ TInv /\ Phases /\ Servers /\ stage \in [Procs -> Stages]
        /\ srv \in [Procs -> ServerType]
    BY DEF SInv, TInv, PodTypeOK, ServerType
  <1>2. stage["run"] = "up"
    BY <1>1 DEF create, AddAfter, Phases, Quiet, Ended
  <1>3. /\ stage'["run"] = stage["run"] /\ stage'["pop"] = stage["pop"]
        /\ \A q \in Requests : stage'[q] \in RequestStages
        /\ srv'["run"] = srv["run"] /\ srv'["pop"] = srv["pop"]
        /\ config' = config
    <2>1. PICK x \in RequestStages : stage' = [stage EXCEPT ![r] = x]
      BY DEF create, AddAfter, RequestStages, Ended
    <2>2. srv' = srv \/ \E s : srv' = [srv EXCEPT ![r] = s]
      BY DEF create, AddAfter
    <2>3. config' = config
      BY DEF create, AddAfter, apiVars
    <2>4. QED
      BY <1>1, <2>1, <2>2, <2>3, Apart DEF Phases
  <1>4. Phases'
    BY <1>1, <1>2, <1>3 DEF Phases
  <1>5. Servers' /\ Moves
    BY <1>1, <1>3, SameServers DEF Servers
  <1>6. QED
    BY <1>4, <1>5 DEF Kept

\* Events are there only when Run is up.
LEMMA TimerKept ==
  ASSUME SInv, GetEvent \/ Tick \/ \E e \in Events : Expire(e)
  PROVE  Kept
  <1>1. TInv /\ Phases /\ Servers /\ stage \in [Procs -> Stages]
    BY DEF SInv, TInv, PodTypeOK
  <1>2. /\ UNCHANGED <<srv, config>>
        /\ \/ UNCHANGED <<stage, async>>
           \/ stage["run"] = "up" /\ UNCHANGED stage
           \/ stage["run"] = "up" /\ stage' = [stage EXCEPT !["pop"] = "read"]
    BY <1>1 DEF GetEvent, Tick, Expire, callVars, apiVars, Phases, Quiet
  <1>3. stage'["run"] = stage["run"]
    BY <1>1, <1>2, Apart
  <1>4. Phases'
    BY <1>1, <1>2, <1>3, Apart DEF Phases, Quiet, PopStages
  <1>5. Servers' /\ Moves
    BY <1>1, <1>2, <1>3, SameServers DEF Servers
  <1>6. QED
    BY <1>4, <1>5 DEF Kept

\* What happens around the controller leaves HAProxy's servers alone.
LEMMA AroundKept ==
  ASSUME SInv,
         \/ \E p \in Pods : StorePod(p)
         \/ PodsSynced \/ ForeignChange \/ Crash \/ StartAgain \/ UNCHANGED vars
  PROVE  Kept
  <1>1. TInv /\ Phases /\ Servers /\ stage \in [Procs -> Stages]
    BY DEF SInv, TInv, PodTypeOK
  <1>2. config' = config
    BY DEF StorePod, PodsSynced, ForeignChange, Crash, StartAgain, vars, apiVars
  <1>3. CASE Crash
    <2>1. Dies
      BY <1>3 DEF Crash
    <2>2. QED
      BY <1>1, <1>2, <2>1, DiesPhases, SameServers DEF Kept
  <1>4. CASE (\E p \in Pods : StorePod(p)) \/ ForeignChange \/ UNCHANGED vars
    <2>1. UNCHANGED <<stage, srv, async>>
      BY <1>4 DEF StorePod, ForeignChange, vars, callVars, timerVars
    <2>2. QED
      BY <1>1, <1>2, <2>1, SameServers DEF Kept, Phases, Quiet, Servers
  <1>5. CASE PodsSynced \/ StartAgain
    <2>1. PICK x \in {"backend", "sync"} :
            /\ stage' = [stage EXCEPT !["run"] = x] /\ stage["run"] # "up"
            /\ UNCHANGED <<srv, async>>
      BY <1>5 DEF PodsSynced, StartAgain, timerVars
    <2>2. stage'["run"] = x
      BY <1>1, <2>1, Apart
    <2>3. Phases'
      BY <1>1, <2>1, <2>2, Apart DEF Phases, Quiet, RunStages
    <2>4. Servers' /\ Moves
      BY <1>1, <1>2, <2>1, <2>2, SameServers DEF Servers
    <2>5. QED
      BY <2>3, <2>4 DEF Kept
  <1>6. QED
    BY <1>3, <1>4, <1>5

\* The invariant is inductive, and a step does no more than Moves.
LEMMA NextKept ==
  ASSUME ~EarlyRequests, ~FailedReads, SInv, [Next]_vars
  PROVE  SInv' /\ Moves
  <1>1. Kept
    <2>1. CASE \E p \in Procs : Lock(p) \/ ReadServers(p)
      BY <2>1, ReadKept
    <2>2. CASE \E p \in Procs : ReplaceServers(p)
      BY <2>2, ReplaceKept
    <2>3. CASE \E p \in Procs : AddServer(p)
      BY <2>3, AddKept
    <2>4. CASE createProxy
      BY <2>4, CreateKept
    <2>5. CASE \E r \in Requests : create(r) \/ AddAfter(r)
      BY <2>5, RequestKept
    <2>6. CASE GetEvent \/ Tick \/ \E e \in Events : Expire(e)
      BY <2>6, TimerKept
    <2>7. CASE \/ \E p \in Pods : StorePod(p)
               \/ PodsSynced \/ ForeignChange \/ Crash \/ StartAgain
               \/ UNCHANGED vars
      BY <2>7, AroundKept
    <2>8. QED
      BY <2>1, <2>2, <2>3, <2>4, <2>5, <2>6, <2>7, Apart
         DEF Next, Run, pop, CreateMapping, changeProxy
  <1>2. TInv'
    BY NextType DEF SInv
  <1>3. QED
    BY <1>1, <1>2 DEF SInv, Kept

\* The initial state.
LEMMA InitServers == Init => SInv
  <1> SUFFICES ASSUME Init PROVE SInv
    OBVIOUS
  <1>1. /\ stage["run"] = "sync" /\ stage["pop"] = "idle"
        /\ \A r \in Requests : stage[r] = "new"
    BY Apart DEF Init, PodInit
  <1>2. Phases
    BY <1>1 DEF Init, PodInit, EmptyQueue, Phases, Quiet, Ended, RunStages, PopStages,
                RequestStages
  <1>3. Servers
    BY <1>1, Apart DEF Init, PodInit, EmptyConfig, Servers
  <1>4. QED
    BY <1>2, <1>3, InitType DEF SInv

\* When requests come after the initialisation and the reads of the servers
\* succeed, V1's backend never has two servers, and always has one once Run is
\* up, for every interleaving of requests and reverts and whatever becomes of the
\* writes: refused, unanswered, in conflict with another client, cut short by a
\* restart.
THEOREM OneServerOnly ==
  ASSUME ~EarlyRequests, ~FailedReads
  PROVE  Spec => []OneServer
  <1>1. SInv /\ [Next]_vars => SInv'
    BY NextKept
  <1>2. SInv => OneServer
    BY InstalledAll DEF SInv, TInv, Servers, OneServer
  <1>3. QED
    BY <1>1, <1>2, InitServers, PTL DEF Spec

\* Under the same conditions V1 implements the entry it promises: every step
\* leaves the entry alone, opens it to the default target, or switches it from one
\* target to one other.
THEOREM EntryIsGuarded ==
  ASSUME ~EarlyRequests, ~FailedReads
  PROVE  Spec => EntryGuarded
  <1> DEFINE T == {s.name : s \in Installed}
             D == {DefaultServer.name}
             Ts == {{PodServer(p, o).name} : p \in Pods, o \in PodObjects}
  <1>1. Init => T = {}
    BY InitServers, InstalledAll DEF SInv, TInv, Init, EmptyConfig
  <1>2. SInv /\ [Next]_vars => SInv'
    BY NextKept
  <1>3. ASSUME SInv, [Next]_vars PROVE [Entry!Next]_T
    <2>1. /\ Installed = config.servers /\ Installed' = config'.servers
      <3>1. PodTypeOK /\ PodTypeOK'
        BY <1>2, <1>3 DEF SInv, TInv
      <3>2. Installed' = config'.servers
        BY <3>1 DEF PodTypeOK, PodConfigs, Installed
      <3>3. QED
        BY <3>1, <3>2, InstalledAll
    <2>2. CASE config'.servers = config.servers
      BY <2>1, <2>2
    <2>3. CASE config.servers = {} /\ config'.servers = {NewServer(DefaultServer)}
      <3>1. T = {} /\ T' = D
        BY <2>1, <2>3 DEF NewServer
      <3>2. QED
        BY <3>1 DEF Entry!Next, Entry!Open
    <2>4. ASSUME NEW s \in ServerType, config.servers # {},
                 config'.servers = {NewServer(s)}, s.name \in Names
          PROVE  [Entry!Next]_T
      <3>1. T' = {s.name}
        BY <2>1, <2>4 DEF NewServer
      <3>2. PICK x \in config.servers : config.servers = {x} /\ x.name \in Names
        BY <1>3, <2>4 DEF SInv, Servers
      <3>3. T = {x.name} /\ T # {}
        BY <2>1, <3>2
      <3>4. \A n \in Names : {n} = D \/ {n} \in Ts
        BY DEF Names, PodNames
      <3>5. CASE {s.name} \in Ts
        <4>1. Entry!Map({s.name})
          BY <3>1, <3>3, <3>5 DEF Entry!Map
        <4>2. Entry!Next
          BY <3>5, <4>1 DEF Entry!Next
        <4>3. QED
          BY <4>2
      <3>6. CASE {s.name} = D /\ {x.name} = D
        <4>1. T' = T
          BY <3>1, <3>3, <3>6
        <4>2. QED
          BY <4>1
      <3>7. CASE {s.name} = D /\ {x.name} \in Ts
        <4>1. Entry!Revert
          BY <3>1, <3>3, <3>7 DEF Entry!Revert
        <4>2. Entry!Next
          BY <4>1 DEF Entry!Next
        <4>3. QED
          BY <4>2
      <3> HIDE DEF T, D, Ts
      <3>8. ({s.name} \in Ts \/ {s.name} = D) /\ ({x.name} \in Ts \/ {x.name} = D)
        BY <2>4, <3>2, <3>4
      <3>9. QED
        BY <3>5, <3>6, <3>7, <3>8
    <2>5. QED
      BY <1>3, <2>2, <2>3, <2>4, NextKept DEF Moves
  <1>4. SInv /\ [Next]_vars => [Entry!Next]_T
    BY <1>3
  <1>5. QED
    BY <1>1, <1>2, <1>4, InitServers, PTL DEF Spec, EntryGuarded, Entry!Spec, Entry!Init

-----------------------------------------------------------------------------
(* The entry is complete: nothing takes a frontend or a bind of V1 away,   *)
(* and Run goes past AddBind only when that has put the bind there, which  *)
(* it does only behind the frontend.                                       *)

EntryFrontend == [name |-> Frontend, backend |-> Backend]
EntryBind == [frontend |-> Frontend, name |-> Bind, port |-> DefaultMappingPort]

Behind == {"read", "add", "replace", "up"}

\* What a request leaves of the frontends and the binds.
Keeps(r, c) == c.frontends \subseteq r.cfg.frontends /\ c.binds \subseteq r.cfg.binds

LEMMA KeepEffects ==
  ASSUME NEW c \in PodConfigs, NEW o, NEW v, NEW w, NEW old, NEW name, NEW addr
  PROVE  /\ Keeps(Direct(AddBackend(c, Backend, o), c, v, w, o), c)
         /\ Keeps(Direct(AddFrontend(c, Frontend, Backend, o), c, v, w, o), c)
         /\ Keeps(Direct(AddServerToBackend(c, Backend, name, addr, o), c, v, w, o), c)
         /\ Keeps(Direct(ReplaceServerFromBackend(c, Backend, old, name, addr, o),
                         c, v, w, o), c)
  <1> DEFINE Larger(d) == c.frontends \subseteq d.frontends /\ c.binds \subseteq d.binds
  <1>1. ASSUME NEW t, NEW k, NEW d, Larger(d)
        PROVE  Keeps(Request(t, c, k, d, o), c)
    BY <1>1 DEF Request, Keeps
  <1>2. ASSUME NEW r, Keeps(r, c) PROVE Keeps(Direct(r, c, v, w, o), c)
    BY <1>1, <1>2 DEF Direct
  <1>3. Keeps(AddBackend(c, Backend, o), c)
    BY <1>1 DEF AddBackend, PodConfigs
  <1>4. Keeps(AddFrontend(c, Frontend, Backend, o), c)
    BY <1>1 DEF AddFrontend, PodConfigs
  <1>5. Keeps(AddServerToBackend(c, Backend, name, addr, o), c)
    BY <1>1 DEF AddServerToBackend, PodConfigs
  <1>6. Keeps(ReplaceServerFromBackend(c, Backend, old, name, addr, o), c)
    BY <1>1 DEF ReplaceServerFromBackend, PodConfigs
  <1> HIDE DEF Larger
  <1>7. QED
    BY <1>2, <1>3, <1>4, <1>5, <1>6

\* AddBind succeeds only behind the frontend.
LEMMA BindEffects ==
  ASSUME NEW c \in PodConfigs, NEW o, NEW v, NEW w
  PROVE  LET r == Direct(AddBind(c, Frontend, Bind, DefaultMappingPort, o), c, v, w, o)
         IN  /\ Keeps(r, c) /\ ~SaysExists(r.err)
             /\ r.err = NoError => /\ EntryFrontend \in r.cfg.frontends
                                   /\ EntryBind \in r.cfg.binds
  <1> DEFINE c2 == [c EXCEPT !.binds = @ \cup {EntryBind}]
             no == Request("*", c, 409, c, o)
             r  == AddBind(c, Frontend, Bind, DefaultMappingPort, o)
  <1>1. c2.frontends = c.frontends /\ c2.binds = c.binds \cup {EntryBind}
    BY DEF PodConfigs
  <1>2. no.cfg = c /\ ~SaysExists(no.err) /\ no.err # NoError
    BY Answers
  <1>3. Direct(r, c, v, w, o) \in {r, no}
    BY DEF Direct
  <1>4. CASE \/ ~HasFrontend(c, Frontend)
             \/ \E x \in c.binds : x.frontend = Frontend /\ x.name = Bind
    <2>1. r \in {Request("*Bind", c, 404, c, o), Request("*Bind", c, 409, c, o)}
      BY <1>4 DEF AddBind
    <2> HIDE DEF r, no, c2
    <2>2. r.cfg = c /\ ~SaysExists(r.err) /\ r.err # NoError
      BY <2>1, Answers
    <2>3. QED
      BY <1>2, <1>3, <2>2 DEF r, Keeps
  <1>5. CASE /\ HasFrontend(c, Frontend)
             /\ ~\E x \in c.binds : x.frontend = Frontend /\ x.name = Bind
    <2>1. r = Request("*Bind", c, 201, c2, o)
      BY <1>5 DEF AddBind, EntryBind
    <2>2. EntryFrontend \in c.frontends
      BY <1>5 DEF HasFrontend, EntryFrontend, PodConfigs
    <2> HIDE DEF r, no, c2
    <2>3. /\ r.cfg \in {c, c2} /\ ~SaysExists(r.err)
          /\ r.err = NoError => r.cfg = c2
      BY <2>1, Answers
    <2>4. QED
      BY <1>1, <1>2, <1>3, <2>2, <2>3 DEF r, Keeps
  <1>6. QED
    BY <1>4, <1>5

\* A step that leaves the frontends and the binds in place and brings Run no
\* further than before keeps the entry complete.
Grows == /\ config.frontends \subseteq config'.frontends
         /\ config.binds \subseteq config'.binds

LEMMA CompleteKept ==
  ASSUME EntryComplete, Grows, stage'["run"] \in Behind => stage["run"] \in Behind
  PROVE  EntryComplete'
  BY DEF EntryComplete, Grows, Behind

\* The write of process p leaves Run where it was, unless p is Run.
LEMMA SentRun ==
  ASSUME TInv, NEW p \in Procs, NEW r, NEW next, NEW rest, Sent(p, r, next, rest)
  PROVE  /\ config' = r.cfg
         /\ \/ stage'["run"] \in {"dead", next} /\ p = "run"
            \/ stage'["run"] \in {"dead", stage["run"]} /\ p # "run"
  <1>1. stage \in [Procs -> Stages] /\ "run" \in Procs
    BY Apart DEF TInv, PodTypeOK
  <1>2. CASE Dies
    BY <1>1, <1>2 DEF Sent, Dies, StageAfterDeath
  <1>3. CASE stage' = [stage EXCEPT ![p] = next]
    BY <1>1, <1>3 DEF Sent
  <1>4. QED
    BY <1>2, <1>3 DEF Sent

\* The initialisation.
LEMMA CreateComplete ==
  ASSUME TInv, EntryComplete, createProxy
  PROVE  EntryComplete'
  <1>1. config \in PodConfigs /\ "run" \in Procs
    BY Apart DEF TInv, PodTypeOK
  <1>2. CASE CreateBackend
    <2>1. PICK o \in Fates :
            LET r == Direct(AddBackend(config, Backend, o), config, version,
                            seen["run"], o)
            IN  Creates(r, o, AfterBackend(r.err))
      BY <1>2 DEF CreateBackend
    <2> DEFINE r == Direct(AddBackend(config, Backend, o), config, version, seen["run"], o)
    <2>2. Keeps(r, config) /\ ~SaysExists(r.err)
      BY <1>1, KeepEffects, CreateEffects
    <2>3. Sent("run", r, AfterBackend(r.err), {})
      BY <2>1 DEF Creates
    <2> HIDE DEF r
    <2>4. AfterBackend(r.err) \notin Behind
      BY <2>2 DEF AfterBackend, Initialised, Behind
    <2>5. QED
      BY <1>1, <2>2, <2>3, <2>4, SentRun, CompleteKept DEF Grows, Keeps, Behind
  <1>3. CASE CreateFrontend
    <2>1. PICK o \in Fates :
            LET r == Direct(AddFrontend(config, Frontend, Backend, o), config, version,
                            seen["run"], o)
            IN  Creates(r, o, AfterFrontend(r.err))
      BY <1>3 DEF CreateFrontend
    <2> DEFINE r == Direct(AddFrontend(config, Frontend, Backend, o), config, version,
                           seen["run"], o)
    <2>2. Keeps(r, config) /\ ~SaysExists(r.err)
      BY <1>1, KeepEffects, CreateEffects
    <2>3. Sent("run", r, AfterFrontend(r.err), {})
      BY <2>1 DEF Creates
    <2> HIDE DEF r
    <2>4. AfterFrontend(r.err) \notin Behind
      BY <2>2 DEF AfterFrontend, Behind
    <2>5. QED
      BY <1>1, <2>2, <2>3, <2>4, SentRun, CompleteKept DEF Grows, Keeps, Behind
  <1>4. CASE CreateBind
    <2>1. PICK o \in Fates :
            LET r == Direct(AddBind(config, Frontend, Bind, DefaultMappingPort, o),
                            config, version, seen["run"], o)
            IN  Creates(r, o, AfterBind(r.err))
      BY <1>4 DEF CreateBind
    <2> DEFINE r == Direct(AddBind(config, Frontend, Bind, DefaultMappingPort, o),
                           config, version, seen["run"], o)
    <2>2. /\ Keeps(r, config) /\ ~SaysExists(r.err)
          /\ r.err = NoError => /\ EntryFrontend \in r.cfg.frontends
                                /\ EntryBind \in r.cfg.binds
      BY <1>1, BindEffects
    <2>3. Sent("run", r, AfterBind(r.err), {})
      BY <2>1 DEF Creates
    <2> HIDE DEF r
    <2>4. config' = r.cfg /\ stage'["run"] \in {"dead", AfterBind(r.err)}
      BY <1>1, <2>3, SentRun
    <2>5. CASE r.err = NoError
      BY <2>2, <2>4, <2>5 DEF EntryComplete, EntryFrontend, EntryBind
    <2>6. CASE r.err # NoError
      <3>1. stage'["run"] \notin Behind
        BY <2>2, <2>4, <2>6 DEF AfterBind, Initialised, Behind
      <3>2. QED
        BY <3>1 DEF EntryComplete, Behind
    <2>7. QED
      BY <2>5, <2>6
  <1>5. QED
    BY <1>2, <1>3, <1>4 DEF createProxy

\* changeProxy, of whatever process.
LEMMA ChangeComplete ==
  ASSUME TInv, EntryComplete, NEW p \in Procs, changeProxy(p)
  PROVE  EntryComplete'
  <1>1. /\ config \in PodConfigs /\ stage \in [Procs -> Stages] /\ "run" \in Procs
        /\ stage[p] \in Behind
    BY Apart DEF TInv, PodTypeOK, changeProxy, ReadServers, ReplaceServers, AddServer,
                 Behind
  <1>2. CASE ReadServers(p)
    <2>1. config' = config /\ \E x : stage' = [stage EXCEPT ![p] = x]
      BY <1>2 DEF ReadServers, apiVars
    <2>2. QED
      BY <1>1, <2>1, CompleteKept DEF Grows
  <1>3. CASE ReplaceServers(p)
    <2>1. PICK n \in todo[p], o \in Fates :
            LET r == Direct(ReplaceServerFromBackend(config, Backend, n, srv[p].name,
                                                     srv[p].addr, o),
                            config, version, seen[p], o)
            IN  \E next : Sent(p, r, next, todo[p] \ {n})
      BY <1>3 DEF ReplaceServers
    <2> DEFINE r == Direct(ReplaceServerFromBackend(config, Backend, n, srv[p].name,
                                                    srv[p].addr, o),
                           config, version, seen[p], o)
    <2>2. Keeps(r, config)
      BY <1>1, KeepEffects
    <2>3. PICK next : Sent(p, r, next, todo[p] \ {n})
      BY <2>1
    <2> HIDE DEF r
    <2>4. QED
      BY <1>1, <2>2, <2>3, SentRun, CompleteKept DEF Grows, Keeps, Behind
  <1>4. CASE AddServer(p)
    <2>1. PICK o \in Fates :
            LET r == Direct(AddServerToBackend(config, Backend, srv[p].name,
                                               srv[p].addr, o),
                            config, version, seen[p], o)
            IN  \E next : Sent(p, r, next, {})
      BY <1>4 DEF AddServer
    <2> DEFINE r == Direct(AddServerToBackend(config, Backend, srv[p].name,
                                              srv[p].addr, o),
                           config, version, seen[p], o)
    <2>2. Keeps(r, config)
      BY <1>1, KeepEffects
    <2>3. PICK next : Sent(p, r, next, {})
      BY <2>1
    <2> HIDE DEF r
    <2>4. QED
      BY <1>1, <2>2, <2>3, SentRun, CompleteKept DEF Grows, Keeps, Behind
  <1>5. QED
    BY <1>2, <1>3, <1>4 DEF changeProxy

\* Everything else leaves HAProxy alone and Run outside, or where it was.
LEMMA OtherComplete ==
  ASSUME TInv, EntryComplete,
         \/ \E p \in Pods : StorePod(p)
         \/ \E p \in Procs : Lock(p)
         \/ \E r \in Requests : create(r) \/ AddAfter(r)
         \/ PodsSynced \/ GetEvent \/ Tick \/ ForeignChange \/ Crash \/ StartAgain
         \/ \E e \in Events : Expire(e)
         \/ UNCHANGED vars
  PROVE  EntryComplete'
  <1>1. stage \in [Procs -> Stages] /\ "run" \in Procs
    BY Apart DEF TInv, PodTypeOK
  <1>2. config' = config
    BY DEF StorePod, Lock, create, AddAfter, PodsSynced, GetEvent, Tick, ForeignChange,
           Crash, StartAgain, Expire, vars, apiVars
  <1>3. stage'["run"] \in Behind => stage["run"] \in Behind
    <2>1. CASE Crash
      BY <1>1, <2>1 DEF Crash, Dies, StageAfterDeath, Behind
    <2>2. CASE PodsSynced \/ StartAgain
      BY <1>1, <2>2 DEF PodsSynced, StartAgain, Behind
    <2>3. CASE GetEvent \/ \E r \in Requests : create(r) \/ AddAfter(r)
      BY <1>1, <2>3, Apart DEF GetEvent, create, AddAfter
    <2>4. CASE \/ \E p \in Pods : StorePod(p)
               \/ \E p \in Procs : Lock(p)
               \/ Tick \/ ForeignChange \/ UNCHANGED vars
               \/ \E e \in Events : Expire(e)
      BY <2>4 DEF StorePod, Lock, Tick, ForeignChange, Expire, vars, callVars
    <2>5. QED
      BY <2>1, <2>2, <2>3, <2>4
  <1>4. QED
    BY <1>2, <1>3, CompleteKept DEF Grows

\* Run installs the default mapping and comes up only behind an entry with its
\* frontend and its bind, however many answers of createProxy are refused or lost,
\* reads fail, requests come early, other clients commit or the process ends.
THEOREM EntryIsComplete == Spec => []EntryComplete
  <1>1. Init => EntryComplete
    BY Apart DEF Init, PodInit, EntryComplete
  <1>2. TInv /\ EntryComplete /\ [Next]_vars => EntryComplete'
    <2> SUFFICES ASSUME TInv, EntryComplete, [Next]_vars PROVE EntryComplete'
      OBVIOUS
    <2>1. CASE createProxy
      BY <2>1, CreateComplete
    <2>2. CASE \E p \in Procs : changeProxy(p)
      BY <2>2, ChangeComplete
    <2>3. CASE \/ \E p \in Pods : StorePod(p)
               \/ \E p \in Procs : Lock(p)
               \/ \E r \in Requests : create(r) \/ AddAfter(r)
               \/ PodsSynced \/ GetEvent \/ Tick \/ ForeignChange \/ Crash \/ StartAgain
               \/ \E e \in Events : Expire(e)
               \/ UNCHANGED vars
      BY <2>3, OtherComplete
    <2>4. QED
      BY <2>1, <2>2, <2>3, Apart DEF Next, Run, pop, CreateMapping
  <1>3. QED
    BY <1>1, <1>2, InitType, NextType, PTL DEF Spec
==============================================================================
