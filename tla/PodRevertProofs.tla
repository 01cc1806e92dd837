-------------------------- MODULE PodRevertProofs --------------------------
(***************************************************************************)
(* Proof that V1 never leaves a Pod installed without a revert on its way, *)
(* for every set of Pods, contents, durations and concurrent requests for  *)
(* different Pods, when requests to the Data Plane API succeed and the     *)
(* process keeps running.                                                  *)
(***************************************************************************)
EXTENDS PodControllerProofs

\* The events that async holds or has handed out: pop calls no Done, so an event
\* that was handed out is never forgotten, and never queued again.
Out(q) == q.dirty \cup q.processing \cup {q.queue[i] : i \in DOMAIN q.queue}

\* An event that is new to the queue is really queued.
LEMMA AddNew ==
  ASSUME NEW q \in QueueType, NEW e \in Events, e \notin Out(q)
  PROVE  /\ Add(q, e).queue # <<>>
         /\ Add(q, e).waiting = q.waiting
         /\ Out(Add(q, e)) \subseteq Out(q) \cup {e}
  <1>1. q.queue \in Seq(Events) /\ e \notin q.dirty /\ e \notin q.processing
    BY DEF Out, QueueType
  <1> DEFINE s == Append(q.queue, e)
  <1>2. s # <<>> /\ \A i \in DOMAIN s : s[i] = e \/ \E j \in DOMAIN q.queue : s[i] = q.queue[j]
    BY <1>1
  <1> HIDE DEF s
  <1>3. Add(q, e) = [q EXCEPT !.dirty = @ \cup {e}, !.queue = s]
    BY <1>1 DEF Add, s
  <1>4. /\ Add(q, e).queue = s /\ Add(q, e).waiting = q.waiting
        /\ Add(q, e).dirty = q.dirty \cup {e} /\ Add(q, e).processing = q.processing
    BY <1>3 DEF QueueType
  <1>5. QED
    BY <1>2, <1>4 DEF Out

\* A delay that starts.
LEMMA DelayNew ==
  ASSUME NEW q \in QueueType, NEW e \in Events
  PROVE  /\ AddDelayed(q, {e}).waiting = q.waiting \cup {e}
         /\ Out(AddDelayed(q, {e})) = Out(q)
  BY DEF AddDelayed, Out, QueueType

\* A delay that ends leads to a queued event.
LEMMA DelayOver ==
  ASSUME NEW q \in QueueType, NEW e \in Events, e \notin Out(q)
  PROVE  /\ DelayElapsed(q, e).queue # <<>>
         /\ DelayElapsed(q, e).waiting = q.waiting \ {e}
         /\ Out(DelayElapsed(q, e)) \subseteq Out(q) \cup {e}
  <1> DEFINE x == [q EXCEPT !.waiting = @ \ {e}]
  <1>1. x \in QueueType /\ x.waiting = q.waiting \ {e} /\ Out(x) = Out(q)
    BY DEF QueueType, Out
  <1> HIDE DEF x
  <1>2. DelayElapsed(q, e) = Add(x, e)
    BY DEF DelayElapsed, x
  <1>3. QED
    BY <1>1, <1>2, AddNew

\* pop takes an event.
LEMMA TakenOut ==
  ASSUME NEW q \in QueueType, q.queue # <<>>
  PROVE  Get(q).waiting = q.waiting /\ Out(Get(q)) \subseteq Out(q)
  <1> DEFINE s == Tail(q.queue)
             h == Head(q.queue)
  <1>1. q.queue \in Seq(Events)
    BY DEF QueueType
  <1>2. h \in {q.queue[i] : i \in DOMAIN q.queue}
    BY <1>1
  <1>3. \A i \in DOMAIN s : s[i] \in {q.queue[j] : j \in DOMAIN q.queue}
    BY <1>1
  <1> HIDE DEF s, h
  <1>4. /\ Get(q).queue = s /\ Get(q).dirty = q.dirty \ {h}
        /\ Get(q).processing = q.processing \cup {h} /\ Get(q).waiting = q.waiting
    BY DEF Get, QueueType, s, h
  <1>5. QED
    BY <1>2, <1>3, <1>4 DEF Out

-----------------------------------------------------------------------------
(* The invariant. RevertPending alone is not inductive: the timer of a     *)
(* request must really lead to a queued event, so the event must be new to *)
(* the queue, and what pop has read must be the server that is installed   *)
(* when it writes, or that server came later with a timer of its own.      *)

\* Until Run is up no request has come and no Pod is installed.
Starting ==
  stage["run"] # "up" =>
    /\ async = EmptyQueue
    /\ \A r \in Requests : stage[r] = "new"
    /\ \A s \in config.servers : s.name = DefaultServer.name

\* A process that replaces servers has read the name of one.
OneRead == \A p \in Procs : \A x, y \in todo[p] : x = y

\* An event belongs to a request that is done, and does not wait twice.
Timers ==
  /\ \A e \in Out(async) \cup async.waiting :
       \E r \in Requests : stage[r] = "done" /\ PodOf[r] = e.host
  /\ async.waiting \cap Out(async) = {}

RInv == Starting /\ OneRead /\ Timers /\ RevertPending

\* Requests to the API succeed, nobody else writes and the process is not ended
\* from outside.
Calm == MaxPodFaults = 0 /\ MaxPodForeign = 0 /\ MaxPodRestarts = 0

\* No two requests ask for one Pod.
OneRequestEach == \A q, r \in Requests : PodOf[q] = PodOf[r] => q = r

\* Without faults every request is answered.
LEMMA AllAnswered ==
  ASSUME Calm, TInv, NEW o, SpendPod(o)
  PROVE  o = "ok"
  BY DEF Calm, SpendPod, TInv, PodTypeOK

\* A step that leaves the memory of the processes, the events and the servers
\* alone.
LEMMA SameRevert ==
  ASSUME RInv, UNCHANGED <<stage, srv, todo, async, config>>
  PROVE  RInv'
  BY DEF RInv, Starting, OneRead, Timers, Out, RevertPending, Reverting, Installed

\* A step that leaves the installed servers alone, and with them what reverts them.
LEMMA StillReverting ==
  ASSUME RevertPending, UNCHANGED config,
         \A s \in Installed : s.name # DefaultServer.name /\ Reverting(s) => Reverting(s)'
  PROVE  RevertPending'
  BY DEF RevertPending, Installed

\* A step of Run before it is up.
LEMMA StartRevert ==
  ASSUME PodTypeOK', OneRead', async' = EmptyQueue,
         \A r \in Requests : stage'[r] = "new",
         \A s \in config'.servers : s.name = DefaultServer.name
  PROVE  RInv'
  <1>1. async'.waiting = {} /\ Out(async)' = {}
    BY DEF EmptyQueue, Out
  <1>2. Timers'
    BY <1>1 DEF Timers
  <1>3. Starting'
    BY DEF Starting
  <1>4. RevertPending'
    BY DEF RevertPending, Installed
  <1>5. QED
    BY <1>2, <1>3, <1>4 DEF RInv

-----------------------------------------------------------------------------
(* The start of the process.                                               *)

\* What the end of the process leaves of a start.
LEMMA DiesStarting ==
  ASSUME Dies, \A r \in Requests : stage[r] = "new"
  PROVE  /\ OneRead' /\ async' = EmptyQueue
         /\ \A r \in Requests : stage'[r] = "new"
  <1>1. \A r \in Requests : StageAfterDeath(r) = "new"
    BY Apart DEF StageAfterDeath
  <1>2. \A r \in Requests : stage'[r] = "new"
    BY <1>1, Apart DEF Dies
  <1>3. OneRead'
    BY DEF Dies, OneRead
  <1>4. QED
    BY <1>2, <1>3 DEF Dies

\* A write of Run during the start.
LEMMA SentStarting ==
  ASSUME TInv, RInv, stage["run"] # "up", NEW r, NEW next, Sent("run", r, next, {})
  PROVE  /\ OneRead' /\ async' = EmptyQueue
         /\ \A q \in Requests : stage'[q] = "new"
  <1>1. async = EmptyQueue /\ \A q \in Requests : stage[q] = "new"
    BY DEF RInv, Starting
  <1>2. CASE next = "dead"
    BY <1>1, <1>2, DiesStarting DEF Sent
  <1>3. CASE next # "dead"
    <2>1. /\ stage' = [stage EXCEPT !["run"] = next]
          /\ todo' = [todo EXCEPT !["run"] = {}] /\ async' = async
      BY <1>3 DEF Sent, timerVars
    <2>2. OneRead'
      BY <2>1 DEF OneRead, RInv, TInv, PodTypeOK
    <2>3. QED
      BY <1>1, <2>1, <2>2, Apart DEF TInv, PodTypeOK
  <1>4. QED
    BY <1>2, <1>3

\* createProxy touches no server.
LEMMA CreateRevert ==
  ASSUME SInv, PodTypeOK', RInv, createProxy
  PROVE  RInv'
  <1>1. /\ TInv /\ config \in PodConfigs
    BY DEF SInv, TInv, PodTypeOK
  <1>2. stage["run"] # "up"
    BY DEF createProxy, CreateBackend, CreateFrontend, CreateBind
  <1>3. ASSUME NEW r, NEW next, Sent("run", r, next, {}),
               r.cfg.servers = config.servers
        PROVE  RInv'
    <2>1. /\ OneRead' /\ async' = EmptyQueue
          /\ \A q \in Requests : stage'[q] = "new"
      BY <1>1, <1>2, <1>3, SentStarting
    <2>2. \A s \in config'.servers : s.name = DefaultServer.name
      BY <1>2, <1>3 DEF Sent, RInv, Starting
    <2>3. QED
      BY <2>1, <2>2, StartRevert
  <1>4. CASE CreateBackend
    <2> DEFINE res(o) == Direct(AddBackend(config, Backend, o), config, version,
                                seen["run"], o)
    <2>1. PICK o \in Fates : Sent("run", res(o), AfterBackend(res(o).err), {})
      BY <1>4 DEF CreateBackend, Creates
    <2>2. res(o).cfg.servers = config.servers
      BY <1>1, CreateEffects
    <2> HIDE DEF res
    <2>3. QED
      BY <1>3, <2>1, <2>2
  <1>5. CASE CreateFrontend
    <2> DEFINE res(o) == Direct(AddFrontend(config, Frontend, Backend, o), config,
                                version, seen["run"], o)
    <2>1. PICK o \in Fates : Sent("run", res(o), AfterFrontend(res(o).err), {})
      BY <1>5 DEF CreateFrontend, Creates
    <2>2. res(o).cfg.servers = config.servers
      BY <1>1, CreateEffects
    <2> HIDE DEF res
    <2>3. QED
      BY <1>3, <2>1, <2>2
  <1>6. CASE CreateBind
    <2> DEFINE res(o) == Direct(AddBind(config, Frontend, Bind, DefaultMappingPort, o),
                                config, version, seen["run"], o)
    <2>1. PICK o \in Fates : Sent("run", res(o), AfterBind(res(o).err), {})
      BY <1>6 DEF CreateBind, Creates
    <2>2. res(o).cfg.servers = config.servers
      BY <1>1, CreateEffects
    <2> HIDE DEF res
    <2>3. QED
      BY <1>3, <2>1, <2>2
  <1>7. QED
    BY <1>4, <1>5, <1>6 DEF createProxy

\* The first server is the default one.
LEMMA AddRevert ==
  ASSUME SInv, PodTypeOK', RInv, NEW p \in Procs, AddServer(p)
  PROVE  RInv'
  <1>1. /\ TInv /\ Phases /\ Servers /\ config \in PodConfigs /\ stage[p] = "add"
    BY DEF SInv, TInv, PodTypeOK, AddServer
  <1>2. p = "run"
    BY <1>1 DEF Phases, Procs, PopStages, RequestStages, Ended
  <1>3. srv[p] = DefaultServer /\ config.servers = {}
    BY <1>1, <1>2 DEF Servers
  <1> DEFINE res(o) == Direct(AddServerToBackend(config, Backend, srv[p].name,
                                                 srv[p].addr, o),
                              config, version, seen[p], o)
  <1>4. PICK o \in Fates : Sent(p, res(o), Returned(p, res(o).err), {})
    BY DEF AddServer
  <1>5. FirstServer(res(o), config, srv[p])
    BY <1>1, <1>3, AddEffects
  <1> HIDE DEF res
  <1>6. \A s \in config'.servers : s.name = DefaultServer.name
    <2>1. config' = res(o).cfg
      BY <1>4 DEF Sent
    <2>2. NewServer(srv[p]).name = DefaultServer.name
      BY <1>3 DEF NewServer
    <2>3. config'.servers \subseteq {NewServer(srv[p])}
      BY <1>5, <2>1 DEF FirstServer
    <2>4. QED
      BY <2>2, <2>3
  <1>7. /\ OneRead' /\ async' = EmptyQueue
        /\ \A q \in Requests : stage'[q] = "new"
    BY <1>1, <1>2, <1>4, SentStarting
  <1>8. QED
    BY <1>6, <1>7, StartRevert

\* Run starts, and starts again.
LEMMA SyncRevert ==
  ASSUME SInv, PodTypeOK', RInv, PodsSynced \/ StartAgain
  PROVE  RInv'
  <1>1. PICK x : /\ stage' = [stage EXCEPT !["run"] = x] /\ stage["run"] # "up"
                 /\ UNCHANGED <<todo, async, config>>
    BY DEF PodsSynced, StartAgain, timerVars, apiVars
  <1>2. \A r \in Requests : stage'[r] = stage[r]
    BY <1>1, Apart DEF SInv, TInv, PodTypeOK
  <1>3. OneRead'
    BY <1>1 DEF RInv, OneRead
  <1>4. QED
    BY <1>1, <1>2, <1>3, StartRevert DEF RInv, Starting

-----------------------------------------------------------------------------
(* Reads of the servers.                                                   *)

\* What a process reads is the one server there is; when that is a Pod and the
\* process is pop, its revert goes on.
LEMMA ReadRevert ==
  ASSUME Calm, SInv, SInv', RInv, NEW p \in Procs, ReadServers(p)
  PROVE  RInv'
  <1> DEFINE names == GetServers(config, Backend, "ok")
  <1>1. /\ TInv /\ Phases /\ Servers /\ stage \in [Procs -> Stages] /\ PodTypeOK'
        /\ todo \in [Procs -> SUBSET ServerNames]
    BY DEF SInv, TInv, PodTypeOK
  <1>2. /\ stage[p] = "read" /\ stage' = [stage EXCEPT ![p] = NextWrite(names)]
        /\ todo' = [todo EXCEPT ![p] = names]
        /\ UNCHANGED <<srv, async, config>>
    BY <1>1, AllAnswered DEF ReadServers, timerVars, apiVars
  <1>3. names = {s.name : s \in config.servers} /\ Installed = config.servers
    <2>1. names = {s.name : s \in Installed}
      BY DEF GetServers, Installed
    <2>2. QED
      BY <1>1, <2>1, InstalledAll DEF TInv
  <1> HIDE DEF names
  <1>4. OneRead'
    <2>1. \A x, y \in names : x = y
      BY <1>1, <1>3 DEF Servers
    <2>2. QED
      BY <1>1, <1>2, <2>1 DEF RInv, OneRead
  <1>5. CASE p = "run"
    <2>1. stage["run"] # "up" /\ \A r \in Requests : stage'[r] = stage[r]
      BY <1>1, <1>2, <1>5, Apart
    <2>2. QED
      BY <1>1, <1>2, <1>4, <2>1, StartRevert DEF RInv, Starting
  <1>6. CASE p # "run"
    <2>1. p = "pop" \/ p \in Requests
      BY <1>6 DEF Procs
    <2>2. stage["run"] = "up" /\ stage'["run"] = "up"
      BY <1>1, <1>2, <1>6, <2>1, Apart DEF Phases, Quiet, Ended
    <2>3. stage' = [stage EXCEPT ![p] = "replace"]
      <3>1. names # {}
        BY <1>1, <1>3, <2>2 DEF Servers
      <3>2. QED
        BY <1>2, <3>1 DEF NextWrite
    <2>4. Timers'
      BY <1>1, <1>2, <2>3 DEF RInv, Timers
    <2>5. RevertPending'
      <3>1. ASSUME NEW s \in Installed, s.name # DefaultServer.name, Reverting(s)
            PROVE  Reverting(s)'
        <4>1. CASE \E r \in Requests : stage[r] = "after" /\ srv[r].name = s.name
          <5>1. PICK r \in Requests : stage[r] = "after" /\ srv[r].name = s.name
            BY <4>1
          <5>2. stage'[r] = "after" /\ srv'[r].name = s.name
            BY <1>1, <1>2, <2>3, <5>1, Apart
          <5>3. QED
            BY <5>2 DEF Reverting
        <4>2. CASE async.waiting # {} \/ async.queue # <<>>
          BY <1>2, <4>2 DEF Reverting
        <4>3. CASE p = "pop"
          <5>1. stage'["pop"] = "replace" /\ todo'["pop"] = names
            BY <1>1, <1>2, <2>3, <4>3, Apart
          <5>2. s.name \in names
            BY <1>3
          <5>3. QED
            BY <5>1, <5>2 DEF Reverting
        <4>4. CASE p # "pop"
          <5>1. stage'["pop"] = stage["pop"] /\ todo'["pop"] = todo["pop"]
            BY <1>1, <1>2, <2>3, <4>4, Apart
          <5>2. QED
            BY <3>1, <4>1, <4>2, <5>1 DEF Reverting
        <4>5. QED
          BY <4>3, <4>4
      <3>2. QED
        BY <1>2, <3>1, StillReverting DEF RInv
    <2>6. QED
      BY <1>4, <2>2, <2>4, <2>5 DEF RInv, Starting
  <1>7. QED
    BY <1>5, <1>6

-----------------------------------------------------------------------------
(* Replacements.                                                           *)

\* A replacement that is answered and names the current version: the server of
\* the old name makes way for the new one, or there is none and nothing happens.
Replaced(r, c, s, old) ==
  \/ /\ r.cfg.servers = c.servers /\ r.err # NoError
     /\ \A x \in c.servers : x.name # old
  \/ r.cfg.servers = {NewServer(s)} /\ r.err = NoError

LEMMA ReplaceAnswer ==
  ASSUME NEW c \in PodConfigs, \A x, y \in c.servers : x = y,
         NEW s, NEW old, NEW v
  PROVE  Replaced(Direct(ReplaceServerFromBackend(c, Backend, old, s.name, s.addr,
                                                  "ok"), c, v, v, "ok"), c, s, old)
  <1> DEFINE c2 == [c EXCEPT !.servers =
                      {x \in @ : ~(x.backend = Backend /\ x.name = old)}
                        \cup {NewServer(s)}]
             r  == ReplaceServerFromBackend(c, Backend, old, s.name, s.addr, "ok")
  <1>1. Direct(r, c, v, v, "ok") = r
    BY DEF Direct
  <1>2. \A x \in c.servers : x.backend = Backend
    BY DEF PodConfigs
  <1>3. c2.servers = {x \in c.servers : ~(x.backend = Backend /\ x.name = old)}
                       \cup {NewServer(s)}
    BY DEF PodConfigs
  <1>4. CASE ~HasServer(c, Backend, old)
    <2>1. r \in {Request("*Server", c, 404, c, "ok"), Request("*Server", c, 409, c, "ok")}
      BY <1>4 DEF ReplaceServerFromBackend
    <2>2. r.cfg = c /\ r.err # NoError
      <3> HIDE DEF r
      <3>1. QED
        BY <2>1, Answers
    <2>3. \A x \in c.servers : x.name # old
      BY <1>2, <1>4 DEF HasServer
    <2> HIDE DEF r
    <2>4. QED
      BY <1>1, <2>2, <2>3 DEF r, Replaced
  <1>5. CASE HasServer(c, Backend, old)
    <2>1. ~(old # s.name /\ HasServer(c, Backend, s.name))
      BY <1>5 DEF HasServer
    <2>2. r = Request("*Server", c, 200, c2, "ok")
      BY <1>5, <2>1 DEF ReplaceServerFromBackend, NewServer
    <2>3. c2.servers = {NewServer(s)}
      <3> HIDE DEF c2
      <3>1. PICK x \in c.servers : x.backend = Backend /\ x.name = old
        BY <1>5 DEF HasServer
      <3>2. QED
        BY <1>3, <3>1
    <2> HIDE DEF c2
    <2>4. r.cfg = c2 /\ r.err = NoError
      BY <2>2 DEF Request, handleError
    <2> HIDE DEF r
    <2>5. QED
      BY <1>1, <2>3, <2>4 DEF r, Replaced
  <1>6. QED
    BY <1>4, <1>5

\* pop puts the default server in the place of the server it has read, and a
\* request its Pod, whose timer it is about to start. When the server has changed
\* since the read nothing happens, and who installed the other one sees to its
\* revert.
LEMMA ReplaceRevert ==
  ASSUME Calm, SInv, SInv', LockInv, RInv, NEW p \in Procs, ReplaceServers(p)
  PROVE  RInv'
  <1>1. /\ TInv /\ Phases /\ Servers /\ stage \in [Procs -> Stages]
        /\ todo \in [Procs -> SUBSET ServerNames] /\ srv[p] \in ServerType
        /\ config \in PodConfigs /\ stage[p] = "replace" /\ seen[p] = version
    BY DEF SInv, TInv, PodTypeOK, ReplaceServers, LockInv, VersionsFresh, ServerType
  <1>2. p = "pop" \/ p \in Requests
    BY <1>1 DEF Phases, Procs, RunStages
  <1>3. stage["run"] = "up" /\ p # "run"
    BY <1>1, <1>2, Apart DEF Phases, Quiet, Ended
  <1> DEFINE res(n) == Direct(ReplaceServerFromBackend(config, Backend, n,
                                srv[p].name, srv[p].addr, "ok"),
                              config, version, version, "ok")
  <1>4. PICK n \in todo[p] :
          Sent(p, res(n), IF todo[p] = {n} THEN Returned(p, res(n).err) ELSE "replace",
               todo[p] \ {n})
    BY <1>1, AllAnswered DEF ReplaceServers
  <1>5. todo[p] = {n}
    BY DEF RInv, OneRead
  <1>6. Replaced(res(n), config, srv[p], n)
    <2>1. \A x, y \in config.servers : x = y
      BY <1>1 DEF Servers
    <2>2. QED
      BY <1>1, <2>1, ReplaceAnswer
  <1> HIDE DEF res
  <1> DEFINE next == Returned(p, res(n).err)
  <1>7. next = IF p = "pop" THEN "idle"
               ELSE IF res(n).err = NoError THEN "after" ELSE "failed"
    BY <1>3 DEF Returned
  <1> HIDE DEF next
  <1>8. /\ stage' = [stage EXCEPT ![p] = next]
        /\ todo' = [todo EXCEPT ![p] = {}]
        /\ config' = res(n).cfg /\ UNCHANGED <<srv, async>>
    <2>1. Sent(p, res(n), next, {})
      BY <1>4, <1>5 DEF next
    <2>2. next # "dead"
      BY <1>7
    <2>3. QED
      BY <2>1, <2>2 DEF Sent, timerVars
  <1>9. OneRead'
    BY <1>1, <1>8 DEF RInv, OneRead
  <1>10. Starting'
    BY <1>1, <1>3, <1>8, Apart DEF Starting
  <1>11. Timers'
    BY <1>1, <1>8 DEF RInv, Timers
  <1>12. Installed = config.servers /\ Installed' = config'.servers
    <2>1. PodTypeOK /\ PodTypeOK'
      BY DEF SInv, TInv
    <2>2. QED
      BY <2>1 DEF PodTypeOK, PodConfigs, Installed
  <1>13. CASE res(n).err # NoError
    <2>1. config'.servers = config.servers /\ \A x \in config.servers : x.name # n
      BY <1>6, <1>8, <1>13 DEF Replaced
    <2>2. ASSUME NEW s \in Installed, Reverting(s) PROVE Reverting(s)'
      <3>1. CASE \E r \in Requests : stage[r] = "after" /\ srv[r].name = s.name
        <4>1. PICK r \in Requests : stage[r] = "after" /\ srv[r].name = s.name
          BY <3>1
        <4>2. stage'[r] = "after" /\ srv'[r].name = s.name
          BY <1>1, <1>8, <4>1, Apart
        <4>3. QED
          BY <4>2 DEF Reverting
      <3>2. CASE async.waiting # {} \/ async.queue # <<>>
        BY <1>8, <3>2 DEF Reverting
      <3>3. CASE p = "pop"
        <4>1. ~(s.name \in todo["pop"]) /\ stage["pop"] # "read"
          BY <1>1, <1>5, <1>12, <2>1, <3>3
        <4>2. QED
          BY <2>2, <3>1, <3>2, <4>1 DEF Reverting
      <3>4. CASE p # "pop"
        <4>1. stage'["pop"] = stage["pop"] /\ todo'["pop"] = todo["pop"]
          BY <1>1, <1>8, <3>4, Apart
        <4>2. QED
          BY <2>2, <3>1, <3>2, <4>1 DEF Reverting
      <3>5. QED
        BY <3>3, <3>4
    <2>3. RevertPending'
      BY <1>12, <2>1, <2>2 DEF RInv, RevertPending
    <2>4. QED
      BY <1>9, <1>10, <1>11, <2>3 DEF RInv
  <1>14. CASE res(n).err = NoError
    <2>1. config'.servers = {NewServer(srv[p])}
      BY <1>6, <1>8, <1>14 DEF Replaced
    <2>2. NewServer(srv[p]).name = srv[p].name
      BY DEF NewServer
    <2>3. CASE p = "pop"
      <3>1. srv[p] = DefaultServer
        BY <1>1, <2>3 DEF Servers
      <3>2. RevertPending'
        BY <1>12, <2>1, <2>2, <3>1 DEF RevertPending
      <3>3. QED
        BY <1>9, <1>10, <1>11, <3>2 DEF RInv
    <2>4. CASE p \in Requests
      <3>1. stage'[p] = "after" /\ srv'[p] = srv[p]
        BY <1>1, <1>7, <1>8, <1>14, <2>4, Apart
      <3>2. ASSUME NEW s \in Installed' PROVE Reverting(s)'
        BY <1>12, <2>1, <2>2, <2>4, <3>1 DEF Reverting
      <3>3. RevertPending'
        BY <3>2 DEF RevertPending
      <3>4. QED
        BY <1>9, <1>10, <1>11, <3>3 DEF RInv
    <2>5. QED
      BY <1>2, <2>3, <2>4
  <1>15. QED
    BY <1>13, <1>14

-----------------------------------------------------------------------------
(* Requests and timers.                                                    *)

\* What keeps a revert on its way: the requests about to start a timer and pop
\* stay where they are, and the queue does not run dry.
LEMMA KeepsReverting ==
  ASSUME RevertPending, UNCHANGED config,
         \/ async'.waiting # {} \/ async'.queue # <<>> \/ stage'["pop"] = "read"
         \/ /\ \A r \in Requests :
                 stage[r] = "after" => stage'[r] = "after" /\ srv'[r] = srv[r]
            /\ stage'["pop"] = stage["pop"] /\ UNCHANGED <<todo, async>>
  PROVE  RevertPending'
  <1>1. ASSUME NEW s \in Installed, Reverting(s) PROVE Reverting(s)'
    BY <1>1 DEF Reverting
  <1>2. QED
    BY <1>1, StillReverting

\* A request arrives.
LEMMA ArriveRevert ==
  ASSUME ~EarlyRequests, SInv, RInv, NEW r \in Requests, create(r)
  PROVE  RInv'
  <1>1. stage \in [Procs -> Stages] /\ srv \in [Procs -> ServerType]
    BY DEF SInv, TInv, PodTypeOK, ServerType
  <1>2. /\ stage[r] = "new" /\ stage["run"] = "up"
        /\ UNCHANGED <<todo, async, config>>
    BY DEF create, timerVars, apiVars
  <1>3. \A p \in Procs : p # r => stage'[p] = stage[p] /\ srv'[p] = srv[p]
    BY <1>1 DEF create
  <1>4. Starting'
    BY <1>2, <1>3, Apart DEF Starting
  <1>5. OneRead'
    BY <1>2 DEF RInv, OneRead
  <1>6. Timers'
    <2>1. \A q \in Requests : stage[q] = "done" => stage'[q] = "done"
      BY <1>2, <1>3, Apart
    <2>2. QED
      BY <1>2, <2>1 DEF RInv, Timers
  <1>7. RevertPending'
    <2>1. \A q \in Requests :
            stage[q] = "after" => stage'[q] = "after" /\ srv'[q] = srv[q]
      BY <1>2, <1>3, Apart
    <2>2. stage'["pop"] = stage["pop"]
      BY <1>3, Apart
    <2>3. QED
      BY <1>2, <2>1, <2>2, KeepsReverting DEF RInv
  <1>8. QED
    BY <1>4, <1>5, <1>6, <1>7 DEF RInv

\* The event of a request that is not done is new to the queue.
LEMMA EventNew ==
  ASSUME OneRequestEach, TInv, Timers, NEW r \in Requests, stage[r] = "after"
  PROVE  EventOf(r) \in Events /\ EventOf(r) \notin Out(async) \cup async.waiting
  <1>1. EventOf(r).host = PodOf[r]
    BY DEF EventOf
  <1>2. EventOf(r) \in Events
    <2>1. PICK o \in PodObjects : srv[r] = PodServer(PodOf[r], o)
      BY DEF TInv, Served, Ended
    <2>2. PodOf[r] \in Pods
      BY PodAssumption
    <2>3. QED
      BY <2>1, <2>2, ServerTypes DEF EventOf, Events
  <1>3. ASSUME EventOf(r) \in Out(async) \cup async.waiting PROVE FALSE
    <2>1. PICK q \in Requests : stage[q] = "done" /\ PodOf[q] = EventOf(r).host
      BY <1>3 DEF Timers
    <2>2. q = r
      BY <1>1, <2>1 DEF OneRequestEach
    <2>3. QED
      BY <2>1, <2>2
  <1>4. QED
    BY <1>2, <1>3

\* A request starts its timer, which leaves an event.
LEMMA AfterRevert ==
  ASSUME OneRequestEach, SInv, RInv, NEW r \in Requests, AddAfter(r)
  PROVE  RInv'
  <1> DEFINE e == EventOf(r)
  <1>1. /\ TInv /\ Phases /\ stage \in [Procs -> Stages] /\ async \in QueueType
    BY DEF SInv, TInv, PodTypeOK, QueueType
  <1>2. /\ stage[r] = "after" /\ stage' = [stage EXCEPT ![r] = "done"]
        /\ UNCHANGED <<srv, todo, config>> /\ DelayedUntil(e, ttl[r])
    BY DEF AddAfter, apiVars
  <1>3. stage["run"] = "up" /\ stage'["run"] = "up"
    BY <1>1, <1>2, Apart DEF Phases, Quiet, Ended
  <1>4. e \in Events /\ e \notin Out(async) \cup async.waiting /\ e.host = PodOf[r]
    BY <1>1, <1>2, EventNew DEF RInv, EventOf
  <1> HIDE DEF e
  <1>5. \/ /\ async'.queue # <<>> /\ async'.waiting = async.waiting
           /\ Out(async') \subseteq Out(async) \cup {e}
        \/ /\ async'.waiting = async.waiting \cup {e} /\ Out(async') = Out(async)
    <2>1. async' = Add(async, e) \/ async' = AddDelayed(async, {e})
      BY <1>2 DEF DelayedUntil
    <2>2. QED
      BY <1>1, <1>4, <2>1, AddNew, DelayNew
  <1>6. Timers'
    <2>1. \A x \in Out(async') \cup async'.waiting :
            x \in Out(async) \cup async.waiting \/ x = e
      BY <1>5
    <2>2. \A q \in Requests : stage[q] = "done" => stage'[q] = "done"
      BY <1>1, <1>2, Apart
    <2>3. stage'[r] = "done"
      BY <1>1, <1>2, Apart
    <2>4. ASSUME NEW x \in Out(async') \cup async'.waiting
          PROVE  \E q \in Requests : stage'[q] = "done" /\ PodOf[q] = x.host
      BY <1>4, <2>1, <2>2, <2>3 DEF RInv, Timers
    <2>5. async'.waiting \cap Out(async') = {}
      BY <1>4, <1>5 DEF RInv, Timers
    <2>6. QED
      BY <2>4, <2>5 DEF Timers
  <1>7. RevertPending'
    BY <1>2, <1>5, KeepsReverting DEF RInv
  <1>8. QED
    BY <1>2, <1>3, <1>6, <1>7 DEF RInv, Starting, OneRead

\* A timer fires and its event is queued; pop takes an event and reads.
LEMMA TimerRevert ==
  ASSUME SInv, RInv, GetEvent \/ \E e \in Events : Expire(e)
  PROVE  RInv'
  <1>1. /\ TInv /\ Phases /\ stage \in [Procs -> Stages] /\ async \in QueueType
    BY DEF SInv, TInv, PodTypeOK, QueueType
  <1>2. UNCHANGED <<srv, todo, config>>
    BY DEF GetEvent, Expire, callVars, apiVars
  <1>3. /\ stage["run"] = "up" /\ stage'["run"] = "up"
        /\ \A r \in Requests : stage'[r] = stage[r]
    BY <1>1, Apart DEF GetEvent, Expire, callVars, Phases, Quiet
  <1>4. CASE GetEvent
    <2>1. /\ async' = Get(async) /\ async.queue # <<>> /\ stage'["pop"] = "read"
      BY <1>1, <1>4, Apart DEF GetEvent
    <2>2. async'.waiting = async.waiting /\ Out(async') \subseteq Out(async)
      BY <1>1, <2>1, TakenOut
    <2>3. Timers'
      BY <1>3, <2>2 DEF RInv, Timers
    <2>4. RevertPending'
      BY <1>2, <2>1, KeepsReverting DEF RInv
    <2>5. QED
      BY <1>2, <1>3, <2>3, <2>4 DEF RInv, Starting, OneRead
  <1>5. ASSUME NEW e \in Events, Expire(e) PROVE RInv'
    <2>1. async' = DelayElapsed(async, e) /\ e \in async.waiting
      BY <1>5 DEF Expire
    <2>2. e \notin Out(async)
      BY <2>1 DEF RInv, Timers
    <2>3. /\ async'.queue # <<>> /\ async'.waiting = async.waiting \ {e}
          /\ Out(async') \subseteq Out(async) \cup {e}
      BY <1>1, <2>1, <2>2, DelayOver
    <2>4. Timers'
      BY <1>3, <2>1, <2>3 DEF RInv, Timers
    <2>5. RevertPending'
      BY <1>2, <2>3, KeepsReverting DEF RInv
    <2>6. QED
      BY <1>2, <1>3, <2>4, <2>5 DEF RInv, Starting, OneRead
  <1>6. QED
    BY <1>4, <1>5

-----------------------------------------------------------------------------
\* The invariant is inductive.
LEMMA NextRevert ==
  ASSUME Calm, OneRequestEach, ~EarlyRequests, ~FailedReads,
         SInv, LockInv, RInv, [Next]_vars
  PROVE  RInv'
  <1>1. SInv' /\ PodTypeOK'
    BY NextKept DEF SInv, TInv
  <1>2. CASE \E p \in Procs : ReadServers(p)
    BY <1>1, <1>2, ReadRevert
  <1>3. CASE \E p \in Procs : ReplaceServers(p)
    BY <1>1, <1>3, ReplaceRevert
  <1>4. CASE \E p \in Procs : AddServer(p)
    BY <1>1, <1>4, AddRevert
  <1>5. CASE createProxy
    BY <1>1, <1>5, CreateRevert
  <1>6. CASE \E r \in Requests : create(r)
    BY <1>6, ArriveRevert
  <1>7. CASE \E r \in Requests : AddAfter(r)
    BY <1>7, AfterRevert
  <1>8. CASE GetEvent \/ \E e \in Events : Expire(e)
    BY <1>8, TimerRevert
  <1>9. CASE PodsSynced \/ StartAgain
    BY <1>1, <1>9, SyncRevert
  <1>10. CASE \/ \E p \in Procs : Lock(p)
              \/ \E p \in Pods : StorePod(p)
              \/ Tick \/ UNCHANGED vars
    <2>1. UNCHANGED <<stage, srv, todo, async, config>>
      BY <1>10 DEF Lock, StorePod, Tick, vars, callVars, timerVars, apiVars
    <2>2. QED
      BY <2>1, SameRevert
  <1>11. ~ForeignChange /\ ~Crash
    BY DEF Calm, ForeignChange, Crash, SInv, TInv, PodTypeOK
  <1>12. QED
    BY <1>2, <1>3, <1>4, <1>5, <1>6, <1>7, <1>8, <1>9, <1>10, <1>11, Apart
       DEF Next, Run, pop, CreateMapping, changeProxy

\* However many requests for different Pods overlap, whatever their durations and
\* however their timers and pop interleave with them, no Pod stays installed
\* without a revert on its way: pop, which ignores which event it got and replaces
\* the server it has read, never strands a mapping made in the meantime. Each
\* hypothesis is needed: a restart forgets the timers, a write that is refused is
\* dropped by pop, and the second event of one Pod is never queued.
THEOREM RevertIsPending ==
  ASSUME MaxPodFaults = 0, MaxPodForeign = 0, MaxPodRestarts = 0,
         ~EarlyRequests, ~FailedReads,
         \A q, r \in Requests : PodOf[q] = PodOf[r] => q = r
  PROVE  Spec => []RevertPending
  <1>1. Calm /\ OneRequestEach
    BY DEF Calm, OneRequestEach
  <1>2. Init => SInv /\ LockInv /\ RInv
    <2> SUFFICES ASSUME Init PROVE SInv /\ LockInv /\ RInv
      OBVIOUS
    <2>1. SInv
      BY InitServers
    <2>2. LockInv
      BY DEF Init, PodInit, LockInv, VersionsFresh
    <2>3. Starting
      BY Apart DEF Init, PodInit, EmptyConfig, Starting
    <2>4. OneRead
      BY DEF Init, PodInit, OneRead
    <2>5. Timers
      BY DEF Init, PodInit, EmptyQueue, Timers, Out
    <2>6. RevertPending
      BY DEF Init, EmptyConfig, RevertPending, Installed
    <2>7. QED
      BY <2>1, <2>2, <2>3, <2>4, <2>5, <2>6 DEF RInv
  <1>3. SInv /\ LockInv /\ RInv /\ [Next]_vars => (SInv /\ LockInv /\ RInv)'
    <2> SUFFICES ASSUME SInv, LockInv, RInv, [Next]_vars
                 PROVE  SInv' /\ LockInv' /\ RInv'
      OBVIOUS
    <2>1. SInv'
      BY NextKept
    <2>2. LockInv'
      BY NextLock DEF SInv
    <2>3. RInv'
      BY <1>1, NextRevert
    <2>4. QED
      BY <2>1, <2>2, <2>3
  <1>4. RInv => RevertPending
    BY DEF RInv
  <1>5. QED
    BY <1>2, <1>3, <1>4, PTL DEF Spec

-----------------------------------------------------------------------------
(* The time a mapping lasts. With one request, pop is set going only by    *)
(* the timer of that request, which was started after the Pod was          *)
(* installed. This holds whatever fails.                                   *)

\* No timer was started and pop has nothing to do.
Unused == stage["pop"] = "idle" /\ async.queue = <<>> /\ async.waiting = {}

\* Once pop has work the time is over; a delay that runs is at least as long as
\* the time that is left.
Due ==
  /\ stage["pop"] # "idle" \/ async.queue # <<>> => owed <= 0
  /\ \A e \in async.waiting : owed <= 0 \/ owed <= left[e]
  /\ \A r \in Requests :
       /\ stage[r] # "done" => Unused
       /\ stage[r] = "after" => owed <= 0 \/ owed <= ttl[r]

\* A Pod makes way for the default server only when its time is over.
InTime == Mapped /\ ~Mapped' => owed <= 0

\* A step that touches neither the timers nor the time that is left.
LEMMA SameDue ==
  ASSUME Due, UNCHANGED <<async, left, owed>>,
         stage["pop"] = "idle" => stage'["pop"] = "idle",
         \A r \in Requests :
           /\ stage[r] = "done" => stage'[r] = "done"
           /\ stage'[r] = "done" => stage[r] = "done"
           /\ stage'[r] = "after" => stage[r] = "after" /\ ttl'[r] = ttl[r]
  PROVE  Due'
  BY DEF Due, Unused

\* The end of the process.
LEMMA DiesDue ==
  ASSUME Dies
  PROVE  Due'
  <1>1. /\ stage'["pop"] = "idle" /\ async'.queue = <<>> /\ async'.waiting = {}
    BY Apart DEF Dies, StageAfterDeath, EmptyQueue
  <1>2. \A r \in Requests : stage'[r] \in Ended
    BY DiesType
  <1>3. QED
    BY <1>1, <1>2 DEF Due, Unused, Ended

\* A write that pop or Run makes.
LEMMA SentDue ==
  ASSUME TInv, Due, NEW p \in {"run", "pop"}, NEW r, NEW next, NEW rest,
         Sent(p, r, next, rest), UNCHANGED owed, p = "pop" => stage["pop"] # "idle"
  PROVE  Due'
  <1>1. CASE next = "dead"
    BY <1>1, DiesDue DEF Sent
  <1>2. CASE next # "dead"
    <2>1. stage' = [stage EXCEPT ![p] = next] /\ UNCHANGED <<async, left, ttl>>
      BY <1>2 DEF Sent, timerVars
    <2>2. stage["pop"] = "idle" => stage'["pop"] = "idle"
      BY <2>1, Apart DEF TInv, PodTypeOK
    <2>3. \A q \in Requests : stage'[q] = stage[q]
      BY <2>1, Apart DEF TInv, PodTypeOK
    <2>4. QED
      BY <2>1, <2>2, <2>3, SameDue
  <1>3. QED
    BY <1>1, <1>2

\* A replacement without an error was carried out.
LEMMA ReplaceDone ==
  ASSUME NEW c, NEW s, NEW old, NEW o, NEW v, NEW w
  PROVE  LET r == Direct(ReplaceServerFromBackend(c, Backend, old, s.name, s.addr, o),
                         c, v, w, o)
         IN  r.err = NoError => r.done
  <1> DEFINE c2 == [c EXCEPT !.servers =
                      {x \in @ : ~(x.backend = Backend /\ x.name = old)}
                        \cup {[backend |-> Backend, name |-> s.name,
                               addr |-> s.addr]}]
             no == Request("*", c, 409, c, o)
             r  == ReplaceServerFromBackend(c, Backend, old, s.name, s.addr, o)
  <1>1. no.err # NoError
    BY Answers
  <1>2. Direct(r, c, v, w, o) \in {r, no}
    BY DEF Direct
  <1>3. r \in {Request("*Server", c, 404, c, o), Request("*Server", c, 409, c, o),
               Request("*Server", c, 200, c2, o)}
    BY DEF ReplaceServerFromBackend
  <1> HIDE DEF r, no, c2
  <1>4. \A k \in {404, 409} : Request("*Server", c, k, c, o).err # NoError
    BY Answers
  <1>5. Request("*Server", c, 200, c2, o).err = NoError =>
          Request("*Server", c, 200, c2, o).done
    <2>1. Request("*Server", c, 200, c2, o).err = NoError => o = "ok"
      BY Answers
    <2>2. o = "ok" => Request("*Server", c, 200, c2, o).done
      BY DEF Request
    <2>3. QED
      BY <2>1, <2>2
  <1>6. r.err = NoError => r.done
    BY <1>3, <1>4, <1>5
  <1>7. QED
    BY <1>1, <1>2, <1>6 DEF r

\* A Pod's server is not the default one.
LEMMA PodIsMapped ==
  ASSUME NEW p, NEW o
  PROVE  PodServer(p, o).name # DefaultServer.name
  BY DEF PodServer, DefaultServer

\* A step that leaves the servers alone takes out no Pod.
LEMMA SameMapped ==
  ASSUME SInv, SInv', config'.servers = config.servers
  PROVE  InTime
  <1>1. Installed = config.servers /\ Installed' = config'.servers
    BY DEF SInv, TInv, PodTypeOK, PodConfigs, Installed
  <1>2. QED
    BY <1>1 DEF InTime, Mapped

\* pop replaces a server when the time is over; a request installs a Pod, which
\* it owes its time, before any timer was started.
LEMMA ReplaceDue ==
  ASSUME SInv, SInv', Due, \A q, r \in Requests : q = r,
         NEW p \in Procs, ReplaceServers(p)
  PROVE  Due' /\ InTime
  <1>1. /\ TInv /\ Phases /\ Servers /\ stage \in [Procs -> Stages]
        /\ config \in PodConfigs /\ stage[p] = "replace" /\ ttl \in [Requests -> Int]
        /\ owed \in Int
    BY DEF SInv, TInv, PodTypeOK, ReplaceServers
  <1>2. p = "pop" \/ p \in Requests
    BY <1>1 DEF Phases, Procs, RunStages
  <1> DEFINE res(n, o) == Direct(ReplaceServerFromBackend(config, Backend, n,
                                   srv[p].name, srv[p].addr, o),
                                 config, version, seen[p], o)
             nxt(n, o) == IF todo[p] = {n} THEN Returned(p, res(n, o).err)
                          ELSE "replace"
  <1>3. PICK n \in todo[p], o \in Fates :
          Sent(p, res(n, o), nxt(n, o), todo[p] \ {n}) /\ Owes(p, res(n, o))
    BY DEF ReplaceServers
  <1>4. OtherServer(res(n, o), config, srv[p])
    <2>1. \A x, y \in config.servers : x = y
      BY <1>1 DEF Servers
    <2>2. QED
      BY <1>1, <2>1, ReplaceEffects
  <1>5. res(n, o).err = NoError => res(n, o).done
    BY ReplaceDone
  <1>6. p \in Requests =>
          /\ nxt(n, o) \in {"replace", "after", "failed"}
          /\ nxt(n, o) = "after" => res(n, o).err = NoError
    BY Apart DEF Returned
  <1> HIDE DEF res, nxt
  <1>7. config' = res(n, o).cfg
    BY <1>3 DEF Sent
  <1>8. CASE p = "pop"
    <2>1. UNCHANGED owed /\ owed <= 0
      BY <1>1, <1>3, <1>8, Apart DEF Owes, Due
    <2>2. Due'
      BY <1>1, <1>3, <1>8, <2>1, SentDue
    <2>3. QED
      BY <2>1, <2>2 DEF InTime
  <1>9. CASE p \in Requests
    <2>1. Unused /\ p # "pop"
      BY <1>1, <1>9, Apart DEF Due
    <2>2. /\ stage' = [stage EXCEPT ![p] = nxt(n, o)]
          /\ UNCHANGED <<async, left, ttl>>
      BY <1>3, <1>6, <1>9 DEF Sent, timerVars
    <2>3. Unused' /\ stage'[p] = nxt(n, o)
      BY <1>1, <2>1, <2>2, Apart DEF Unused
    <2>4. nxt(n, o) = "after" => owed' = ttl'[p]
      BY <1>3, <1>5, <1>6, <1>9, <2>2 DEF Owes
    <2>5. owed' \in Int
      BY <1>1, <1>3, <1>9 DEF Owes
    <2>6. \A r \in Requests : r = p
      BY <1>9
    <2>7. \A r \in Requests :
            /\ stage'[r] # "done" => Unused'
            /\ stage'[r] = "after" => owed' <= 0 \/ owed' <= ttl'[r]
      BY <2>3, <2>4, <2>5, <2>6
    <2>8. Due'
      BY <2>3, <2>7 DEF Due, Unused
    <2>9. InTime
      <3>1. CASE config'.servers = config.servers
        BY <3>1, SameMapped
      <3>2. CASE config'.servers # config.servers
        <4>1. config'.servers = {NewServer(srv[p])}
          BY <1>4, <1>7, <3>2 DEF OtherServer
        <4>2. PICK x \in PodObjects : srv[p] = PodServer(PodOf[p], x)
          BY <1>1, <1>9 DEF TInv, Served, Ended
        <4>3. NewServer(srv[p]).name # DefaultServer.name
          BY <4>2, PodIsMapped DEF NewServer
        <4>4. Installed' = config'.servers
          BY DEF SInv, TInv, PodTypeOK, PodConfigs, Installed
        <4>5. Mapped'
          BY <4>1, <4>3, <4>4 DEF Mapped
        <4>6. QED
          BY <4>5 DEF InTime
      <3>3. QED
        BY <3>1, <3>2
    <2>10. QED
      BY <2>8, <2>9
  <1>10. QED
    BY <1>2, <1>8, <1>9

\* The first server takes out nothing.
LEMMA AddDue ==
  ASSUME SInv, SInv', Due, NEW p \in Procs, AddServer(p)
  PROVE  Due' /\ InTime
  <1>1. /\ TInv /\ Phases /\ Servers /\ stage[p] = "add"
    BY DEF SInv, AddServer
  <1>2. p = "run"
    BY <1>1 DEF Phases, Procs, PopStages, RequestStages, Ended
  <1>3. config.servers = {}
    BY <1>1, <1>2 DEF Servers
  <1>4. PICK r, next : Sent(p, r, next, {}) /\ Owes(p, r)
    BY DEF AddServer
  <1>5. UNCHANGED owed
    BY <1>2, <1>4, Apart DEF Owes
  <1>6. Due'
    BY <1>1, <1>2, <1>4, <1>5, SentDue
  <1>7. ~Mapped
    BY <1>3, InstalledAll DEF Mapped, Installed
  <1>8. QED
    BY <1>6, <1>7 DEF InTime

\* createProxy.
LEMMA CreateDue ==
  ASSUME SInv, SInv', Due, createProxy
  PROVE  Due' /\ InTime
  <1>1. TInv /\ config \in PodConfigs
    BY DEF SInv, TInv, PodTypeOK
  <1>2. ASSUME NEW r, NEW next, Sent("run", r, next, {}), UNCHANGED owed,
               r.cfg.servers = config.servers
        PROVE  Due' /\ InTime
    <2>1. Due'
      BY <1>1, <1>2, SentDue
    <2>2. config'.servers = config.servers
      BY <1>2 DEF Sent
    <2>3. QED
      BY <2>1, <2>2, SameMapped
  <1>3. CASE CreateBackend
    <2> DEFINE res(o) == Direct(AddBackend(config, Backend, o), config, version,
                                seen["run"], o)
    <2>1. PICK o \in Fates :
            Sent("run", res(o), AfterBackend(res(o).err), {}) /\ UNCHANGED owed
      BY <1>3 DEF CreateBackend, Creates
    <2>2. res(o).cfg.servers = config.servers
      BY <1>1, CreateEffects
    <2> HIDE DEF res
    <2>3. QED
      BY <1>2, <2>1, <2>2
  <1>4. CASE CreateFrontend
    <2> DEFINE res(o) == Direct(AddFrontend(config, Frontend, Backend, o), config,
                                version, seen["run"], o)
    <2>1. PICK o \in Fates :
            Sent("run", res(o), AfterFrontend(res(o).err), {}) /\ UNCHANGED owed
      BY <1>4 DEF CreateFrontend, Creates
    <2>2. res(o).cfg.servers = config.servers
      BY <1>1, CreateEffects
    <2> HIDE DEF res
    <2>3. QED
      BY <1>2, <2>1, <2>2
  <1>5. CASE CreateBind
    <2> DEFINE res(o) == Direct(AddBind(config, Frontend, Bind, DefaultMappingPort, o),
                                config, version, seen["run"], o)
    <2>1. PICK o \in Fates :
            Sent("run", res(o), AfterBind(res(o).err), {}) /\ UNCHANGED owed
      BY <1>5 DEF CreateBind, Creates
    <2>2. res(o).cfg.servers = config.servers
      BY <1>1, CreateEffects
    <2> HIDE DEF res
    <2>3. QED
      BY <1>2, <2>1, <2>2
  <1>6. QED
    BY <1>3, <1>4, <1>5 DEF createProxy

\* The request starts its timer for the whole of the time asked for.
LEMMA AfterDue ==
  ASSUME SInv, Due, \A q, r \in Requests : q = r, NEW r \in Requests, AddAfter(r)
  PROVE  Due'
  <1> DEFINE e == EventOf(r)
  <1>1. /\ TInv /\ stage \in [Procs -> Stages] /\ async \in QueueType
        /\ left \in [Events -> Nat] /\ owed \in Int /\ ttl[r] \in Int
    BY DEF SInv, TInv, PodTypeOK, QueueType
  <1>2. /\ stage[r] = "after" /\ stage' = [stage EXCEPT ![r] = "done"]
        /\ UNCHANGED <<owed, ttl>> /\ DelayedUntil(e, ttl[r])
    BY DEF AddAfter
  <1>3. e \in Events
    <2>1. PICK o \in PodObjects : srv[r] = PodServer(PodOf[r], o)
      BY <1>1, <1>2 DEF TInv, Served, Ended
    <2>2. PodOf[r] \in Pods
      BY PodAssumption
    <2>3. QED
      BY <2>1, <2>2, ServerTypes DEF EventOf, Events
  <1>4. Unused /\ (owed <= 0 \/ owed <= ttl[r])
    BY <1>2 DEF Due
  <1> HIDE DEF e
  <1>5. stage'["pop"] = "idle" /\ \A q \in Requests : stage'[q] = "done"
    BY <1>1, <1>2, <1>4, Apart DEF Unused
  <1>6. CASE ttl[r] <= 0
    <2>1. owed' <= 0
      BY <1>1, <1>2, <1>4, <1>6
    <2>2. QED
      BY <1>5, <2>1 DEF Due
  <1>7. CASE ~(ttl[r] <= 0)
    <2>1. async' = AddDelayed(async, {e}) /\ left' = [left EXCEPT ![e] = ttl[r]]
      BY <1>2, <1>4, <1>7 DEF DelayedUntil, Unused
    <2>2. async'.queue = <<>> /\ async'.waiting = {e}
      BY <1>1, <1>4, <2>1 DEF AddDelayed, QueueType, Unused
    <2>3. left'[e] = ttl[r]
      BY <1>1, <1>3, <2>1
    <2>4. QED
      BY <1>2, <1>4, <1>5, <2>2, <2>3 DEF Due
  <1>8. QED
    BY <1>6, <1>7

\* Time passes, the delay ends, pop takes the event.
LEMMA TimerDue ==
  ASSUME SInv, Due, GetEvent \/ Tick \/ \E e \in Events : Expire(e)
  PROVE  Due'
  <1>1. /\ TInv /\ stage \in [Procs -> Stages] /\ async \in QueueType
        /\ left \in [Events -> Nat] /\ owed \in Int /\ ttl \in [Requests -> Int]
    BY DEF SInv, TInv, PodTypeOK, QueueType
  <1>2. CASE GetEvent
    <2>1. /\ async.queue # <<>> /\ async' = Get(async) /\ UNCHANGED <<left, owed>>
          /\ stage' = [stage EXCEPT !["pop"] = "read"]
      BY <1>2 DEF GetEvent
    <2>2. owed' <= 0 /\ \A r \in Requests : stage[r] = "done"
      BY <2>1 DEF Due, Unused
    <2>3. \A r \in Requests : stage'[r] = "done"
      BY <1>1, <2>1, <2>2, Apart
    <2>4. QED
      BY <2>2, <2>3 DEF Due
  <1>3. CASE Tick
    <2>1. /\ left' = [e \in Events |-> IF left[e] > 0 THEN left[e] - 1 ELSE 0]
          /\ owed' = IF owed > 0 THEN owed - 1 ELSE 0
          /\ UNCHANGED <<stage, ttl, async>>
      BY <1>3 DEF Tick, callVars
    <2>2. /\ owed' \in Int
          /\ owed <= 0 => owed' <= 0
          /\ \A t \in Int : owed <= t => owed' <= 0 \/ owed' <= t
      BY <1>1, <2>1
    <2>3. \A e \in Events : owed <= left[e] => owed' <= left'[e]
      <3>1. ASSUME NEW e \in Events, owed <= left[e] PROVE owed' <= left'[e]
        <4>1. left[e] \in Nat /\ left'[e] = IF left[e] > 0 THEN left[e] - 1 ELSE 0
          BY <1>1, <2>1
        <4>2. QED
          BY <1>1, <2>1, <3>1, <4>1
      <3>2. QED
        BY <3>1
    <2>4. \A e \in async.waiting : e \in Events
      BY <1>1 DEF QueueType
    <2>5. QED
      BY <1>1, <2>1, <2>2, <2>3, <2>4 DEF Due, Unused
  <1>4. ASSUME NEW e \in Events, Expire(e) PROVE Due'
    <2>1. /\ e \in async.waiting /\ left[e] = 0 /\ async' = DelayElapsed(async, e)
          /\ UNCHANGED <<stage, ttl, left, owed>>
      BY <1>4 DEF Expire, callVars
    <2>2. owed' <= 0 /\ \A r \in Requests : stage'[r] = "done"
      BY <2>1 DEF Due, Unused
    <2>3. QED
      BY <2>2 DEF Due
  <1>5. QED
    BY <1>2, <1>3, <1>4

\* The invariant is inductive, and a step takes a Pod out only in time.
LEMMA NextDue ==
  ASSUME ~EarlyRequests, ~FailedReads, \A q, r \in Requests : q = r,
         SInv, Due, [Next]_vars
  PROVE  Due' /\ InTime
  <1>1. SInv'
    BY NextKept
  <1>2. CASE \E p \in Procs : ReplaceServers(p)
    BY <1>1, <1>2, ReplaceDue
  <1>3. CASE \E p \in Procs : AddServer(p)
    BY <1>1, <1>3, AddDue
  <1>4. CASE createProxy
    BY <1>1, <1>4, CreateDue
  <1>5. CASE Crash
    <2>1. Dies /\ config' = config
      BY <1>5 DEF Crash, apiVars
    <2>2. QED
      BY <1>1, <2>1, DiesDue, SameMapped
  <1>6. CASE \/ \E r \in Requests : AddAfter(r)
             \/ GetEvent \/ Tick \/ \E e \in Events : Expire(e)
    <2>1. config' = config
      BY <1>6 DEF AddAfter, GetEvent, Tick, Expire, apiVars
    <2>2. Due'
      BY <1>6, AfterDue, TimerDue
    <2>3. QED
      BY <1>1, <2>1, <2>2, SameMapped
  <1>7. CASE \/ \E p \in Procs : Lock(p)
             \/ \E p \in Pods : StorePod(p)
             \/ ForeignChange \/ UNCHANGED vars
    <2>1. UNCHANGED <<stage, ttl, async, left, owed, config>>
      BY <1>7 DEF Lock, StorePod, ForeignChange, vars, callVars, timerVars, apiVars
    <2>2. Due'
      BY <2>1, SameDue
    <2>3. QED
      BY <1>1, <2>1, <2>2, SameMapped
  <1>8. CASE PodsSynced \/ StartAgain
    <2>1. PICK x : /\ stage' = [stage EXCEPT !["run"] = x]
                   /\ UNCHANGED <<ttl, async, left, owed, config>>
      BY <1>8 DEF PodsSynced, StartAgain, timerVars, apiVars
    <2>2. stage'["pop"] = stage["pop"] /\ \A r \in Requests : stage'[r] = stage[r]
      BY <2>1, Apart DEF SInv, TInv, PodTypeOK
    <2>3. Due'
      BY <2>1, <2>2, SameDue
    <2>4. QED
      BY <1>1, <2>1, <2>3, SameMapped
  <1>9. ASSUME NEW p \in Procs, ReadServers(p) PROVE Due' /\ InTime
    <2>1. PICK x \in {"add", "replace"} :
            /\ stage[p] = "read" /\ stage' = [stage EXCEPT ![p] = x]
            /\ UNCHANGED <<ttl, async, left, owed, config>>
      BY <1>9 DEF ReadServers, NextWrite, timerVars, apiVars
    <2>2. /\ stage["pop"] = "idle" => stage'["pop"] = "idle"
          /\ \A r \in Requests :
               stage'[r] = stage[r] \/ (stage[r] = "read" /\ stage'[r] = x)
      BY <2>1, Apart DEF SInv, TInv, PodTypeOK
    <2>3. Due'
      BY <2>1, <2>2, SameDue
    <2>4. QED
      BY <1>1, <2>1, <2>3, SameMapped
  <1>10. ASSUME NEW r \in Requests, create(r) PROVE Due' /\ InTime
    <2>1. PICK x \in {"failed", "read"} :
            /\ stage[r] = "new" /\ stage' = [stage EXCEPT ![r] = x]
            /\ UNCHANGED <<async, left, owed, config>>
      BY <1>10 DEF create, timerVars, apiVars
    <2>2. stage'["pop"] = stage["pop"] /\ \A q \in Requests : q = r /\ stage'[q] = x
      BY <2>1, Apart DEF SInv, TInv, PodTypeOK
    <2>3. Due'
      BY <2>1, <2>2, SameDue
    <2>4. QED
      BY <1>1, <2>1, <2>3, SameMapped
  <1>11. QED
    BY <1>2, <1>3, <1>4, <1>5, <1>6, <1>7, <1>8, <1>9, <1>10, Apart
       DEF Next, Run, pop, CreateMapping, changeProxy

\* The initial state.
LEMMA InitDue == Init => Due
  BY Apart DEF Init, PodInit, EmptyQueue, Due, Unused
=============================================================================
