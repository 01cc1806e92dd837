-------------------------- MODULE PodProxierProofs --------------------------
(***************************************************************************)
(* Proofs about the program: the two controllers on one Data Plane API. V1 *)
(* sees of the configuration the part that is its own; seen that way, V2's *)
(* steps are those of another client, and what PodControllerProofs and     *)
(* PodRevertProofs prove of V1 holds with V2 beside it.                    *)
(***************************************************************************)
EXTENDS PodProxier, TLAPS

\* V1 on its own part of the configuration.
P == INSTANCE PodRevertProofs WITH config <- PodPart(config)

-----------------------------------------------------------------------------
(* Configurations and their two parts.                                     *)

Shape(c) == c = [backends |-> c.backends, servers |-> c.servers,
                 frontends |-> c.frontends, binds |-> c.binds]

\* A configuration with another set of objects of one kind ...
LEMMA Excepts ==
  ASSUME NEW c, Shape(c), NEW S
  PROVE  /\ [c EXCEPT !.backends = S] =
              [backends |-> S, servers |-> c.servers,
               frontends |-> c.frontends, binds |-> c.binds]
         /\ [c EXCEPT !.servers = S] =
              [backends |-> c.backends, servers |-> S,
               frontends |-> c.frontends, binds |-> c.binds]
         /\ [c EXCEPT !.frontends = S] =
              [backends |-> c.backends, servers |-> c.servers,
               frontends |-> S, binds |-> c.binds]
         /\ [c EXCEPT !.binds = S] =
              [backends |-> c.backends, servers |-> c.servers,
               frontends |-> c.frontends, binds |-> S]
  <1> DEFINE a == c.backends
             b == c.servers
             f == c.frontends
             d == c.binds
  <1>1. c = [backends |-> a, servers |-> b, frontends |-> f, binds |-> d]
    BY DEF Shape
  <1> HIDE DEF a, b, f, d
  <1>2. [c EXCEPT !.backends = S] =
          [backends |-> S, servers |-> b,
           frontends |-> f, binds |-> d]
    BY <1>1
  <1>3. [c EXCEPT !.servers = S] =
          [backends |-> a, servers |-> S,
           frontends |-> f, binds |-> d]
    BY <1>1
  <1>4. [c EXCEPT !.frontends = S] =
          [backends |-> a, servers |-> b,
           frontends |-> S, binds |-> d]
    BY <1>1
  <1>5. [c EXCEPT !.binds = S] =
          [backends |-> a, servers |-> b,
           frontends |-> f, binds |-> S]
    BY <1>1
  <1>6. QED
    BY <1>2, <1>3, <1>4, <1>5 DEF a, b, f, d

\* ... of backends and servers,
LEMMA BackendExcepts ==
  ASSUME NEW c, Shape(c), NEW S, NEW T
  PROVE  [c EXCEPT !.backends = S, !.servers = T] =
           [backends |-> S, servers |-> T,
            frontends |-> c.frontends, binds |-> c.binds]
  <1> DEFINE a == c.backends
             b == c.servers
             f == c.frontends
             d == c.binds
  <1>1. c = [backends |-> a, servers |-> b, frontends |-> f, binds |-> d]
    BY DEF Shape
  <1> HIDE DEF a, b, f, d
  <1> DEFINE x == [c EXCEPT !.backends = S]
             z == [c EXCEPT !.backends = S, !.servers = T]
  <1>2. x = [backends |-> S, servers |-> b, frontends |-> f, binds |-> d]
    BY <1>1
  <1>3. z = [x EXCEPT !.servers = T]
    OBVIOUS
  <1> HIDE DEF x, z
  <1>4. z = [backends |-> S, servers |-> T, frontends |-> f, binds |-> d]
    BY <1>2, <1>3
  <1>5. QED
    BY <1>4 DEF z, a, b, f, d

\* and of frontends and binds.
LEMMA FrontendExcepts ==
  ASSUME NEW c, Shape(c), NEW S, NEW T
  PROVE  [c EXCEPT !.frontends = S, !.binds = T] =
           [backends |-> c.backends, servers |-> c.servers,
            frontends |-> S, binds |-> T]
  <1> DEFINE a == c.backends
             b == c.servers
             f == c.frontends
             d == c.binds
  <1>1. c = [backends |-> a, servers |-> b, frontends |-> f, binds |-> d]
    BY DEF Shape
  <1> HIDE DEF a, b, f, d
  <1> DEFINE x == [c EXCEPT !.frontends = S]
             z == [c EXCEPT !.frontends = S, !.binds = T]
  <1>2. x = [backends |-> a, servers |-> b, frontends |-> S, binds |-> d]
    BY <1>1
  <1>3. z = [x EXCEPT !.binds = T]
    OBVIOUS
  <1> HIDE DEF x, z
  <1>4. z = [backends |-> a, servers |-> b, frontends |-> S, binds |-> T]
    BY <1>2, <1>3
  <1>5. QED
    BY <1>4 DEF z, a, b, f, d

\* A record of four sets has the shape.
LEMMA Shaped ==
  ASSUME NEW a, NEW b, NEW c, NEW d
  PROVE  Shape([backends |-> a, servers |-> b, frontends |-> c, binds |-> d])
  BY DEF Shape

\* Nothing of V1's differs.
SamePod(c, d) == Shape(d) /\ PodPart(d) = PodPart(c)

\* Changes of objects that are not V1's.
LEMMA NotV1 ==
  ASSUME NEW c, Shape(c), NEW d, Shape(d),
         d.backends \cap {V1!Backend} = c.backends \cap {V1!Backend},
         \A s : s.backend = V1!Backend => (s \in d.servers <=> s \in c.servers),
         \A f : f.name = V1!Frontend => (f \in d.frontends <=> f \in c.frontends),
         \A x : x.frontend = V1!Frontend => (x \in d.binds <=> x \in c.binds)
  PROVE  SamePod(c, d)
  <1>1. /\ {s \in d.servers : s.backend = V1!Backend} =
             {s \in c.servers : s.backend = V1!Backend}
        /\ {f \in d.frontends : f.name = V1!Frontend} =
             {f \in c.frontends : f.name = V1!Frontend}
        /\ {x \in d.binds : x.frontend = V1!Frontend} =
             {x \in c.binds : x.frontend = V1!Frontend}
    OBVIOUS
  <1>2. QED
    BY <1>1 DEF SamePod, PodPart

\* A request leaves the configuration, or the changed one.
LEMMA RequestCfg ==
  ASSUME NEW t, NEW c, NEW code, NEW c2, NEW o
  PROVE  /\ V1!Request(t, c, code, c2, o).cfg \in {c, c2}
         /\ V2!Request(t, c, code, c2, o).cfg \in {c, c2}
  BY DEF V1!Request, V2!Request

-----------------------------------------------------------------------------
(* V2's requests: none of its names is one of V1's.                        *)

\* V2's names carry a Service, V1's do not.
LEMMA NamesApart ==
  ASSUME NEW s, NEW x
  PROVE  V2!BackendName(s, x) # V1!Backend /\ V2!FrontendName(s, x) # V1!Frontend
  BY DEF V2!BackendName, V2!FrontendName, V1!Backend, V1!Frontend

\* The requests on backends and servers.
LEMMA BackendRequests ==
  ASSUME NEW c, Shape(c), NEW b, b # V1!Backend, NEW o, NEW n, NEW old, NEW addr
  PROVE  /\ SamePod(c, V2!AddBackend(c, b, o).cfg)
         /\ SamePod(c, V2!ReplaceBackend(c, b, o).cfg)
         /\ SamePod(c, V2!DeleteBackend(c, b, o).cfg)
         /\ SamePod(c, V2!AddServerToBackend(c, b, n, addr, o).cfg)
         /\ SamePod(c, V2!ReplaceServerFromBackend(c, b, old, n, addr, o).cfg)
  <1>0. SamePod(c, c)
    BY DEF SamePod
  <1> DEFINE new == [backend |-> b, name |-> n, addr |-> addr]
             c1 == [c EXCEPT !.backends = @ \cup {b}]
             c2 == [c EXCEPT !.backends = @ \ {b},
                             !.servers = {s \in @ : s.backend # b}]
             c3 == [c EXCEPT !.servers = @ \cup {new}]
             c4 == [c EXCEPT !.servers =
                       {s \in @ : ~(s.backend = b /\ s.name = old)} \cup {new}]
  <1>1. SamePod(c, c1)
    <2>1. c1 = [backends |-> c.backends \cup {b}, servers |-> c.servers,
                frontends |-> c.frontends, binds |-> c.binds]
      BY Excepts
    <2> HIDE DEF c1
    <2>2. Shape(c1)
      BY <2>1, Shaped
    <2>3. QED
      BY <2>1, <2>2, NotV1
  <1>2. SamePod(c, c2)
    <2> DEFINE S == {s \in c.servers : s.backend # b}
               T == c.backends \ {b}
    <2>1. c2 = [backends |-> T, servers |-> S, frontends |-> c.frontends,
                binds |-> c.binds]
      <3>1. c2 = [c EXCEPT !.backends = T, !.servers = S]
        OBVIOUS
      <3> HIDE DEF S, T, c2
      <3>2. QED
        BY <3>1, BackendExcepts
    <2> HIDE DEF c2
    <2>2. Shape(c2)
      BY <2>1, Shaped
    <2>3. QED
      BY <2>1, <2>2, NotV1
  <1>3. SamePod(c, c3)
    <2> DEFINE S == c.servers \cup {new}
    <2>1. c3 = [backends |-> c.backends, servers |-> S,
                frontends |-> c.frontends, binds |-> c.binds]
      <3>1. c3 = [c EXCEPT !.servers = S]
        OBVIOUS
      <3> HIDE DEF S, c3
      <3>2. QED
        BY <3>1, Excepts
    <2> HIDE DEF c3
    <2>2. Shape(c3)
      BY <2>1, Shaped
    <2>3. new.backend # V1!Backend
      OBVIOUS
    <2> HIDE DEF new
    <2>4. QED
      BY <2>1, <2>2, <2>3, NotV1
  <1>4. SamePod(c, c4)
    <2> DEFINE S == {s \in c.servers : ~(s.backend = b /\ s.name = old)} \cup {new}
    <2>1. c4 = [backends |-> c.backends, servers |-> S,
                frontends |-> c.frontends, binds |-> c.binds]
      <3>1. c4 = [c EXCEPT !.servers = S]
        OBVIOUS
      <3> HIDE DEF S, c4
      <3>2. QED
        BY <3>1, Excepts
    <2> HIDE DEF c4
    <2>2. Shape(c4)
      BY <2>1, Shaped
    <2>3. new.backend # V1!Backend
      OBVIOUS
    <2> HIDE DEF new
    <2>4. QED
      BY <2>1, <2>2, <2>3, NotV1
  <1>5. V2!AddBackend(c, b, o).cfg \in {c, c1}
    BY RequestCfg DEF V2!AddBackend
  <1>6. V2!ReplaceBackend(c, b, o).cfg = c
    BY RequestCfg DEF V2!ReplaceBackend
  <1>7. V2!DeleteBackend(c, b, o).cfg \in {c, c2}
    BY RequestCfg DEF V2!DeleteBackend
  <1>8. V2!AddServerToBackend(c, b, n, addr, o).cfg \in {c, c3}
    BY RequestCfg DEF V2!AddServerToBackend
  <1>9. V2!ReplaceServerFromBackend(c, b, old, n, addr, o).cfg \in {c, c4}
    BY RequestCfg DEF V2!ReplaceServerFromBackend
  <1> HIDE DEF c1, c2, c3, c4
  <1>10. QED
    BY <1>0, <1>1, <1>2, <1>3, <1>4, <1>5, <1>6, <1>7, <1>8, <1>9

\* The requests on frontends and binds.
LEMMA FrontendRequests ==
  ASSUME NEW c, Shape(c), NEW f, f # V1!Frontend, NEW o, NEW b, NEW n, NEW port
  PROVE  /\ SamePod(c, V2!AddFrontend(c, f, b, o).cfg)
         /\ SamePod(c, V2!ReplaceFrontend(c, f, b, o).cfg)
         /\ SamePod(c, V2!DeleteFrontend(c, f, o).cfg)
         /\ SamePod(c, V2!AddBind(c, f, n, port, o).cfg)
  <1>0. SamePod(c, c)
    BY DEF SamePod
  <1> DEFINE new == [name |-> f, backend |-> b]
             bind == [frontend |-> f, name |-> n, port |-> port]
             c1 == [c EXCEPT !.frontends = @ \cup {new}]
             c2 == [c EXCEPT !.frontends = {x \in @ : x.name # f} \cup {new}]
             c3 == [c EXCEPT !.frontends = {x \in @ : x.name # f},
                             !.binds = {x \in @ : x.frontend # f}]
             c4 == [c EXCEPT !.binds = @ \cup {bind}]
  <1>1. new.name # V1!Frontend /\ bind.frontend # V1!Frontend
    OBVIOUS
  <1>2. SamePod(c, c1)
    <2>1. c1 = [backends |-> c.backends, servers |-> c.servers,
                frontends |-> c.frontends \cup {new}, binds |-> c.binds]
      BY Excepts
    <2> HIDE DEF c1, new
    <2>2. Shape(c1)
      BY <2>1, Shaped
    <2>3. QED
      BY <1>1, <2>1, <2>2, NotV1
  <1>3. SamePod(c, c2)
    <2>1. c2 = [backends |-> c.backends, servers |-> c.servers,
                frontends |-> {x \in c.frontends : x.name # f} \cup {new},
                binds |-> c.binds]
      BY Excepts
    <2> HIDE DEF c2, new
    <2>2. Shape(c2)
      BY <2>1, Shaped
    <2>3. QED
      BY <1>1, <2>1, <2>2, NotV1
  <1>4. SamePod(c, c3)
    <2> DEFINE S == {x \in c.frontends : x.name # f}
               T == {x \in c.binds : x.frontend # f}
    <2>1. c3 = [backends |-> c.backends, servers |-> c.servers,
                frontends |-> S, binds |-> T]
      <3>1. c3 = [c EXCEPT !.frontends = S, !.binds = T]
        OBVIOUS
      <3> HIDE DEF S, T, c3
      <3>2. QED
        BY <3>1, FrontendExcepts
    <2> HIDE DEF c3
    <2>2. Shape(c3)
      BY <2>1, Shaped
    <2>3. QED
      BY <2>1, <2>2, NotV1
  <1>5. SamePod(c, c4)
    <2>1. c4 = [backends |-> c.backends, servers |-> c.servers,
                frontends |-> c.frontends, binds |-> c.binds \cup {bind}]
      BY Excepts
    <2> HIDE DEF c4, bind
    <2>2. Shape(c4)
      BY <2>1, Shaped
    <2>3. QED
      BY <1>1, <2>1, <2>2, NotV1
  <1>6. V2!AddFrontend(c, f, b, o).cfg \in {c, c1}
    BY RequestCfg DEF V2!AddFrontend
  <1>7. V2!ReplaceFrontend(c, f, b, o).cfg \in {c, c2}
    BY RequestCfg DEF V2!ReplaceFrontend
  <1>8. V2!DeleteFrontend(c, f, o).cfg \in {c, c3}
    BY RequestCfg DEF V2!DeleteFrontend
  <1>9. V2!AddBind(c, f, n, port, o).cfg \in {c, c4}
    BY RequestCfg DEF V2!AddBind
  <1> HIDE DEF c1, c2, c3, c4
  <1>10. QED
    BY <1>0, <1>2, <1>3, <1>4, <1>5, <1>6, <1>7, <1>8, <1>9

-----------------------------------------------------------------------------
(* V2's steps. A transaction that can still be committed holds V1's part   *)
(* of the configuration as it is: what V1 has written since would have     *)
(* moved the version.                                                      *)

TxCurrent ==
  /\ tx = [base |-> tx.base, cfg |-> tx.cfg] /\ Shape(tx.cfg)
  /\ tx.base \in Int /\ tx.base <= version
  /\ tx.base = version => PodPart(tx.cfg) = PodPart(config)

\* What V2 deletes are the objects of a recorded mapping, none of them V1's.
MappingsApart ==
  /\ toDelete \subseteq DOMAIN serviceMappings
  /\ \A k \in DOMAIN serviceMappings :
       /\ serviceMappings[k].backendName # V1!Backend
       /\ serviceMappings[k].frontendName # V1!Frontend

Separate == version \in Nat /\ Shape(config) /\ TxCurrent /\ MappingsApart

\* What a step of V2 does.
Kept == Separate' /\ PodPart(config') = PodPart(config)
        /\ (UNCHANGED serviceVars => config' = config)

\* A step that leaves all of it alone.
LEMMA SameSeparate ==
  ASSUME Separate, UNCHANGED <<config, version, tx, toDelete, serviceMappings>>
  PROVE  Kept
  BY DEF Separate, TxCurrent, MappingsApart, Kept

\* A change within the transaction.
LEMMA InTransaction ==
  ASSUME Separate, NEW d, SamePod(tx.cfg, d), tx' = [tx EXCEPT !.cfg = d],
         UNCHANGED <<config, version>>, MappingsApart'
  PROVE  Kept
  <1>1. tx' = [base |-> tx.base, cfg |-> d]
    BY DEF Separate, TxCurrent
  <1>2. tx'.base = tx.base /\ tx'.cfg = d
    BY <1>1
  <1>3. TxCurrent'
    BY <1>1, <1>2 DEF Separate, TxCurrent, SamePod
  <1>4. QED
    BY <1>3 DEF Separate, Kept

\* One request of createServiceProxy, whatever comes of it.
LEMMA CreateStep ==
  ASSUME Separate, NEW r, NEW next, SamePod(tx.cfg, r.cfg), V2!Step(r, next),
         V2!createRest
  PROVE  Kept
  <1>1. /\ tx' = [tx EXCEPT !.cfg = r.cfg]
        /\ UNCHANGED <<serviceMappings, toDelete, config, version>>
    BY DEF V2!Step, V2!ProxyContinues, V2!ProxyFailed, V2!createRest, V2!memoryVars,
           V2!apiVars
  <1>2. MappingsApart'
    BY <1>1 DEF Separate, MappingsApart
  <1>3. QED
    BY <1>1, <1>2, InTransaction

\* createServiceProxy.
LEMMA CreateKept ==
  ASSUME Separate, V2!CreateBackend \/ V2!CreateServer \/ V2!CreateFrontend
  PROVE  Kept
  <1>1. Shape(tx.cfg) /\ SamePod(tx.cfg, tx.cfg)
    BY DEF Separate, TxCurrent, SamePod
  <1> DEFINE b == V2!BackendName(keys[idx], V2!Port.port)
             f == V2!FrontendName(keys[idx], mappedPort)
             n == V2!ServerName(svc.clusterIP, V2!Port.port)
  <1>2. b # V1!Backend /\ f # V1!Frontend
    BY NamesApart
  <1>3. CASE V2!CreateBackend
    <2> DEFINE res(g, o) == IF V2!EnsureBackend(config, b, g)
                            THEN V2!ReplaceBackend(tx.cfg, b, o)
                            ELSE V2!AddBackend(tx.cfg, b, o)
    <2>1. PICK g, o : V2!Step(res(g, o), "server") /\ V2!createRest
      BY <1>3 DEF V2!CreateBackend
    <2>2. SamePod(tx.cfg, res(g, o).cfg)
      <3> HIDE DEF b
      <3>1. QED
        BY <1>1, <1>2, BackendRequests
    <2> HIDE DEF res
    <2>3. QED
      BY <2>1, <2>2, CreateStep
  <1>4. CASE V2!CreateServer
    <2> DEFINE add(o) == V2!AddServerToBackend(tx.cfg, b, n, n, o)
               rep(o, o2) == V2!ReplaceServerFromBackend(add(o).cfg, b, n, n, n, o2)
    <2>1. PICK o, o2 :
            /\ V2!createRest
            /\ V2!Step(add(o), "frontend") \/ V2!Step(rep(o, o2), "frontend")
      BY <1>4 DEF V2!CreateServer
    <2>2. SamePod(tx.cfg, add(o).cfg)
      <3> HIDE DEF b, n
      <3>1. QED
        BY <1>1, <1>2, BackendRequests
    <2>3. SamePod(tx.cfg, rep(o, o2).cfg)
      <3> HIDE DEF b, n, add
      <3>1. SamePod(add(o).cfg, rep(o, o2).cfg)
        BY <1>2, <2>2, BackendRequests DEF SamePod
      <3>2. QED
        BY <2>2, <3>1 DEF SamePod
    <2> HIDE DEF add, rep
    <2>4. QED
      BY <2>1, <2>2, <2>3, CreateStep
  <1>5. CASE V2!CreateFrontend
    <2> DEFINE res(g, o) == IF V2!EnsureFrontend(config, f, g)
                            THEN V2!ReplaceFrontend(tx.cfg, f, b, o)
                            ELSE V2!AddFrontend(tx.cfg, f, b, o)
    <2>1. PICK g, o : V2!Step(res(g, o), "bind") /\ V2!createRest
      BY <1>5 DEF V2!CreateFrontend
    <2>2. SamePod(tx.cfg, res(g, o).cfg)
      <3> HIDE DEF b, f
      <3>1. QED
        BY <1>1, <1>2, FrontendRequests
    <2> HIDE DEF res
    <2>3. QED
      BY <2>1, <2>2, CreateStep
  <1>6. QED
    BY <1>3, <1>4, <1>5

\* The bind, and the mapping that is recorded.
LEMMA BindKept ==
  ASSUME Separate, V2!CreateBind
  PROVE  Kept
  <1>1. Shape(tx.cfg)
    BY DEF Separate, TxCurrent
  <1> DEFINE f == V2!FrontendName(keys[idx], mappedPort)
             res(o) == V2!AddBind(tx.cfg, f, V2!BindName(keys[idx], V2!Port.name),
                                  mappedPort, o)
  <1>2. PICK o : /\ V2!MappingCreated(res(o).cfg) \/ V2!ProxyFailed(res(o).cfg)
                 /\ V2!createRest
    BY DEF V2!CreateBind
  <1>3. SamePod(tx.cfg, res(o).cfg)
    <2>1. f # V1!Frontend
      BY NamesApart
    <2> HIDE DEF f
    <2>2. QED
      BY <1>1, <2>1, FrontendRequests
  <1> HIDE DEF res
  <1>4. /\ tx' = [tx EXCEPT !.cfg = res(o).cfg]
        /\ UNCHANGED <<toDelete, config, version>>
    BY <1>2 DEF V2!MappingCreated, V2!ProxyFailed, V2!createRest, V2!apiVars
  <1>5. CASE V2!ProxyFailed(res(o).cfg)
    <2>1. UNCHANGED serviceMappings
      BY <1>5 DEF V2!ProxyFailed
    <2>2. MappingsApart'
      BY <1>4, <2>1 DEF Separate, MappingsApart
    <2>3. QED
      BY <1>3, <1>4, <2>2, InTransaction
  <1>6. CASE V2!MappingCreated(res(o).cfg)
    <2> DEFINE key == V2!MappingKey
               new == V2!NewMapping
    <2>1. serviceMappings' = [k \in DOMAIN serviceMappings \cup {key} |->
                                IF k = key THEN new ELSE serviceMappings[k]]
      BY <1>6 DEF V2!MappingCreated
    <2>2. new.backendName # V1!Backend /\ new.frontendName # V1!Frontend
      BY NamesApart DEF V2!NewMapping
    <2> HIDE DEF key, new
    <2>3. MappingsApart'
      BY <1>4, <2>1, <2>2 DEF Separate, MappingsApart
    <2>4. QED
      BY <1>3, <1>4, <2>3, InTransaction
  <1>7. QED
    BY <1>2, <1>5, <1>6

\* The objects of a mapping are deleted.
LEMMA RemoveKept ==
  ASSUME Separate, V2!RemoveMapping
  PROVE  Kept
  <1>1. Shape(tx.cfg)
    BY DEF Separate, TxCurrent
  <1> DEFINE cut(k, o1) == V2!DeleteFrontend(tx.cfg, serviceMappings[k].frontendName,
                                             o1).cfg
             rest(k, o1, o2) == V2!DeleteBackend(cut(k, o1),
                                  serviceMappings[k].backendName, o2).cfg
  <1>2. PICK k \in toDelete, o1 \in V2!Fates, o2 \in V2!Fates :
          /\ tx' = [tx EXCEPT !.cfg = rest(k, o1, o2)]
          /\ serviceMappings' =
               [j \in DOMAIN serviceMappings \ {k} |-> serviceMappings[j]]
          /\ toDelete' = toDelete \ {k}
    BY DEF V2!RemoveMapping, V2!DeleteObjects
  <1>3. UNCHANGED <<config, version>>
    BY DEF V2!RemoveMapping, V2!apiVars
  <1>4. /\ serviceMappings[k].backendName # V1!Backend
        /\ serviceMappings[k].frontendName # V1!Frontend
    BY DEF Separate, MappingsApart
  <1>5. SamePod(tx.cfg, cut(k, o1))
    BY <1>1, <1>4, FrontendRequests
  <1>6. SamePod(tx.cfg, rest(k, o1, o2))
    <2> HIDE DEF cut
    <2>1. Shape(cut(k, o1))
      BY <1>5 DEF SamePod
    <2>2. SamePod(cut(k, o1), rest(k, o1, o2))
      BY <1>4, <2>1, BackendRequests
    <2>3. QED
      BY <1>5, <2>2 DEF SamePod
  <1> HIDE DEF rest
  <1>7. MappingsApart'
    BY <1>2 DEF Separate, MappingsApart
  <1>8. QED
    BY <1>2, <1>3, <1>6, <1>7, InTransaction

\* The transaction is opened on the current configuration, and committed only if
\* it still is.
LEMMA TransactionKept ==
  ASSUME Separate, V2!TransactionStarted \/ V2!CommitBatch
  PROVE  Kept
  <1>1. CASE V2!TransactionStarted
    <2>1. /\ tx' = [base |-> version, cfg |-> config]
          /\ UNCHANGED <<config, version, toDelete, serviceMappings>>
      BY <1>1 DEF V2!TransactionStarted, V2!apiVars, V2!memoryVars, V2!serviceVars
    <2>2. QED
      BY <2>1 DEF Separate, TxCurrent, MappingsApart, Kept
  <1>2. CASE V2!CommitBatch
    <2>1. /\ tx' = V2!NoTx /\ UNCHANGED <<toDelete, serviceMappings>>
          /\ pc' # pc
      BY <1>2 DEF V2!CommitBatch, V2!memoryVars, V2!serviceVars
    <2>2. \/ UNCHANGED <<config, version>>
          \/ tx.base = version /\ config' = tx.cfg /\ version' = version + 1
      BY <1>2 DEF V2!CommitBatch, V2!CommitTransaction, V2!apiVars
    <2>3. /\ version' \in Nat /\ Shape(config')
          /\ PodPart(config') = PodPart(config)
      BY <2>2 DEF Separate, TxCurrent
    <2>4. tx' = [base |-> -1, cfg |-> V2!EmptyConfig] /\ Shape(V2!EmptyConfig)
      BY <2>1 DEF V2!NoTx, V2!EmptyConfig, Shape
    <2>5. TxCurrent'
      BY <2>3, <2>4 DEF TxCurrent
    <2>6. MappingsApart'
      BY <2>1 DEF Separate, MappingsApart
    <2>7. ~UNCHANGED serviceVars
      BY <2>1 DEF serviceVars
    <2>8. QED
      BY <2>3, <2>5, <2>6, <2>7 DEF Separate, Kept
  <1>3. QED
    BY <1>1, <1>2

\* Every step of V2.
LEMMA ServiceStep ==
  ASSUME Separate, V2!Informer \/ V2!Handlers \/ V2!Worker \/ V2!Delays
  PROVE  Kept
  <1> DEFINE Same == UNCHANGED <<config, version, tx, toDelete, serviceMappings>>
  <1>1. CASE V2!Informer
    <2>1. Same
      BY <1>1 DEF V2!Informer, V2!StoreAdd, V2!StoreUpdate, V2!StoreDelete,
                  V2!StoreResync, V2!Store, V2!apiVars, V2!txVars, V2!memoryVars,
                  V2!serviceVars
    <2>2. QED
      BY <2>1, SameSeparate
  <1>2. CASE V2!Handlers
    <2>1. Same
      BY <1>2 DEF V2!Handlers, V2!handleServiceAdd, V2!handleServiceUpdate,
                  V2!handleServiceDelete, V2!Handled, V2!apiVars, V2!txVars,
                  V2!memoryVars, V2!serviceVars
    <2>2. QED
      BY <2>1, SameSeparate
  <1>3. CASE V2!Delays
    <2>1. Same
      BY <1>3 DEF V2!Delays, V2!RetryDelayElapsed, V2!apiVars, V2!txVars,
                  V2!memoryVars, V2!serviceVars
    <2>2. QED
      BY <2>1, SameSeparate
  <1>4. CASE \/ V2!CacheSynced \/ V2!GetFirst \/ V2!GetNext \/ V2!BatchCollected
             \/ V2!ReadVersion \/ V2!TransactionRefused
    <2>1. Same
      BY <1>4 DEF V2!CacheSynced, V2!GetFirst, V2!GetNext, V2!BatchCollected,
                  V2!ReadVersion, V2!TransactionRefused, V2!apiVars, V2!txVars,
                  V2!memoryVars, V2!serviceVars
    <2>2. QED
      BY <2>1, SameSeparate
  <1>5. CASE \/ V2!SyncIgnored \/ V2!SyncPresent \/ V2!SyncDone \/ V2!PortsDone
             \/ V2!SkipPort \/ V2!allocatePort \/ V2!RemoveDone
             \/ V2!GiveBackNext \/ V2!BatchGivenBack
    <2>1. Same
      BY <1>5 DEF V2!SyncIgnored, V2!SyncPresent, V2!SyncDone, V2!PortsDone,
                  V2!SkipPort, V2!allocatePort, V2!RemoveDone, V2!GiveBackNext,
                  V2!BatchGivenBack, V2!apiVars, V2!txVars, V2!memoryVars,
                  V2!serviceVars
    <2>2. QED
      BY <2>1, SameSeparate
  <1>6. CASE V2!SyncDeleted
    <2>1. /\ UNCHANGED <<config, version, tx, serviceMappings>>
          /\ toDelete' = V2!MappingsOf(keys[idx])
      BY <1>6 DEF V2!SyncDeleted, V2!apiVars, V2!txVars, V2!memoryVars
    <2>2. toDelete' \subseteq DOMAIN serviceMappings
      BY <2>1 DEF V2!MappingsOf
    <2>3. QED
      BY <2>1, <2>2 DEF Separate, TxCurrent, MappingsApart, Kept
  <1>7. QED
    BY <1>1, <1>2, <1>3, <1>4, <1>5, <1>6, CreateKept, BindKept, RemoveKept,
       TransactionKept DEF V2!Worker

-----------------------------------------------------------------------------
(* V1's requests have on V1's part of the configuration the effect and the *)
(* answer that they have on the whole, and none on the rest.               *)

Parallel(r, q, c) ==
  /\ q.err = r.err /\ q.done = r.done /\ q.cfg = PodPart(r.cfg)
  /\ Shape(r.cfg) /\ ServicePart(r.cfg) = ServicePart(c)
  /\ r.done \/ r.cfg = c

\* One name for each of V1's objects.
LEMMA SameNames ==
  P!Backend = V1!Backend /\ P!Frontend = V1!Frontend /\ P!Bind = V1!Bind
  BY DEF P!Backend, V1!Backend, P!Frontend, V1!Frontend, P!Bind, V1!Bind

\* The answers are read alike.
LEMMA SameErrors ==
  ASSUME NEW t, NEW k
  PROVE  P!handleError(t, k) = V1!handleError(t, k)
  BY DEF V1!handleError, P!handleError, V1!LogText, P!LogText, V1!NoError, P!NoError,
         V1!PayloadTypes, P!PayloadTypes

\* A request that is carried out or changes nothing.
LEMMA RequestParallel ==
  ASSUME NEW t, NEW c, Shape(c), NEW code, NEW c2, Shape(c2), NEW o,
         ServicePart(c2) = ServicePart(c), code \in {200, 201} \/ c2 = c
  PROVE  Parallel(V1!Request(t, c, code, c2, o),
                  P!Request(t, PodPart(c), code, PodPart(c2), o), c)
  <1> DEFINE r == V1!Request(t, c, code, c2, o)
             q == P!Request(t, PodPart(c), code, PodPart(c2), o)
             k == IF o = "ok" THEN code ELSE -1
             done == o # "refused" /\ code \in {200, 201, 204}
  <1>1. /\ r.err = V1!handleError(t, k).err /\ r.done = done
        /\ r.cfg = IF o = "refused" THEN c ELSE c2
    BY DEF V1!Request, V1!NoAnswer
  <1>2. /\ q.err = P!handleError(t, k).err /\ q.done = done
        /\ q.cfg = IF o = "refused" THEN PodPart(c) ELSE PodPart(c2)
    BY DEF P!Request, P!NoAnswer
  <1>3. done \/ r.cfg = c
    BY <1>1
  <1> HIDE DEF r, q, k, done
  <1>4. q.err = r.err
    BY <1>1, <1>2, SameErrors
  <1>5. Parallel(r, q, c)
    BY <1>1, <1>2, <1>3, <1>4 DEF Parallel
  <1>6. QED
    BY <1>5 DEF r, q

\* The text of a refusal of a payload by pointer is empty.
Pointers == {"*Server", "*Bind"}
Refusals == {404, 409}

LEMMA RefusalText ==
  ASSUME NEW t \in Pointers, NEW k \in Refusals
  PROVE  V1!handleError(t, k).err = ""
  <1>1. t \notin V1!PayloadTypes \cup {"string"}
    BY DEF V1!PayloadTypes, Pointers
  <1>2. V1!LogText(t, k) = ""
    BY <1>1 DEF V1!LogText, Refusals
  <1>3. k \notin {0, 200, 201, 202} /\ k \in {204, 400, 404, 409}
    BY DEF Refusals
  <1> DEFINE good == k \in {0, 200, 201, 202}
             bad  == k \in {204, 400, 404, 409}
             text == V1!LogText(t, k)
             err  == CASE good -> V1!NoError
                       [] bad -> text
                       [] OTHER -> "unknown error"
  <1>4. V1!handleError(t, k).err = err
    BY DEF V1!handleError
  <1>5. ~good /\ bad /\ text = ""
    BY <1>2, <1>3
  <1>6. err = text
    <2> HIDE DEF good, bad, text
    <2>1. QED
      BY <1>5
  <1> HIDE DEF good, bad, text, err
  <1>7. QED
    BY <1>4, <1>5, <1>6

\* Both refusals of a request for a server or a bind read alike.
LEMMA RefusedParallel ==
  ASSUME NEW t \in Pointers, NEW c, Shape(c), NEW o,
         NEW k \in Refusals, NEW l \in Refusals
  PROVE  Parallel(V1!Request(t, c, k, c, o),
                  P!Request(t, PodPart(c), l, PodPart(c), o), c)
  <1> DEFINE r == V1!Request(t, c, k, c, o)
             q == P!Request(t, PodPart(c), l, PodPart(c), o)
             dk == o # "refused" /\ k \in {200, 201, 204}
             dl == o # "refused" /\ l \in {200, 201, 204}
  <1>1. r.done = dk /\ r.cfg = c /\ q.done = dl /\ q.cfg = PodPart(c)
    BY DEF V1!Request, P!Request
  <1>2. dk = dl
    BY DEF Refusals
  <1>3. r.err = q.err
    <2>1. CASE o = "ok"
      <3>1. r.err = V1!handleError(t, k).err
        BY <2>1 DEF V1!Request
      <3>2. q.err = P!handleError(t, l).err
        BY <2>1 DEF P!Request
      <3>3. V1!handleError(t, k).err = "" /\ V1!handleError(t, l).err = ""
        BY RefusalText
      <3> HIDE DEF r, q
      <3>4. QED
        BY <3>1, <3>2, <3>3, SameErrors
    <2>2. CASE o # "ok"
      <3>1. r.err = V1!handleError(t, -1).err
        BY <2>2 DEF V1!Request, V1!NoAnswer
      <3>2. q.err = P!handleError(t, -1).err
        BY <2>2 DEF P!Request, P!NoAnswer
      <3> HIDE DEF r, q
      <3>3. QED
        BY <3>1, <3>2, SameErrors
    <2>3. QED
      BY <2>1, <2>2
  <1> HIDE DEF r, q, dk, dl
  <1>4. Parallel(r, q, c)
    BY <1>1, <1>2, <1>3 DEF Parallel
  <1>5. QED
    BY <1>4 DEF r, q

\* The check of the version.
LEMMA DirectParallel ==
  ASSUME NEW c, Shape(c), NEW r, NEW q, Parallel(r, q, c), NEW v, NEW w, NEW o
  PROVE  Parallel(V1!Direct(r, c, v, w, o), P!Direct(q, PodPart(c), v, w, o), c)
  <1>1. Parallel(V1!Request("*", c, 409, c, o),
                 P!Request("*", PodPart(c), 409, PodPart(c), o), c)
    BY RequestParallel
  <1>2. QED
    BY <1>1 DEF V1!Direct, P!Direct

\* The objects of the two parts.
LEMMA Parts ==
  ASSUME NEW c
  PROVE  /\ Shape(PodPart(c))
         /\ PodPart(c).backends = c.backends \cap {V1!Backend}
         /\ PodPart(c).servers = {s \in c.servers : s.backend = V1!Backend}
         /\ PodPart(c).frontends = {f \in c.frontends : f.name = V1!Frontend}
         /\ PodPart(c).binds = {b \in c.binds : b.frontend = V1!Frontend}
  BY Shaped DEF PodPart

\* A change of V1's objects changes its part and leaves the other alone.
LEMMA OnlyV1 ==
  ASSUME NEW c, NEW d,
         d.backends \ {V1!Backend} = c.backends \ {V1!Backend},
         \A s : s.backend # V1!Backend => (s \in d.servers <=> s \in c.servers),
         \A f : f.name # V1!Frontend => (f \in d.frontends <=> f \in c.frontends),
         \A x : x.frontend # V1!Frontend => (x \in d.binds <=> x \in c.binds)
  PROVE  ServicePart(d) = ServicePart(c)
  <1>1. /\ {s \in d.servers : s.backend # V1!Backend} =
             {s \in c.servers : s.backend # V1!Backend}
        /\ {f \in d.frontends : f.name # V1!Frontend} =
             {f \in c.frontends : f.name # V1!Frontend}
        /\ {x \in d.binds : x.frontend # V1!Frontend} =
             {x \in c.binds : x.frontend # V1!Frontend}
    OBVIOUS
  <1>2. QED
    BY <1>1 DEF ServicePart

\* V1's part of a configuration, object by object.
LEMMA PartIs ==
  ASSUME NEW c, NEW d, Shape(d),
         d.backends = c.backends \cap {V1!Backend},
         \A s : s \in d.servers <=> s \in c.servers /\ s.backend = V1!Backend,
         \A f : f \in d.frontends <=> f \in c.frontends /\ f.name = V1!Frontend,
         \A x : x \in d.binds <=> x \in c.binds /\ x.frontend = V1!Frontend
  PROVE  d = PodPart(c)
  <1>1. /\ d.servers = {s \in c.servers : s.backend = V1!Backend}
        /\ d.frontends = {f \in c.frontends : f.name = V1!Frontend}
        /\ d.binds = {x \in c.binds : x.frontend = V1!Frontend}
    OBVIOUS
  <1>2. QED
    BY <1>1 DEF PodPart, Shape

\* The requests of createProxy and changeProxy, one by one: AddBackend,
LEMMA AddBackendParallel ==
  ASSUME NEW c, Shape(c), NEW o
  PROVE  Parallel(V1!AddBackend(c, V1!Backend, o),
                  P!AddBackend(PodPart(c), V1!Backend, o), c)
  <1> DEFINE B == V1!Backend
             c1 == [c EXCEPT !.backends = @ \cup {B}]
             d1 == [PodPart(c) EXCEPT !.backends = @ \cup {B}]
             S == c.backends \cup {B}
             T == PodPart(c).backends \cup {B}
  <1>1. c1 = [backends |-> S, servers |-> c.servers, frontends |-> c.frontends,
              binds |-> c.binds]
    BY Excepts
  <1>2. d1 = [backends |-> T, servers |-> PodPart(c).servers,
              frontends |-> PodPart(c).frontends, binds |-> PodPart(c).binds]
    BY Excepts, Parts
  <1>3. T = S \cap {B}
    BY Parts
  <1>4. S \ {B} = c.backends \ {B}
    OBVIOUS
  <1>5. (B \in PodPart(c).backends) = (B \in c.backends)
    BY Parts
  <1> HIDE DEF c1, d1, S, T
  <1>6. Shape(c1) /\ Shape(d1) /\ ServicePart(c1) = ServicePart(c)
    BY <1>1, <1>2, <1>4, Shaped, OnlyV1
  <1>7. d1 = PodPart(c1)
    BY <1>1, <1>2, <1>3, <1>6, Parts, PartIs
  <1>8. CASE B \in c.backends
    BY <1>5, <1>8, RequestParallel DEF V1!AddBackend, P!AddBackend
  <1>9. CASE B \notin c.backends
    <2>1. Parallel(V1!Request("*Backend", c, 201, c1, o),
                   P!Request("*Backend", PodPart(c), 201, d1, o), c)
      BY <1>6, <1>7, RequestParallel
    <2>2. QED
      BY <1>5, <1>9, <2>1 DEF V1!AddBackend, P!AddBackend, c1, d1
  <1>10. QED
    BY <1>8, <1>9

\* AddFrontend,
LEMMA AddFrontendParallel ==
  ASSUME NEW c, Shape(c), NEW o
  PROVE  Parallel(V1!AddFrontend(c, V1!Frontend, V1!Backend, o),
                  P!AddFrontend(PodPart(c), V1!Frontend, V1!Backend, o), c)
  <1> DEFINE new == [name |-> V1!Frontend, backend |-> V1!Backend]
             c1 == [c EXCEPT !.frontends = @ \cup {new}]
             d1 == [PodPart(c) EXCEPT !.frontends = @ \cup {new}]
             S == c.frontends \cup {new}
             T == PodPart(c).frontends \cup {new}
  <1>0. new.name = V1!Frontend
    OBVIOUS
  <1>1. c1 = [backends |-> c.backends, servers |-> c.servers, frontends |-> S,
              binds |-> c.binds]
    <2>1. c1 = [c EXCEPT !.frontends = S]
      OBVIOUS
    <2> HIDE DEF c1, S
    <2>2. QED
      BY <2>1, Excepts
  <1>2. d1 = [backends |-> PodPart(c).backends, servers |-> PodPart(c).servers,
              frontends |-> T, binds |-> PodPart(c).binds]
    <2>1. d1 = [PodPart(c) EXCEPT !.frontends = T]
      OBVIOUS
    <2> HIDE DEF d1, T
    <2>2. QED
      BY <2>1, Excepts, Parts
  <1>3. V1!HasFrontend(c, V1!Frontend) <=> P!HasFrontend(PodPart(c), V1!Frontend)
    BY Parts DEF V1!HasFrontend, P!HasFrontend
  <1> HIDE DEF new
  <1>4. \A f : f.name # V1!Frontend => (f \in S <=> f \in c.frontends)
    BY <1>0
  <1>5. \A f : f \in T <=> f \in S /\ f.name = V1!Frontend
    BY <1>0, Parts
  <1> HIDE DEF c1, d1, S, T
  <1>6. Shape(c1) /\ Shape(d1) /\ ServicePart(c1) = ServicePart(c)
    BY <1>1, <1>2, <1>4, Shaped, OnlyV1
  <1>7. d1 = PodPart(c1)
    BY <1>1, <1>2, <1>5, <1>6, Parts, PartIs
  <1>8. CASE V1!HasFrontend(c, V1!Frontend)
    BY <1>3, <1>8, RequestParallel DEF V1!AddFrontend, P!AddFrontend
  <1>9. CASE ~V1!HasFrontend(c, V1!Frontend)
    <2>1. Parallel(V1!Request("*Frontend", c, 201, c1, o),
                   P!Request("*Frontend", PodPart(c), 201, d1, o), c)
      BY <1>6, <1>7, RequestParallel
    <2>2. QED
      BY <1>3, <1>9, <2>1 DEF V1!AddFrontend, P!AddFrontend, c1, d1, new
  <1>10. QED
    BY <1>8, <1>9

\* AddServerToBackend,
LEMMA AddServerParallel ==
  ASSUME NEW c, Shape(c), NEW s, NEW o
  PROVE  Parallel(V1!AddServerToBackend(c, V1!Backend, s.name, s.addr, o),
                  P!AddServerToBackend(PodPart(c), V1!Backend, s.name, s.addr, o), c)
  <1> DEFINE B == V1!Backend
             new == [backend |-> B, name |-> s.name, addr |-> s.addr]
             c1 == [c EXCEPT !.servers = @ \cup {new}]
             d1 == [PodPart(c) EXCEPT !.servers = @ \cup {new}]
             S == c.servers \cup {new}
             T == PodPart(c).servers \cup {new}
  <1>0. new.backend = B
    OBVIOUS
  <1>1. c1 = [backends |-> c.backends, servers |-> S, frontends |-> c.frontends,
              binds |-> c.binds]
    <2>1. c1 = [c EXCEPT !.servers = S]
      OBVIOUS
    <2> HIDE DEF c1, S
    <2>2. QED
      BY <2>1, Excepts
  <1>2. d1 = [backends |-> PodPart(c).backends, servers |-> T,
              frontends |-> PodPart(c).frontends, binds |-> PodPart(c).binds]
    <2>1. d1 = [PodPart(c) EXCEPT !.servers = T]
      OBVIOUS
    <2> HIDE DEF d1, T
    <2>2. QED
      BY <2>1, Excepts, Parts
  <1>3. /\ V1!HasServer(c, B, s.name) <=> P!HasServer(PodPart(c), B, s.name)
        /\ B \in PodPart(c).backends <=> B \in c.backends
    BY Parts DEF V1!HasServer, P!HasServer
  <1> HIDE DEF new
  <1>4. \A x : x.backend # B => (x \in S <=> x \in c.servers)
    BY <1>0
  <1>5. \A x : x \in T <=> x \in S /\ x.backend = B
    BY <1>0, Parts
  <1> HIDE DEF c1, d1, S, T
  <1>6. Shape(c1) /\ Shape(d1) /\ ServicePart(c1) = ServicePart(c)
    BY <1>1, <1>2, <1>4, Shaped, OnlyV1
  <1>7. d1 = PodPart(c1)
    BY <1>1, <1>2, <1>5, <1>6, Parts, PartIs
  <1> DEFINE r == V1!AddServerToBackend(c, B, s.name, s.addr, o)
             q == P!AddServerToBackend(PodPart(c), B, s.name, s.addr, o)
  <1>8. CASE B \notin c.backends \/ V1!HasServer(c, B, s.name)
    <2>1. PICK k \in Refusals : r = V1!Request("*Server", c, k, c, o)
      BY <1>8 DEF Refusals, V1!AddServerToBackend
    <2>2. PICK l \in Refusals : q = P!Request("*Server", PodPart(c), l, PodPart(c), o)
      BY <1>3, <1>8 DEF Refusals, P!AddServerToBackend
    <2>3. QED
      BY <2>1, <2>2, RefusedParallel DEF Pointers
  <1>9. CASE ~(B \notin c.backends \/ V1!HasServer(c, B, s.name))
    <2>1. Parallel(V1!Request("*Server", c, 201, c1, o),
                   P!Request("*Server", PodPart(c), 201, d1, o), c)
      BY <1>6, <1>7, RequestParallel
    <2>2. r = V1!Request("*Server", c, 201, c1, o)
      BY <1>9 DEF V1!AddServerToBackend, c1, new
    <2>3. q = P!Request("*Server", PodPart(c), 201, d1, o)
      BY <1>3, <1>9 DEF P!AddServerToBackend, d1, new
    <2>4. QED
      BY <2>1, <2>2, <2>3
  <1>10. QED
    BY <1>8, <1>9

\* ReplaceServerFromBackend,
LEMMA ReplaceServerParallel ==
  ASSUME NEW c, Shape(c), NEW s, NEW old, NEW o
  PROVE  Parallel(V1!ReplaceServerFromBackend(c, V1!Backend, old, s.name, s.addr, o),
                  P!ReplaceServerFromBackend(PodPart(c), V1!Backend, old, s.name,
                                             s.addr, o), c)
  <1> DEFINE B == V1!Backend
             new == [backend |-> B, name |-> s.name, addr |-> s.addr]
             c1 == [c EXCEPT !.servers =
                      {x \in @ : ~(x.backend = B /\ x.name = old)} \cup {new}]
             d1 == [PodPart(c) EXCEPT !.servers =
                      {x \in @ : ~(x.backend = B /\ x.name = old)} \cup {new}]
             S == {x \in c.servers : ~(x.backend = B /\ x.name = old)} \cup {new}
             T == {x \in PodPart(c).servers : ~(x.backend = B /\ x.name = old)}
                    \cup {new}
  <1>0. new.backend = B
    OBVIOUS
  <1>1. c1 = [backends |-> c.backends, servers |-> S, frontends |-> c.frontends,
              binds |-> c.binds]
    <2>1. c1 = [c EXCEPT !.servers = S]
      OBVIOUS
    <2> HIDE DEF c1, S
    <2>2. QED
      BY <2>1, Excepts
  <1>2. d1 = [backends |-> PodPart(c).backends, servers |-> T,
              frontends |-> PodPart(c).frontends, binds |-> PodPart(c).binds]
    <2>1. d1 = [PodPart(c) EXCEPT !.servers = T]
      OBVIOUS
    <2> HIDE DEF d1, T
    <2>2. QED
      BY <2>1, Excepts, Parts
  <1>3. /\ V1!HasServer(c, B, s.name) <=> P!HasServer(PodPart(c), B, s.name)
        /\ V1!HasServer(c, B, old) <=> P!HasServer(PodPart(c), B, old)
    BY Parts DEF V1!HasServer, P!HasServer
  <1> HIDE DEF new
  <1>4. \A x : x.backend # B => (x \in S <=> x \in c.servers)
    BY <1>0
  <1>5. \A x : x \in T <=> x \in S /\ x.backend = B
    BY <1>0, Parts
  <1> HIDE DEF c1, d1, S, T
  <1>6. Shape(c1) /\ Shape(d1) /\ ServicePart(c1) = ServicePart(c)
    BY <1>1, <1>2, <1>4, Shaped, OnlyV1
  <1>7. d1 = PodPart(c1)
    BY <1>1, <1>2, <1>5, <1>6, Parts, PartIs
  <1> DEFINE r == V1!ReplaceServerFromBackend(c, B, old, s.name, s.addr, o)
             q == P!ReplaceServerFromBackend(PodPart(c), B, old, s.name, s.addr, o)
             no == \/ ~V1!HasServer(c, B, old)
                   \/ old # s.name /\ V1!HasServer(c, B, s.name)
  <1>8. CASE no
    <2>1. PICK k \in Refusals : r = V1!Request("*Server", c, k, c, o)
      BY <1>8 DEF Refusals, V1!ReplaceServerFromBackend
    <2>2. PICK l \in Refusals : q = P!Request("*Server", PodPart(c), l, PodPart(c), o)
      BY <1>3, <1>8 DEF Refusals, P!ReplaceServerFromBackend
    <2>3. QED
      BY <2>1, <2>2, RefusedParallel DEF Pointers
  <1>9. CASE ~no
    <2>1. Parallel(V1!Request("*Server", c, 200, c1, o),
                   P!Request("*Server", PodPart(c), 200, d1, o), c)
      BY <1>6, <1>7, RequestParallel
    <2>2. r = V1!Request("*Server", c, 200, c1, o)
      BY <1>9 DEF V1!ReplaceServerFromBackend, c1, new
    <2>3. q = P!Request("*Server", PodPart(c), 200, d1, o)
      BY <1>3, <1>9 DEF P!ReplaceServerFromBackend, d1, new
    <2>4. QED
      BY <2>1, <2>2, <2>3
  <1>10. QED
    BY <1>8, <1>9

\* and AddBind.
LEMMA AddBindParallel ==
  ASSUME NEW c, Shape(c), NEW o
  PROVE  Parallel(V1!AddBind(c, V1!Frontend, V1!Bind, DefaultMappingPort, o),
                  P!AddBind(PodPart(c), V1!Frontend, V1!Bind, DefaultMappingPort, o),
                  c)
  <1> DEFINE new == [frontend |-> V1!Frontend, name |-> V1!Bind,
                     port |-> DefaultMappingPort]
             c1 == [c EXCEPT !.binds = @ \cup {new}]
             d1 == [PodPart(c) EXCEPT !.binds = @ \cup {new}]
             S == c.binds \cup {new}
             T == PodPart(c).binds \cup {new}
             has(d) == \E x \in d.binds : x.frontend = V1!Frontend /\ x.name = V1!Bind
  <1>0. new.frontend = V1!Frontend
    OBVIOUS
  <1>1. c1 = [backends |-> c.backends, servers |-> c.servers,
              frontends |-> c.frontends, binds |-> S]
    <2>1. c1 = [c EXCEPT !.binds = S]
      OBVIOUS
    <2> HIDE DEF c1, S
    <2>2. QED
      BY <2>1, Excepts
  <1>2. d1 = [backends |-> PodPart(c).backends, servers |-> PodPart(c).servers,
              frontends |-> PodPart(c).frontends, binds |-> T]
    <2>1. d1 = [PodPart(c) EXCEPT !.binds = T]
      OBVIOUS
    <2> HIDE DEF d1, T
    <2>2. QED
      BY <2>1, Excepts, Parts
  <1>3. /\ V1!HasFrontend(c, V1!Frontend) <=> P!HasFrontend(PodPart(c), V1!Frontend)
        /\ has(c) <=> has(PodPart(c))
    BY Parts DEF V1!HasFrontend, P!HasFrontend
  <1> HIDE DEF new
  <1>4. \A x : x.frontend # V1!Frontend => (x \in S <=> x \in c.binds)
    BY <1>0
  <1>5. \A x : x \in T <=> x \in S /\ x.frontend = V1!Frontend
    BY <1>0, Parts
  <1> HIDE DEF c1, d1, S, T
  <1>6. Shape(c1) /\ Shape(d1) /\ ServicePart(c1) = ServicePart(c)
    BY <1>1, <1>2, <1>4, Shaped, OnlyV1
  <1>7. d1 = PodPart(c1)
    BY <1>1, <1>2, <1>5, <1>6, Parts, PartIs
  <1> DEFINE r == V1!AddBind(c, V1!Frontend, V1!Bind, DefaultMappingPort, o)
             q == P!AddBind(PodPart(c), V1!Frontend, V1!Bind, DefaultMappingPort, o)
  <1>8. CASE ~V1!HasFrontend(c, V1!Frontend) \/ has(c)
    <2>1. PICK k \in Refusals : r = V1!Request("*Bind", c, k, c, o)
      BY <1>8 DEF Refusals, V1!AddBind
    <2>2. PICK l \in Refusals : q = P!Request("*Bind", PodPart(c), l, PodPart(c), o)
      BY <1>3, <1>8 DEF Refusals, P!AddBind
    <2>3. QED
      BY <2>1, <2>2, RefusedParallel DEF Pointers
  <1>9. CASE ~(~V1!HasFrontend(c, V1!Frontend) \/ has(c))
    <2>1. Parallel(V1!Request("*Bind", c, 201, c1, o),
                   P!Request("*Bind", PodPart(c), 201, d1, o), c)
      BY <1>6, <1>7, RequestParallel
    <2>2. r = V1!Request("*Bind", c, 201, c1, o)
      BY <1>9 DEF V1!AddBind, c1, new
    <2>3. q = P!Request("*Bind", PodPart(c), 201, d1, o)
      BY <1>3, <1>9 DEF P!AddBind, d1, new
    <2>4. QED
      BY <2>1, <2>2, <2>3
  <1>10. QED
    BY <1>8, <1>9

-----------------------------------------------------------------------------
(* V1's steps: steps of V1 on its own part, that leave V2's part alone.    *)

\* What a write does: it leaves the configuration and the version as they are or
\* moves the version, and it unlocks the mutex.
Writes ==
  /\ Shape(config') /\ ServicePart(config') = ServicePart(config)
  /\ UNCHANGED <<config, version>> \/ version' = version + 1
  /\ mu' # mu

\* The operators that the parts of the configuration have no part in.
LEMMA SameOperators ==
  /\ P!NoError = V1!NoError /\ P!Procs = V1!Procs /\ P!EmptyQueue = V1!EmptyQueue
  /\ P!DefaultServer = V1!DefaultServer /\ P!Events = V1!Events
  /\ P!Fates = V1!Fates /\ P!ReadFates = V1!ReadFates /\ P!Writing = V1!Writing
  BY DEF V1!NoError, P!NoError, V1!Procs, P!Procs, V1!EmptyQueue, P!EmptyQueue,
         V1!DefaultServer, P!DefaultServer, V1!Events, P!Events, V1!PodPorts,
         P!PodPorts, V1!PortOf, P!PortOf, V1!Fates, P!Fates, V1!ReadFates,
         P!ReadFates, V1!Writing, P!Writing

\* The process dies.
LEMMA DiesSame ==
  ASSUME V1!Dies PROVE P!Dies
  <1>1. \A p : P!StageAfterDeath(p) = V1!StageAfterDeath(p)
    BY DEF V1!StageAfterDeath, P!StageAfterDeath
  <1>2. QED
    BY <1>1, SameOperators DEF V1!Dies, P!Dies

\* A bound is used up.
LEMMA SpendSame ==
  ASSUME NEW o, V1!SpendPod(o) PROVE P!SpendPod(o)
  BY DEF V1!SpendPod, P!SpendPod

\* The callers go on alike.
LEMMA SameStages ==
  ASSUME NEW p, NEW err
  PROVE  /\ P!Returned(p, err) = V1!Returned(p, err)
         /\ P!AfterBackend(err) = V1!AfterBackend(err)
         /\ P!AfterFrontend(err) = V1!AfterFrontend(err)
         /\ P!AfterBind(err) = V1!AfterBind(err)
  <1>1. P!Initialised(err) = V1!Initialised(err)
    BY DEF V1!Initialised, P!Initialised, V1!NoError, P!NoError, V1!SaysExists,
           P!SaysExists
  <1>2. QED
    BY <1>1 DEF V1!Returned, P!Returned, V1!AfterBackend, P!AfterBackend,
                V1!AfterFrontend, P!AfterFrontend, V1!AfterBind, P!AfterBind,
                V1!NoError, P!NoError, V1!SaysExists, P!SaysExists

\* The write and the unlock.
LEMMA SentParallel ==
  ASSUME Separate, NEW p, p \in mu, NEW r, NEW q, Parallel(r, q, config),
         NEW next, NEW rest, V1!Sent(p, r, next, rest)
  PROVE  P!Sent(p, q, next, rest) /\ Writes
  <1>1. /\ PodPart(config') = q.cfg
        /\ version' = IF q.done THEN version + 1 ELSE version
    BY DEF Parallel, V1!Sent
  <1>2. P!Sent(p, q, next, rest)
    <2>1. CASE next = "dead"
      BY <1>1, <2>1, DiesSame DEF V1!Sent, P!Sent
    <2>2. CASE next # "dead"
      BY <1>1, <2>2 DEF V1!Sent, P!Sent, V1!Unlocked, P!Unlocked, V1!timerVars,
                        P!timerVars
    <2>3. QED
      BY <2>1, <2>2
  <1>3. mu' = {} \/ mu' = mu \ {p}
    BY DEF V1!Sent, V1!Dies, V1!Unlocked
  <1>4. Writes
    BY <1>3 DEF V1!Sent, Parallel, Writes
  <1>5. QED
    BY <1>2, <1>4

\* createProxy.
LEMMA CreateParallel ==
  ASSUME Separate, V1!createProxy
  PROVE  P!createProxy /\ Writes
  <1>0. Shape(config)
    BY DEF Separate
  <1>1. ASSUME NEW r, NEW q, NEW o, NEW next, Parallel(r, q, config),
               V1!Creates(r, o, next)
        PROVE  P!Creates(q, o, next) /\ Writes
    BY <1>1, SentParallel, SpendSame DEF V1!Creates, P!Creates
  <1>2. CASE V1!CreateBackend
    <2> DEFINE r(o) == V1!Direct(V1!AddBackend(config, V1!Backend, o), config,
                                 version, seen["run"], o)
               q(o) == P!Direct(P!AddBackend(PodPart(config), P!Backend, o),
                                PodPart(config), version, seen["run"], o)
    <2>1. PICK o \in V1!Fates : V1!Creates(r(o), o, V1!AfterBackend(r(o).err))
      BY <1>2 DEF V1!CreateBackend
    <2>2. Parallel(r(o), q(o), config)
      BY <1>0, AddBackendParallel, DirectParallel, SameNames
    <2> HIDE DEF r, q
    <2>3. P!Creates(q(o), o, P!AfterBackend(q(o).err)) /\ Writes
      BY <1>1, <2>1, <2>2, SameStages DEF Parallel
    <2>4. P!CreateBackend
      BY <1>2, <2>3, SameOperators DEF V1!CreateBackend, P!CreateBackend, q
    <2>5. QED
      BY <2>3, <2>4 DEF P!createProxy
  <1>3. CASE V1!CreateFrontend
    <2> DEFINE r(o) == V1!Direct(V1!AddFrontend(config, V1!Frontend, V1!Backend, o),
                                 config, version, seen["run"], o)
               q(o) == P!Direct(P!AddFrontend(PodPart(config), P!Frontend,
                                              P!Backend, o),
                                PodPart(config), version, seen["run"], o)
    <2>1. PICK o \in V1!Fates : V1!Creates(r(o), o, V1!AfterFrontend(r(o).err))
      BY <1>3 DEF V1!CreateFrontend
    <2>2. Parallel(r(o), q(o), config)
      BY <1>0, AddFrontendParallel, DirectParallel, SameNames
    <2> HIDE DEF r, q
    <2>3. P!Creates(q(o), o, P!AfterFrontend(q(o).err)) /\ Writes
      BY <1>1, <2>1, <2>2, SameStages DEF Parallel
    <2>4. P!CreateFrontend
      BY <1>3, <2>3, SameOperators DEF V1!CreateFrontend, P!CreateFrontend, q
    <2>5. QED
      BY <2>3, <2>4 DEF P!createProxy
  <1>4. CASE V1!CreateBind
    <2> DEFINE r(o) == V1!Direct(V1!AddBind(config, V1!Frontend, V1!Bind,
                                            DefaultMappingPort, o),
                                 config, version, seen["run"], o)
               q(o) == P!Direct(P!AddBind(PodPart(config), P!Frontend, P!Bind,
                                          DefaultMappingPort, o),
                                PodPart(config), version, seen["run"], o)
    <2>1. PICK o \in V1!Fates : V1!Creates(r(o), o, V1!AfterBind(r(o).err))
      BY <1>4 DEF V1!CreateBind
    <2>2. Parallel(r(o), q(o), config)
      BY <1>0, AddBindParallel, DirectParallel, SameNames
    <2> HIDE DEF r, q
    <2>3. P!Creates(q(o), o, P!AfterBind(q(o).err)) /\ Writes
      BY <1>1, <2>1, <2>2, SameStages DEF Parallel
    <2>4. P!CreateBind
      BY <1>4, <2>3, SameOperators DEF V1!CreateBind, P!CreateBind, q
    <2>5. QED
      BY <2>3, <2>4 DEF P!createProxy
  <1>5. QED
    BY <1>2, <1>3, <1>4 DEF V1!createProxy

\* What a step of V1 leaves alone, when it is not a write.
Reads == UNCHANGED <<config, version>>

\* changeProxy.
LEMMA ChangeParallel ==
  ASSUME Separate, NEW p, V1!changeProxy(p)
  PROVE  P!changeProxy(p) /\ (Writes \/ Reads)
  <1>0. Shape(config)
    BY DEF Separate
  <1>1. CASE V1!ReadServers(p)
    <2>1. \A o : P!GetServers(PodPart(config), P!Backend, o) =
                   V1!GetServers(config, V1!Backend, o)
      <3>1. {x \in PodPart(config).servers : x.backend = V1!Backend} =
              {x \in config.servers : x.backend = V1!Backend}
        BY Parts
      <3>2. QED
        BY <3>1, SameNames DEF V1!GetServers, P!GetServers
    <2>2. \A S : P!NextWrite(S) = V1!NextWrite(S)
      BY DEF V1!NextWrite, P!NextWrite
    <2>3. Reads
      BY <1>1 DEF V1!ReadServers, V1!apiVars, Reads
    <2>4. P!ReadServers(p)
      BY <1>1, <2>1, <2>2, <2>3, SameOperators, SpendSame
      DEF V1!ReadServers, P!ReadServers, V1!lockVars, P!lockVars, V1!timerVars,
          P!timerVars, V1!apiVars, P!apiVars, Reads
    <2>5. QED
      BY <2>3, <2>4 DEF P!changeProxy
  <1>2. CASE V1!ReplaceServers(p)
    <2> DEFINE r(n, o) == V1!Direct(V1!ReplaceServerFromBackend(config, V1!Backend, n,
                                      srv[p].name, srv[p].addr, o),
                                    config, version, seen[p], o)
               q(n, o) == P!Direct(P!ReplaceServerFromBackend(PodPart(config),
                                     P!Backend, n, srv[p].name, srv[p].addr, o),
                                   PodPart(config), version, seen[p], o)
    <2>1. PICK n \in todo[p], o \in V1!Fates :
            /\ V1!SpendPod(o)
            /\ V1!Sent(p, r(n, o), IF todo[p] = {n} THEN V1!Returned(p, r(n, o).err)
                                   ELSE "replace", todo[p] \ {n})
            /\ V1!Owes(p, r(n, o))
      BY <1>2 DEF V1!ReplaceServers
    <2>2. Parallel(r(n, o), q(n, o), config)
      BY <1>0, ReplaceServerParallel, DirectParallel, SameNames
    <2>3. stage[p] = "replace" /\ p \in mu
      BY <1>2 DEF V1!ReplaceServers
    <2> HIDE DEF r, q
    <2>4. r(n, o).err = q(n, o).err /\ r(n, o).done = q(n, o).done
      BY <2>2 DEF Parallel
    <2>5. /\ P!Sent(p, q(n, o), IF todo[p] = {n} THEN V1!Returned(p, r(n, o).err)
                                ELSE "replace", todo[p] \ {n})
          /\ Writes
      BY <2>1, <2>2, <2>3, SentParallel
    <2>6. P!Sent(p, q(n, o), IF todo[p] = {n} THEN P!Returned(p, q(n, o).err)
                             ELSE "replace", todo[p] \ {n})
      BY <2>4, <2>5, SameStages
    <2>7. P!SpendPod(o) /\ P!Owes(p, q(n, o))
      BY <2>1, <2>4, SpendSame DEF V1!Owes, P!Owes
    <2>8. P!ReplaceServers(p)
      BY <2>3, <2>6, <2>7, SameOperators DEF P!ReplaceServers, q
    <2>9. QED
      BY <2>5, <2>8 DEF P!changeProxy
  <1>3. CASE V1!AddServer(p)
    <2> DEFINE r(o) == V1!Direct(V1!AddServerToBackend(config, V1!Backend,
                                   srv[p].name, srv[p].addr, o),
                                 config, version, seen[p], o)
               q(o) == P!Direct(P!AddServerToBackend(PodPart(config), P!Backend,
                                  srv[p].name, srv[p].addr, o),
                                PodPart(config), version, seen[p], o)
    <2>1. PICK o \in V1!Fates :
            /\ V1!SpendPod(o)
            /\ V1!Sent(p, r(o), V1!Returned(p, r(o).err), {})
            /\ V1!Owes(p, r(o))
      BY <1>3 DEF V1!AddServer
    <2>2. Parallel(r(o), q(o), config)
      BY <1>0, AddServerParallel, DirectParallel, SameNames
    <2>3. stage[p] = "add" /\ p \in mu
      BY <1>3 DEF V1!AddServer
    <2> HIDE DEF r, q
    <2>4. r(o).err = q(o).err /\ r(o).done = q(o).done
      BY <2>2 DEF Parallel
    <2>5. P!Sent(p, q(o), V1!Returned(p, r(o).err), {}) /\ Writes
      BY <2>1, <2>2, <2>3, SentParallel
    <2>6. P!Sent(p, q(o), P!Returned(p, q(o).err), {})
      BY <2>4, <2>5, SameStages
    <2>7. P!SpendPod(o) /\ P!Owes(p, q(o))
      BY <2>1, <2>4, SpendSame DEF V1!Owes, P!Owes
    <2>8. P!AddServer(p)
      BY <2>3, <2>6, <2>7, SameOperators DEF P!AddServer, q
    <2>9. QED
      BY <2>5, <2>8 DEF P!changeProxy
  <1>4. QED
    BY <1>1, <1>2, <1>3 DEF V1!changeProxy

\* The mutex and the read of the version.
LEMMA LockParallel ==
  ASSUME NEW p, V1!Lock(p)
  PROVE  P!Lock(p) /\ Reads
  <1>1. \A o : P!getVersion(version, o) = V1!getVersion(version, o)
    BY DEF V1!getVersion, P!getVersion
  <1>2. Reads
    BY DEF V1!Lock, V1!apiVars, Reads
  <1>3. P!Lock(p)
    BY <1>1, <1>2, SameOperators, SpendSame
    DEF V1!Lock, P!Lock, V1!MutexFree, P!MutexFree, V1!callVars, P!callVars,
        V1!timerVars, P!timerVars, V1!apiVars, P!apiVars, Reads
  <1>4. QED
    BY <1>2, <1>3

\* A request that arrives, and the steps of one that has.
LEMMA RequestSteps ==
  ASSUME Separate, NEW r \in Requests, V1!create(r) \/ V1!CreateMapping(r)
  PROVE  P!Next /\ (Writes \/ Reads)
  <1>1. CASE V1!create(r)
    <2>1. Reads
      BY <1>1 DEF V1!create, V1!apiVars, Reads
    <2>2. \A p, o : P!PodServer(p, o) = V1!PodServer(p, o)
      BY DEF V1!PodServer, P!PodServer, V1!PortOf, P!PortOf
    <2>3. P!create(r)
      BY <1>1, <2>1, <2>2
      DEF V1!create, P!create, V1!lockVars, P!lockVars, V1!timerVars, P!timerVars,
          V1!apiVars, P!apiVars, Reads
    <2>4. QED
      BY <2>1, <2>3 DEF P!Next
  <1>2. CASE V1!AddAfter(r)
    <2>1. Reads
      BY <1>2 DEF V1!AddAfter, V1!apiVars, Reads
    <2>2. P!EventOf(r) = V1!EventOf(r)
      BY DEF V1!EventOf, P!EventOf
    <2>3. V1!DelayedUntil(V1!EventOf(r), ttl[r])
      BY <1>2 DEF V1!AddAfter
    <2>4. P!DelayedUntil(V1!EventOf(r), ttl[r])
      BY <2>3 DEF V1!DelayedUntil, P!DelayedUntil, V1!Add, P!Add, V1!AddDelayed,
                  P!AddDelayed
    <2>5. P!AddAfter(r)
      BY <1>2, <2>1, <2>2, <2>4
      DEF V1!AddAfter, P!AddAfter, V1!lockVars, P!lockVars, V1!apiVars, P!apiVars,
          Reads
    <2>6. QED
      BY <2>1, <2>5 DEF P!Next, P!CreateMapping
  <1>3. CASE V1!Lock(r) \/ V1!changeProxy(r)
    BY <1>3, LockParallel, ChangeParallel DEF P!Next, P!CreateMapping
  <1>4. QED
    BY <1>1, <1>2, <1>3 DEF V1!CreateMapping

\* Run and pop.
LEMMA RunSteps ==
  ASSUME Separate, V1!Run \/ V1!pop
  PROVE  P!Next /\ (Writes \/ Reads)
  <1>1. CASE V1!PodsSynced
    <2>1. Reads
      BY <1>1 DEF V1!PodsSynced, V1!apiVars, Reads
    <2>2. P!PodsSynced
      BY <1>1, <2>1
      DEF V1!PodsSynced, P!PodsSynced, V1!lockVars, P!lockVars, V1!timerVars,
          P!timerVars, V1!apiVars, P!apiVars, Reads
    <2>3. QED
      BY <2>1, <2>2 DEF P!Next, P!Run
  <1>2. CASE V1!GetEvent
    <2>1. Reads
      BY <1>2 DEF V1!GetEvent, V1!apiVars, Reads
    <2>2. P!GetEvent
      BY <1>2, <2>1
      DEF V1!GetEvent, P!GetEvent, V1!lockVars, P!lockVars, V1!Get, P!Get,
          V1!apiVars, P!apiVars, Reads
    <2>3. QED
      BY <2>1, <2>2 DEF P!Next, P!pop
  <1>3. CASE V1!Lock("run") \/ V1!changeProxy("run") \/ V1!createProxy
    BY <1>3, LockParallel, ChangeParallel, CreateParallel DEF P!Next, P!Run
  <1>4. CASE V1!Lock("pop") \/ V1!changeProxy("pop")
    BY <1>4, LockParallel, ChangeParallel DEF P!Next, P!pop
  <1>5. QED
    BY <1>1, <1>2, <1>3, <1>4 DEF V1!Run, V1!pop

\* The informer, the timers, the end of the process and its new start.
LEMMA AroundSteps ==
  ASSUME \/ \E p \in Pods : V1!StorePod(p)
         \/ V1!Tick \/ \E e \in V1!Events : V1!Expire(e)
         \/ V1!Crash \/ V1!StartAgain
  PROVE  P!Next /\ Reads
  <1>1. Reads
    BY DEF V1!StorePod, V1!Tick, V1!Expire, V1!Crash, V1!StartAgain, V1!apiVars, Reads
  <1>2. ASSUME NEW p \in Pods, V1!StorePod(p) PROVE P!Next
    <2>1. P!StorePod(p)
      BY <1>1, <1>2
      DEF V1!StorePod, P!StorePod, V1!callVars, P!callVars, V1!lockVars, P!lockVars,
          V1!timerVars, P!timerVars, V1!apiVars, P!apiVars, Reads
    <2>2. QED
      BY <2>1 DEF P!Next
  <1>3. CASE V1!Tick
    <2>1. P!Tick
      BY <1>1, <1>3, SameOperators
      DEF V1!Tick, P!Tick, V1!callVars, P!callVars, V1!lockVars, P!lockVars,
          V1!apiVars, P!apiVars, Reads
    <2>2. QED
      BY <1>1, <2>1 DEF P!Next
  <1>4. ASSUME NEW e \in V1!Events, V1!Expire(e) PROVE P!Next
    <2>1. P!Expire(e)
      BY <1>1, <1>4
      DEF V1!Expire, P!Expire, V1!callVars, P!callVars, V1!lockVars, P!lockVars,
          V1!DelayElapsed, P!DelayElapsed, V1!Add, P!Add, V1!apiVars, P!apiVars, Reads
    <2>2. QED
      BY <2>1, SameOperators DEF P!Next
  <1>5. CASE V1!Crash
    <2>1. P!Crash
      BY <1>1, <1>5, DiesSame DEF V1!Crash, P!Crash, V1!apiVars, P!apiVars, Reads
    <2>2. QED
      BY <1>1, <2>1 DEF P!Next
  <1>6. CASE V1!StartAgain
    <2>1. P!StartAgain
      BY <1>1, <1>6
      DEF V1!StartAgain, P!StartAgain, V1!lockVars, P!lockVars, V1!timerVars,
          P!timerVars, V1!apiVars, P!apiVars, Reads
    <2>2. QED
      BY <1>1, <2>1 DEF P!Next
  <1>7. QED
    BY <1>1, <1>2, <1>3, <1>4, <1>5, <1>6

-----------------------------------------------------------------------------
(* The steps of the program.                                               *)

\* A write of V1 moves the version, and the transaction that V2 has open can no
\* longer be committed; the end of the process ends it.
LEMMA PodKept ==
  ASSUME Separate, Shared, Writes \/ Reads
  PROVE  /\ Separate' /\ ServicePart(config') = ServicePart(config)
         /\ UNCHANGED podVars => config' = config
  <1>1. ServicePart(config') = ServicePart(config)
    BY DEF Writes, Reads
  <1>2. Shape(config') /\ version' \in Nat /\ version <= version'
        /\ (version' = version => config' = config)
    BY DEF Separate, Writes, Reads
  <1>3. UNCHANGED podVars => config' = config
    BY DEF Writes, Reads, podVars
  <1>4. CASE UNCHANGED serviceVars
    <2>1. UNCHANGED <<tx, toDelete, serviceMappings>>
      BY <1>4 DEF serviceVars
    <2>2. TxCurrent' /\ MappingsApart'
      BY <1>2, <2>1 DEF Separate, TxCurrent, MappingsApart
    <2>3. QED
      BY <1>1, <1>2, <1>3, <2>2 DEF Separate
  <1>5. CASE V2!Forgets
    <2>1. tx' = [base |-> -1, cfg |-> V2!EmptyConfig] /\ Shape(V2!EmptyConfig)
      BY <1>5 DEF V2!Forgets, V2!NoTx, V2!EmptyConfig, Shape
    <2>2. TxCurrent'
      BY <1>2, <2>1 DEF TxCurrent
    <2>3. MappingsApart'
      BY <1>5 DEF V2!Forgets, MappingsApart
    <2>4. QED
      BY <1>1, <1>2, <1>3, <2>2, <2>3 DEF Separate
  <1>6. QED
    BY <1>4, <1>5 DEF Shared

\* A step of V1 or of the process, and a step of V2.
OfPod == P!Next /\ Shared /\ (Writes \/ Reads)
OfService == UNCHANGED podVars /\ Kept

\* Every step of the program is one or the other.
LEMMA Steps ==
  ASSUME Separate, Step
  PROVE  OfPod \/ OfService
  <1>1. CASE RunStep \/ PopStep
    BY <1>1, RunSteps DEF RunStep, PopStep, OfPod
  <1>2. ASSUME NEW r \in Requests, ArriveStep(r) \/ RequestStep(r) PROVE OfPod
    BY <1>2, RequestSteps DEF ArriveStep, RequestStep, OfPod
  <1>3. CASE StoreStep \/ TimerStep \/ CrashStep \/ StartAgainStep
    BY <1>3, AroundSteps DEF StoreStep, TimerStep, CrashStep, StartAgainStep, OfPod
  <1>4. CASE InformerStep \/ HandlerStep \/ WorkerStep \/ DelayStep
    BY <1>4, ServiceStep
    DEF InformerStep, HandlerStep, WorkerStep, DelayStep, OfService
  <1>5. QED
    BY <1>1, <1>2, <1>3, <1>4 DEF Step

\* At the start there is no transaction.
LEMMA StartSeparate == Start => Separate
  <1> SUFFICES ASSUME Start PROVE Separate
    OBVIOUS
  <1>1. /\ config = V1!EmptyConfig /\ version = 1
        /\ tx = V2!NoTx /\ toDelete = {} /\ serviceMappings = <<>>
    BY DEF Start, V1!Init, V2!Init
  <1>2. Shape(config) /\ Shape(V2!EmptyConfig)
    BY <1>1 DEF V1!EmptyConfig, V2!EmptyConfig, Shape
  <1>3. TxCurrent
    BY <1>1, <1>2 DEF V2!NoTx, TxCurrent
  <1>4. MappingsApart
    BY <1>1 DEF MappingsApart
  <1>5. QED
    BY <1>1, <1>2, <1>3, <1>4 DEF Separate

\* Separate is an invariant of the program.
LEMMA NextSeparate == Separate /\ [Step]_allVars => Separate'
  <1> SUFFICES ASSUME Separate, [Step]_allVars PROVE Separate'
    OBVIOUS
  <1>1. CASE Step
    BY <1>1, Steps, PodKept DEF OfPod, OfService, Kept
  <1>2. CASE UNCHANGED allVars
    BY <1>2, SameSeparate DEF allVars, serviceVars, Kept
  <1>3. QED
    BY <1>1, <1>2

\* The two controllers keep out of each other's objects, for every number of
\* Pods, Services, requests, faults and restarts: a step that leaves V1's state
\* alone leaves V1's part of the configuration alone, and the same for V2.
THEOREM ControllersAreIsolated == System => Isolated
  <1> DEFINE A == /\ UNCHANGED podVars => PodPart(config') = PodPart(config)
                  /\ UNCHANGED serviceVars =>
                       ServicePart(config') = ServicePart(config)
  <1>1. Separate /\ [Step]_allVars => [A]_allVars
    <2> SUFFICES ASSUME Separate, Step PROVE A
      OBVIOUS
    <2>1. CASE OfPod
      BY <2>1, PodKept DEF OfPod
    <2>2. CASE OfService
      BY <2>2 DEF OfService, Kept
    <2>3. QED
      BY <2>1, <2>2, Steps
  <1>2. QED
    BY <1>1, StartSeparate, NextSeparate, PTL DEF System, Isolated

-----------------------------------------------------------------------------
(* What holds of V1 alone holds with V2 beside it.                         *)

\* V1's part at the start.
LEMMA StartPod == Start => P!Init
  <1> SUFFICES ASSUME Start PROVE P!Init
    OBVIOUS
  <1>1. PodPart(V1!EmptyConfig) = P!EmptyConfig
    BY DEF PodPart, V1!EmptyConfig, P!EmptyConfig
  <1>2. QED
    BY <1>1, SameOperators DEF Start, V1!Init, V1!PodInit, P!Init, P!PodInit

\* V1's assumption on the constants, for V1 on its own part.
LEMMA PodAssumed == P!PodAssumption
  BY ProgramAssumption DEF V1!PodAssumption, P!PodAssumption

\* A step of V2 leaves V1's invariant alone.
LEMMA ServiceKeeps ==
  ASSUME P!SInv, UNCHANGED podVars, PodPart(config') = PodPart(config),
         version' \in Nat
  PROVE  P!SInv'
  BY DEF podVars, P!SInv, P!TInv, P!PodTypeOK, P!Served, P!Phases, P!Quiet, P!Servers

\* V1's invariant for its servers is kept by every step of the program,
LEMMA PodInvariant ==
  ASSUME ~EarlyRequests, ~FailedReads, Separate, P!SInv, [Step]_allVars
  PROVE  P!SInv'
  <1>1. CASE OfPod
    BY <1>1, PodAssumed, P!NextKept DEF OfPod
  <1>2. CASE OfService \/ UNCHANGED allVars
    <2>1. /\ UNCHANGED podVars /\ PodPart(config') = PodPart(config)
          /\ version' \in Nat
      BY <1>2 DEF OfService, Kept, Separate, allVars
    <2>2. QED
      BY <2>1, ServiceKeeps
  <1>3. QED
    BY <1>1, <1>2, Steps

\* V1's servers in HAProxy.
LEMMA SameInstalled ==
  V1!Installed = P!Installed /\ (V1!Mapped <=> P!Mapped)
  <1>1. V1!Installed = P!Installed
    BY Parts, SameNames DEF V1!Installed, P!Installed
  <1>2. QED
    BY <1>1, SameOperators DEF V1!Mapped, P!Mapped

\* V1's backend has one server, whatever V2 commits and however often the panics
\* of V1 that a commit causes end the process (no request comes before Run is
\* done and no read of the servers fails, as for V1 alone).
THEOREM OneServerBesideV2 ==
  ASSUME ~EarlyRequests, ~FailedReads
  PROVE  System => []OnePodServer
  <1>1. Start => Separate /\ P!SInv
    BY StartSeparate, StartPod, PodAssumed, P!InitServers
  <1>2. Separate /\ P!SInv /\ [Step]_allVars => (Separate /\ P!SInv)'
    BY NextSeparate, PodInvariant
  <1>3. P!SInv => OnePodServer
    <2>1. P!SInv => P!OneServer
      BY PodAssumed, P!InstalledAll
      DEF P!SInv, P!TInv, P!Servers, P!OneServer
    <2>2. P!OneServer => OnePodServer
      BY SameInstalled DEF P!OneServer, V1!OneServer, OnePodServer
    <2>3. QED
      BY <2>1, <2>2
  <1>4. QED
    BY <1>1, <1>2, <1>3, PTL DEF System

\* The primed form, for the steps.
LEMMA SameMappedNext == V1!Mapped' <=> P!Mapped'
  <1>1. V1!Installed' = P!Installed'
    BY Parts, SameNames DEF V1!Installed, P!Installed
  <1>2. QED
    BY <1>1, SameOperators DEF V1!Mapped, P!Mapped

\* and so is that for the time of a mapping.
LEMMA PodDue ==
  ASSUME ~EarlyRequests, ~FailedReads, \A q, r \in Requests : q = r,
         Separate, P!SInv, P!Due, [Step]_allVars
  PROVE  P!Due' /\ (V1!Mapped /\ ~V1!Mapped' => owed <= 0)
  <1>1. CASE OfPod
    <2>1. P!Due' /\ P!InTime
      BY <1>1, PodAssumed, P!NextDue DEF OfPod
    <2>2. QED
      BY <2>1, SameInstalled, SameMappedNext DEF P!InTime
  <1>2. CASE OfService \/ UNCHANGED allVars
    <2>1. UNCHANGED podVars /\ PodPart(config') = PodPart(config)
      BY <1>2 DEF OfService, Kept, allVars
    <2>2. P!Due'
      BY <2>1 DEF podVars, P!Due, P!Unused
    <2>3. P!Mapped' <=> P!Mapped
      BY <2>1 DEF P!Mapped, P!Installed
    <2>4. QED
      BY <2>2, <2>3, SameInstalled, SameMappedNext
  <1>3. QED
    BY <1>1, <1>2, Steps

\* The Pod of a lone request stays as long as it asked for, whatever V2 commits,
\* whatever fails and however often the process ends.
THEOREM PodIsNeverEarly ==
  ASSUME ~EarlyRequests, ~FailedReads, \A q, r \in Requests : q = r
  PROVE  System => PodNeverEarly
  <1> DEFINE Inv == Separate /\ P!SInv /\ P!Due
  <1>1. Start => Inv
    BY StartSeparate, StartPod, PodAssumed, P!InitServers, P!InitDue
  <1>2. Inv /\ [Step]_allVars => Inv'
    BY NextSeparate, PodInvariant, PodDue
  <1>3. Inv /\ [Step]_allVars => [V1!Mapped /\ ~V1!Mapped' => owed <= 0]_allVars
    BY PodDue
  <1>4. QED
    BY <1>1, <1>2, <1>3, PTL DEF System, PodNeverEarly
=============================================================================
