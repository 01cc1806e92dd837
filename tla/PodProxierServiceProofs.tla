----------------------- MODULE PodProxierServiceProofs -----------------------
(***************************************************************************)
(* Proofs about V2 in the program. V2 sees of the configuration, and of    *)
(* its open transaction, the part that is not V1's; seen that way, every   *)
(* step of V2 is a step of V2 alone, a step of V1 moves the version at     *)
(* most, and what ServiceControllerProofs proves of V2's ports holds with  *)
(* V1 beside it.                                                           *)
(***************************************************************************)
EXTENDS PodProxierProofs

\* V2's part of a transaction.
ServiceTx(t) == [base |-> t.base, cfg |-> ServicePart(t.cfg)]

\* V2 on its own part of the configuration.
Q == INSTANCE ServicePendingProofs WITH config <- ServicePart(config),
                                        tx <- ServiceTx(tx)

-----------------------------------------------------------------------------
(* V2's requests have on V2's part of a configuration the effect and the   *)
(* answer that they have on the whole.                                     *)

Alike(r, q) == q.err = r.err /\ q.cfg = ServicePart(r.cfg)

\* The answers are read alike.
LEMMA ServiceErrors ==
  ASSUME NEW t, NEW k
  PROVE  /\ Q!handleError(t, k) = V2!handleError(t, k)
         /\ V1!handleError(t, k) = V2!handleError(t, k)
  BY DEF V1!handleError, V2!handleError, Q!handleError, V1!LogText, V2!LogText,
         Q!LogText, V1!NoError, V2!NoError, Q!NoError, V1!PayloadTypes,
         V2!PayloadTypes, Q!PayloadTypes

\* One request with one answer.
LEMMA RequestAlike ==
  ASSUME NEW t, NEW c, NEW code, NEW c2, NEW o
  PROVE  Alike(V2!Request(t, c, code, c2, o),
               Q!Request(t, ServicePart(c), code, ServicePart(c2), o))
  <1> DEFINE r == V2!Request(t, c, code, c2, o)
             q == Q!Request(t, ServicePart(c), code, ServicePart(c2), o)
             k == IF o = "ok" THEN code ELSE -1
  <1>1. /\ r.err = V2!handleError(t, k).err
        /\ r.cfg = IF o = "refused" THEN c ELSE c2
    BY DEF V2!Request, V2!NoAnswer
  <1>2. /\ q.err = Q!handleError(t, k).err
        /\ q.cfg = IF o = "refused" THEN ServicePart(c) ELSE ServicePart(c2)
    BY DEF Q!Request, Q!NoAnswer
  <1> HIDE DEF r, q, k
  <1>3. Alike(r, q)
    BY <1>1, <1>2, ServiceErrors DEF Alike
  <1>4. QED
    BY <1>3 DEF r, q

\* Both refusals of a request for a server or a bind read alike.
LEMMA RefusedAlike ==
  ASSUME NEW t \in Pointers, NEW c, NEW o, NEW k \in Refusals, NEW l \in Refusals
  PROVE  Alike(V2!Request(t, c, k, c, o),
               Q!Request(t, ServicePart(c), l, ServicePart(c), o))
  <1> DEFINE r == V2!Request(t, c, k, c, o)
             q == Q!Request(t, ServicePart(c), l, ServicePart(c), o)
  <1>1. r.cfg = c /\ q.cfg = ServicePart(c)
    BY DEF V2!Request, Q!Request
  <1>2. q.err = r.err
    <2>1. CASE o = "ok"
      <3>1. r.err = V2!handleError(t, k).err
        BY <2>1 DEF V2!Request
      <3>2. q.err = Q!handleError(t, l).err
        BY <2>1 DEF Q!Request
      <3>3. V1!handleError(t, k).err = "" /\ V1!handleError(t, l).err = ""
        BY RefusalText
      <3> HIDE DEF r, q
      <3>4. QED
        BY <3>1, <3>2, <3>3, ServiceErrors
    <2>2. CASE o # "ok"
      <3>1. r.err = V2!handleError(t, -1).err
        BY <2>2 DEF V2!Request, V2!NoAnswer
      <3>2. q.err = Q!handleError(t, -1).err
        BY <2>2 DEF Q!Request, Q!NoAnswer
      <3> HIDE DEF r, q
      <3>3. QED
        BY <3>1, <3>2, ServiceErrors
    <2>3. QED
      BY <2>1, <2>2
  <1> HIDE DEF r, q
  <1>3. Alike(r, q)
    BY <1>1, <1>2 DEF Alike
  <1>4. QED
    BY <1>3 DEF r, q

\* The objects of V2's part,
LEMMA ServiceParts ==
  ASSUME NEW c
  PROVE  /\ Shape(ServicePart(c))
         /\ ServicePart(c).backends = c.backends \ {V1!Backend}
         /\ ServicePart(c).servers = {s \in c.servers : s.backend # V1!Backend}
         /\ ServicePart(c).frontends = {f \in c.frontends : f.name # V1!Frontend}
         /\ ServicePart(c).binds = {b \in c.binds : b.frontend # V1!Frontend}
  BY Shaped DEF ServicePart

\* and V2's part of a configuration, object by object.
LEMMA ServicePartIs ==
  ASSUME NEW c, NEW d, Shape(d),
         d.backends = c.backends \ {V1!Backend},
         \A s : s \in d.servers <=> s \in c.servers /\ s.backend # V1!Backend,
         \A f : f \in d.frontends <=> f \in c.frontends /\ f.name # V1!Frontend,
         \A x : x \in d.binds <=> x \in c.binds /\ x.frontend # V1!Frontend
  PROVE  d = ServicePart(c)
  <1>1. /\ d.servers = {s \in c.servers : s.backend # V1!Backend}
        /\ d.frontends = {f \in c.frontends : f.name # V1!Frontend}
        /\ d.binds = {x \in c.binds : x.frontend # V1!Frontend}
    OBVIOUS
  <1>2. QED
    BY <1>1 DEF ServicePart, Shape

\* A change of V2's objects of one kind, in the whole and in V2's part: of the
\* backends,
LEMMA PartBackends ==
  ASSUME NEW c, Shape(c), NEW S, NEW T, T = S \ {V1!Backend}
  PROVE  [ServicePart(c) EXCEPT !.backends = T]
           = ServicePart([c EXCEPT !.backends = S])
  <1> DEFINE e == ServicePart(c)
             d1 == [e EXCEPT !.backends = T]
             c1 == [c EXCEPT !.backends = S]
  <1>0. Shape(e)
    BY ServiceParts
  <1>1. /\ e.backends = c.backends \ {V1!Backend}
        /\ \A s : s \in e.servers <=> s \in c.servers /\ s.backend # V1!Backend
        /\ \A f : f \in e.frontends <=> f \in c.frontends /\ f.name # V1!Frontend
        /\ \A x : x \in e.binds <=> x \in c.binds /\ x.frontend # V1!Frontend
    BY ServiceParts
  <1> HIDE DEF e
  <1>2. d1 = [backends |-> T, servers |-> e.servers, frontends |-> e.frontends,
              binds |-> e.binds]
    BY <1>0, Excepts
  <1>3. c1 = [backends |-> S, servers |-> c.servers, frontends |-> c.frontends,
              binds |-> c.binds]
    BY Excepts
  <1> HIDE DEF c1, d1
  <1>4. d1 = ServicePart(c1)
    BY <1>1, <1>2, <1>3, Shaped, ServicePartIs
  <1>5. QED
    BY <1>4 DEF c1, d1, e

\* the servers,
LEMMA PartServers ==
  ASSUME NEW c, Shape(c), NEW S, NEW T, T = {s \in S : s.backend # V1!Backend}
  PROVE  [ServicePart(c) EXCEPT !.servers = T]
           = ServicePart([c EXCEPT !.servers = S])
  <1> DEFINE e == ServicePart(c)
             d1 == [e EXCEPT !.servers = T]
             c1 == [c EXCEPT !.servers = S]
  <1>0. Shape(e)
    BY ServiceParts
  <1>1. /\ e.backends = c.backends \ {V1!Backend}
        /\ \A s : s \in e.servers <=> s \in c.servers /\ s.backend # V1!Backend
        /\ \A f : f \in e.frontends <=> f \in c.frontends /\ f.name # V1!Frontend
        /\ \A x : x \in e.binds <=> x \in c.binds /\ x.frontend # V1!Frontend
    BY ServiceParts
  <1> HIDE DEF e
  <1>2. d1 = [backends |-> e.backends, servers |-> T, frontends |-> e.frontends,
              binds |-> e.binds]
    BY <1>0, Excepts
  <1>3. c1 = [backends |-> c.backends, servers |-> S, frontends |-> c.frontends,
              binds |-> c.binds]
    BY Excepts
  <1> HIDE DEF c1, d1
  <1>4. d1 = ServicePart(c1)
    BY <1>1, <1>2, <1>3, Shaped, ServicePartIs
  <1>5. QED
    BY <1>4 DEF c1, d1, e

\* the frontends,
LEMMA PartFrontends ==
  ASSUME NEW c, Shape(c), NEW S, NEW T, T = {f \in S : f.name # V1!Frontend}
  PROVE  [ServicePart(c) EXCEPT !.frontends = T]
           = ServicePart([c EXCEPT !.frontends = S])
  <1> DEFINE e == ServicePart(c)
             d1 == [e EXCEPT !.frontends = T]
             c1 == [c EXCEPT !.frontends = S]
  <1>0. Shape(e)
    BY ServiceParts
  <1>1. /\ e.backends = c.backends \ {V1!Backend}
        /\ \A s : s \in e.servers <=> s \in c.servers /\ s.backend # V1!Backend
        /\ \A f : f \in e.frontends <=> f \in c.frontends /\ f.name # V1!Frontend
        /\ \A x : x \in e.binds <=> x \in c.binds /\ x.frontend # V1!Frontend
    BY ServiceParts
  <1> HIDE DEF e
  <1>2. d1 = [backends |-> e.backends, servers |-> e.servers, frontends |-> T,
              binds |-> e.binds]
    BY <1>0, Excepts
  <1>3. c1 = [backends |-> c.backends, servers |-> c.servers, frontends |-> S,
              binds |-> c.binds]
    BY Excepts
  <1> HIDE DEF c1, d1
  <1>4. d1 = ServicePart(c1)
    BY <1>1, <1>2, <1>3, Shaped, ServicePartIs
  <1>5. QED
    BY <1>4 DEF c1, d1, e

\* and the binds.
LEMMA PartBinds ==
  ASSUME NEW c, Shape(c), NEW S, NEW T, T = {x \in S : x.frontend # V1!Frontend}
  PROVE  [ServicePart(c) EXCEPT !.binds = T]
           = ServicePart([c EXCEPT !.binds = S])
  <1> DEFINE e == ServicePart(c)
             d1 == [e EXCEPT !.binds = T]
             c1 == [c EXCEPT !.binds = S]
  <1>0. Shape(e)
    BY ServiceParts
  <1>1. /\ e.backends = c.backends \ {V1!Backend}
        /\ \A s : s \in e.servers <=> s \in c.servers /\ s.backend # V1!Backend
        /\ \A f : f \in e.frontends <=> f \in c.frontends /\ f.name # V1!Frontend
        /\ \A x : x \in e.binds <=> x \in c.binds /\ x.frontend # V1!Frontend
    BY ServiceParts
  <1> HIDE DEF e
  <1>2. d1 = [backends |-> e.backends, servers |-> e.servers, frontends |-> e.frontends,
              binds |-> T]
    BY <1>0, Excepts
  <1>3. c1 = [backends |-> c.backends, servers |-> c.servers, frontends |-> c.frontends,
              binds |-> S]
    BY Excepts
  <1> HIDE DEF c1, d1
  <1>4. d1 = ServicePart(c1)
    BY <1>1, <1>2, <1>3, Shaped, ServicePartIs
  <1>5. QED
    BY <1>4 DEF c1, d1, e

\* What exists in one exists in the other: backends and servers,
LEMMA BackendChecks ==
  ASSUME NEW c, NEW b, b # V1!Backend
  PROVE  /\ b \in ServicePart(c).backends <=> b \in c.backends
         /\ \A n : Q!HasServer(ServicePart(c), b, n) <=> V2!HasServer(c, b, n)
  BY ServiceParts DEF V2!HasServer, Q!HasServer

\* frontends and binds.
LEMMA FrontendChecks ==
  ASSUME NEW c, NEW f, f # V1!Frontend
  PROVE  /\ Q!HasFrontend(ServicePart(c), f) <=> V2!HasFrontend(c, f)
         /\ \A n : (\E x \in ServicePart(c).binds : x.frontend = f /\ x.name = n)
                     <=> (\E x \in c.binds : x.frontend = f /\ x.name = n)
  BY ServiceParts DEF V2!HasFrontend, Q!HasFrontend

\* EnsureBackend and EnsureFrontend,
LEMMA EnsureAlike ==
  ASSUME NEW c, NEW b, b # V1!Backend, NEW f, f # V1!Frontend, NEW o
  PROVE  /\ Q!EnsureBackend(ServicePart(c), b, o) = V2!EnsureBackend(c, b, o)
         /\ Q!EnsureFrontend(ServicePart(c), f, o) = V2!EnsureFrontend(c, f, o)
  <1>1. ASSUME NEW code
        PROVE  Q!Request("string", ServicePart(c), code, ServicePart(c), o).exist
                 = V2!Request("string", c, code, c, o).exist
    <2> DEFINE k == IF o = "ok" THEN code ELSE -1
    <2>1. /\ Q!Request("string", ServicePart(c), code, ServicePart(c), o).exist
               = Q!handleError("string", k).exist
          /\ V2!Request("string", c, code, c, o).exist
               = V2!handleError("string", k).exist
      BY DEF V2!Request, V2!NoAnswer, Q!Request, Q!NoAnswer
    <2> HIDE DEF k
    <2>2. QED
      BY <2>1, ServiceErrors
  <1>2. QED
    BY <1>1, BackendChecks, FrontendChecks
    DEF V2!EnsureBackend, Q!EnsureBackend, V2!EnsureFrontend, Q!EnsureFrontend

\* the requests on backends,
LEMMA BackendAlike ==
  ASSUME NEW c, Shape(c), NEW b, b # V1!Backend, NEW o
  PROVE  /\ Alike(V2!AddBackend(c, b, o), Q!AddBackend(ServicePart(c), b, o))
         /\ Alike(V2!ReplaceBackend(c, b, o), Q!ReplaceBackend(ServicePart(c), b, o))
         /\ Alike(V2!DeleteBackend(c, b, o), Q!DeleteBackend(ServicePart(c), b, o))
  <1> DEFINE e == ServicePart(c)
             S == c.backends \cup {b}
             T == e.backends \cup {b}
             c1 == [c EXCEPT !.backends = S]
             d1 == [e EXCEPT !.backends = T]
             U == c.backends \ {b}
             V == e.backends \ {b}
             X == {s \in c.servers : s.backend # b}
             Y == {s \in e.servers : s.backend # b}
             c2 == [c EXCEPT !.backends = U, !.servers = X]
             d2 == [e EXCEPT !.backends = V, !.servers = Y]
  <1>1. b \in e.backends <=> b \in c.backends
    BY BackendChecks
  <1>2. d1 = ServicePart(c1)
    <2>1. T = S \ {V1!Backend}
      BY ServiceParts
    <2> HIDE DEF S, T
    <2>2. QED
      BY <2>1, PartBackends
  <1>3. d2 = ServicePart(c2)
    <2>1. V = U \ {V1!Backend} /\ \A s : s \in Y <=> s \in X /\ s.backend # V1!Backend
      BY ServiceParts
    <2>2. /\ \A f : f \in e.frontends <=> f \in c.frontends /\ f.name # V1!Frontend
          /\ \A x : x \in e.binds <=> x \in c.binds /\ x.frontend # V1!Frontend
          /\ Shape(e)
      BY ServiceParts
    <2> HIDE DEF e, U, V, X, Y
    <2>3. /\ c2 = [backends |-> U, servers |-> X, frontends |-> c.frontends,
                   binds |-> c.binds]
          /\ d2 = [backends |-> V, servers |-> Y, frontends |-> e.frontends,
                   binds |-> e.binds]
      BY <2>2, BackendExcepts
    <2> HIDE DEF c2, d2
    <2>4. QED
      BY <2>1, <2>2, <2>3, Shaped, ServicePartIs
  <1>4. Alike(V2!AddBackend(c, b, o), Q!AddBackend(e, b, o))
    <2>1. CASE b \in c.backends
      BY <1>1, <2>1, RequestAlike DEF V2!AddBackend, Q!AddBackend
    <2>2. CASE b \notin c.backends
      <3>1. Alike(V2!Request("*Backend", c, 201, c1, o),
                  Q!Request("*Backend", e, 201, d1, o))
        BY <1>2, RequestAlike
      <3>2. QED
        BY <1>1, <2>2, <3>1 DEF V2!AddBackend, Q!AddBackend
    <2>3. QED
      BY <2>1, <2>2
  <1>5. Alike(V2!ReplaceBackend(c, b, o), Q!ReplaceBackend(e, b, o))
    BY <1>1, RequestAlike DEF V2!ReplaceBackend, Q!ReplaceBackend
  <1>6. Alike(V2!DeleteBackend(c, b, o), Q!DeleteBackend(e, b, o))
    <2>1. CASE b \notin c.backends
      BY <1>1, <2>1, RequestAlike DEF V2!DeleteBackend, Q!DeleteBackend
    <2>2. CASE b \in c.backends
      <3>1. Alike(V2!Request("string", c, 204, c2, o), Q!Request("string", e, 204, d2, o))
        BY <1>3, RequestAlike
      <3>2. QED
        BY <1>1, <2>2, <3>1 DEF V2!DeleteBackend, Q!DeleteBackend
    <2>3. QED
      BY <2>1, <2>2
  <1>7. QED
    BY <1>4, <1>5, <1>6

\* on servers,
LEMMA ServerAlike ==
  ASSUME NEW c, Shape(c), NEW b, b # V1!Backend, NEW n, NEW addr, NEW old, NEW o
  PROVE  /\ Alike(V2!AddServerToBackend(c, b, n, addr, o),
                  Q!AddServerToBackend(ServicePart(c), b, n, addr, o))
         /\ Alike(V2!ReplaceServerFromBackend(c, b, old, n, addr, o),
                  Q!ReplaceServerFromBackend(ServicePart(c), b, old, n, addr, o))
  <1> DEFINE e == ServicePart(c)
             new == [backend |-> b, name |-> n, addr |-> addr]
             keep(s) == ~(s.backend = b /\ s.name = old)
             S == c.servers \cup {new}
             T == e.servers \cup {new}
             U == {s \in c.servers : keep(s)} \cup {new}
             V == {s \in e.servers : keep(s)} \cup {new}
             c1 == [c EXCEPT !.servers = S]
             d1 == [e EXCEPT !.servers = T]
             c2 == [c EXCEPT !.servers = U]
             d2 == [e EXCEPT !.servers = V]
  <1>1. /\ b \in e.backends <=> b \in c.backends
        /\ \A m : Q!HasServer(e, b, m) <=> V2!HasServer(c, b, m)
    BY BackendChecks
  <1>2. d1 = ServicePart(c1) /\ d2 = ServicePart(c2)
    <2>1. new.backend # V1!Backend
      OBVIOUS
    <2> HIDE DEF new, keep
    <2>2. /\ T = {s \in S : s.backend # V1!Backend}
          /\ V = {s \in U : s.backend # V1!Backend}
      BY <2>1, ServiceParts
    <2> HIDE DEF e, S, T, U, V
    <2>3. d1 = ServicePart(c1)
      BY <2>2, PartServers DEF e
    <2>4. d2 = ServicePart(c2)
      BY <2>2, PartServers DEF e
    <2>5. QED
      BY <2>3, <2>4
  <1>3. Alike(V2!AddServerToBackend(c, b, n, addr, o),
              Q!AddServerToBackend(e, b, n, addr, o))
    <2> DEFINE r == V2!AddServerToBackend(c, b, n, addr, o)
               q == Q!AddServerToBackend(e, b, n, addr, o)
               no == b \notin c.backends \/ V2!HasServer(c, b, n)
    <2>1. CASE no
      <3>1. PICK k \in Refusals : r = V2!Request("*Server", c, k, c, o)
        BY <2>1 DEF Refusals, V2!AddServerToBackend
      <3>2. PICK l \in Refusals : q = Q!Request("*Server", e, l, e, o)
        BY <1>1, <2>1 DEF Refusals, Q!AddServerToBackend
      <3> HIDE DEF r, q
      <3>3. Alike(r, q)
        BY <3>1, <3>2, RefusedAlike DEF Pointers
      <3>4. QED
        BY <3>3 DEF r, q
    <2>2. CASE ~no
      <3>1. Alike(V2!Request("*Server", c, 201, c1, o),
                  Q!Request("*Server", e, 201, d1, o))
        BY <1>2, RequestAlike
      <3>2. r = V2!Request("*Server", c, 201, c1, o)
        BY <2>2 DEF V2!AddServerToBackend
      <3>3. q = Q!Request("*Server", e, 201, d1, o)
        BY <1>1, <2>2 DEF Q!AddServerToBackend
      <3> HIDE DEF r, q, c1, d1
      <3>4. Alike(r, q)
        BY <3>1, <3>2, <3>3
      <3>5. QED
        BY <3>4 DEF r, q
    <2>3. QED
      BY <2>1, <2>2
  <1>4. Alike(V2!ReplaceServerFromBackend(c, b, old, n, addr, o),
              Q!ReplaceServerFromBackend(e, b, old, n, addr, o))
    <2> DEFINE r == V2!ReplaceServerFromBackend(c, b, old, n, addr, o)
               q == Q!ReplaceServerFromBackend(e, b, old, n, addr, o)
               no == \/ ~V2!HasServer(c, b, old)
                     \/ old # n /\ V2!HasServer(c, b, n)
    <2>1. CASE no
      <3>1. PICK k \in Refusals : r = V2!Request("*Server", c, k, c, o)
        BY <2>1 DEF Refusals, V2!ReplaceServerFromBackend
      <3>2. PICK l \in Refusals : q = Q!Request("*Server", e, l, e, o)
        BY <1>1, <2>1 DEF Refusals, Q!ReplaceServerFromBackend
      <3> HIDE DEF r, q
      <3>3. Alike(r, q)
        BY <3>1, <3>2, RefusedAlike DEF Pointers
      <3>4. QED
        BY <3>3 DEF r, q
    <2>2. CASE ~no
      <3>1. Alike(V2!Request("*Server", c, 200, c2, o),
                  Q!Request("*Server", e, 200, d2, o))
        BY <1>2, RequestAlike
      <3>2. r = V2!Request("*Server", c, 200, c2, o)
        BY <2>2 DEF V2!ReplaceServerFromBackend
      <3>3. q = Q!Request("*Server", e, 200, d2, o)
        BY <1>1, <2>2 DEF Q!ReplaceServerFromBackend
      <3> HIDE DEF r, q, c2, d2
      <3>4. Alike(r, q)
        BY <3>1, <3>2, <3>3
      <3>5. QED
        BY <3>4 DEF r, q
    <2>3. QED
      BY <2>1, <2>2
  <1>5. QED
    BY <1>3, <1>4

\* on frontends,
LEMMA FrontendAlike ==
  ASSUME NEW c, Shape(c), NEW f, f # V1!Frontend, NEW b, NEW o
  PROVE  /\ Alike(V2!AddFrontend(c, f, b, o), Q!AddFrontend(ServicePart(c), f, b, o))
         /\ Alike(V2!ReplaceFrontend(c, f, b, o),
                  Q!ReplaceFrontend(ServicePart(c), f, b, o))
         /\ Alike(V2!DeleteFrontend(c, f, o), Q!DeleteFrontend(ServicePart(c), f, o))
  <1> DEFINE e == ServicePart(c)
             new == [name |-> f, backend |-> b]
             S == c.frontends \cup {new}
             T == e.frontends \cup {new}
             U == {x \in c.frontends : x.name # f}
             V == {x \in e.frontends : x.name # f}
             X == {x \in c.binds : x.frontend # f}
             Y == {x \in e.binds : x.frontend # f}
             c1 == [c EXCEPT !.frontends = S]
             d1 == [e EXCEPT !.frontends = T]
             c2 == [c EXCEPT !.frontends = U \cup {new}]
             d2 == [e EXCEPT !.frontends = V \cup {new}]
             c3 == [c EXCEPT !.frontends = U, !.binds = X]
             d3 == [e EXCEPT !.frontends = V, !.binds = Y]
  <1>1. Q!HasFrontend(e, f) <=> V2!HasFrontend(c, f)
    BY FrontendChecks
  <1>2. d1 = ServicePart(c1) /\ d2 = ServicePart(c2)
    <2>1. new.name # V1!Frontend
      OBVIOUS
    <2> HIDE DEF new
    <2>2. /\ T = {x \in S : x.name # V1!Frontend}
          /\ V \cup {new} = {x \in U \cup {new} : x.name # V1!Frontend}
      BY <2>1, ServiceParts
    <2> HIDE DEF e, S, T, U, V
    <2>3. d1 = ServicePart(c1)
      BY <2>2, PartFrontends DEF e
    <2>4. d2 = ServicePart(c2)
      BY <2>2, PartFrontends DEF e
    <2>5. QED
      BY <2>3, <2>4
  <1>3. d3 = ServicePart(c3)
    <2>1. /\ \A x : x \in V <=> x \in U /\ x.name # V1!Frontend
          /\ \A x : x \in Y <=> x \in X /\ x.frontend # V1!Frontend
      BY ServiceParts
    <2>2. /\ e.backends = c.backends \ {V1!Backend}
          /\ \A x : x \in e.servers <=> x \in c.servers /\ x.backend # V1!Backend
          /\ Shape(e)
      BY ServiceParts
    <2> HIDE DEF e, U, V, X, Y
    <2>3. /\ c3 = [backends |-> c.backends, servers |-> c.servers, frontends |-> U,
                   binds |-> X]
          /\ d3 = [backends |-> e.backends, servers |-> e.servers, frontends |-> V,
                   binds |-> Y]
      BY <2>2, FrontendExcepts
    <2> HIDE DEF c3, d3
    <2>4. QED
      BY <2>1, <2>2, <2>3, Shaped, ServicePartIs
  <1>4. Alike(V2!AddFrontend(c, f, b, o), Q!AddFrontend(e, f, b, o))
    <2>1. CASE V2!HasFrontend(c, f)
      BY <1>1, <2>1, RequestAlike DEF V2!AddFrontend, Q!AddFrontend
    <2>2. CASE ~V2!HasFrontend(c, f)
      <3>1. Alike(V2!Request("*Frontend", c, 201, c1, o),
                  Q!Request("*Frontend", e, 201, d1, o))
        BY <1>2, RequestAlike
      <3>2. QED
        BY <1>1, <2>2, <3>1 DEF V2!AddFrontend, Q!AddFrontend
    <2>3. QED
      BY <2>1, <2>2
  <1>5. Alike(V2!ReplaceFrontend(c, f, b, o), Q!ReplaceFrontend(e, f, b, o))
    <2>1. CASE ~V2!HasFrontend(c, f)
      BY <1>1, <2>1, RequestAlike DEF V2!ReplaceFrontend, Q!ReplaceFrontend
    <2>2. CASE V2!HasFrontend(c, f)
      <3>1. Alike(V2!Request("*Frontend", c, 200, c2, o),
                  Q!Request("*Frontend", e, 200, d2, o))
        BY <1>2, RequestAlike
      <3>2. QED
        BY <1>1, <2>2, <3>1 DEF V2!ReplaceFrontend, Q!ReplaceFrontend
    <2>3. QED
      BY <2>1, <2>2
  <1>6. Alike(V2!DeleteFrontend(c, f, o), Q!DeleteFrontend(e, f, o))
    <2>1. CASE ~V2!HasFrontend(c, f)
      BY <1>1, <2>1, RequestAlike DEF V2!DeleteFrontend, Q!DeleteFrontend
    <2>2. CASE V2!HasFrontend(c, f)
      <3>1. Alike(V2!Request("string", c, 204, c3, o), Q!Request("string", e, 204, d3, o))
        BY <1>3, RequestAlike
      <3>2. QED
        BY <1>1, <2>2, <3>1 DEF V2!DeleteFrontend, Q!DeleteFrontend
    <2>3. QED
      BY <2>1, <2>2
  <1>7. QED
    BY <1>4, <1>5, <1>6

\* and on binds.
LEMMA BindAlike ==
  ASSUME NEW c, Shape(c), NEW f, f # V1!Frontend, NEW n, NEW port, NEW o
  PROVE  Alike(V2!AddBind(c, f, n, port, o), Q!AddBind(ServicePart(c), f, n, port, o))
  <1> DEFINE e == ServicePart(c)
             new == [frontend |-> f, name |-> n, port |-> port]
             S == c.binds \cup {new}
             T == e.binds \cup {new}
             c1 == [c EXCEPT !.binds = S]
             d1 == [e EXCEPT !.binds = T]
             has(d) == \E x \in d.binds : x.frontend = f /\ x.name = n
             no == ~V2!HasFrontend(c, f) \/ has(c)
             r == V2!AddBind(c, f, n, port, o)
             q == Q!AddBind(e, f, n, port, o)
  <1>1. (Q!HasFrontend(e, f) <=> V2!HasFrontend(c, f)) /\ (has(e) <=> has(c))
    BY FrontendChecks
  <1>2. d1 = ServicePart(c1)
    <2>1. new.frontend # V1!Frontend
      OBVIOUS
    <2> HIDE DEF new
    <2>2. T = {x \in S : x.frontend # V1!Frontend}
      BY <2>1, ServiceParts
    <2> HIDE DEF e, S, T
    <2>3. QED
      BY <2>2, PartBinds DEF e
  <1>3. CASE no
    <2>1. PICK k \in Refusals : r = V2!Request("*Bind", c, k, c, o)
      BY <1>3 DEF Refusals, V2!AddBind
    <2>2. PICK l \in Refusals : q = Q!Request("*Bind", e, l, e, o)
      BY <1>1, <1>3 DEF Refusals, Q!AddBind
    <2> HIDE DEF r, q
    <2>3. QED
      BY <2>1, <2>2, RefusedAlike DEF Pointers, r, q
  <1>4. CASE ~no
    <2>1. Alike(V2!Request("*Bind", c, 201, c1, o), Q!Request("*Bind", e, 201, d1, o))
      BY <1>2, RequestAlike
    <2>2. r = V2!Request("*Bind", c, 201, c1, o)
      BY <1>4 DEF V2!AddBind
    <2>3. q = Q!Request("*Bind", e, 201, d1, o)
      BY <1>1, <1>4 DEF Q!AddBind
    <2> HIDE DEF c1, d1
    <2>4. QED
      BY <2>1, <2>2, <2>3
  <1>5. QED
    BY <1>3, <1>4

-----------------------------------------------------------------------------
(* V2's steps: seen in V2's part, each is the step of V2 alone.            *)

\* The operators that name no variable of the configuration are the same,
LEMMA SameQueue ==
  /\ \A q, k : Q!Add(q, k) = V2!Add(q, k)
  /\ \A q : Q!Get(q) = V2!Get(q)
  /\ \A q, k : Q!Done(q, k) = V2!Done(q, k)
  /\ \A q, k : Q!AddDelayed(q, k) = V2!AddDelayed(q, k)
  /\ \A q, k : Q!DelayElapsed(q, k) = V2!DelayElapsed(q, k)
  /\ Q!EmptyQueue = V2!EmptyQueue
  BY DEF Q!Add, V2!Add, Q!Get, V2!Get, Q!Done, V2!Done, Q!AddDelayed, V2!AddDelayed,
         Q!DelayElapsed, V2!DelayElapsed, Q!EmptyQueue, V2!EmptyQueue

\* and so are the fates, the versions and the count of faults.
LEMMA SameFates ==
  /\ Q!Fates = V2!Fates /\ Q!ReadFates = V2!ReadFates
  /\ \A o : Q!Cost(o) = V2!Cost(o)
  /\ \A n : Q!Spend(n) <=> V2!Spend(n)
  /\ \A v, o : Q!getVersion(v, o) = V2!getVersion(v, o)
  /\ \A v, s, o : Q!StartTransaction(v, s, o) <=> V2!StartTransaction(v, s, o)
  BY DEF Q!Fates, V2!Fates, Q!ReadFates, V2!ReadFates, Q!Cost, V2!Cost, Q!Spend,
         V2!Spend, Q!getVersion, V2!getVersion, Q!StartTransaction,
         V2!StartTransaction

\* The informer, the handlers and the delays,
LEMMA AroundAlike ==
  /\ V2!Informer => Q!Informer
  /\ V2!Handlers => Q!Handlers
  /\ V2!Delays => Q!Delays
  <1>1. ASSUME NEW s, NEW o, NEW type, V2!Store(s, o, type)
        PROVE  Q!Store(s, o, type)
    BY <1>1 DEF V2!Store, Q!Store, V2!memoryVars, Q!memoryVars, V2!batchVars,
                Q!batchVars, V2!serviceVars, Q!serviceVars, V2!txVars, Q!txVars,
                V2!apiVars, Q!apiVars
  <1>2. ASSUME NEW s, V2!StoreResync(s) PROVE Q!StoreResync(s)
    BY <1>2 DEF V2!StoreResync, Q!StoreResync, V2!memoryVars, Q!memoryVars,
                V2!batchVars, Q!batchVars, V2!serviceVars, Q!serviceVars, V2!txVars,
                Q!txVars, V2!apiVars, Q!apiVars
  <1>3. V2!Informer => Q!Informer
    BY <1>1, <1>2 DEF V2!Informer, Q!Informer, V2!StoreAdd, Q!StoreAdd,
                      V2!StoreUpdate, Q!StoreUpdate, V2!StoreDelete, Q!StoreDelete
  <1>4. V2!Handled => Q!Handled
    BY DEF V2!Handled, Q!Handled, V2!memoryVars, Q!memoryVars, V2!batchVars,
           Q!batchVars, V2!serviceVars, Q!serviceVars, V2!txVars, Q!txVars,
           V2!apiVars, Q!apiVars
  <1>5. V2!Handlers => Q!Handlers
    BY <1>4, SameQueue
    DEF V2!Handlers, Q!Handlers, V2!handleServiceAdd, Q!handleServiceAdd,
        V2!handleServiceUpdate, Q!handleServiceUpdate, V2!handleServiceDelete,
        Q!handleServiceDelete
  <1>6. V2!Delays => Q!Delays
    BY SameQueue
    DEF V2!Delays, Q!Delays, V2!RetryDelayElapsed, Q!RetryDelayElapsed,
        V2!informerVars, Q!informerVars, V2!memoryVars, Q!memoryVars, V2!batchVars,
        Q!batchVars, V2!serviceVars, Q!serviceVars, V2!txVars, Q!txVars, V2!apiVars,
        Q!apiVars
  <1>7. QED
    BY <1>3, <1>5, <1>6

\* the worker's steps that send no request,
LEMMA QuietAlike ==
  /\ V2!CacheSynced => Q!CacheSynced
  /\ V2!GetFirst => Q!GetFirst
  /\ V2!GetNext => Q!GetNext
  /\ V2!BatchCollected => Q!BatchCollected
  /\ V2!SyncDeleted => Q!SyncDeleted
  /\ V2!SyncIgnored => Q!SyncIgnored
  /\ V2!SyncPresent => Q!SyncPresent
  /\ V2!SyncDone => Q!SyncDone
  /\ V2!PortsDone => Q!PortsDone
  /\ V2!SkipPort => Q!SkipPort
  /\ V2!allocatePort => Q!allocatePort
  /\ V2!RemoveDone => Q!RemoveDone
  /\ V2!GiveBackNext => Q!GiveBackNext
  /\ V2!BatchGivenBack => Q!BatchGivenBack
  <1> USE DEF V2!informerVars, Q!informerVars, V2!memoryVars, Q!memoryVars,
              V2!batchVars, Q!batchVars, V2!serviceVars, Q!serviceVars, V2!txVars,
              Q!txVars, V2!apiVars, Q!apiVars
  <1>1. V2!CacheSynced => Q!CacheSynced
    BY DEF V2!CacheSynced, Q!CacheSynced
  <1>2. V2!GetFirst => Q!GetFirst
    BY SameQueue DEF V2!GetFirst, Q!GetFirst
  <1>3. V2!BatchOpen <=> Q!BatchOpen
    BY DEF V2!BatchOpen, Q!BatchOpen
  <1>4. V2!GetNext => Q!GetNext
    BY <1>3, SameQueue DEF V2!GetNext, Q!GetNext
  <1>5. V2!BatchCollected => Q!BatchCollected
    BY <1>3 DEF V2!BatchCollected, Q!BatchCollected
  <1>6. V2!SyncDeleted => Q!SyncDeleted
    BY DEF V2!SyncDeleted, Q!SyncDeleted, V2!MappingsOf, Q!MappingsOf
  <1>7. \A s, o : V2!Proxied(s, o) <=> Q!Proxied(s, o)
    BY DEF V2!Proxied, Q!Proxied, V2!isNamespaceAllowed, Q!isNamespaceAllowed,
           V2!HasClusterIP, Q!HasClusterIP
  <1>8. V2!SyncIgnored => Q!SyncIgnored
    BY <1>7 DEF V2!SyncIgnored, Q!SyncIgnored
  <1>9. V2!SyncPresent => Q!SyncPresent
    BY <1>7 DEF V2!SyncPresent, Q!SyncPresent
  <1>10. V2!SyncDone => Q!SyncDone
    BY DEF V2!SyncDone, Q!SyncDone
  <1>11. V2!PortsDone => Q!PortsDone
    BY DEF V2!PortsDone, Q!PortsDone
  <1>12. V2!SkipPort => Q!SkipPort
    BY DEF V2!SkipPort, Q!SkipPort, V2!isTargetPortName, Q!isTargetPortName,
           V2!Port, Q!Port, V2!MappingKey, Q!MappingKey, V2!AlreadyMapped,
           Q!AlreadyMapped, V2!PortRange, Q!PortRange
  <1>13. V2!allocatePort => Q!allocatePort
    BY DEF V2!allocatePort, Q!allocatePort, V2!isTargetPortName, Q!isTargetPortName,
           V2!Port, Q!Port, V2!MappingKey, Q!MappingKey, V2!AlreadyMapped,
           Q!AlreadyMapped, V2!PortRange, Q!PortRange, V2!FirstFree, Q!FirstFree
  <1>14. V2!RemoveDone => Q!RemoveDone
    BY DEF V2!RemoveDone, Q!RemoveDone
  <1>15. V2!GiveBackNext => Q!GiveBackNext
    BY SameQueue DEF V2!GiveBackNext, Q!GiveBackNext
  <1>16. V2!BatchGivenBack => Q!BatchGivenBack
    BY DEF V2!BatchGivenBack, Q!BatchGivenBack
  <1>17. QED
    BY <1>1, <1>2, <1>4, <1>5, <1>6, <1>8, <1>9, <1>10, <1>11, <1>12, <1>13, <1>14,
       <1>15, <1>16

\* V2's part of a transaction, of one that a request has changed and of none.
LEMMA ServiceTxs ==
  /\ \A b, c : ServiceTx([base |-> b, cfg |-> c]) = [base |-> b, cfg |-> ServicePart(c)]
  /\ ServicePart(V2!EmptyConfig) = Q!EmptyConfig
  /\ ServiceTx(V2!NoTx) = Q!NoTx
  /\ ServiceTx(tx).base = tx.base /\ ServiceTx(tx).cfg = ServicePart(tx.cfg)
  /\ \A r, q : Separate /\ Alike(r, q) /\ tx' = [tx EXCEPT !.cfg = r.cfg] =>
                 ServiceTx(tx') = [ServiceTx(tx) EXCEPT !.cfg = q.cfg]
  <1>1. \A b, c : ServiceTx([base |-> b, cfg |-> c])
                    = [base |-> b, cfg |-> ServicePart(c)]
    BY DEF ServiceTx
  <1>2. ServicePart(V2!EmptyConfig) = Q!EmptyConfig
    BY DEF ServicePart, V2!EmptyConfig, Q!EmptyConfig
  <1>3. ServiceTx(V2!NoTx) = Q!NoTx
    BY <1>1, <1>2 DEF V2!NoTx, Q!NoTx
  <1>4. ServiceTx(tx).base = tx.base /\ ServiceTx(tx).cfg = ServicePart(tx.cfg)
    BY DEF ServiceTx
  <1>5. ASSUME NEW r, NEW q, Separate, Alike(r, q), tx' = [tx EXCEPT !.cfg = r.cfg]
        PROVE  ServiceTx(tx') = [ServiceTx(tx) EXCEPT !.cfg = q.cfg]
    <2>1. tx' = [base |-> tx.base, cfg |-> r.cfg]
      BY <1>5 DEF Separate, TxCurrent
    <2>2. ServiceTx(tx') = [base |-> tx.base, cfg |-> q.cfg]
      BY <1>1, <1>5, <2>1 DEF Alike
    <2>3. [ServiceTx(tx) EXCEPT !.cfg = q.cfg] = [base |-> tx.base, cfg |-> q.cfg]
      BY DEF ServiceTx
    <2>4. QED
      BY <2>2, <2>3
  <1>6. QED
    BY <1>1, <1>2, <1>3, <1>4, <1>5

\* A transaction is opened on V2's part and committed to it,
LEMMA TransactionAlike ==
  /\ V2!ReadVersion => Q!ReadVersion
  /\ V2!TransactionStarted => Q!TransactionStarted
  /\ V2!TransactionRefused => Q!TransactionRefused
  /\ V2!CommitBatch => Q!CommitBatch
  <1> USE DEF V2!informerVars, Q!informerVars, V2!memoryVars, Q!memoryVars,
              V2!batchVars, Q!batchVars, V2!serviceVars, Q!serviceVars, V2!apiVars,
              Q!apiVars
  <1>1. V2!ReadVersion => Q!ReadVersion
    BY SameFates DEF V2!ReadVersion, Q!ReadVersion
  <1>2. V2!TransactionStarted => Q!TransactionStarted
    <2> SUFFICES ASSUME V2!TransactionStarted PROVE Q!TransactionStarted
      OBVIOUS
    <2>1. tx' = [base |-> version, cfg |-> config]
      BY DEF V2!TransactionStarted
    <2>2. ServiceTx(tx') = [base |-> version, cfg |-> ServicePart(config)]
      BY <2>1, ServiceTxs
    <2>3. QED
      BY <2>2, SameFates DEF V2!TransactionStarted, Q!TransactionStarted
  <1>3. V2!KeySet = Q!KeySet
    BY DEF V2!KeySet, Q!KeySet
  <1>4. \A q : V2!GiveBack(q) = Q!GiveBack(q)
    BY <1>3, SameQueue DEF V2!GiveBack, Q!GiveBack
  <1>5. V2!TransactionRefused => Q!TransactionRefused
    BY <1>4, SameFates DEF V2!TransactionRefused, Q!TransactionRefused
  <1>6. V2!CommitBatch => Q!CommitBatch
    <2> SUFFICES ASSUME V2!CommitBatch PROVE Q!CommitBatch
      OBVIOUS
    <2>1. PICK o \in V2!Fates :
            /\ V2!Spend(V2!Cost(o))
            /\ IF V2!CommitTransaction(version, tx, o)
               THEN config' = tx.cfg /\ version' = version + 1
               ELSE UNCHANGED <<config, version>>
      BY DEF V2!CommitBatch
    <2>2. V2!CommitTransaction(version, tx, o)
            <=> Q!CommitTransaction(version, ServiceTx(tx), o)
      BY ServiceTxs DEF V2!CommitTransaction, Q!CommitTransaction
    <2>3. IF Q!CommitTransaction(version, ServiceTx(tx), o)
          THEN ServicePart(config') = ServiceTx(tx).cfg /\ version' = version + 1
          ELSE UNCHANGED <<ServicePart(config), version>>
      BY <2>1, <2>2, ServiceTxs
    <2>4. ServiceTx(tx') = Q!NoTx
      BY ServiceTxs DEF V2!CommitBatch
    <2>5. o \in Q!Fates /\ Q!Spend(Q!Cost(o))
      BY <2>1, SameFates
    <2>6. /\ wq' = Q!Done(wq, keys[1])
          /\ pc = "commit" /\ pc' = "idle" /\ keys' = <<>> /\ idx' = 0
          /\ seenVersion' = -1
          /\ UNCHANGED <<Q!informerVars, Q!memoryVars, Q!serviceVars>>
      BY SameQueue DEF V2!CommitBatch
    <2>7. QED
      BY <2>3, <2>4, <2>5, <2>6 DEF Q!CommitBatch
  <1>7. QED
    BY <1>1, <1>2, <1>5, <1>6

\* The worker goes on from a request on V2's part as it does from the same one on
\* the whole,
LEMMA StepAlike ==
  ASSUME Separate, NEW r, NEW q, Alike(r, q)
  PROVE  /\ \A next : V2!Step(r, next) => Q!Step(q, next)
         /\ V2!ProxyFailed(r.cfg) => Q!ProxyFailed(q.cfg)
         /\ V2!MappingCreated(r.cfg) => Q!MappingCreated(q.cfg)
         /\ (r.err = V2!NoError \/ V2!SaysExists(r.err))
              <=> (q.err = Q!NoError \/ Q!SaysExists(q.err))
         /\ V2!SaysExists(r.err) <=> Q!SaysExists(q.err)
  <1>1. tx' = [tx EXCEPT !.cfg = r.cfg] =>
          ServiceTx(tx') = [ServiceTx(tx) EXCEPT !.cfg = q.cfg]
    BY ServiceTxs
  <1>2. V2!ProxyFailed(r.cfg) => Q!ProxyFailed(q.cfg)
    BY <1>1 DEF V2!ProxyFailed, Q!ProxyFailed, V2!releasePort, Q!releasePort
  <1>3. \A next : V2!ProxyContinues(r.cfg, next) => Q!ProxyContinues(q.cfg, next)
    BY <1>1 DEF V2!ProxyContinues, Q!ProxyContinues, V2!memoryVars, Q!memoryVars
  <1>4. V2!MappingCreated(r.cfg) => Q!MappingCreated(q.cfg)
    BY <1>1
    DEF V2!MappingCreated, Q!MappingCreated, V2!MappingKey, Q!MappingKey, V2!Port,
        Q!Port, V2!NewMapping, Q!NewMapping, V2!BackendName, Q!BackendName,
        V2!FrontendName, Q!FrontendName
  <1>5. /\ (r.err = V2!NoError \/ V2!SaysExists(r.err))
             <=> (q.err = Q!NoError \/ Q!SaysExists(q.err))
        /\ V2!SaysExists(r.err) <=> Q!SaysExists(q.err)
    BY DEF Alike, V2!NoError, Q!NoError, V2!SaysExists, Q!SaysExists
  <1>6. \A next : V2!Step(r, next) => Q!Step(q, next)
    BY <1>2, <1>3, <1>5 DEF V2!Step, Q!Step
  <1>7. QED
    BY <1>2, <1>4, <1>5, <1>6

\* with the same names.
LEMMA SameServiceNames ==
  /\ V2!Port = Q!Port
  /\ \A s, x : V2!BackendName(s, x) = Q!BackendName(s, x)
  /\ \A s, x : V2!FrontendName(s, x) = Q!FrontendName(s, x)
  /\ \A s, x : V2!BindName(s, x) = Q!BindName(s, x)
  /\ \A s, x : V2!ServerName(s, x) = Q!ServerName(s, x)
  BY DEF V2!Port, Q!Port, V2!BackendName, Q!BackendName, V2!FrontendName,
         Q!FrontendName, V2!BindName, Q!BindName, V2!ServerName, Q!ServerName

\* createServiceProxy,
LEMMA CreateAlike ==
  ASSUME Separate
  PROVE  /\ V2!CreateBackend => Q!CreateBackend
         /\ V2!CreateServer => Q!CreateServer
         /\ V2!CreateFrontend => Q!CreateFrontend
         /\ V2!CreateBind => Q!CreateBind
  <1> DEFINE e == ServicePart(tx.cfg)
             b == V2!BackendName(keys[idx], V2!Port.port)
             f == V2!FrontendName(keys[idx], mappedPort)
             n == V2!ServerName(svc.clusterIP, V2!Port.port)
             m == V2!BindName(keys[idx], V2!Port.name)
  <1>1. Shape(tx.cfg) /\ ServiceTx(tx).cfg = e
    BY ServiceTxs DEF Separate, TxCurrent
  <1>2. b # V1!Backend /\ f # V1!Frontend
    BY NamesApart
  <1>3. /\ b = Q!BackendName(keys[idx], Q!Port.port)
        /\ f = Q!FrontendName(keys[idx], mappedPort)
        /\ n = Q!ServerName(svc.clusterIP, Q!Port.port)
        /\ m = Q!BindName(keys[idx], Q!Port.name)
    BY SameServiceNames
  <1>4. V2!createRest => Q!createRest
    BY DEF V2!createRest, Q!createRest, V2!informerVars, Q!informerVars,
           V2!batchVars, Q!batchVars, V2!apiVars, Q!apiVars
  <1>5. V2!CreateBackend => Q!CreateBackend
    <2> SUFFICES ASSUME V2!CreateBackend PROVE Q!CreateBackend
      OBVIOUS
    <2> DEFINE res(g, o) == IF V2!EnsureBackend(config, b, g)
                            THEN V2!ReplaceBackend(tx.cfg, b, o)
                            ELSE V2!AddBackend(tx.cfg, b, o)
               ser(g, o) == IF Q!EnsureBackend(ServicePart(config), b, g)
                            THEN Q!ReplaceBackend(e, b, o)
                            ELSE Q!AddBackend(e, b, o)
    <2>1. PICK g \in V2!ReadFates, o \in V2!Fates :
            V2!Spend(V2!Cost(g) + V2!Cost(o)) /\ V2!Step(res(g, o), "server")
      BY DEF V2!CreateBackend
    <2>2. pc = "backend" /\ V2!createRest
      BY DEF V2!CreateBackend
    <2>3. Alike(res(g, o), ser(g, o))
      <3> HIDE DEF b
      <3>1. QED
        BY <1>1, <1>2, EnsureAlike, BackendAlike
    <2>4. Q!Step(ser(g, o), "server")
      <3> HIDE DEF res, ser
      <3>1. QED
        BY <2>1, <2>3, StepAlike
    <2>5. /\ g \in Q!ReadFates /\ o \in Q!Fates
          /\ Q!Spend(Q!Cost(g) + Q!Cost(o)) /\ Q!createRest
      BY <1>4, <2>1, <2>2, SameFates
    <2> HIDE DEF b
    <2>6. QED
      BY <1>1, <1>3, <2>2, <2>4, <2>5 DEF Q!CreateBackend
  <1>6. V2!CreateServer => Q!CreateServer
    <2> SUFFICES ASSUME V2!CreateServer PROVE Q!CreateServer
      OBVIOUS
    <2> DEFINE add(o) == V2!AddServerToBackend(tx.cfg, b, n, n, o)
               put(o) == Q!AddServerToBackend(e, b, n, n, o)
               rep(o, o2) == V2!ReplaceServerFromBackend(add(o).cfg, b, n, n, n, o2)
               ser(o, o2) == Q!ReplaceServerFromBackend(put(o).cfg, b, n, n, n, o2)
    <2>1. PICK o \in V2!Fates, o2 \in V2!Fates :
            IF V2!SaysExists(add(o).err)
            THEN /\ V2!Spend(V2!Cost(o) + V2!Cost(o2))
                 /\ V2!Step(rep(o, o2), "frontend")
            ELSE V2!Spend(V2!Cost(o)) /\ V2!Step(add(o), "frontend")
      BY DEF V2!CreateServer
    <2>2. pc = "server" /\ V2!createRest
      BY DEF V2!CreateServer
    <2>3. Alike(add(o), put(o)) /\ Shape(add(o).cfg)
      <3> HIDE DEF b, n
      <3>1. QED
        BY <1>1, <1>2, ServerAlike, BackendRequests DEF SamePod
    <2>4. Alike(rep(o, o2), ser(o, o2))
      <3> HIDE DEF b, n, add, put
      <3>1. put(o).cfg = ServicePart(add(o).cfg)
        BY <2>3 DEF Alike
      <3>2. QED
        BY <1>2, <2>3, <3>1, ServerAlike
    <2>5. IF Q!SaysExists(put(o).err)
          THEN /\ Q!Spend(Q!Cost(o) + Q!Cost(o2))
               /\ Q!Step(ser(o, o2), "frontend")
          ELSE Q!Spend(Q!Cost(o)) /\ Q!Step(put(o), "frontend")
      <3> HIDE DEF add, put, rep, ser
      <3>1. /\ V2!SaysExists(add(o).err) <=> Q!SaysExists(put(o).err)
            /\ V2!Step(add(o), "frontend") => Q!Step(put(o), "frontend")
        BY <2>3, StepAlike
      <3>2. V2!Step(rep(o, o2), "frontend") => Q!Step(ser(o, o2), "frontend")
        BY <2>4, StepAlike
      <3>3. QED
        BY <2>1, <3>1, <3>2, SameFates
    <2>6. o \in Q!Fates /\ o2 \in Q!Fates /\ Q!createRest
      BY <1>4, <2>1, <2>2, SameFates
    <2> HIDE DEF b, n
    <2>7. QED
      BY <1>1, <1>3, <2>2, <2>5, <2>6 DEF Q!CreateServer
  <1>7. V2!CreateFrontend => Q!CreateFrontend
    <2> SUFFICES ASSUME V2!CreateFrontend PROVE Q!CreateFrontend
      OBVIOUS
    <2> DEFINE res(g, o) == IF V2!EnsureFrontend(config, f, g)
                            THEN V2!ReplaceFrontend(tx.cfg, f, b, o)
                            ELSE V2!AddFrontend(tx.cfg, f, b, o)
               ser(g, o) == IF Q!EnsureFrontend(ServicePart(config), f, g)
                            THEN Q!ReplaceFrontend(e, f, b, o)
                            ELSE Q!AddFrontend(e, f, b, o)
    <2>1. PICK g \in V2!ReadFates, o \in V2!Fates :
            V2!Spend(V2!Cost(g) + V2!Cost(o)) /\ V2!Step(res(g, o), "bind")
      BY DEF V2!CreateFrontend
    <2>2. pc = "frontend" /\ V2!createRest
      BY DEF V2!CreateFrontend
    <2>3. Alike(res(g, o), ser(g, o))
      <3> HIDE DEF b, f
      <3>1. QED
        BY <1>1, <1>2, EnsureAlike, FrontendAlike
    <2>4. Q!Step(ser(g, o), "bind")
      <3> HIDE DEF res, ser
      <3>1. QED
        BY <2>1, <2>3, StepAlike
    <2>5. /\ g \in Q!ReadFates /\ o \in Q!Fates
          /\ Q!Spend(Q!Cost(g) + Q!Cost(o)) /\ Q!createRest
      BY <1>4, <2>1, <2>2, SameFates
    <2> HIDE DEF b, f
    <2>6. QED
      BY <1>1, <1>3, <2>2, <2>4, <2>5 DEF Q!CreateFrontend
  <1>8. V2!CreateBind => Q!CreateBind
    <2> SUFFICES ASSUME V2!CreateBind PROVE Q!CreateBind
      OBVIOUS
    <2> DEFINE res(o) == V2!AddBind(tx.cfg, f, m, mappedPort, o)
               ser(o) == Q!AddBind(e, f, m, mappedPort, o)
    <2>1. PICK o \in V2!Fates :
            /\ V2!Spend(V2!Cost(o))
            /\ IF res(o).err = V2!NoError \/ V2!SaysExists(res(o).err)
               THEN V2!MappingCreated(res(o).cfg)
               ELSE V2!ProxyFailed(res(o).cfg)
      BY DEF V2!CreateBind
    <2>2. pc = "bind" /\ V2!createRest
      BY DEF V2!CreateBind
    <2>3. Alike(res(o), ser(o))
      <3> HIDE DEF f, m
      <3>1. QED
        BY <1>1, <1>2, BindAlike
    <2>4. IF ser(o).err = Q!NoError \/ Q!SaysExists(ser(o).err)
          THEN Q!MappingCreated(ser(o).cfg)
          ELSE Q!ProxyFailed(ser(o).cfg)
      <3> HIDE DEF res, ser
      <3>1. QED
        BY <2>1, <2>3, StepAlike
    <2>5. o \in Q!Fates /\ Q!Spend(Q!Cost(o)) /\ Q!createRest
      BY <1>4, <2>1, <2>2, SameFates
    <2> HIDE DEF f, m
    <2>6. QED
      BY <1>1, <1>3, <2>2, <2>4, <2>5 DEF Q!CreateBind
  <1>9. QED
    BY <1>5, <1>6, <1>7, <1>8

\* and removeServiceMappingsWithTx.
LEMMA RemoveAlike ==
  ASSUME Separate, V2!RemoveMapping
  PROVE  Q!RemoveMapping
  <1> DEFINE e == ServicePart(tx.cfg)
             cut(k, o1) == V2!DeleteFrontend(tx.cfg, serviceMappings[k].frontendName,
                                             o1)
             rest(k, o1, o2) == V2!DeleteBackend(cut(k, o1).cfg,
                                  serviceMappings[k].backendName, o2)
             cutS(k, o1) == Q!DeleteFrontend(e, serviceMappings[k].frontendName, o1)
             restS(k, o1, o2) == Q!DeleteBackend(cutS(k, o1).cfg,
                                   serviceMappings[k].backendName, o2)
  <1>1. PICK k \in toDelete, o1 \in V2!Fates, o2 \in V2!Fates :
          /\ V2!Spend(V2!Cost(o1) + V2!Cost(o2))
          /\ tx' = [tx EXCEPT !.cfg = rest(k, o1, o2).cfg]
          /\ portAllocations' =
               V2!releasePort(portAllocations, serviceMappings[k].mappedPort)
          /\ serviceMappings' =
               [j \in DOMAIN serviceMappings \ {k} |-> serviceMappings[j]]
          /\ toDelete' = toDelete \ {k}
    BY DEF V2!RemoveMapping, V2!DeleteObjects
  <1>2. /\ serviceMappings[k].backendName # V1!Backend
        /\ serviceMappings[k].frontendName # V1!Frontend
    BY DEF Separate, MappingsApart
  <1>3. Shape(tx.cfg) /\ ServiceTx(tx).cfg = e
    BY ServiceTxs DEF Separate, TxCurrent
  <1>4. Alike(cut(k, o1), cutS(k, o1)) /\ Shape(cut(k, o1).cfg)
    BY <1>2, <1>3, FrontendAlike, FrontendRequests DEF SamePod
  <1>5. Alike(rest(k, o1, o2), restS(k, o1, o2))
    <2> HIDE DEF cut, cutS
    <2>1. cutS(k, o1).cfg = ServicePart(cut(k, o1).cfg)
      BY <1>4 DEF Alike
    <2>2. QED
      BY <1>2, <1>4, <2>1, BackendAlike
  <1>6. ServiceTx(tx') = [ServiceTx(tx) EXCEPT !.cfg = restS(k, o1, o2).cfg]
    <2> HIDE DEF rest, restS
    <2>1. QED
      BY <1>1, <1>5, ServiceTxs
  <1>7. restS(k, o1, o2).cfg
          = Q!DeleteObjects(ServiceTx(tx).cfg, serviceMappings[k], o1, o2)
    BY <1>3 DEF Q!DeleteObjects
  <1>8. /\ o1 \in Q!Fates /\ o2 \in Q!Fates
        /\ Q!Spend(Q!Cost(o1) + Q!Cost(o2))
        /\ portAllocations' =
             Q!releasePort(portAllocations, serviceMappings[k].mappedPort)
    BY <1>1, SameFates DEF V2!releasePort, Q!releasePort
  <1>9. /\ pc = "remove"
        /\ UNCHANGED <<Q!informerVars, wq, pc, Q!batchVars, svc, portIdx, mappedPort,
                       seenVersion, Q!apiVars>>
    BY DEF V2!RemoveMapping, V2!informerVars, Q!informerVars, V2!batchVars,
           Q!batchVars, V2!apiVars, Q!apiVars
  <1> HIDE DEF restS
  <1>10. QED
    BY <1>1, <1>6, <1>7, <1>8, <1>9 DEF Q!RemoveMapping

\* Every step of V2.
LEMMA ServiceAlike ==
  ASSUME Separate, V2!Informer \/ V2!Handlers \/ V2!Worker \/ V2!Delays
  PROVE  Q!Next
  <1>1. V2!Worker => Q!Worker
    BY QuietAlike, TransactionAlike, CreateAlike, RemoveAlike DEF V2!Worker, Q!Worker
  <1>2. QED
    BY <1>1, AroundAlike DEF Q!Next

-----------------------------------------------------------------------------
(* The program: a step of V2 alone, or one of V1 that V2 sees as a change  *)
(* of the version or as the end of the process.                            *)

\* V2's state in another's step.
Beside ==
  /\ version' \in Nat /\ UNCHANGED <<ServicePart(config), spent>>
  /\ \/ Q!Forgets
     \/ UNCHANGED <<Q!informerVars, wq, Q!memoryVars, pc, Q!batchVars, Q!serviceVars,
                    Q!txVars>>

\* The end of the process.
LEMMA ForgetsAlike == V2!Forgets => Q!Forgets
  BY SameQueue, ServiceTxs DEF V2!Forgets, Q!Forgets

\* A step of V1 leaves V2's part of the configuration alone.
LEMMA PodBeside ==
  ASSUME Separate, OfPod
  PROVE  Beside
  <1>1. version' \in Nat /\ ServicePart(config') = ServicePart(config)
    BY PodKept DEF OfPod, Separate
  <1>2. CASE UNCHANGED serviceVars
    BY <1>1, <1>2 DEF Beside, serviceVars, Q!informerVars, Q!memoryVars, Q!batchVars,
                      Q!serviceVars, Q!txVars
  <1>3. CASE V2!Forgets /\ UNCHANGED spent
    BY <1>1, <1>3, ForgetsAlike DEF Beside
  <1>4. QED
    BY <1>2, <1>3 DEF OfPod, Shared

\* Every step of the program, as V2 sees it.
LEMMA StepsOfService ==
  ASSUME Separate, [Step]_allVars
  PROVE  Beside \/ Q!Next
  <1>1. CASE UNCHANGED allVars
    BY <1>1 DEF Beside, Separate, allVars, serviceVars, Q!informerVars, Q!memoryVars,
                Q!batchVars, Q!serviceVars, Q!txVars
  <1>2. CASE RunStep \/ PopStep
    <2>1. OfPod
      BY <1>2, RunSteps DEF RunStep, PopStep, OfPod
    <2>2. QED
      BY <2>1, PodBeside
  <1>3. ASSUME NEW r \in Requests, ArriveStep(r) \/ RequestStep(r) PROVE Beside
    <2>1. OfPod
      BY <1>3, RequestSteps DEF ArriveStep, RequestStep, OfPod
    <2>2. QED
      BY <2>1, PodBeside
  <1>4. CASE StoreStep \/ TimerStep \/ CrashStep \/ StartAgainStep
    <2>1. OfPod
      BY <1>4, AroundSteps DEF StoreStep, TimerStep, CrashStep, StartAgainStep, OfPod
    <2>2. QED
      BY <2>1, PodBeside
  <1>5. CASE InformerStep \/ HandlerStep \/ WorkerStep \/ DelayStep
    BY <1>5, ServiceAlike DEF InformerStep, HandlerStep, WorkerStep, DelayStep
  <1>6. QED
    BY <1>1, <1>2, <1>3, <1>4, <1>5 DEF Step

\* V2's assumptions, for V2 on its own part.
LEMMA ServiceAssumed == Q!ServiceAssumption /\ Q!RangeAssumption
  BY ProgramAssumption
  DEF ProgramAssumption, V2!ServiceAssumption, Q!ServiceAssumption,
      V2!RangeAssumption, Q!RangeAssumption

\* V2's part at the start.
LEMMA StartService == Start => Q!Init
  <1> SUFFICES ASSUME Start PROVE Q!Init
    OBVIOUS
  <1>1. V2!Init
    BY DEF Start
  <1>2. ServicePart(config) = Q!EmptyConfig /\ ServiceTx(tx) = Q!NoTx
    BY <1>1, ServiceTxs DEF V2!Init
  <1>3. QED
    BY <1>1, <1>2, SameQueue DEF V2!Init, Q!Init

\* V2's invariant, its books among it, is kept by the whole program.
LEMMA ServiceInvariant ==
  ASSUME Separate, Q!PInv, [Step]_allVars
  PROVE  Q!PInv'
  <1>1. CASE Beside
    BY <1>1, ServiceAssumed, Q!BesidePending DEF Beside
  <1>2. CASE Q!Next
    BY <1>2, ServiceAssumed, Q!NextPending
  <1>3. QED
    BY <1>1, <1>2, StepsOfService

\* It implies that the books are exact.
LEMMA ServiceResults ==
  ASSUME Q!PInv
  PROVE  V2!PortsAccounted /\ V2!PortsExclusive
  <1>1. Q!PortsAccounted /\ Q!PortsExclusive
    BY DEF Q!PInv, Q!IInv, Q!Books
  <1>2. QED
    BY <1>1 DEF Q!PortsAccounted, V2!PortsAccounted, Q!PortsExclusive,
                V2!PortsExclusive, Q!MappedPorts, V2!MappedPorts

LEMMA ProgramInvariant == System => [](Separate /\ Q!PInv)
  <1>1. Start => Separate /\ Q!PInv
    BY StartSeparate, StartService, ServiceAssumed, Q!InitPending
  <1>2. Separate /\ Q!PInv /\ [Step]_allVars => (Separate /\ Q!PInv)'
    BY NextSeparate, ServiceInvariant
  <1>3. QED
    BY <1>1, <1>2, PTL DEF System

\* allocatePort and releasePort keep exact books in the program: V1's writes, the
\* commits they make fail and the panics that end V2 between two requests neither
\* leak a port of the range nor let two Service ports have the same one.
THEOREM BooksBesideV1 == System => [](V2!PortsAccounted /\ V2!PortsExclusive)
  <1>1. Separate /\ Q!PInv => V2!PortsAccounted /\ V2!PortsExclusive
    BY ServiceResults
  <1>2. QED
    BY <1>1, ProgramInvariant, PTL

-----------------------------------------------------------------------------
(* The leasing of ports, with V1 beside V2.                                *)

\* The two views have the same leases,
LEMMA SameLeases ==
  /\ Q!MappingKeys = V2!MappingKeys /\ Q!PortRange = V2!PortRange
  /\ Q!Leases!Next => V2!Leases!Next
  <1>1. Q!MappingKeys = V2!MappingKeys /\ Q!PortRange = V2!PortRange
    BY DEF Q!MappingKeys, V2!MappingKeys, Q!PortNames, V2!PortNames, Q!PortRange,
           V2!PortRange
  <1>2. Q!Leases!Next => V2!Leases!Next
    BY <1>1 DEF Q!Leases!Next, V2!Leases!Next, Q!Leases!Grant, V2!Leases!Grant,
                Q!Leases!Revoke, V2!Leases!Revoke, Q!Leases!Reset, V2!Leases!Reset
  <1>3. QED
    BY <1>1, <1>2

\* and a step of V1 leaves them alone or starts over.
LEMMA BesideLeases ==
  ASSUME Beside
  PROVE  V2!Leases!Next \/ UNCHANGED Q!Lease
  <1>1. CASE Q!Forgets
    <2>1. serviceMappings' = <<>>
      BY <1>1 DEF Q!Forgets
    <2>2. QED
      BY <2>1 DEF V2!Leases!Next, V2!Leases!Reset
  <1>2. CASE UNCHANGED Q!memoryVars
    BY <1>2 DEF Q!memoryVars, Q!Lease
  <1>3. QED
    BY <1>1, <1>2 DEF Beside

\* V2 implements PortLease in the program: a published port stays with its Service
\* port until it is taken back or the process ends, whatever V1 writes.
THEOREM LeasesBesideV1 == System => V2!PortLeased
  <1>1. Start => V2!Leases!Init
    BY DEF Start, V2!Init, V2!Leases!Init
  <1>2. Separate /\ Q!PInv /\ [Step]_allVars => [V2!Leases!Next]_(Q!Lease)
    <2> SUFFICES ASSUME Separate, Q!PInv, [Step]_allVars
                 PROVE  V2!Leases!Next \/ UNCHANGED Q!Lease
      OBVIOUS
    <2>1. CASE Q!Next
      <3>1. Q!Leases!Next \/ UNCHANGED Q!Lease
        BY <2>1, ServiceAssumed, Q!LeaseStep DEF Q!PInv
      <3>2. QED
        BY <3>1, SameLeases
    <2>2. CASE Beside
      BY <2>2, BesideLeases
    <2>3. QED
      BY <2>1, <2>2, StepsOfService
  <1>3. QED
    BY <1>1, <1>2, ProgramInvariant, PTL
    DEF System, V2!PortLeased, V2!Leases!Spec, Q!Lease
==============================================================================
