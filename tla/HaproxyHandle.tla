---------------------------- MODULE HaproxyHandle ----------------------------
(***************************************************************************)
(* haproxy/haproxy.go: the client of the HAProxy Data Plane API, together  *)
(* with the part of the API's behaviour (external) that the client relies  *)
(* on.                                                                     *)
(*                                                                         *)
(* A configuration is a record of four sets: the names of the backends,    *)
(* the servers of the backends, the frontends with their default backend,  *)
(* and the binds of the frontends. An operation on configuration c is an   *)
(* operator that returns what the caller sees, exist and err, and the      *)
(* configuration it leaves, cfg.                                           *)
(*                                                                         *)
(* Every operation takes the fate o of its request:                        *)
(*   "ok"       the request reaches the API and its answer comes back      *)
(*   "refused"  the request has no effect and the caller gets an error     *)
(*   "lost"     the request takes effect and its answer never comes back   *)
(***************************************************************************)
EXTENDS Integers

Fates == {"ok", "refused", "lost"}

\* A read has no effect, so a lost answer is the same as a refused request.
ReadFates == {"ok", "refused"}

EmptyConfig == [backends |-> {}, servers |-> {}, frontends |-> {}, binds |-> {}]

-----------------------------------------------------------------------------
(* Answers and how the client reads them.                                  *)

\* response.Err # nil, as opposed to an HTTP status code.
NoAnswer == -1

\* The error is nil; the other values of err are texts, "" among them.
NoError == "nil"

\* The dynamic types handleError's type switch lists. Every caller with a
\* payload passes a pointer ("*Backend" ...), which is none of them.
PayloadTypes == {"Bind", "Frontend", "Backend", "Server"}

\* The text handleError prepares for a status code; a text that no case of the
\* type switch assigns stays empty.
LogText(type, code) ==
  CASE code = 204 /\ type = "string" -> "deleted"
    [] code = 404 /\ type \in PayloadTypes \cup {"string"} -> "not found"
    [] code = 400 /\ type \in PayloadTypes -> "bad request"
    [] code = 409 /\ type \in PayloadTypes -> "already exists"
    [] OTHER -> ""

handleError(type, code) ==
  [exist |-> code \in {0, 200, 201, 202, 204, 409},
   err   |-> CASE code \in {0, 200, 201, 202} -> NoError
               [] code \in {204, 400, 404, 409} -> LogText(type, code)
               [] OTHER -> "unknown error"]

\* strings.Contains(err.Error(), "already exists")
SaysExists(err) == err = "already exists"

\* One request on configuration c that the API answers with code, leaving
\* configuration c2 when it takes effect; done when it was a write that the API
\* has carried out.
Request(type, c, code, c2, o) ==
  LET seen == handleError(type, IF o = "ok" THEN code ELSE NoAnswer)
  IN  [exist |-> seen.exist, err |-> seen.err,
       cfg |-> IF o = "refused" THEN c ELSE c2,
       done |-> o # "refused" /\ code \in {200, 201, 204}]

-----------------------------------------------------------------------------
(* Backends.                                                               *)

EnsureBackend(c, b, o) ==
  Request("string", c, IF b \in c.backends THEN 200 ELSE 404, c, o).exist

AddBackend(c, b, o) ==
  IF b \in c.backends
  THEN Request("*Backend", c, 409, c, o)
  ELSE Request("*Backend", c, 201, [c EXCEPT !.backends = @ \cup {b}], o)

\* The model keeps no attribute of a backend, so a replacement that keeps the
\* name (every caller's) changes nothing.
ReplaceBackend(c, b, o) ==
  Request("*Backend", c, IF b \in c.backends THEN 200 ELSE 404, c, o)

DeleteBackend(c, b, o) ==
  IF b \in c.backends
  THEN Request("string", c, 204,
               [c EXCEPT !.backends = @ \ {b},
                         !.servers = {s \in @ : s.backend # b}], o)
  ELSE Request("string", c, 404, c, o)

-----------------------------------------------------------------------------
(* Servers of a backend. A name is unique in its backend.                  *)

HasServer(c, b, name) == \E s \in c.servers : s.backend = b /\ s.name = name

AddServerToBackend(c, b, name, addr, o) ==
  CASE b \notin c.backends -> Request("*Server", c, 404, c, o)
    [] HasServer(c, b, name) -> Request("*Server", c, 409, c, o)
    [] OTHER ->
       Request("*Server", c, 201,
               [c EXCEPT !.servers =
                  @ \cup {[backend |-> b, name |-> name, addr |-> addr]}], o)

ReplaceServerFromBackend(c, b, old, name, addr, o) ==
  CASE ~HasServer(c, b, old) -> Request("*Server", c, 404, c, o)
    [] old # name /\ HasServer(c, b, name) -> Request("*Server", c, 409, c, o)
    [] OTHER ->
       Request("*Server", c, 200,
               [c EXCEPT !.servers =
                  {s \in @ : ~(s.backend = b /\ s.name = old)}
                    \cup {[backend |-> b, name |-> name, addr |-> addr]}], o)

\* The names of the backend's servers. A request that fails looks to the caller
\* like a backend without servers.
GetServers(c, b, o) ==
  IF o = "ok" THEN {s.name : s \in {x \in c.servers : x.backend = b}} ELSE {}

-----------------------------------------------------------------------------
(* Frontends and their binds.                                              *)

HasFrontend(c, f) == \E x \in c.frontends : x.name = f

EnsureFrontend(c, f, o) ==
  Request("string", c, IF HasFrontend(c, f) THEN 200 ELSE 404, c, o).exist

AddFrontend(c, f, b, o) ==
  IF HasFrontend(c, f)
  THEN Request("*Frontend", c, 409, c, o)
  ELSE Request("*Frontend", c, 201,
               [c EXCEPT !.frontends = @ \cup {[name |-> f, backend |-> b]}], o)

ReplaceFrontend(c, f, b, o) ==
  IF HasFrontend(c, f)
  THEN Request("*Frontend", c, 200,
               [c EXCEPT !.frontends =
                  {x \in @ : x.name # f} \cup {[name |-> f, backend |-> b]}], o)
  ELSE Request("*Frontend", c, 404, c, o)

DeleteFrontend(c, f, o) ==
  IF HasFrontend(c, f)
  THEN Request("string", c, 204,
               [c EXCEPT !.frontends = {x \in @ : x.name # f},
                         !.binds = {x \in @ : x.frontend # f}], o)
  ELSE Request("string", c, 404, c, o)

AddBind(c, f, name, port, o) ==
  CASE ~HasFrontend(c, f) -> Request("*Bind", c, 404, c, o)
    [] \E x \in c.binds : x.frontend = f /\ x.name = name ->
       Request("*Bind", c, 409, c, o)
    [] OTHER ->
       Request("*Bind", c, 201,
               [c EXCEPT !.binds =
                  @ \cup {[frontend |-> f, name |-> name, port |-> port]}], o)

-----------------------------------------------------------------------------
(* Versions and transactions.                                              *)

\* -1 when the request fails, which no configuration version equals.
getVersion(v, o) == IF o = "ok" THEN v ELSE -1

\* A write without a transaction names the version that the client read (seen).
\* The API carries it out, with result r, if that is the current version v, and
\* otherwise answers 409, whose text is empty as for every payload by pointer.
Direct(r, c, v, seen, o) ==
  IF seen = v THEN r ELSE Request("*", c, 409, c, o)

\* The API opens a transaction only for its current version.
StartTransaction(v, seen, o) == o = "ok" /\ seen = v

\* Mutant: the API never compares the versions.
CommitUnchecked(v, tx, o) == o # "refused"

\* The API commits a transaction unless the configuration has moved on since it
\* was opened.
CommitTransaction(v, tx, o) == o # "refused" /\ tx.base = v
==============================================================================
