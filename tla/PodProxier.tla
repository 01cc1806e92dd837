----------------------------- MODULE PodProxier -----------------------------
(***************************************************************************)
(* server/cmd.go: the program. Run starts the V1 and the V2 controller in  *)
(* one process, each with a HaproxyHandle of its own, on one Data Plane    *)
(* API. The configuration and its version are shared: a direct write of V1 *)
(* moves the version under an open transaction of V2, a commit of V2 moves *)
(* it between V1's read of the version and its write, and a panic of V1    *)
(* ends V2 as well.                                                        *)
(***************************************************************************)
EXTENDS Integers

CONSTANTS
  \* V1
  Pods, PodObjects, NoPod, Requests, PodOf, TTLs, JprofilerPortName,
  DefaultMappingPort, ControllerPort, EarlyRequests, FailedReads,
  MaxPodChanges, MaxPodFaults, MaxPodForeign, MaxPodRestarts,
  \* V2
  Services, NamespaceOf, AllowedNamespaces, TargetPortNames, ServiceObjects,
  NoService, PortRangeStart, PortRangeEnd, MaxBatchSize,
  MaxChanges, MaxFaults, MaxForeign, MaxRestarts,
  \* --enable-v1 and --enable-v2
  EnableV1, EnableV2

VARIABLES
  lister, stage, srv, todo, ttl, mu, seen, async, left, owed, used,
  indexer, notice, wq, serviceMappings, portAllocations, pc, keys, idx, svc,
  portIdx, mappedPort, toDelete, seenVersion, tx, spent,
  config, version

V1 == INSTANCE PodController
V2 == INSTANCE ServiceController

\* What V1 assumes of the Pods and the flags, and V2 of the Services and its range:
\* Validate checks the range when V2 is on, and the flags' defaults are one too.
ASSUME ProgramAssumption ==
  V1!PodAssumption /\ V2!ServiceAssumption /\ V2!RangeAssumption

podVars == <<lister, stage, srv, todo, ttl, mu, seen, async, left, owed, used>>
serviceVars == <<indexer, notice, wq, serviceMappings, portAllocations, pc, keys,
                 idx, svc, portIdx, mappedPort, toDelete, seenVersion, tx, spent>>

allVars == <<podVars, serviceVars, config, version>>

-----------------------------------------------------------------------------
\* The checks on the flags. Nothing relates the range to --default-map-port.
Validate ==
  /\ EnableV1 \/ EnableV2
  /\ EnableV2 => /\ PortRangeStart < PortRangeEnd
                 /\ PortRangeStart >= 1024 /\ PortRangeEnd <= 65535
                 /\ AllowedNamespaces # {}

Start == Validate /\ V1!Init /\ V2!Init

\* A step of V1 that ends the process ends V2 with it.
Shared == IF stage["run"] # "dead" /\ stage'["run"] = "dead"
          THEN V2!Forgets /\ UNCHANGED spent
          ELSE UNCHANGED serviceVars

RunStep        == EnableV1 /\ V1!Run /\ Shared
PopStep        == EnableV1 /\ V1!pop /\ Shared
ArriveStep(r)  == EnableV1 /\ V1!create(r) /\ Shared
RequestStep(r) == EnableV1 /\ V1!CreateMapping(r) /\ Shared
StoreStep      == EnableV1 /\ (\E p \in Pods : V1!StorePod(p)) /\ Shared
TimerStep      == EnableV1 /\ (V1!Tick \/ \E e \in V1!Events : V1!Expire(e)) /\ Shared

\* The process is ended from outside, or its container starts again, with both
\* controllers.
CrashStep      == EnableV1 /\ V1!Crash /\ Shared
StartAgainStep == V1!StartAgain /\ Shared

Alive == EnableV2 /\ stage["run"] # "dead"

InformerStep == Alive /\ V2!Informer /\ UNCHANGED podVars
HandlerStep  == Alive /\ V2!Handlers /\ UNCHANGED podVars
WorkerStep   == Alive /\ V2!Worker /\ UNCHANGED podVars
DelayStep    == Alive /\ V2!Delays /\ UNCHANGED podVars

Step ==
  \/ RunStep \/ PopStep \/ StoreStep \/ TimerStep \/ CrashStep \/ StartAgainStep
  \/ \E r \in Requests : ArriveStep(r) \/ RequestStep(r)
  \/ InformerStep \/ HandlerStep \/ WorkerStep \/ DelayStep

System == Start /\ [][Step]_allVars

\* The goroutines of both controllers run and timers fire, as in their modules.
FairSystem ==
  /\ System
  /\ WF_allVars(RunStep) /\ WF_allVars(PopStep) /\ WF_allVars(TimerStep)
  /\ WF_allVars(StartAgainStep)
  /\ \A r \in Requests : WF_allVars(RequestStep(r))
  /\ WF_allVars(HandlerStep) /\ WF_allVars(WorkerStep) /\ WF_allVars(DelayStep)

-----------------------------------------------------------------------------
(* Properties.                                                             *)

\* V1's objects of a configuration, and the others.
PodPart(c) ==
  [backends  |-> c.backends \cap {V1!Backend},
   servers   |-> {s \in c.servers : s.backend = V1!Backend},
   frontends |-> {f \in c.frontends : f.name = V1!Frontend},
   binds     |-> {b \in c.binds : b.frontend = V1!Frontend}]

ServicePart(c) ==
  [backends  |-> c.backends \ {V1!Backend},
   servers   |-> {s \in c.servers : s.backend # V1!Backend},
   frontends |-> {f \in c.frontends : f.name # V1!Frontend},
   binds     |-> {b \in c.binds : b.frontend # V1!Frontend}]

\* Neither controller changes the other's objects in HAProxy, although a commit
\* replaces the whole configuration by one that was copied when the transaction
\* was opened: the version check keeps V1's writes of the meantime.
Isolated ==
  [][/\ UNCHANGED podVars => PodPart(config') = PodPart(config)
     /\ UNCHANGED serviceVars =>
          ServicePart(config') = ServicePart(config)]_allVars

\* V1's backend has one server, with V2's commits and the panics they cause.
OnePodServer == V1!OneServer

\* No Pod is taken out before the time its request asked for is over, although
\* V2's commits make V1's replacements fail and a panic of Run forgets the timer
\* (one request).
PodNeverEarly == [][V1!Mapped /\ ~V1!Mapped' => owed <= 0]_allVars

\* No two frontends of HAProxy listen on the same port, V1's entry included.
PortsApart == V2!BindsExclusive

\* V1 comes up and stays up.
BothUp == <>[](stage["run"] = "up")
==============================================================================
