----------------------------- MODULE MappingTTL -----------------------------
(***************************************************************************)
(* The duration of a V1 mapping, from the request's field time to the      *)
(* delay that asyncQueue.AddAfter gets: create (server/v1.go) caps it and  *)
(* CreateMapping (controller/pod_controller.go) turns seconds into a       *)
(* time.Duration. Both are 64-bit integers in the code; here the width is  *)
(* a parameter, so that TLC can try every value.                           *)
(***************************************************************************)
EXTENDS Integers

CONSTANTS
  MaxInt,         \* the largest int (and time.Duration)
  Second,         \* time.Second, in nanoseconds
  ThreeHours,     \* time.Hour*3, in seconds
  MaxMappingTime  \* --max-mapping-time, which neither function consults

\* The order of magnitudes of the code: three hours fit a Duration,
\* and the maximum does.
ASSUME TTLAssumption ==
  /\ MaxInt \in Nat /\ Second \in Nat \ {0}
  /\ ThreeHours \in Nat \ {0} /\ MaxMappingTime \in Nat
  /\ ThreeHours * Second <= MaxInt
  /\ MaxMappingTime <= ThreeHours * Second /\ MaxMappingTime * Second <= MaxInt

VARIABLES
  asked,  \* the request's time, as sent
  time,   \* proxyMappingQuery.Time
  delay,  \* the argument of AddAfter
  at      \* how far the request is

ttlVars == <<asked, time, delay, at>>

Ints == (-MaxInt - 1)..MaxInt

\* Two's complement: the result of an operation that leaves the range.
Wrap(x) == ((x + MaxInt + 1) % (2 * (MaxInt + 1))) - MaxInt - 1

\* context.Bind: any integer (60 when the field is missing).
TTLInit == asked \in Ints /\ time = asked /\ delay = 0 /\ at = "bound"

\* Mutant: the comparison is the wrong way round.
CappedBelow(t) == IF t < ThreeHours THEN ThreeHours ELSE t

\* time.Duration(Time) reads the seconds as nanoseconds; the value assigned is in
\* seconds again.
Capped(t) == IF t > ThreeHours * Second THEN ThreeHours ELSE t

CapTime ==
  /\ at = "bound" /\ at' = "capped"
  /\ time' = Capped(time)
  /\ UNCHANGED <<asked, delay>>

\* Mutant: the seconds are taken for a Duration.
DurationUnscaled(t) == t

\* delayTime*time.Second
Duration(t) == Wrap(t * Second)

StartTimer ==
  /\ at = "capped" /\ at' = "scheduled"
  /\ delay' = Duration(time)
  /\ UNCHANGED <<asked, time>>

TTLNext == CapTime \/ StartTimer

TTLSpec == TTLInit /\ [][TTLNext]_ttlVars

-----------------------------------------------------------------------------
\* A duration within the documented maximum arrives at the queue exactly as it
\* was asked for: neither the cap nor the conversion changes it.
DelayExact ==
  at = "scheduled" /\ asked \in 0..MaxMappingTime => delay = asked * Second

\* A mapping is never kept longer than the request asked for, whatever wraps.
NeverLonger == at = "scheduled" /\ asked >= 0 => delay <= asked * Second
==============================================================================
