-------------------------- MODULE MappingTTLProofs --------------------------
(***************************************************************************)
(* What the cap and the conversion of a V1 mapping's duration do, for      *)
(* integers of every width.                                                *)
(***************************************************************************)
EXTENDS MappingTTL, TLAPS

\* The facts of the constants that the proofs use, without products of two of
\* them.
LEMMA Magnitudes ==
  /\ MaxInt \in Nat /\ Second \in Nat \ {0} /\ ThreeHours \in Nat \ {0}
  /\ MaxMappingTime \in Nat
  BY TTLAssumption

\* An integer in range is not changed by two's complement.
LEMMA WrapIdentity ==
  ASSUME NEW x \in Ints
  PROVE  Wrap(x) = x
  <1>1. /\ MaxInt \in Nat /\ x \in Int
        /\ 0 <= x + MaxInt + 1 /\ x + MaxInt + 1 < 2 * (MaxInt + 1)
    BY Magnitudes DEF Ints
  <1>2. \A y, m \in Nat : y < m => y % m = y
    OBVIOUS
  <1>3. (x + MaxInt + 1) % (2 * (MaxInt + 1)) = x + MaxInt + 1
    BY <1>1, <1>2
  <1>4. QED
    BY <1>1, <1>3 DEF Wrap

\* Two's complement never makes an integer above the lower bound larger.
LEMMA WrapDecreases ==
  ASSUME NEW x \in Int, 0 <= x
  PROVE  Wrap(x) \in Int /\ Wrap(x) <= x
  <1>1. MaxInt \in Nat /\ x + MaxInt + 1 \in Nat /\ 2 * (MaxInt + 1) \in Nat \ {0}
    BY Magnitudes
  <1>2. \A y \in Nat, m \in Nat \ {0} : y % m \in Nat /\ y % m <= y
    OBVIOUS
  <1>3. QED
    BY <1>1, <1>2 DEF Wrap

\* Seconds in order are nanoseconds in order.
LEMMA ScaleMonotone ==
  ASSUME NEW a \in Int, NEW b \in Int, a <= b
  PROVE  a * Second <= b * Second
  <1>1. Second \in Nat
    BY Magnitudes
  <1>2. \A n \in Nat : (b - a) * n >= 0
    OBVIOUS
  <1>3. (b - a) * Second = b * Second - a * Second
    BY <1>1
  <1>4. (b - a) * Second >= 0
    BY <1>1, <1>2
  <1>5. QED
    BY <1>1, <1>3, <1>4

\* The cap neither raises a duration nor makes it negative.
LEMMA CappedBelowAsked ==
  ASSUME NEW t \in Int, 0 <= t
  PROVE  Capped(t) \in Int /\ 0 <= Capped(t) /\ Capped(t) <= t
  <1>1. /\ Second \in Nat \ {0} /\ ThreeHours \in Nat \ {0}
    BY Magnitudes
  <1>2. \A h \in Nat, n \in Nat \ {0} : h <= h * n
    OBVIOUS
  <1>3. ThreeHours * Second \in Nat /\ ThreeHours <= ThreeHours * Second
    BY <1>1, <1>2
  <1>4. QED
    BY <1>1, <1>3 DEF Capped

-----------------------------------------------------------------------------
(* How far a request is determines what its fields hold.                   *)

TTLInv ==
  /\ asked \in Ints /\ at \in {"bound", "capped", "scheduled"}
  /\ at = "bound" => time = asked
  /\ at = "capped" => time = Capped(asked)
  /\ at = "scheduled" => delay = Duration(Capped(asked))

\* The steps of a request lead from one stage to the next.
LEMMA TTLInvariance == TTLSpec => []TTLInv
  <1>1. TTLInit => TTLInv
    BY DEF TTLInit, TTLInv
  <1>2. TTLInv /\ [TTLNext]_ttlVars => TTLInv'
    BY DEF TTLInv, TTLNext, CapTime, StartTimer, ttlVars, Capped, Duration
  <1>3. QED
    BY <1>1, <1>2, PTL DEF TTLSpec

\* Up to the documented maximum, a V1 mapping's delay is what the request asked
\* for, whatever the width of the integers: neither create's cap nor the
\* conversion to a time.Duration changes it.
THEOREM DelayIsExact == TTLSpec => []DelayExact
  <1>1. TTLInv => DelayExact
    <2> SUFFICES ASSUME TTLInv, at = "scheduled", asked \in 0..MaxMappingTime
                 PROVE  delay = asked * Second
      BY DEF DelayExact
    <2>1. /\ Second \in Nat \ {0} /\ MaxMappingTime \in Nat /\ MaxInt \in Nat
          /\ asked \in Int /\ 0 <= asked /\ asked <= MaxMappingTime
      BY Magnitudes
    <2>2. /\ MaxMappingTime <= ThreeHours * Second
          /\ MaxMappingTime * Second <= MaxInt
      BY TTLAssumption
    <2>3. ThreeHours * Second \in Int
      BY Magnitudes
    <2>4. Capped(asked) = asked
      BY <2>1, <2>2, <2>3 DEF Capped
    <2>5. asked * Second \in Int /\ MaxMappingTime * Second \in Int
      BY <2>1
    <2>6. asked * Second <= MaxMappingTime * Second
      BY <2>1, ScaleMonotone
    <2>7. 0 * Second <= asked * Second
      BY <2>1, ScaleMonotone
    <2>8. asked * Second \in Ints
      BY <2>1, <2>2, <2>5, <2>6, <2>7 DEF Ints
    <2>9. Wrap(asked * Second) = asked * Second
      BY <2>8, WrapIdentity
    <2>10. QED
      BY <2>4, <2>9 DEF TTLInv, Duration
  <1>2. QED
    BY <1>1, TTLInvariance, PTL

\* A V1 mapping is never kept longer than its request asked for: a product that
\* overflows wraps to a smaller delay, never to a larger one.
THEOREM DelayNeverLonger == TTLSpec => []NeverLonger
  <1>1. TTLInv => NeverLonger
    <2> SUFFICES ASSUME TTLInv, at = "scheduled", asked >= 0
                 PROVE  delay <= asked * Second
      BY DEF NeverLonger
    <2>1. asked \in Int /\ 0 <= asked /\ Second \in Nat
      BY Magnitudes DEF TTLInv, Ints
    <2>2. Capped(asked) \in Int /\ 0 <= Capped(asked) /\ Capped(asked) <= asked
      BY <2>1, CappedBelowAsked
    <2> DEFINE c == Capped(asked)
    <2>3. c \in Int /\ 0 <= c /\ c <= asked
      BY <2>2
    <2>4. delay = Wrap(c * Second)
      BY DEF TTLInv, Duration
    <2> HIDE DEF c
    <2>5. c * Second \in Int /\ asked * Second \in Int
      BY <2>1, <2>3
    <2>6. c * Second <= asked * Second /\ 0 * Second <= c * Second
      BY <2>1, <2>3, ScaleMonotone
    <2>7. Wrap(c * Second) \in Int /\ Wrap(c * Second) <= c * Second
      BY <2>1, <2>5, <2>6, WrapDecreases
    <2>8. QED
      BY <2>4, <2>5, <2>6, <2>7
  <1>2. QED
    BY <1>1, TTLInvariance, PTL
==============================================================================
