--------------------------- MODULE MCPodController ---------------------------
(***************************************************************************)
(* Instances of PodController for TLC: one to three Pods, asked for by    *)
(* as many requests.                                                       *)
(***************************************************************************)
EXTENDS PodController

CONSTANTS p1, p2, p3, r1, r2, r3

Jprofiler(port) == [name |-> "jprofiler", port |-> port]

Profiled  == [ip |-> "10.1.0.1", ports |-> <<Jprofiler(7000), Jprofiler(7001)>>]
Unnamed   == [ip |-> "10.1.0.2", ports |-> <<[name |-> "http", port |-> 80]>>]

OneContent  == {Profiled}
TwoContents == {Profiled, Unnamed}

OnePodEach == [r \in Requests |-> CASE r = r1 -> p1 [] r = r2 -> p2 [] OTHER -> p3]
SamePod    == [r \in Requests |-> p1]
==============================================================================
