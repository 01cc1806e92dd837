---------------------------- MODULE MCPodProxier ----------------------------
(***************************************************************************)
(* Instances of PodProxier for TLC: one Pod and one request beside one     *)
(* Service or two.                                                         *)
(***************************************************************************)
EXTENDS PodProxier

CONSTANTS p1, r1, s1, s2

OnePod      == {[ip |-> "10.1.0.1", ports |-> <<[name |-> "jprofiler", port |-> 7000]>>]}
PodOfAll    == [r \in Requests |-> p1]
OneService  == {[clusterIP |-> "10.0.0.1", ports |-> <<[name |-> "debug", port |-> 80]>>]}
AllDefault  == [s \in Services |-> "default"]
==============================================================================
