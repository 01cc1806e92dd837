------------------------- MODULE MCServiceController -------------------------
(***************************************************************************)
(* Instances of ServiceController for TLC: two or three Services, the last *)
(* in a namespace that is not allowed where a run says so, and a handful   *)
(* of contents.                                                            *)
(***************************************************************************)
EXTENDS ServiceController

CONSTANTS s1, s2, s3

Debug(port) == [name |-> "debug", port |-> port]
Http == [name |-> "http", port |-> 8080]

AllDefault == [s \in Services |-> "default"]
LastForbidden == [s \in Services |-> IF s = s3 THEN "kube-system" ELSE "default"]

Plain      == [clusterIP |-> "10.0.0.1", ports |-> <<Debug(80)>>]
TwoPorts   == [clusterIP |-> "10.0.0.2", ports |-> <<Http, Debug(81)>>]
Headless   == [clusterIP |-> "None", ports |-> <<Debug(80)>>]
NoDebug    == [clusterIP |-> "10.0.0.3", ports |-> <<Http>>]

OneObject   == {Plain}
AllObjects  == {Plain, TwoPorts, Headless, NoDebug}
==============================================================================
