------------------------------ MODULE PodEntry ------------------------------
(***************************************************************************)
(* What V1 promises of its entry port: it leads nowhere until it is open,  *)
(* and then always to exactly one target, the program itself or one Pod.   *)
(* A Pod may take the place of another, and the default target comes back  *)
(* in the end.                                                             *)
(***************************************************************************)
CONSTANTS Default, Targets, Nowhere

VARIABLE target

Init == target = Nowhere

Open == target = Nowhere /\ target' = Default

Map(t) == target # Nowhere /\ t \in Targets /\ target' = t

Revert == target \in Targets /\ target' = Default

Next == Open \/ (\E t \in Targets : Map(t)) \/ Revert

Spec == Init /\ [][Next]_target

FairSpec == Spec /\ WF_target(Revert)
==============================================================================
