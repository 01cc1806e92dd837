------------------------------ MODULE PortLease ------------------------------
(***************************************************************************)
(* What the V2 controller promises of the ports it publishes: a Service    *)
(* port holds at most one port of the range, no two hold the same one, and *)
(* the port of a holder stays the same until it is taken back. A restart   *)
(* takes all of them back.                                                 *)
(***************************************************************************)
CONSTANTS Holders, Ports

VARIABLE lease   \* from the holders to their ports

Init == lease = <<>>

Grant(h, p) ==
  /\ h \notin DOMAIN lease
  /\ \A g \in DOMAIN lease : lease[g] # p
  /\ lease' = [g \in DOMAIN lease \cup {h} |-> IF g = h THEN p ELSE lease[g]]

Revoke(h) == lease' = [g \in DOMAIN lease \ {h} |-> lease[g]]

Reset == lease' = <<>>

Next == \/ \E h \in Holders, p \in Ports : Grant(h, p)
        \/ \E h \in Holders : Revoke(h)
        \/ Reset

Spec == Init /\ [][Next]_lease

\* No port is leased twice.
Exclusive == \A g, h \in DOMAIN lease : lease[g] = lease[h] => g = h
==============================================================================
