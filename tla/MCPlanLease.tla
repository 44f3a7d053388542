---------------------------- MODULE MCPlanLease ----------------------------
(* Instances of PlanLease: each call has a process of its own, c3's on      *)
(* another host.                                                            *)
EXTENDS PlanLease

CONSTANTS c1, c2, c3, h1, h2

OwnProcess == [c \in Calls |-> c]
TwoHosts == [p \in Procs |-> IF p = c3 THEN h2 ELSE h1]

\* Once a fence was lost the properties promise nothing: no need to go on.
FenceKept == ~fenceLost
=============================================================================
