------------------------- MODULE MCDurableDelivery -------------------------
(***************************************************************************)
(* Instances of DurableDelivery: executions in processes of their own, one *)
(* reconciler in the process of the first, on one host or on two.          *)
(***************************************************************************)
EXTENDS DurableDelivery, TLC

CONSTANTS e1, e2, e3, r1, p1, p2, p3, h1, h2

(* The first execution and the reconciler share a process. *)
Placement == [x \in Executions \cup Reconcilers |-> IF x \in {e1, r1} THEN p1 ELSE p2]
LocalHosts == [p \in Procs |-> h1]
(* p3 makes no call: it only asks for the state of a receipt, next to p1. *)
TwoHosts == [p \in Procs |-> IF p = p2 THEN h2 ELSE h1]
=============================================================================
