--------------------------- MODULE MCProcessLeases ---------------------------
(***************************************************************************)
(* Two owners with one child each; l1 of the first and l2 of the second    *)
(* compete for an exclusive key, l3 is another launch of the first owner.  *)
(***************************************************************************)
EXTENDS ProcessLeases

CONSTANTS o1, o2, l1, l2, l3, shared, own, drain1, stop1, kill1, dispose

LeaseOwner == [l \in Leases |-> IF l = l2 THEN o2 ELSE o1]
LeaseKey == [l \in Leases |-> IF l = l3 THEN own ELSE shared]
OneChild == [o \in Owners |-> 1]
Kinds == [c \in Calls |-> IF c = drain1 THEN "drain"
                          ELSE IF c = stop1 THEN "terminateOwner"
                          ELSE IF c = kill1 THEN "terminate" ELSE "dispose"]
Targets == [c \in Calls |-> IF c = kill1 THEN l1 ELSE IF c = drain1 THEN o2 ELSE o1]
=============================================================================
