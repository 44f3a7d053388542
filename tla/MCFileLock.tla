----------------------------- MODULE MCFileLock -----------------------------
(***************************************************************************)
(* Instances of FileLock: every call is made by a process of its own, on   *)
(* one host or with one process on another host.                           *)
(***************************************************************************)
EXTENDS FileLock

CONSTANTS c1, c2, c3, h1, h2

OwnProcess == [c \in Calls |-> c]
TwoHosts == [p \in Procs |-> IF p = c3 THEN h2 ELSE h1]
=============================================================================
