------------------------ MODULE MCStorageMutationPool ------------------------
(***************************************************************************)
(* One mutation with an original authority, one without, a queue of one    *)
(* and two children.                                                       *)
(***************************************************************************)
EXTENDS StorageMutationPool

CONSTANTS m1, m2, c1, c2
=============================================================================
