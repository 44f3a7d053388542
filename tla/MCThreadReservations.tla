------------------------ MODULE MCThreadReservations ------------------------
(* Concurrent calls for one key, which differ only by name. *)
EXTENDS ThreadReservations, TLC

CallerSymmetry == Permutations(Callers)
=============================================================================
