--------------------------- MODULE MCRouteCatalog ---------------------------
(***************************************************************************)
(* Instances of RouteCatalog: two route files, one role, and requests that *)
(* exercise every kind of operation.                                       *)
(***************************************************************************)
EXTENDS RouteCatalog

CONSTANTS cap, res, rep, ren, rem, ens, a, b, x1

(* The catalog the clients of ren and rem have read. *)
FirstRead == [f \in Files |-> IF f = a THEN 1 ELSE Absent]

Payload ==
    [r \in {cap, res, rep, ren, rem, ens} |->
        IF r = cap THEN [kind |-> "capture", resolve |-> None, locks |-> {}]
        ELSE IF r = res THEN [kind |-> "capture", resolve |-> "rep", locks |-> {}]
        ELSE IF r = rep THEN [kind |-> "replace", locks |-> {},
                              config |-> [f \in Files |-> IF f = a THEN 2 ELSE 1]]
        ELSE IF r = ren THEN [kind |-> "upsert", target |-> b, content |-> 2, previous |-> a,
                              locks |-> {}]
        ELSE IF r = rem THEN [kind |-> "remove", target |-> a, locks |-> {}]
        ELSE [kind |-> "ensure_persona", target |-> x1, content |-> 1, locks |-> {x1}]]

(* The storage holds what they have read, with or without the role. *)
Disks == {[t \in Targets |-> IF t \in Files THEN FirstRead[t] ELSE v] : v \in {Absent}}

Operations == [r \in Requests |-> Payload[r]]
(* The replacement and the removal use one operationId for two payloads. *)
Ids == [r \in Requests |-> IF r \in {rep, rem} THEN "rep"
                           ELSE IF r = ren THEN "ren" ELSE IF r = ens THEN "ens" ELSE "other"]
IdSet == {Ids[r] : r \in Requests}
Reads == [r \in Requests |-> IF r = ren THEN FirstRead ELSE None]
=============================================================================
