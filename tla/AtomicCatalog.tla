--------------------------- MODULE AtomicCatalog ---------------------------
(***************************************************************************)
(* What the route catalog promises its callers: one catalog of route       *)
(* configurations, changed by whole operations only, each operationId      *)
(* taking effect at most once and only on the catalog its caller expected. *)
(***************************************************************************)
CONSTANTS
    Requests,        \* the mutations callers may submit
    OpId,            \* the operationId of a request
    OpIds,
    Digest,          \* what routeCatalogOperationDigest tells apart
    Accepts(_, _),   \* the request's precondition on the catalog
    Outcomes(_, _),  \* the catalogs the request may turn a catalog into
    InitCatalogs,
    NoDigest         \* no receipt

VARIABLES
    catalog,         \* the route configurations
    committed        \* the digest committed under each operationId

Init ==
    /\ catalog \in InitCatalogs
    /\ committed = [o \in OpIds |-> NoDigest]

Commit(r) ==
    /\ committed[OpId[r]] = NoDigest
    /\ committed' = [committed EXCEPT ![OpId[r]] = Digest[r]]
    /\ Accepts(r, catalog)
    /\ catalog' \in Outcomes(r, catalog)

Next == \E r \in Requests : Commit(r)

Spec == Init /\ [][Next]_<<catalog, committed>>
=============================================================================
