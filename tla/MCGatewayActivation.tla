------------------------ MODULE MCGatewayActivation ------------------------
(* Three definitions: one differs in an endpoint field, one in a shared one. *)
EXTENDS GatewayActivation, TLC

ThreeDefinitions == {[shared |-> 1, endpoint |-> 1], [shared |-> 1, endpoint |-> 2],
                     [shared |-> 2, endpoint |-> 1]}
MutationSymmetry == Permutations(Mutations)
=============================================================================
