-------------------------- MODULE MCEventDelivery --------------------------
(* Small instances of EventDelivery for TLC. *)
EXTENDS EventDelivery, TLC

(* Events, contracts and replicas are interchangeable. *)
Symmetry == UNION {Permutations(S) : S \in {Events, Contracts, Processors}}
=============================================================================
