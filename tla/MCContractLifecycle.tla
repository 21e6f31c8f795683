------------------------ MODULE MCContractLifecycle ------------------------
(* Small instances of ContractLifecycle for TLC. *)
EXTENDS ContractLifecycle, TLC

(* Companies of one type, contracts and requests are interchangeable. *)
Symmetry ==
    UNION {Permutations(S) : S \in {Caterings, Clients, Contracts, Requests}}
=============================================================================
