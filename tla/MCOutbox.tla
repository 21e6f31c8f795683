------------------------------ MODULE MCOutbox ------------------------------
(* Small instances of Outbox for TLC. *)
EXTENDS Outbox, TLC

(* Rows and replicas are interchangeable in every safety property. *)
Symmetry == Permutations(Events) \cup Permutations(Processors)
=============================================================================
