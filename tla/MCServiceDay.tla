---------------------------- MODULE MCServiceDay ----------------------------
(* Small instances of ServiceDay for TLC. *)
EXTENDS ServiceDay, TLC

(* Dates, requests and runs of the job are interchangeable. *)
Symmetry == UNION {Permutations(S) : S \in {Days, Requests, Jobs}}
=============================================================================
