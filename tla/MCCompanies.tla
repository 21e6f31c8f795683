---------------------------- MODULE MCCompanies ----------------------------
(* Small instances of Companies for TLC. *)
EXTENDS Companies
=============================================================================
