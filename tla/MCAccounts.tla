----------------------------- MODULE MCAccounts -----------------------------
(* Small instances of Accounts for TLC: the first company logs in and      *)
(* changes its password twice, the other has a bearer from the start.      *)
EXTENDS Accounts, TLC

CONSTANTS c1, c2

MCMaxPasswords == (c1 :> 2) @@ (c2 :> 0)
=============================================================================
