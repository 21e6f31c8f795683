----------------------------- MODULE MCFinance -----------------------------
(* Small instances of Finance for TLC: days of three hours, months and     *)
(* weeks that end on the same Sunday, two contracts, and zones that change *)
(* their offset on that Sunday, at its midnight, within its week, or not   *)
(* at all.                                                                 *)
EXTENDS Finance, TLC

CONSTANTS a, b

Steady(o) == [before |-> o, after |-> o, at |-> 0]

MCZones == { Steady(-1), Steady(1),
             [before |-> 0, after |-> 1, at |-> 18],
             [before |-> 0, after |-> 1, at |-> 19],
             [before |-> 1, after |-> 0, at |-> 19],
             [before |-> -1, after |-> 0, at |-> 7] }

MCRows      == { << a, 6 >>, << a, 5 >>, << b, 7 >> }
MCPrice     == (a :> 5) @@ (b :> 8)
MCFirstDays == { -4, 0, 7, 11, 14 }
=============================================================================
