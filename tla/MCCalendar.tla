---------------------------- MODULE MCCalendar ----------------------------
(* Small instances of Calendar for TLC: days of four hours, a server in    *)
(* UTC, west of it and east of it, and five whose clocks go forward or     *)
(* back: once in the very hour of a deadline, once from Greenwich to the   *)
(* west of it.                                                             *)
EXTENDS Calendar

Steady(o) == [before |-> o, after |-> o, at |-> 0]

MCZones == { Steady(0), Steady(-1), Steady(2),
             [before |-> 0,  after |-> 1,  at |-> 6],
             [before |-> 0,  after |-> 1,  at |-> 8],
             [before |-> -2, after |-> -1, at |-> 10],
             [before |-> 0,  after |-> -1, at |-> 6],
             [before |-> 1,  after |-> 0,  at |-> 6] }
=============================================================================
