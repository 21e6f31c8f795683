------------------------------- MODULE Dates -------------------------------
(***************************************************************************)
(* Instants, dates and the zone of the server.  An instant counts ticks of *)
(* UTC, TicksPerDay of them to a day (in the program, milliseconds); a     *)
(* date counts days, and date 0 is a Monday.  A JavaScript Date is an      *)
(* instant: its getUTC... methods read it in UTC (src/src/shared/domain/   *)
(* date.utils.ts uses only these), getDay, getHours, setDate and setHours  *)
(* in the zone of the server.  A zone changes its offset at most once.     *)
(***************************************************************************)
EXTENDS Integers

CONSTANT TicksPerDay

ASSUME DatesAssumption == TicksPerDay \in Nat \ {0}

Zone == [before : Int, after : Int, at : Int]

(* The zones of the earth are less than a day from UTC, and their clocks   *)
(* are set by less than a day.                                             *)
StaysWithinDay(z) ==
    { z.before, z.after, z.after - z.before }
        \subseteq (1 - TicksPerDay)..(TicksPerDay - 1)

Offset(z, t) == IF t < z.at THEN z.before ELSE z.after
Local(z, t)  == t + Offset(z, t)

(* The instant of a local time.  One that comes twice is the first, one    *)
(* that is skipped is read with the offset from before.                    *)
FromLocal(z, l) ==
    IF l - z.before < z.at \/ l - z.after < z.at THEN l - z.before
                                                 ELSE l - z.after

(* A date column is the date of toISOString; read back, it is a midnight.  *)
DateOf(t)        == t \div TicksPerDay
MidnightOf(d)    == d * TicksPerDay
ToUTCMidnight(t) == MidnightOf(DateOf(t))
AddDays(t, n)    == t + n * TicksPerDay

(* 1 is Monday and 7 Sunday *)
IsoDow(d) == (d % 7) + 1

LocalDate(z, t)      == Local(z, t) \div TicksPerDay
ToIsoDayOfWeek(z, t) == IsoDow(LocalDate(z, t))
IsLocalMidnight(z, t) == Local(z, t) % TicksPerDay = 0

(* setDate(getDate() + n) and setHours(getHours() + n) *)
AddLocalDays(z, t, n)  == FromLocal(z, Local(z, t) + n * TicksPerDay)
AddLocalHours(z, t, n) == FromLocal(z, Local(z, t) + n)

IsWest(z) == z.before < 0 \/ z.after < 0
IsEast(z) == z.before > 0 \/ z.after > 0
=============================================================================
