------------------------------ MODULE Calendar ------------------------------
(***************************************************************************)
(* When the days of one ACTIVE contract are generated, and until when they *)
(* may be answered: the jobs of ServiceDayScheduler on the clock of a      *)
(* server that may be down for a time, in a zone that may not be UTC.      *)
(* ServiceDay has the writes of these jobs and what they do to each other; *)
(* here each is a step, and one tick is an hour.                           *)
(***************************************************************************)
EXTENDS Dates

CONSTANTS
    Zones,              \* zones the server may run in
    serviceDays,        \* the contract's weekdays
    noticePeriodHours,
    LastHour,           \* bound: hours that pass
    LastDate,           \* bound: the last date whose rows are kept
    LastRequest,        \* bound: the last date that is asked for by hand
    LongestRange        \* bound: days that are generated by hand at once

ASSUME CalendarAssumption ==
    /\ Zones \subseteq { z \in Zone : StaysWithinDay(z) }
    /\ serviceDays \subseteq 1..7
    /\ noticePeriodHours \in Nat
    /\ LastHour \in Nat /\ LastDate \in Nat
    /\ LastRequest \in Nat /\ LongestRange \in Nat
    /\ DateOf(LastHour) + 6 <= LastDate

VARIABLES
    zone,
    now,
    server,     \* down, started within this hour, or up
    due,        \* jobs that this hour has brought and that have not run
    rows,       \* what there is of each date: none, open or answered
    fresh,      \* history: dates generated within this hour
    timed       \* history: dates generated by hand from a time of day

vars == << zone, now, server, due, rows, fresh, timed >>

Dates == 0..LastDate

(* What a request may ask for: dates, and times of day on them *)
Requestable == 0..MidnightOf(LastRequest)

Init ==
    /\ zone \in Zones
    /\ now    = 0
    /\ server = "down"
    /\ due    = {}
    /\ rows   = [d \in Dates |-> "none"]
    /\ fresh  = {}
    /\ timed  = {}

-----------------------------------------------------------------------------
Today == DateOf(now)

(* The weekday is the local one (service-day.service.ts 91).               *)
IsServiceDay(z, t) == ToIsoDayOfWeek(z, t) \in serviceDays

(* Mutant: the walk takes its step before it stores the date *)
ServiceDatesLate(z, from, to) ==
    LET walk[t \in from..(to + 2 * TicksPerDay)] ==
            IF t > to THEN {}
            ELSE (IF IsServiceDay(z, t)
                  THEN {DateOf(AddLocalDays(z, t, 1))} ELSE {})
                 \cup walk[AddLocalDays(z, t, 1)]
    IN walk[from]

(* generateForContract walks from one local day to the next, and stores    *)
(* the date in UTC of each instant it comes by.                            *)
ServiceDates(z, from, to) ==
    LET walk[t \in from..(to + 2 * TicksPerDay)] ==
            IF t > to THEN {}
            ELSE (IF IsServiceDay(z, t) THEN {DateOf(t)} ELSE {})
                 \cup walk[AddLocalDays(z, t, 1)]
    IN walk[from]

(* From today's midnight, in UTC, to that of a week later *)
WeekFrom(z, t) ==
    ServiceDates(z, ToUTCMidnight(t), AddDays(ToUTCMidnight(t), 7))

Missing(D) == { d \in Dates \cap D : rows[d] = "none" }

(* ON CONFLICT DO NOTHING *)
InsertDays(D) ==
    /\ rows' = [d \in Dates |-> IF d \in Missing(D) THEN "open" ELSE rows[d]]
    /\ fresh' = fresh \cup Missing(D)

Generate ==
    /\ "generate" \in due
    /\ due' = due \ {"generate"}
    /\ InsertDays(WeekFrom(zone, now))
    /\ UNCHANGED << zone, now, server, timed >>

(* POST /contracts/:id/service-days/generate: of no days if they are the   *)
(* wrong way round.  @IsDateString takes a date, which new Date reads as a *)
(* midnight of UTC, and as well a time of day on it, from which the walk   *)
(* goes on at that time.                                                   *)
GenerateByHand(fromDate, toDate) ==
    LET D == ServiceDates(zone, fromDate, toDate) IN
    /\ server # "down"
    /\ fromDate <= toDate /\ toDate <= AddDays(fromDate, LongestRange)
    /\ InsertDays(D)
    /\ timed' = IF fromDate = ToUTCMidnight(fromDate) THEN timed
                ELSE timed \cup Missing(D)
    /\ UNCHANGED << zone, now, server, due >>

-----------------------------------------------------------------------------
(* Mutant: the time it is compared with is the one of the server's zone *)
EligibleLocal(d) ==
    rows[d] = "open" /\ MidnightOf(d) - noticePeriodHours <= Local(zone, now)

(* findEligibleForFallback does interval arithmetic on the date in UTC.    *)
Eligible(d) ==
    rows[d] = "open" /\ MidnightOf(d) - noticePeriodHours <= now

(* Mutant: days that have passed are let be *)
ApplyFallbackAhead ==
    /\ "fallback" \in due
    /\ due' = due \ {"fallback"}
    /\ rows' = [d \in Dates |->
                    IF Eligible(d) /\ d >= Today THEN "answered" ELSE rows[d]]
    /\ UNCHANGED << zone, now, server, fresh, timed >>

ApplyFallback ==
    /\ "fallback" \in due
    /\ due' = due \ {"fallback"}
    /\ rows' = [d \in Dates |-> IF Eligible(d) THEN "answered" ELSE rows[d]]
    /\ UNCHANGED << zone, now, server, fresh, timed >>

(* The deadline of the entity, and of service-day.rules.ts: setHours in    *)
(* the zone of the server                                                  *)
Deadline(d) == AddLocalHours(zone, MidnightOf(d), -noticePeriodHours)

(* ensureWithinNoticePeriod throws if now is after the deadline.           *)
WithinNoticePeriod(d) == ~(now > Deadline(d))

ConfirmExpected(d) ==
    /\ server # "down"
    /\ rows[d] = "open" /\ WithinNoticePeriod(d)
    /\ rows' = [rows EXCEPT ![d] = "answered"]
    /\ UNCHANGED << zone, now, server, due, fresh, timed >>

(* The two questions as service-day.rules.ts asks them: by elapsed hours,  *)
(* and past the deadline rather than at it.                                *)
IsWithinNoticePeriod(d)  == MidnightOf(d) - now >= noticePeriodHours

IsEligibleForFallback(d) == rows[d] = "open" /\ now > Deadline(d)

-----------------------------------------------------------------------------
(* EVERY_HOUR, and EVERY_DAY_AT_MIDNIGHT in the zone of the server *)
CronJobs(t) == {"fallback"} \cup
               (IF IsLocalMidnight(zone, t) THEN {"generate"} ELSE {})

(* An hour's jobs are over before the next hour begins.                    *)
Tick ==
    /\ now < LastHour /\ due = {}
    /\ now' = now + 1
    /\ fresh' = {}
    /\ server' = IF server = "down" THEN "down" ELSE "up"
    /\ due' = IF server = "down" THEN {} ELSE CronJobs(now + 1)
    /\ UNCHANGED << zone, rows, timed >>

(* Mutant: the days wait for the next midnight *)
StartIdle ==
    /\ server = "down"
    /\ server' = "started"
    /\ due' = {}
    /\ UNCHANGED << zone, now, rows, fresh, timed >>

(* onApplicationBootstrap generates, whatever the hour.                    *)
Start ==
    /\ server = "down"
    /\ server' = "started"
    /\ due' = {"generate"}
    /\ UNCHANGED << zone, now, rows, fresh, timed >>

Stop ==
    /\ server # "down"
    /\ server' = "down"
    /\ due' = {}
    /\ UNCHANGED << zone, now, rows, fresh, timed >>

Next ==
    \/ Tick \/ Start \/ Stop \/ Generate \/ ApplyFallback
    \/ \E d \in Dates : ConfirmExpected(d)
    \/ \E fromDate, toDate \in Requestable : GenerateByHand(fromDate, toDate)

Spec == Init /\ [][Next]_vars

-----------------------------------------------------------------------------
(* The variables have their types; a server that is down has no job left   *)
(* to run, and what is fresh is there.                                     *)
TypeOK ==
    /\ zone \in Zones
    /\ now \in 0..LastHour
    /\ server \in {"down", "started", "up"}
    /\ due \subseteq {"generate", "fallback"}
    /\ rows \in [Dates -> {"none", "open", "answered"}]
    /\ fresh \cup timed \subseteq { d \in Dates : rows[d] # "none" }
    /\ server = "down" => due = {}

GoesForward == zone.after > zone.before
GoesBack    == zone.after < zone.before

(* Midnights of UTC fall behind, into the day before of the zone.          *)
TurnsWest   == zone.before >= 0 /\ zone.after < 0

(* The days planned ahead: clocks that go back cost the last of the seven. *)
DaysAhead == IF GoesBack THEN 5 ELSE 6

(* The weekday that the local getDay gives to the midnight of date d *)
DowGiven(d) == ToIsoDayOfWeek(zone, MidnightOf(d))

(* A server that is up, with its work done, has planned today and the six  *)
(* days after it, also between the midnight of UTC and the one of its own  *)
(* zone.  When clocks go forward, or back to the west of Greenwich, the    *)
(* days behind the change are planned as they should be only by a run      *)
(* after it (service-day.scheduler.ts 71-98, 160-163).                     *)
WeekIsPlanned ==
    server # "down" /\ "generate" \notin due
        => \A d \in Today..(Today + DaysAhead) :
             DowGiven(d) \in serviceDays
                 => \/ rows[d] # "none"
                    \/ /\ GoesForward \/ TurnsWest
                       /\ MidnightOf(Today - 1) < zone.at
                       /\ zone.at <= MidnightOf(d)

LiesOnServiceWeekday(d) ==
    \/ IsoDow(d) \in serviceDays
    \/ IsWest(zone) /\ IsoDow(d - 1) \in serviceDays
    \/ GoesForward /\ IsoDow(d + 1) \in serviceDays
    \/ d \in timed /\ IsEast(zone) /\ IsoDow(d + 1) \in serviceDays

(* Rows lie on the weekdays of the contract, as the weekly report prints   *)
(* them, with three exceptions.  West of Greenwich the midnight of a date  *)
(* still belongs to the weekday before.  Where clocks go forward, the walk *)
(* from a midnight of UTC arrives an hour before one, and the dates it     *)
(* stores from there on are a day early (service-day.service.ts 85-99).    *)
(* And east of Greenwich a request that begins late in the day begins on   *)
(* the weekday after (service-day.controller.ts 77-81).  The comment of    *)
(* generateForContract has no exception (service-day.service.ts 68).       *)
RowsOnServiceWeekdays ==
    \A d \in Dates : rows[d] # "none" => LiesOnServiceWeekday(d)

(* The zone keeps its offset from the deadline of d to d itself, whether   *)
(* the notice is counted on the clock or in hours that pass.  A deadline   *)
(* that falls into the hour which clocks leave out passes the first test   *)
(* and not the second, one in the hour that comes twice the other way      *)
(* round.                                                                  *)
ClockIsEven(d) ==
    /\ Offset(zone, Deadline(d)) = Offset(zone, MidnightOf(d))
    /\ Offset(zone, MidnightOf(d) - noticePeriodHours)
          = Offset(zone, MidnightOf(d))

(* The entity, the query and the rules reckon a deadline in three ways,    *)
(* and agree unless the zone changes its offset between the deadline and   *)
(* the date: until the deadline a row is the client's, from the deadline   *)
(* on the fallback's, nobody's at no time, and both only at that moment,   *)
(* which the rules leave to the client alone (entity 212-219, repository   *)
(* 112-138, service-day.rules.ts 16-34 and 163-185).                       *)
DeadlinesAgree ==
    \A d \in Dates : ClockIsEven(d)
        => /\ IsWithinNoticePeriod(d) <=> WithinNoticePeriod(d)
           /\ IsEligibleForFallback(d) <=> Eligible(d) /\ now # Deadline(d)
           /\ rows[d] = "open" =>
                 /\ WithinNoticePeriod(d) \/ Eligible(d)
                 /\ WithinNoticePeriod(d) /\ Eligible(d) => now = Deadline(d)

(* The hourly job leaves no row open whose deadline has passed, but for    *)
(* rows generated in the same hour (scheduler 179-187).                    *)
FallbackIsPrompt ==
    server = "up" /\ "fallback" \notin due
        => \A d \in Dates \ fresh : ~Eligible(d)

(* A server that owes no generation ran one at some hour, and no midnight  *)
(* of its zone has come since: what that run came by is still there.       *)
WeekFollowsMidnight ==
    server # "down" /\ "generate" \notin due
        => \E g \in 0..now :
             /\ \A t \in (g + 1)..now : ~IsLocalMidnight(zone, t)
             /\ \A d \in Dates \cap WeekFrom(zone, g) : rows[d] # "none"

(* Where the rows lie, and that none is left behind, need nothing but      *)
(* themselves and the types; the week that is planned needs to know when   *)
(* it was planned.                                                         *)
IndInv ==
    TypeOK /\ FallbackIsPrompt /\ RowsOnServiceWeekdays /\ WeekFollowsMidnight
=============================================================================
