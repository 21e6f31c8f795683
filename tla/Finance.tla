------------------------------ MODULE Finance ------------------------------
(***************************************************************************)
(* What a client company is shown of its money: the metrics of its months  *)
(* (ContractService.getFinanceMetrics, three SELECTs one after another     *)
(* while service days go on changing) and the weekly report of a contract  *)
(* (ServiceDayService.getWeeklyReport, one SELECT).  Both look for dates   *)
(* between instants of the server's zone.  ServiceDay has the writers of   *)
(* the rows; here a row of Rows is there from the start, with or without   *)
(* its quantities.                                                         *)
(***************************************************************************)
EXTENDS Dates, FiniteSetsExt

CONSTANTS
    Zones,              \* zones the server may run in
    Rows,               \* service days, pairs of a contract and a date
    pricePerService,    \* the price of each contract, in cents
    Cents,              \* cents to a unit of money (100 in the program)
    Orders, Counts,     \* quantities that are expected, and that are served
    FirstDays,          \* the dates that begin a month
    FirstHour, LastHour,    \* bounds: the time that passes
    MaxSaves,           \* bound: service days that change meanwhile
    RecentLimit,        \* services that are shown one by one
    Null

Contracts == { r[1] : r \in Rows }

(* A date has its month, one before it and one after it.                   *)
HasMonths(d) ==
    \E e, f, g, h \in FirstDays : e < f /\ f <= d /\ d < g /\ g < h

ASSUME FinanceAssumption ==
    /\ Zones \subseteq { z \in Zone : StaysWithinDay(z) }
    /\ IsFiniteSet(Rows) /\ \A r \in Rows : r[2] \in Int
    /\ pricePerService \in [Contracts -> Nat] /\ Cents \in Nat \ {0}
    /\ Orders \subseteq Nat /\ Counts \subseteq Nat
    /\ Null \notin Orders \cup Counts
    /\ FirstHour \in Int /\ LastHour \in Int /\ FirstHour <= LastHour
    /\ FirstDays \subseteq Int
    /\ \A d \in { r[2] : r \in Rows }
              \cup ((DateOf(FirstHour) - 1)..(DateOf(LastHour) + 1)) :
          HasMonths(d)
    /\ MaxSaves \in Nat /\ RecentLimit \in Nat \ {0}

(* servedQuantity is there if and only if the day is CONFIRMED: RowsAre-   *)
(* Coherent of ServiceDay.                                                 *)
Row == [ expectedQuantity : Orders \cup {Null},
         servedQuantity   : Counts \cup {Null} ]

VARIABLES
    zone, now,
    row,        \* the service_days table
    saves,      \* how many service days have changed
    (* The request for metrics *)
    stage,      \* what it does next
    asked,      \* its now
    current, previous, upcoming     \* what its SELECTs have answered

request == << stage, asked, current, previous, upcoming >>
vars    == << zone, now, row, saves, request >>

Nothing == [r \in {} |-> Null]

Init ==
    /\ zone \in Zones
    /\ now = FirstHour
    /\ row \in [Rows -> Row]
    /\ saves = 0
    /\ stage = "idle" /\ asked = FirstHour
    /\ current = Nothing /\ previous = Nothing /\ upcoming = Nothing

-----------------------------------------------------------------------------
(* Months and weeks *)

(* new Date(year, month, day): the midnight of a date in the server's zone *)
MidnightHere(d) == FromLocal(zone, d * TicksPerDay)

(* Rows whose dates lie between two instants: the driver sends the date of *)
(* toISOString.                                                            *)
Between(from, to) ==
    { r \in Rows : DateOf(from) <= r[2] /\ r[2] <= DateOf(to) }

FirstOf(d) == Max({ f \in FirstDays : f <= d })
LastOf(d)  == Min({ f \in FirstDays : f > d }) - 1

MonthOf(d) == Between(MidnightHere(FirstOf(d)), MidnightHere(LastOf(d)))

(* Mutant: the previous month ends on the first of this one *)
PreviousMonthWithFirst(d) ==
    Between(MidnightHere(FirstOf(FirstOf(d) - 1)), MidnightHere(FirstOf(d)))

PreviousMonth(d) ==
    LET end == FirstOf(d) - 1 IN
    Between(MidnightHere(FirstOf(end)), MidnightHere(end))

(* Mutant: the week ends with the next Monday *)
WeekOfEight(d) == Between(MidnightOf(d), AddLocalDays(zone, MidnightOf(d), 7))

(* The week of a report begins with the Monday that is asked for.          *)
WeekOf(d) == Between(MidnightOf(d), AddLocalDays(zone, MidnightOf(d), 6))

-----------------------------------------------------------------------------
(* Sums over the rows a SELECT has answered *)

Served(m)   == { r \in DOMAIN m : m[r].servedQuantity # Null }
Expected(m) == { r \in DOMAIN m : m[r].expectedQuantity # Null }

Price(r) == pricePerService[r[1]]

(* The sum of what a function has *)
Total(quantity) == MapThenSumSet(LAMBDA r : quantity[r], DOMAIN quantity)

TotalServed(m, days)   == Total([r \in days |-> m[r].servedQuantity])
TotalExpected(m, days) == Total([r \in days |-> m[r].expectedQuantity])

Persons(m)  == TotalServed(m, Served(m))
Meals(m)    == TotalExpected(m, Expected(m))
Consumed(m) == Total([r \in Served(m) |-> m[r].servedQuantity * Price(r)])

(* What Math.round makes of a / b, and 0 of nobody.  The amounts are sums, *)
(* quotients and products of floats: one that should lie on a half may     *)
(* fall to either side of it, and is rounded up or down.                   *)
Rounded(a, b) ==
    IF b > 0
    THEN { n \in (a \div b)..(a \div b + 1) :
             2 * a - b <= 2 * n * b /\ 2 * n * b <= 2 * a + b }
    ELSE {0}

(* An amount is shown without its cents. *)
Shown(amount) == Rounded(amount, Cents)

CostPerPerson(m)   == Rounded(Consumed(m), Persons(m) * Cents)
UtilizationRate(m) == Rounded(100 * Persons(m), Meals(m))

(* Mutant: days are counted from zero *)
ProjectedFromZero(m, t) ==
    LET d == LocalDate(zone, t) IN
    Rounded(Consumed(m) * (LastOf(d) - FirstOf(d)),
            (d - FirstOf(d) + 1) * Cents)

(* What the month comes to if it goes on like this *)
Projected(m, t) ==
    LET d == LocalDate(zone, t) IN
    Rounded(Consumed(m) * (LastOf(d) - FirstOf(d) + 1),
            (d - FirstOf(d) + 1) * Cents)

(* A quantity that is null or zero is not compared.                        *)
Compared(m, c) ==
    { r \in DOMAIN m : r[1] = c /\ {m[r].expectedQuantity, m[r].servedQuantity}
                                      \cap {Null, 0} = {} }

(* 0.1 is the float that is nearest to a tenth, and so is every quotient   *)
(* that should be one: here nothing falls to the other side.               *)
OverATenth(served, expected) ==
    10 * (served - expected) > expected \/ 10 * (expected - served) > expected

(* Mutant: what is served above the expected is all that counts *)
DeviatesAbove(m, c) ==
    LET days == Compared(m, c) IN
    10 * TotalServed(m, days) > 11 * TotalExpected(m, days)

(* The sums of a contract are compared.                                    *)
Deviates(m, c) ==
    LET days == Compared(m, c) IN
    OverATenth(TotalServed(m, days), TotalExpected(m, days))

(* What is shown as upcoming is counted only if somebody has ordered it.   *)
UpcomingServices(m) == Expected(m)

(* The last RecentLimit of the month up to now (of dates that tie at the   *)
(* limit, the code keeps as many as fit)                                   *)
RecentServices(m, t) ==
    LET past == { r \in DOMAIN m : MidnightOf(r[2]) <= t } IN
    { r \in past : Cardinality({ q \in past : q[2] > r[2] }) < RecentLimit }

-----------------------------------------------------------------------------
(* GET /contracts/finance-metrics *)

Take(rows) == [r \in rows |-> row[r]]

Ask ==
    /\ stage = "idle"
    /\ stage' = "current" /\ asked' = now
    /\ UNCHANGED << zone, now, row, saves, current, previous, upcoming >>

SelectCurrent ==
    /\ stage = "current"
    /\ stage' = "previous"
    /\ current' = Take(MonthOf(LocalDate(zone, asked)))
    /\ UNCHANGED << zone, now, row, saves, asked, previous, upcoming >>

(* Mutant: the SELECT reckons with a time of its own *)
SelectPreviousNow ==
    /\ stage = "previous"
    /\ stage' = "upcoming"
    /\ previous' = Take(PreviousMonth(LocalDate(zone, now)))
    /\ UNCHANGED << zone, now, row, saves, asked, current, upcoming >>

SelectPrevious ==
    /\ stage = "previous"
    /\ stage' = "upcoming"
    /\ previous' = Take(PreviousMonth(LocalDate(zone, asked)))
    /\ UNCHANGED << zone, now, row, saves, asked, current, upcoming >>

SelectUpcoming ==
    /\ stage = "upcoming"
    /\ stage' = "answered"
    /\ upcoming' = Take(Between(asked, AddDays(asked, 7)))
    /\ UNCHANGED << zone, now, row, saves, asked, current, previous >>

Answer ==
    /\ stage = "answered"
    /\ stage' = "idle" /\ asked' = FirstHour
    /\ current' = Nothing /\ previous' = Nothing /\ upcoming' = Nothing
    /\ UNCHANGED << zone, now, row, saves >>

-----------------------------------------------------------------------------
(* Elsewhere *)

(* A quantity is recorded.                                                 *)
Save(r, e) ==
    /\ saves < MaxSaves
    /\ saves' = saves + 1
    /\ row[r].servedQuantity = Null
    /\ row' = [row EXCEPT ![r] = e]
    /\ UNCHANGED << zone, now, request >>

SaveExpected(r, quantity) ==
    /\ row[r].expectedQuantity = Null
    /\ Save(r, [row[r] EXCEPT !.expectedQuantity = quantity])

SaveServed(r, quantity) ==
    Save(r, [row[r] EXCEPT !.servedQuantity = quantity])

Tick ==
    /\ now < LastHour
    /\ now' = now + 1
    /\ UNCHANGED << zone, row, saves, request >>

Next ==
    \/ Ask \/ SelectCurrent \/ SelectPrevious \/ SelectUpcoming \/ Answer
    \/ \E r \in Rows : \/ \E quantity \in Orders : SaveExpected(r, quantity)
                      \/ \E quantity \in Counts : SaveServed(r, quantity)
    \/ Tick

Spec == Init /\ [][Next]_vars

-----------------------------------------------------------------------------
(* The variables have their types.                                         *)
TypeOK ==
    /\ zone \in Zones
    /\ now \in FirstHour..LastHour /\ asked \in FirstHour..now
    /\ row \in [Rows -> Row]
    /\ saves \in 0..MaxSaves
    /\ stage \in {"idle", "current", "previous", "upcoming", "answered"}
    /\ \A m \in {current, previous, upcoming} :
         DOMAIN m \subseteq Rows /\ \A r \in DOMAIN m : m[r] \in Row

(* Clocks change during date d, or at its midnight: it is longer or        *)
(* shorter than a day.                                                     *)
ChangesOn(d) == MidnightHere(d + 1) - MidnightHere(d) # TicksPerDay

IsLastOfMonth(d) == d + 1 \in FirstDays

Monday(d) == d - (d % 7)

(* East of Greenwich a date begins before its midnight of UTC.             *)
BeginsEarly(d) == MidnightHere(d) < MidnightOf(d)

(* A meal counts in the month of its date and in one weekly report.  But   *)
(* where a month begins before its midnight of UTC, the last date of the   *)
(* month before counts in that month and not in its own; and when the      *)
(* offset changes on that date, it may count in both or in none (contract. *)
(* service.ts 362-371; line 374 and finance-metrics.dto.ts 5 say "current  *)
(* month").  When clocks go forward in a week before its Sunday, its       *)
(* report ends on the Saturday (service-day.service.ts 245-252).           *)
EveryMealCountsOnce ==
    \A r \in { q \in Rows : row[q].servedQuantity # Null } :
        LET d      == r[2]
            monday == Monday(d)
            months == { f \in FirstDays : r \in MonthOf(f) }
        IN  /\ \/ months = {FirstOf(d)}
               \/ IsLastOfMonth(d) /\ BeginsEarly(d + 1) /\ months = {d + 1}
               \/ IsLastOfMonth(d) /\ ChangesOn(d)
            /\ \/ { w \in {monday - 7, monday, monday + 7} : r \in WeekOf(w) }
                      = {monday}
               \/ /\ d = monday + 6
                  /\ Offset(zone, MidnightOf(monday))
                        < Offset(zone, MidnightOf(d))

(* What had been consumed when a month ended is what the next month begins *)
(* with as previousMonth (both are rounded, up or down, where the sum lies *)
(* on a half).                                                             *)
MonthClosesAsShown ==
    [][LET d       == LocalDate(zone, now)
           shown   == Take(MonthOf(d))
           comesTo == Take(PreviousMonth(LocalDate(zone, now)))'
       IN  FirstOf(LocalDate(zone, now')) > FirstOf(d)
              => Consumed(comesTo) = Consumed(shown)]_vars

Asked == LocalDate(zone, asked)

ServedIn(m) == { r \in Served(m) : m[r].servedQuantity > 0 }

(* An amount that lies between two units, at the same distance of both *)
IsHalf(amount) == 2 * (amount % Cents) = Cents

(* The figures of one answer fit together, though its SELECTs do not see   *)
(* the same moment: no meal is in both its months; the month ends at no    *)
(* less than what is consumed, and on its last day at just that, unless    *)
(* this is a half, which the two figures may round apart (contract.        *)
(* service.ts 485-486, 579-581); a person costs as much as the contracts   *)
(* say, to half a unit; more than all is used only where more was served   *)
(* than expected; and an ordered service that is shown neither as one of   *)
(* the last nor as upcoming is more than a week away or has newer ones     *)
(* before it.                                                              *)
FiguresFit ==
    stage = "answered" =>
        /\ \A r \in DOMAIN current \cap DOMAIN previous :
              ChangesOn(FirstOf(Asked) - 1)
        /\ \A consumed \in Shown(Consumed(current)),
              projected \in Projected(current, asked) :
              IF IsLastOfMonth(Asked)
              THEN \/ projected = consumed
                   \/ /\ IsHalf(Consumed(current))
                      /\ projected \in {consumed - 1, consumed + 1}
              ELSE consumed <= projected
        /\ \A m \in {current, previous} : Persons(m) > 0 =>
              \A cost \in CostPerPerson(m) :
                 /\ \E r \in ServedIn(m) :
                       2 * Price(r) <= (2 * cost + 1) * Cents
                 /\ \E r \in ServedIn(m) :
                       (2 * cost - 1) * Cents <= 2 * Price(r)
        /\ (\E rate \in UtilizationRate(current) : rate > 100) =>
              \E r \in ServedIn(current) :
                 \/ r \notin Expected(current)
                 \/ current[r].servedQuantity > current[r].expectedQuantity
        /\ \A r \in Expected(current) :
              \/ r \in RecentServices(current, asked)
              \/ r \in UpcomingServices(upcoming)
              \/ MidnightOf(r[2]) > AddDays(asked, 7)
              \/ \E q \in RecentServices(current, asked) : q[2] > r[2]

(* A contract whose recorded days all deviate to one side counts as        *)
(* deviating, unless a zero is recorded on each of them: a zero is falsy   *)
(* and takes its day out of the sums (contract.service.ts 519).  One of    *)
(* whose days none deviates does not count; days that deviate to both      *)
(* sides may cancel out (530-537).                                         *)
DeviationsAreFair ==
    \A c \in Contracts :
        LET days == { r \in Served(current) \cap Expected(current) : r[1] = c }
            less == { r \in days : 10 * current[r].servedQuantity
                                      < 9 * current[r].expectedQuantity }
            more == { r \in days : 10 * current[r].servedQuantity
                                      > 11 * current[r].expectedQuantity }
            zero == { r \in days : 0 \in {current[r].servedQuantity,
                                         current[r].expectedQuantity} }
        IN  /\ days \in {less, more} => Deviates(current, c) \/ days = zero
            /\ less \cup more = {} => ~Deviates(current, c)

(* What the SELECTs of a request have answered are the rows of its months  *)
(* and of the week to come; what was expected then is so from then on.     *)
AnswersAreRead ==
    /\ stage \in {"previous", "upcoming", "answered"} =>
          /\ DOMAIN current = MonthOf(Asked)
          /\ \A r \in Expected(current) : row[r].expectedQuantity # Null
    /\ stage \in {"upcoming", "answered"} =>
          DOMAIN previous = PreviousMonth(Asked)
    /\ stage = "answered" =>
          /\ DOMAIN upcoming = Between(asked, AddDays(asked, 7))
          /\ Expected(current) \cap DOMAIN upcoming \subseteq Expected(upcoming)

(* The memory of a request has its types, has read what it asked for, and  *)
(* counts deviations fairly.                                               *)
Inv == TypeOK /\ AnswersAreRead /\ DeviationsAreFair
=============================================================================
