----------------------------- MODULE ServiceDay -----------------------------
(***************************************************************************)
(* The service days of one contract (src/src/modules/service-day): they    *)
(* are generated, the client confirms the expected quantity, the catering  *)
(* confirms the served one, and the hourly fallback job fills in what the  *)
(* client left open at the notice deadline.  Every one of these takes the  *)
(* time, loads rows, decides on the loaded entities and later saves them,  *)
(* all columns of a row by its id, whatever the row is by then.            *)
(*                                                                         *)
(* Of the time only this matters: whether the present is before, at or     *)
(* after the notice deadline of a day.                                     *)
(***************************************************************************)
EXTENDS Integers, FiniteSets

CONSTANTS
    Days,                  \* service dates of the contract
    Requests,              \* requests in flight at a time
    Jobs,                  \* runs of the fallback job, one per replica
    Quantities,            \* quantities that a request may carry
    minDailyQuantity,
    maxDailyQuantity,
    Null,
    MaxFaults              \* bound: saves and runs of the job that fail

ASSUME QuantityAssumption ==
    /\ Quantities \subseteq Nat
    /\ minDailyQuantity \in Nat
    /\ maxDailyQuantity \in Nat
    /\ minDailyQuantity <= maxDailyQuantity
    /\ MaxFaults \in Nat

Writers  == Requests \cup Jobs
Instants == {"before", "at", "after"}
Steps    == {"idle", "loading", "inserting", "saving"}
Status   == {"PENDING", "CONFIRMED"}

Row ==
    [ expectedQuantity    : Nat \cup {Null},
      expectedConfirmedAt : Instants \cup {Null},
      servedQuantity      : Nat \cup {Null},
      status              : Status ]

ASSUME NullAssumption ==
    /\ Null \notin Nat \cup Instants \cup Row \cup [Days -> Instants]
    /\ Requests \cap Jobs = {}

VARIABLES
    contractStatus,
    row,          \* the service_days table by date, Null without a row
    instant,      \* where the present is from each day's notice deadline
    (* Each writer's memory *)
    pc,
    now,          \* the time it has taken, as seen from each day's deadline
    entities,     \* rows it is going to write, by date
    (* What happened so far, for the properties; no action reads it *)
    overtaken,    \* days another has saved since the writer loaded them
    raced,        \* days saved by a writer that was overtaken
    faults

tables  == << contractStatus, row >>
memory  == << pc, now, entities >>
vars    == << tables, instant, memory, overtaken, raced, faults >>

NoEntities == [d \in Days |-> Null]
Loaded(w)  == {d \in Days : entities[w][d] # Null}

NewRow == [ expectedQuantity |-> Null, expectedConfirmedAt |-> Null,
            servedQuantity |-> Null, status |-> "PENDING" ]

Init ==
    /\ contractStatus = "ACTIVE"
    /\ row       = [d \in Days |-> Null]
    /\ instant   = [d \in Days |-> "before"]
    /\ pc        = [w \in Writers |-> "idle"]
    /\ now       = [w \in Writers |-> Null]
    /\ entities  = [w \in Writers |-> NoEntities]
    /\ overtaken = [w \in Writers |-> {}]
    /\ raced     = {}
    /\ faults    = 0

-----------------------------------------------------------------------------
(* The domain entity *)

(* Mutant: a confirmation is taken after the deadline, too *)
NeverLate(at) == TRUE

(* ensureWithinNoticePeriod throws if now > deadline. *)
WithinNoticePeriod(at) == at # "after"

InRange(q) == minDailyQuantity <= q /\ q <= maxDailyQuantity

(* Mutant: only the status is looked at, not expectedConfirmedAt *)
ConfirmExpectedAgain(e, q, at) ==
    /\ e.status # "CONFIRMED"
    /\ WithinNoticePeriod(at)
    /\ InRange(q)

CanConfirmExpected(e, q, at) ==
    /\ e.status # "CONFIRMED"
    /\ e.expectedConfirmedAt = Null
    /\ WithinNoticePeriod(at)
    /\ InRange(q)

WithExpected(e, q, at) ==
    [e EXCEPT !.expectedQuantity = q, !.expectedConfirmedAt = at]

(* Mutant: a day may be confirmed twice *)
ConfirmServedAgain(e, q) == q >= 0

CanConfirmServed(e, q) == e.status # "CONFIRMED" /\ q >= 0

WithServed(e, q) == [e EXCEPT !.servedQuantity = q, !.status = "CONFIRMED"]

NeedsFallback(e) == e.expectedQuantity = Null /\ e.status = "PENDING"

-----------------------------------------------------------------------------
(* A writer *)

(* The request answers, or the run of the job is over. *)
EndWork(w) ==
    /\ pc' = [pc EXCEPT ![w] = "idle"]
    /\ now' = [now EXCEPT ![w] = Null]
    /\ entities' = [entities EXCEPT ![w] = NoEntities]

(* clock.now(), before anything is loaded *)
Begin(w) ==
    /\ pc[w] = "idle"
    /\ pc' = [pc EXCEPT ![w] = "loading"]
    /\ now' = [now EXCEPT ![w] = instant]
    /\ UNCHANGED << tables, instant, entities, overtaken, raced, faults >>

Hold(w, step, loaded) ==
    /\ pc' = [pc EXCEPT ![w] = step]
    /\ entities' = [entities EXCEPT ![w] = loaded]
    /\ UNCHANGED << tables, instant, now, overtaken, raced, faults >>

(* ConfirmExpectedQuantityUseCase up to its save *)
LoadExpected(w, d, q) ==
    /\ pc[w] = "loading"
    /\ row[d] # Null
    /\ contractStatus = "ACTIVE"
    /\ CanConfirmExpected(row[d], q, now[w][d])
    /\ Hold(w, "saving",
            [NoEntities EXCEPT ![d] = WithExpected(row[d], q, now[w][d])])

(* ConfirmServedQuantityUseCase up to its save *)
LoadServed(w, d, q) ==
    /\ pc[w] = "loading"
    /\ row[d] # Null
    /\ contractStatus = "ACTIVE"
    /\ CanConfirmServed(row[d], q)
    /\ Hold(w, "saving", [NoEntities EXCEPT ![d] = WithServed(row[d], q)])

(* generateForContract up to its INSERT.  Which dates it asks for depends  *)
(* on the range and on the contract's days of the week.                    *)
LoadContract(w, dates) ==
    /\ pc[w] = "loading"
    /\ contractStatus = "ACTIVE"
    /\ Hold(w, "inserting",
            [d \in Days |-> IF d \in dates THEN NewRow ELSE Null])

(* Mutant: only the days whose deadline is this very instant *)
EligibleAtDeadline(w) ==
    {d \in Days : /\ row[d] # Null
                  /\ NeedsFallback(row[d])
                  /\ contractStatus = "ACTIVE"
                  /\ now[w][d] = "at"}

(* findEligibleForFallback: the deadline is reached, now included. *)
Eligible(w) ==
    {d \in Days : /\ row[d] # Null
                  /\ NeedsFallback(row[d])
                  /\ contractStatus = "ACTIVE"
                  /\ now[w][d] # "before"}

(* The job's query.  applyFallback then agrees to all of the rows found.   *)
FindEligible(w) ==
    /\ pc[w] = "loading"
    /\ IF Eligible(w) = {}
       THEN /\ EndWork(w)
            /\ UNCHANGED << tables, instant, overtaken, raced, faults >>
       ELSE Hold(w, "saving",
                 [d \in Days |->
                     IF d \in Eligible(w)
                     THEN WithExpected(row[d], minDailyQuantity, now[w][d])
                     ELSE Null])

(* The writer is done with d, whose loop or request then goes on or ends. *)
FinishDay(w, d) ==
    IF Loaded(w) = {d}
    THEN EndWork(w)
    ELSE /\ entities' = [entities EXCEPT ![w][d] = Null]
         /\ UNCHANGED << pc, now >>

(* Mutant: the row's status is not among the saved columns *)
SavedWithoutStatus(d, e) == [e EXCEPT !.status = row[d].status]

Saved(d, e) == e

(* repository.save: UPDATE ... WHERE id with all of the loaded entity. *)
Save(w, d) ==
    /\ pc[w] = "saving"
    /\ d \in Loaded(w)
    /\ row' = [row EXCEPT ![d] = Saved(d, entities[w][d])]
    /\ raced' = IF d \in overtaken[w] THEN raced \cup {d} ELSE raced
    /\ overtaken' = [v \in Writers |->
           IF v # w /\ pc[v] = "saving" /\ d \in Loaded(v)
           THEN overtaken[v] \cup {d}
           ELSE overtaken[v] \ {d}]
    /\ FinishDay(w, d)
    /\ UNCHANGED << contractStatus, instant, faults >>

(* Mutant: ON CONFLICT DO UPDATE *)
UpsertDays(w) ==
    /\ pc[w] = "inserting"
    /\ row' = [d \in Days |->
           IF d \in Loaded(w) THEN entities[w][d] ELSE row[d]]
    /\ EndWork(w)
    /\ UNCHANGED << contractStatus, instant, overtaken, raced, faults >>

(* One INSERT for all dates, ON CONFLICT DO NOTHING. *)
InsertDays(w) ==
    /\ pc[w] = "inserting"
    /\ row' = [d \in Days |->
           IF d \in Loaded(w) /\ row[d] = Null THEN entities[w][d] ELSE row[d]]
    /\ EndWork(w)
    /\ UNCHANGED << contractStatus, instant, overtaken, raced, faults >>

-----------------------------------------------------------------------------
(* Faults, the contract and the clock *)

(* A request is turned away by a check, or one of its statements throws. *)
Abandon(w) ==
    /\ w \in Requests
    /\ pc[w] # "idle"
    /\ EndWork(w)
    /\ overtaken' = [overtaken EXCEPT ![w] = {}]
    /\ UNCHANGED << tables, instant, raced, faults >>

Fault == faults < MaxFaults /\ faults' = faults + 1

(* A save of the job throws: it goes on with the next day. *)
SaveFails(w, d) ==
    /\ w \in Jobs
    /\ pc[w] = "saving"
    /\ d \in Loaded(w)
    /\ Fault
    /\ FinishDay(w, d)
    /\ overtaken' = [overtaken EXCEPT ![w] = @ \ {d}]
    /\ UNCHANGED << tables, instant, raced >>

(* The query of the job throws, or its replica is gone. *)
JobFails(w) ==
    /\ w \in Jobs
    /\ pc[w] # "idle"
    /\ Fault
    /\ EndWork(w)
    /\ overtaken' = [overtaken EXCEPT ![w] = {}]
    /\ UNCHANGED << tables, instant, raced >>

(* ContractService pauses, resumes or terminates the contract; as          *)
(* ContractLifecycle shows, any status can follow any other.               *)
ContractChanges(s) ==
    /\ contractStatus # s
    /\ contractStatus' = s
    /\ UNCHANGED << row, instant, memory, overtaken, raced, faults >>

Tick(d) ==
    /\ instant[d] # "after"
    /\ instant' = [instant EXCEPT ![d] = IF @ = "before" THEN "at" ELSE "after"]
    /\ UNCHANGED << tables, memory, overtaken, raced, faults >>

RequestStep(w) ==
    \/ Begin(w)
    \/ \E d \in Days, q \in Quantities : LoadExpected(w, d, q) \/ LoadServed(w, d, q)
    \/ \E dates \in SUBSET Days : LoadContract(w, dates)
    \/ \E d \in Days : Save(w, d)
    \/ InsertDays(w)
    \/ Abandon(w)

JobStep(w) ==
    \/ Begin(w)
    \/ FindEligible(w)
    \/ \E d \in Days : Save(w, d)

JobFault(w) == JobFails(w) \/ \E d \in Days : SaveFails(w, d)

Next ==
    \/ \E w \in Requests : RequestStep(w)
    \/ \E w \in Jobs : JobStep(w) \/ JobFault(w)
    \/ \E s \in {"ACTIVE", "PAUSED", "TERMINATED"} : ContractChanges(s)
    \/ \E d \in Days : Tick(d)

Spec == Init /\ [][Next]_vars

(* The job is started every hour and its statements settle; time passes. *)
Fairness ==
    /\ \A w \in Jobs : WF_vars(JobStep(w))
    /\ \A d \in Days : WF_vars(Tick(d))

FairSpec == Spec /\ Fairness

-----------------------------------------------------------------------------
(* Properties *)

Rows == Row \cup {Null}

TypeOK ==
    /\ contractStatus \in {"ACTIVE", "PAUSED", "TERMINATED"}
    /\ row \in [Days -> Rows]
    /\ instant \in [Days -> Instants]
    /\ pc \in [Writers -> Steps]
    /\ now \in [Writers -> [Days -> Instants] \cup {Null}]
    /\ entities \in [Writers -> [Days -> Rows]]
    /\ overtaken \in [Writers -> SUBSET Days]
    /\ raced \in SUBSET Days
    /\ faults \in 0 .. MaxFaults
    /\ \A w \in Writers :
          /\ pc[w] = "idle" <=> now[w] = Null
          /\ pc[w] = "saving" => Loaded(w) # {}
          /\ overtaken[w] # {} => pc[w] = "saving"
          /\ overtaken[w] \subseteq Loaded(w)

(* A row's columns agree: a quantity and its confirmation come together,   *)
(* and a day is CONFIRMED exactly when a served quantity is recorded.      *)
Coherent(e) ==
    /\ e.expectedQuantity = Null <=> e.expectedConfirmedAt = Null
    /\ e.servedQuantity = Null <=> e.status = "PENDING"

(* However saves of different writers mix, no row is half of one and half  *)
(* of the other.                                                           *)
RowsAreCoherent == \A d \in Days : row[d] # Null => Coherent(row[d])

(* An expected quantity is in the contract's range, and one that is not    *)
(* the minimum was given by the client no later than the deadline.         *)
InTime(e) ==
    e.expectedQuantity # Null =>
       /\ InRange(e.expectedQuantity)
       /\ e.expectedQuantity # minDailyQuantity =>
             e.expectedConfirmedAt # "after"

QuantitiesInTime == \A d \in Days : row[d] # Null => InTime(row[d])

(* A row that a quantity has been recorded in never returns to blank, not  *)
(* even when a writer saves what it loaded before.                         *)
Answered(e) == e # Null /\ (e.expectedQuantity # Null \/ e.status = "CONFIRMED")

AnsweredStaysAnswered ==
    [][\A d \in Days : Answered(row[d]) => Answered(row'[d])]_vars

(* Unless a save was overtaken by another on its day, a recorded quantity  *)
(* is never changed, nor anything once the day is CONFIRMED.               *)
ImmutableUnlessRaced ==
    [][\A d \in Days :
          row[d] # Null /\ d \notin raced' =>
             /\ row[d].expectedQuantity # Null =>
                   row'[d].expectedQuantity = row[d].expectedQuantity
             /\ row[d].status = "CONFIRMED" => row'[d] = row[d]]_vars

(* What a writer that was not overtaken may make of a row. *)
Follows(e, f) ==
    /\ e.status # "CONFIRMED"
    /\ e.expectedQuantity # Null => f.expectedQuantity = e.expectedQuantity

(* A loaded entity is as sound as the row it came from, answers it, and    *)
(* unless another has saved that row since, is an allowed change of it.    *)
EntitiesAreSound ==
    \A w \in Writers : \A d \in Loaded(w) :
       /\ Coherent(entities[w][d])
       /\ InTime(entities[w][d])
       /\ pc[w] = "inserting" \/ pc[w] = "saving"
       /\ pc[w] = "inserting" => entities[w][d] = NewRow
       /\ pc[w] = "saving" =>
             /\ row[d] # Null
             /\ Answered(entities[w][d])
             /\ d \notin overtaken[w] => Follows(row[d], entities[w][d])

(* What the action properties rest on. *)
IndInv == TypeOK /\ RowsAreCoherent /\ QuantitiesInTime /\ EntitiesAreSound

(* If the contract is ACTIVE from some time on, every day that exists is   *)
(* in the end answered: by the client, the catering or the fallback.       *)
EventuallyAnswered ==
    <>[](contractStatus = "ACTIVE") =>
       \A d \in Days : []<>(row[d] # Null => Answered(row[d]))
=============================================================================
