------------------------------- MODULE Outbox -------------------------------
(***************************************************************************)
(* The transactional outbox: the rows of outbox_events, the replicas of    *)
(* OutboxProcessor that work on them (src/src/shared/outbox) and the       *)
(* passage of time.  A replica talks to PostgreSQL by single statements,   *)
(* so a run of the processor is a sequence of steps, one per statement or  *)
(* awaited publish, and other replicas, operators, crashes and the clock   *)
(* act between any two of them.                                            *)
(*                                                                         *)
(* Time is relative.  Every timestamp is kept as its distance from the     *)
(* present (0 is now, -3 is three ticks ago, 2 is two ticks ahead) and     *)
(* Tick moves all of them one step into the past.  Nothing in the code     *)
(* tells two instants apart that are both LockTimeout or more ago, so a    *)
(* timestamp stops at -LockTimeout and time needs no bound.                *)
(***************************************************************************)
EXTENDS Integers, FiniteSets

CONSTANTS
    Events,        \* outbox rows, by id
    Processors,    \* replicas of the OutboxProcessor service
    Null,          \* SQL NULL, and "no current event"
    MaxRetries,    \* DEFAULT_MAX_RETRIES, the max_retries column
    BatchSize,     \* BATCH_SIZE
    LockTimeout,   \* LOCK_TIMEOUT_MS, in ticks
    BaseBackoff,   \* BASE_BACKOFF_MS, in ticks
    MaxJitter,     \* largest jitter added to a backoff, in ticks
    MaxFaults,     \* bound: crashes, shutdowns and failed statements
    MaxRequeues    \* bound: calls of retryDeadEvents that move something

ASSUME OutboxAssumption ==
    /\ MaxRetries \in Nat \ {0}
    /\ BatchSize \in Nat \ {0}
    /\ LockTimeout \in Nat \ {0}
    /\ MaxJitter \in Nat
    /\ \A n \in 0 .. MaxRetries : BaseBackoff * 2^n \in Nat
    /\ MaxFaults \in Nat
    /\ MaxRequeues \in Nat

ASSUME NullAssumption ==
    /\ Null \notin Events
    /\ Null \notin Processors
    /\ Null \notin Int

VARIABLES
    (* The outbox_events table, column by column *)
    status,         \* "NONE" until the row is inserted
    retryCount,
    nextAttemptAt,
    lockedAt,
    lockedBy,
    (* Each replica's memory *)
    pc,             \* where its run is; "idle" is isProcessing = false
    manual,         \* the run is processNow, not the cron job
    isShuttingDown,
    now,            \* the `now` of the run, written into locked_at
    selected,       \* ids the claiming transaction has read
    claim,          \* claim[p][e]: retryCount of the claimed copy, Null if none
    current,        \* event of the loop's present iteration
    (* What happened so far, for the properties; no action reads it *)
    deliveries,     \* successful publishes of e, counted up to 2
    failures,       \* failed attempts on e, counted up to MaxRetries
    lostAck,        \* a publish of e succeeded and its replica does not know
                    \* of a record
    overrun,        \* a replica held e for LockTimeout or longer
    (* Bounds *)
    faults,
    requeues

row     == << status, retryCount, nextAttemptAt, lockedAt, lockedBy >>
memory  == << pc, manual, isShuttingDown, now, selected, claim, current >>
history == << deliveries, failures, lostAck, overrun >>
bounds  == << faults, requeues >>
vars    == << row, memory, history, bounds >>

Statuses == {"NONE", "PENDING", "PROCESSING", "PROCESSED", "DEAD"}
Steps    == {"idle", "selecting", "claiming", "looping", "publishing",
             "marking", "failing", "unheard"}

(* The steps inside processEvent, and those of them inside its catch.  A   *)
(* replica is "unheard" there when its UPDATE to PROCESSED was applied and *)
(* only the answer was lost: it handles a failure, as in "failing".        *)
InEvent   == {"publishing", "marking", "failing", "unheard"}
InFailure == {"failing", "unheard"}

NoClaims == [e \in Events |-> Null]

Lesser(a, b) == IF a <= b THEN a ELSE b

(* Events the replica has claimed and not finished with *)
Held(p)    == {e \in Events : claim[p][e] # Null}
Holders(e) == {p \in Processors : claim[p][e] # Null}

(* The replica has marked e without knowing, and takes it for failed. *)
Unheard(p, e) == pc[p] = "unheard" /\ current[p] = e
IsUnheard(e)  == \E p \in Processors : Unheard(p, e)

Init ==
    /\ status         = [e \in Events |-> "NONE"]
    /\ retryCount     = [e \in Events |-> 0]
    /\ nextAttemptAt  = [e \in Events |-> 0]
    /\ lockedAt       = [e \in Events |-> Null]
    /\ lockedBy       = [e \in Events |-> Null]
    /\ pc             = [p \in Processors |-> "idle"]
    /\ manual         = [p \in Processors |-> FALSE]
    /\ isShuttingDown = [p \in Processors |-> FALSE]
    /\ now            = [p \in Processors |-> 0]
    /\ selected       = [p \in Processors |-> {}]
    /\ claim          = [p \in Processors |-> NoClaims]
    /\ current        = [p \in Processors |-> Null]
    /\ deliveries     = [e \in Events |-> 0]
    /\ failures       = [e \in Events |-> 0]
    /\ lostAck        = [e \in Events |-> FALSE]
    /\ overrun        = [e \in Events |-> FALSE]
    /\ faults         = 0
    /\ requeues       = 0

-----------------------------------------------------------------------------
(* Writing to the table *)

(* storeEvent: the row is inserted with the domain change that raised it. *)
StoreEvent(e) ==
    /\ status[e] = "NONE"
    /\ status'        = [status EXCEPT ![e] = "PENDING"]
    /\ retryCount'    = [retryCount EXCEPT ![e] = 0]
    /\ nextAttemptAt' = [nextAttemptAt EXCEPT ![e] = 0]
    /\ UNCHANGED << lockedAt, lockedBy, memory, history, bounds >>

(* Mutant: the UPDATE of retryDeadEvents without its status guard *)
AnyAmong(ids) == ids

DeadAmong(ids) == {e \in ids : status[e] = "DEAD"}

(* retryDeadEvents: the lock columns of a dead row are clear already. *)
RetryDeadEvents(ids) ==
    LET requeued == DeadAmong(ids)
    IN  /\ requeued # {}
        /\ requeues < MaxRequeues
        /\ requeues'      = requeues + 1
        /\ status'        = [e \in Events |->
               IF e \in requeued THEN "PENDING" ELSE status[e]]
        /\ retryCount'    = [e \in Events |->
               IF e \in requeued THEN 0 ELSE retryCount[e]]
        /\ nextAttemptAt' = [e \in Events |->
               IF e \in requeued THEN 0 ELSE nextAttemptAt[e]]
        /\ UNCHANGED << lockedAt, lockedBy, memory, history, faults >>

-----------------------------------------------------------------------------
(* One run of a replica *)

Unlock(S) ==
    /\ lockedAt' = [e \in Events |-> IF e \in S THEN Null ELSE lockedAt[e]]
    /\ lockedBy' = [e \in Events |-> IF e \in S THEN Null ELSE lockedBy[e]]

(* Mutant: a lock counts as stale one tick early *)
StaleTooEarly ==
    {e \in Events : /\ status[e] = "PROCESSING"
                    /\ lockedAt[e] # Null
                    /\ lockedAt[e] <= 1 - LockTimeout}

(* Mutant: no stale lock is ever found *)
NothingStale == {}

(* Rows locked LOCK_TIMEOUT_MS ago or earlier.  The code computes the      *)
(* threshold just before the UPDATE that uses it.                          *)
StaleLocks ==
    {e \in Events : /\ status[e] = "PROCESSING"
                    /\ lockedAt[e] # Null
                    /\ lockedAt[e] <= -LockTimeout}

(* recoverStaleLocks: neither next_attempt_at nor retry_count changes. *)
RecoverStaleLocks ==
    /\ status' = [e \in Events |->
           IF e \in StaleLocks THEN "PENDING" ELSE status[e]]
    /\ Unlock(StaleLocks)

(* The entry of processOutbox and of processNow, up to `now = new Date()`. *)
StartRun(p, isManual) ==
    /\ pc[p] = "idle"
    /\ ~isManual => ~isShuttingDown[p]
    /\ pc'     = [pc EXCEPT ![p] = "selecting"]
    /\ manual' = [manual EXCEPT ![p] = isManual]
    /\ now'    = [now EXCEPT ![p] = 0]
    /\ RecoverStaleLocks
    /\ UNCHANGED << retryCount, nextAttemptAt, isShuttingDown, selected, claim,
                    current, history, bounds >>

Due(p) == {e \in Events : status[e] = "PENDING" /\ nextAttemptAt[e] <= now[p]}

(* ORDER BY next_attempt_at LIMIT BATCH_SIZE; the order of ties is open. *)
IsEarliestBatch(batch, due) ==
    /\ batch \subseteq due
    /\ Cardinality(batch) = Lesser(BatchSize, Cardinality(due))
    /\ \A e \in batch, f \in due \ batch : nextAttemptAt[e] <= nextAttemptAt[f]

(* The run is over: isProcessing = false, and its local variables are gone. *)
EndRun(p) ==
    /\ pc'       = [pc EXCEPT ![p] = "idle"]
    /\ manual'   = [manual EXCEPT ![p] = FALSE]
    /\ now'      = [now EXCEPT ![p] = 0]
    /\ selected' = [selected EXCEPT ![p] = {}]
    /\ claim'    = [claim EXCEPT ![p] = NoClaims]
    /\ current'  = [current EXCEPT ![p] = Null]

(* First statement of the claiming transaction. *)
SelectPending(p) ==
    /\ pc[p] = "selecting"
    /\ \E batch \in SUBSET Due(p) :
          /\ IsEarliestBatch(batch, Due(p))
          /\ IF batch = {}
             THEN EndRun(p)
             ELSE /\ pc' = [pc EXCEPT ![p] = "claiming"]
                  /\ selected' = [selected EXCEPT ![p] = batch]
                  /\ UNCHANGED << manual, now, claim, current >>
    /\ UNCHANGED << row, isShuttingDown, history, bounds >>

(* Mutant: the claiming UPDATE without its status guard *)
AllSelected(p) == selected[p]

Claimable(p) == {e \in selected[p] : status[e] = "PENDING"}

TakeRows(p, taken) ==
    /\ status'   = [e \in Events |->
           IF e \in taken THEN "PROCESSING" ELSE status[e]]
    /\ lockedAt' = [e \in Events |->
           IF e \in taken THEN now[p] ELSE lockedAt[e]]
    /\ lockedBy' = [e \in Events |->
           IF e \in taken THEN p ELSE lockedBy[e]]
    /\ UNCHANGED << retryCount, nextAttemptAt >>

(* Second statement: it sees what others committed since the first, takes  *)
(* the rows that are still PENDING and returns them as they are now.       *)
ClaimSelected(p) ==
    LET taken == Claimable(p)
    IN  /\ pc[p] = "claiming"
        /\ TakeRows(p, taken)
        /\ overrun'  = [e \in Events |->
               overrun[e] \/ (e \in taken /\ now[p] <= -LockTimeout)]
        /\ IF taken = {}
           THEN EndRun(p)
           ELSE /\ pc' = [pc EXCEPT ![p] = "looping"]
                /\ selected' = [selected EXCEPT ![p] = {}]
                /\ claim' = [claim EXCEPT ![p] =
                      [e \in Events |-> IF e \in taken THEN retryCount[e]
                                                       ELSE Null]]
                /\ UNCHANGED << manual, now, current >>
        /\ UNCHANGED << isShuttingDown, deliveries, failures, lostAck, bounds >>

(* Next iteration of the loop.  RETURNING gives the rows in any order. *)
BeginEvent(p, e) ==
    /\ pc[p] = "looping"
    /\ e \in Held(p)
    /\ manual[p] \/ ~isShuttingDown[p]
    /\ pc'      = [pc EXCEPT ![p] = "publishing"]
    /\ current' = [current EXCEPT ![p] = e]
    /\ UNCHANGED << row, manual, isShuttingDown, now, selected, claim, history,
                    bounds >>

(* The cron run's loop under shutdown: releaseEvent on the iteration's     *)
(* event, then break.  The other claimed rows stay as they are.            *)
ReleaseAndStop(p, e) ==
    /\ pc[p] = "looping"
    /\ e \in Held(p)
    /\ ~manual[p] /\ isShuttingDown[p]
    /\ status' = [status EXCEPT ![e] = "PENDING"]
    /\ Unlock({e})
    /\ EndRun(p)
    /\ UNCHANGED << retryCount, nextAttemptAt, isShuttingDown, history, bounds >>

(* eventBus.publish resolves *)
PublishOk(p) ==
    /\ pc[p] = "publishing"
    /\ pc' = [pc EXCEPT ![p] = "marking"]
    /\ deliveries' = [deliveries EXCEPT ![current[p]] = Lesser(@ + 1, 2)]
    /\ UNCHANGED << row, manual, isShuttingDown, now, selected, claim, current,
                    failures, lostAck, overrun, bounds >>

(* Mutant: a failed publish is logged and otherwise ignored *)
PublishSwallowed(p) ==
    /\ pc[p] = "publishing"
    /\ pc' = [pc EXCEPT ![p] = "marking"]
    /\ UNCHANGED << row, manual, isShuttingDown, now, selected, claim, current,
                    history, bounds >>

(* deserializeEvent or eventBus.publish throws *)
PublishFails(p) ==
    /\ pc[p] = "publishing"
    /\ pc' = [pc EXCEPT ![p] = "failing"]
    /\ failures' = [failures EXCEPT ![current[p]] = Lesser(@ + 1, MaxRetries)]
    /\ UNCHANGED << row, manual, isShuttingDown, now, selected, claim, current,
                    deliveries, lostAck, overrun, bounds >>

(* The iteration is over; the loop goes on while claimed events are left. *)
FinishEvent(p) ==
    IF Held(p) = {current[p]}
    THEN EndRun(p)
    ELSE /\ pc'      = [pc EXCEPT ![p] = "looping"]
         /\ claim'   = [claim EXCEPT ![p][current[p]] = Null]
         /\ current' = [current EXCEPT ![p] = Null]
         /\ UNCHANGED << manual, now, selected >>

(* The UPDATE to PROCESSED, by id alone: whoever holds the row by now. *)
MarkRow(e) ==
    /\ status' = [status EXCEPT ![e] = "PROCESSED"]
    /\ Unlock({e})
    /\ UNCHANGED << retryCount, nextAttemptAt >>

MarkProcessed(p) ==
    /\ pc[p] = "marking"
    /\ MarkRow(current[p])
    /\ FinishEvent(p)
    /\ UNCHANGED << isShuttingDown, history, bounds >>

(* calculateNextAttempt *)
NextAttemptDelays(n) == {BaseBackoff * 2^n + j : j \in 0 .. MaxJitter}

(* All counts from MaxRetries on act alike, so the count stops there. *)
NewRetryCount(n) == Lesser(n + 1, MaxRetries)

(* Mutant: dead one attempt early *)
IsPoisonEarly(n) == n + 1 >= MaxRetries

IsPoison(n) == n >= MaxRetries

(* The UPDATE of handleEventFailure, by id alone: it counts from the       *)
(* claimed copy and overwrites what the row has become, PROCESSED too.     *)
RecordFailure(e, n) ==
    /\ status' = [status EXCEPT ![e] =
                     IF IsPoison(n) THEN "DEAD" ELSE "PENDING"]
    /\ retryCount' = [retryCount EXCEPT ![e] = n]
    /\ IF IsPoison(n)
       THEN UNCHANGED nextAttemptAt
       ELSE \E d \in NextAttemptDelays(n) :
               nextAttemptAt' = [nextAttemptAt EXCEPT ![e] = d]
    /\ Unlock({e})

HandleEventFailure(p) ==
    /\ pc[p] \in InFailure
    /\ RecordFailure(current[p], NewRetryCount(claim[p][current[p]]))
    /\ FinishEvent(p)
    /\ UNCHANGED << isShuttingDown, history, bounds >>

-----------------------------------------------------------------------------
(* Faults *)

Fault == faults < MaxFaults /\ faults' = faults + 1

(* A statement outside processEvent's try throws, the claiming             *)
(* transaction, the release, or the UPDATE of handleEventFailure, and the  *)
(* run ends.  Either it was not applied, and the rows the replica has      *)
(* claimed stay PROCESSING, or it was and only the answer was lost.  (A    *)
(* release that was applied leaves what ReleaseAndStop leaves.)            *)
StatementFails(p) ==
    /\ \/ /\ \/ pc[p] \in {"selecting", "claiming"} \cup InFailure
             \/ pc[p] = "looping" /\ ~manual[p] /\ isShuttingDown[p]
          /\ UNCHANGED row
       \/ pc[p] = "claiming" /\ TakeRows(p, Claimable(p))
       \/ /\ pc[p] \in InFailure
          /\ RecordFailure(current[p], NewRetryCount(claim[p][current[p]]))
    /\ Fault
    /\ EndRun(p)
    /\ UNCHANGED << isShuttingDown, history, requeues >>

(* The UPDATE to PROCESSED throws and the catch takes it for a failed      *)
(* attempt, whether the row was not marked or was and the answer is lost.  *)
MarkFails(p) ==
    /\ pc[p] = "marking"
    /\ Fault
    /\ \/ pc' = [pc EXCEPT ![p] = "failing"] /\ UNCHANGED row
       \/ pc' = [pc EXCEPT ![p] = "unheard"] /\ MarkRow(current[p])
    /\ failures' = [failures EXCEPT ![current[p]] = Lesser(@ + 1, MaxRetries)]
    /\ lostAck' = [lostAck EXCEPT ![current[p]] = TRUE]
    /\ UNCHANGED << manual, isShuttingDown, now, selected, claim, current,
                    deliveries, overrun, requeues >>

(* onModuleDestroy *)
ShutDown(p) ==
    /\ ~isShuttingDown[p]
    /\ Fault
    /\ isShuttingDown' = [isShuttingDown EXCEPT ![p] = TRUE]
    /\ UNCHANGED << row, pc, manual, now, selected, claim, current, history,
                    requeues >>

(* The process is gone and its supervisor has started another. *)
Restart(p) ==
    /\ EndRun(p)
    /\ isShuttingDown' = [isShuttingDown EXCEPT ![p] = FALSE]
    /\ lostAck' = [e \in Events |->
           lostAck[e] \/ (pc[p] = "marking" /\ current[p] = e)]
    /\ UNCHANGED << row, deliveries, failures, overrun, requeues >>

(* Nothing waits for a run in progress when the process is told to stop. *)
Exit(p)  == isShuttingDown[p] /\ Restart(p) /\ UNCHANGED faults
Crash(p) == pc[p] # "idle" /\ Fault /\ Restart(p)

Aged(t) == IF t > -LockTimeout THEN t - 1 ELSE t

Tick ==
    /\ nextAttemptAt' = [e \in Events |-> Aged(nextAttemptAt[e])]
    /\ lockedAt' = [e \in Events |->
           IF lockedAt[e] = Null THEN Null ELSE Aged(lockedAt[e])]
    /\ now' = [p \in Processors |->
           IF pc[p] = "idle" THEN now[p] ELSE Aged(now[p])]
    /\ overrun' = [e \in Events |->
           \/ overrun[e]
           \/ \E p \in Holders(e) : Aged(now[p]) <= -LockTimeout]
    /\ UNCHANGED << status, retryCount, lockedBy, pc, manual, isShuttingDown,
                    selected, claim, current, deliveries, failures, lostAck,
                    bounds >>

-----------------------------------------------------------------------------
ProcessorStep(p) ==
    \/ SelectPending(p)
    \/ ClaimSelected(p)
    \/ \E e \in Events : BeginEvent(p, e) \/ ReleaseAndStop(p, e)
    \/ PublishOk(p)
    \/ PublishFails(p)
    \/ MarkProcessed(p)
    \/ HandleEventFailure(p)

FaultStep(p) ==
    \/ StatementFails(p)
    \/ MarkFails(p)
    \/ ShutDown(p)
    \/ Exit(p)
    \/ Crash(p)

Next ==
    \/ \E e \in Events : StoreEvent(e)
    \/ \E ids \in SUBSET Events : RetryDeadEvents(ids)
    \/ \E p \in Processors :
          \/ \E isManual \in BOOLEAN : StartRun(p, isManual)
          \/ ProcessorStep(p)
          \/ FaultStep(p)
    \/ Tick

Spec == Init /\ [][Next]_vars

(* The cron job fires every five seconds, every awaited call settles, time *)
(* passes, and a process told to stop does exit.                           *)
Fairness ==
    /\ WF_vars(Tick)
    /\ \A p \in Processors :
          /\ WF_vars(StartRun(p, FALSE))
          /\ WF_vars(ProcessorStep(p))
          /\ WF_vars(Exit(p))

FairSpec == Spec /\ Fairness

-----------------------------------------------------------------------------
(* Properties *)

RowsTypeOK ==
    /\ status \in [Events -> Statuses]
    /\ retryCount \in [Events -> 0 .. MaxRetries]
    /\ nextAttemptAt \in [Events -> Int]
    /\ lockedAt \in [Events -> Int \cup {Null}]
    /\ lockedBy \in [Events -> Processors \cup {Null}]

MemoryTypeOK ==
    /\ pc \in [Processors -> Steps]
    /\ manual \in [Processors -> BOOLEAN]
    /\ isShuttingDown \in [Processors -> BOOLEAN]
    /\ now \in [Processors -> Int]
    /\ selected \in [Processors -> SUBSET Events]
    /\ claim \in [Processors -> [Events -> 0 .. MaxRetries \cup {Null}]]
    /\ current \in [Processors -> Events \cup {Null}]

(* A replica has a current event exactly while it is inside processEvent,  *)
(* the event is one it holds, and it holds events only inside the loop.    *)
ControlOK ==
    \A p \in Processors :
       /\ IF pc[p] \in InEvent
          THEN current[p] \in Held(p)
          ELSE current[p] = Null
       /\ pc[p] \in {"idle", "selecting", "claiming"} => Held(p) = {}

HistoryTypeOK ==
    /\ deliveries \in [Events -> 0 .. 2]
    /\ failures \in [Events -> 0 .. MaxRetries]
    /\ lostAck \in [Events -> BOOLEAN]
    /\ overrun \in [Events -> BOOLEAN]
    /\ faults \in 0 .. MaxFaults
    /\ requeues \in 0 .. MaxRequeues

(* Every variable has its type, and each replica's memory fits its step. *)
TypeOK == RowsTypeOK /\ MemoryTypeOK /\ ControlOK /\ HistoryTypeOK

(* A row is PROCESSING exactly while its lock columns are set.  Recovery   *)
(* finds a row by locked_at alone, so a PROCESSING row without one would   *)
(* be stranded, and a lock left on another row would be a false trail.     *)
LocksMatchStatus ==
    \A e \in Events :
       /\ (status[e] = "PROCESSING") <=> (lockedAt[e] # Null)
       /\ (status[e] = "PROCESSING") <=> (lockedBy[e] # Null)

(* No event is marked PROCESSED, by whichever replica, unless some publish *)
(* of it succeeded: nothing is dropped as done.                            *)
ProcessedWasDelivered ==
    \A e \in Events : status[e] = "PROCESSED" => deliveries[e] > 0

(* An event is dead-lettered only after MaxRetries failed attempts, even   *)
(* when replicas count from stale copies of its row or it was requeued.    *)
DeadWasRetried ==
    \A e \in Events :
       /\ retryCount[e] <= failures[e]
       /\ status[e] = "DEAD" => failures[e] = MaxRetries

(* While no replica has held e past the lock timeout, at most one works on *)
(* it, and the row names that one, or is marked PROCESSED by it without    *)
(* its knowing: claiming needs no row lock held.                           *)
HoldersAreExclusive ==
    \A e \in Events :
       ~overrun[e] => \A p \in Holders(e) :
                         /\ Holders(e) = {p}
                         /\ \/ lockedBy[e] = p
                            \/ Unheard(p, e) /\ status[e] = "PROCESSED"

(* An event is published twice only if a replica overran the lock timeout  *)
(* with it, or a successful publish could not be recorded.                 *)
DuplicatesAreExplained ==
    \A e \in Events : deliveries[e] > 1 => overrun[e] \/ lostAck[e]

(* The parts of the inductive invariant that the properties above need.    *)
(* A replica that has not overrun e still owns the lock it took with it,   *)
(* or has marked the row without knowing and is alone with it.             *)
HoldersOwnFreshLocks ==
    \A e \in Events : \A p \in Holders(e) :
       ~overrun[e] =>
          IF Unheard(p, e)
          THEN status[e] = "PROCESSED" /\ Holders(e) = {p}
          ELSE /\ lockedBy[e] = p
               /\ lockedAt[e] = now[p]
               /\ now[p] > -LockTimeout

(* A replica's copy of retry_count never exceeds the failed attempts, and  *)
(* while it handles a failure that failure is counted.                     *)
CopiesAreCounted ==
    \A p \in Processors : \A e \in Held(p) :
       /\ claim[p][e] <= failures[e]
       /\ (pc[p] \in InFailure /\ current[p] = e)
             => NewRetryCount(claim[p][e]) <= failures[e]

(* A replica about to record a success has had one, and so has one that    *)
(* has recorded it without knowing.                                        *)
MarkingWasDelivered ==
    \A p \in Processors :
       /\ pc[p] \in {"marking", "unheard"} => deliveries[current[p]] > 0
       /\ pc[p] = "unheard" => lostAck[current[p]]

(* A delivery is recorded, or about to be, or one of the reasons holds. *)
DeliveriesAreRecorded ==
    \A e \in Events :
       deliveries[e] > 0 =>
          \/ overrun[e]
          \/ lostAck[e]
          \/ status[e] = "PROCESSED"
          \/ \E p \in Processors : pc[p] = "marking" /\ current[p] = e

IndInv ==
    /\ TypeOK
    /\ LocksMatchStatus
    /\ HoldersOwnFreshLocks
    /\ ProcessedWasDelivered
    /\ MarkingWasDelivered
    /\ DeadWasRetried
    /\ CopiesAreCounted
    /\ DuplicatesAreExplained
    /\ DeliveriesAreRecorded

(* PROCESSED is final, but for two cases: a replica has overrun the event, *)
(* or the answer to the UPDATE that made it PROCESSED was lost and the     *)
(* replica that sent it is still inside handleEventFailure, whose UPDATE   *)
(* by id alone makes the row PENDING or DEAD.                              *)
ProcessedIsFinal ==
    [][\A e \in Events :
          status[e] = "PROCESSED" /\ ~overrun[e] /\ ~IsUnheard(e)
             => status'[e] = "PROCESSED"]_vars

(* Every stored event is in the end processed or dead-lettered, for good,  *)
(* whatever crashed, stalled or overwrote in between.                      *)
EventuallySettled ==
    \A e \in Events : <>[](status[e] \in {"NONE", "PROCESSED", "DEAD"})

(* The promise to an event that AtLeastOnce states, seen in its row. *)
StateOf(e) ==
    CASE status[e] = "NONE"                    -> "none"
      [] status[e] \in {"PENDING", "PROCESSING"} -> "open"
      [] status[e] = "PROCESSED"               ->
            IF IsUnheard(e) THEN "unsure" ELSE "done"
      [] status[e] = "DEAD"                    -> "dead"

Delivery == INSTANCE AtLeastOnce WITH
    state <- [e \in Events |-> StateOf(e)],
    late  <- overrun

(* Every step of the replicas, the operators, the faults and the clock is  *)
(* one the promise allows: no event is forgotten, done without a delivery, *)
(* dead with attempts left, or delivered again without one of the reasons. *)
ImplementsAtLeastOnce == Delivery!Spec
=============================================================================
