--------------------------- MODULE Outbox_proofs ---------------------------
(***************************************************************************)
(* Proofs about Outbox for every set of events and replicas, every batch   *)
(* size, retry limit, lock timeout and backoff, and any number of faults.  *)
(***************************************************************************)
EXTENDS Outbox, TLAPS

USE OutboxAssumption, NullAssumption DEF InEvent, InFailure

-----------------------------------------------------------------------------
(* Steps shared by several actions *)

(* The end of a run leaves the replica idle, with nothing claimed. *)
LEMMA EndRunType ==
    ASSUME TypeOK, NEW p \in Processors, EndRun(p),
           isShuttingDown' \in [Processors -> BOOLEAN]
    PROVE  MemoryTypeOK' /\ ControlOK'
<1>1. NoClaims \in [Events -> 0 .. MaxRetries \cup {Null}]
  BY DEF NoClaims
<1>2. MemoryTypeOK'
  <2>1. selected' \in [Processors -> SUBSET Events]
    BY DEF TypeOK, MemoryTypeOK, EndRun
  <2> QED BY <1>1, <2>1 DEF TypeOK, MemoryTypeOK, EndRun, Steps
<1>3. ControlOK'
  <2> SUFFICES ASSUME NEW q \in Processors
               PROVE  /\ IF pc'[q] \in InEvent
                         THEN current'[q] \in Held(q)'
                         ELSE current'[q] = Null
                      /\ pc'[q] \in {"idle", "selecting", "claiming"}
                            => Held(q)' = {}
    BY DEF ControlOK
  <2>1. CASE q = p
    BY <2>1 DEF TypeOK, MemoryTypeOK, EndRun, NoClaims, Held
  <2>2. CASE q # p
    BY <2>2 DEF TypeOK, MemoryTypeOK, ControlOK, EndRun, Held
  <2> QED BY <2>1, <2>2
<1> QED BY <1>2, <1>3

(* Finishing an event drops the claim on it and nothing else. *)
LEMMA FinishEventType ==
    ASSUME TypeOK, NEW p \in Processors, FinishEvent(p),
           pc[p] \in InEvent,
           UNCHANGED isShuttingDown
    PROVE  MemoryTypeOK' /\ ControlOK'
<1>1. CASE Held(p) = {current[p]}
  BY <1>1, EndRunType DEF FinishEvent, TypeOK, MemoryTypeOK
<1>2. CASE Held(p) # {current[p]}
  <2>1. current[p] \in Held(p)
    BY DEF TypeOK, ControlOK
  <2>2. /\ pc' = [pc EXCEPT ![p] = "looping"]
        /\ claim' = [claim EXCEPT ![p][current[p]] = Null]
        /\ current' = [current EXCEPT ![p] = Null]
        /\ UNCHANGED << manual, now, selected >>
    BY <1>2 DEF FinishEvent
  <2>3. MemoryTypeOK'
    BY <2>1, <2>2 DEF TypeOK, MemoryTypeOK, Steps, Held
  <2>4. ControlOK'
    BY <2>1, <2>2 DEF TypeOK, MemoryTypeOK, ControlOK, Held, Steps
  <2> QED BY <2>3, <2>4
<1> QED BY <1>1, <1>2

(* Clearing locks keeps the columns' types. *)
LEMMA UnlockType ==
    ASSUME TypeOK, NEW S, Unlock(S)
    PROVE  /\ lockedAt' \in [Events -> Int \cup {Null}]
           /\ lockedBy' \in [Events -> Processors \cup {Null}]
  BY DEF TypeOK, RowsTypeOK, Unlock

LEMMA LesserType ==
    ASSUME NEW a \in Nat, NEW b \in Nat
    PROVE  Lesser(a, b) \in 0 .. b /\ Lesser(a, b) <= a
  BY DEF Lesser

(* The writes to the table keep the types of its columns. *)
LEMMA TakeRowsType ==
    ASSUME TypeOK, NEW p \in Processors, NEW taken, TakeRows(p, taken)
    PROVE  RowsTypeOK'
  BY DEF TypeOK, RowsTypeOK, MemoryTypeOK, TakeRows, Statuses

LEMMA MarkRowType ==
    ASSUME TypeOK, NEW e, MarkRow(e)
    PROVE  RowsTypeOK'
  BY UnlockType DEF TypeOK, RowsTypeOK, MarkRow, Statuses

LEMMA RecordFailureType ==
    ASSUME TypeOK, NEW p \in Processors, pc[p] \in InFailure,
           RecordFailure(current[p], NewRetryCount(claim[p][current[p]]))
    PROVE  RowsTypeOK'
<1>1. current[p] \in Held(p) /\ claim[p][current[p]] \in 0 .. MaxRetries
  BY DEF TypeOK, MemoryTypeOK, ControlOK, Held
<1>2. NewRetryCount(claim[p][current[p]]) \in 0 .. MaxRetries
  BY <1>1 DEF NewRetryCount, Lesser
<1>3. \A n \in 0 .. MaxRetries : NextAttemptDelays(n) \subseteq Int
  BY DEF NextAttemptDelays
<1>4. nextAttemptAt' \in [Events -> Int]
  BY <1>2, <1>3 DEF RecordFailure, TypeOK, RowsTypeOK
<1> QED
  BY <1>2, <1>4, UnlockType DEF RecordFailure, TypeOK, RowsTypeOK, Statuses

-----------------------------------------------------------------------------
(* Type correctness *)

LEMMA InitType == Init => TypeOK
  BY DEF Init, TypeOK, RowsTypeOK, MemoryTypeOK, ControlOK, HistoryTypeOK,
         Statuses, Steps, NoClaims, Held

LEMMA StepType == TypeOK /\ [Next]_vars => TypeOK'
<1> SUFFICES ASSUME TypeOK, [Next]_vars
             PROVE  TypeOK'
  OBVIOUS
<1>1. ASSUME NEW e \in Events, StoreEvent(e)
      PROVE  TypeOK'
  BY <1>1 DEF StoreEvent, TypeOK, RowsTypeOK, MemoryTypeOK, ControlOK,
              HistoryTypeOK, memory, history, bounds, Statuses, Held
<1>2. ASSUME NEW ids \in SUBSET Events, RetryDeadEvents(ids)
      PROVE  TypeOK'
  BY <1>2 DEF RetryDeadEvents, TypeOK, RowsTypeOK, MemoryTypeOK, ControlOK,
              HistoryTypeOK, memory, history, Statuses, Held
<1>3. ASSUME NEW p \in Processors, NEW isManual \in BOOLEAN,
             StartRun(p, isManual)
      PROVE  TypeOK'
  <2>1. RowsTypeOK'
    BY <1>3, UnlockType DEF StartRun, RecoverStaleLocks, TypeOK, RowsTypeOK,
                            Statuses
  <2>2. MemoryTypeOK'
    BY <1>3 DEF StartRun, TypeOK, MemoryTypeOK, Steps
  <2>3. ControlOK'
    BY <1>3 DEF StartRun, TypeOK, MemoryTypeOK, ControlOK, Held, Steps
  <2>4. HistoryTypeOK'
    BY <1>3 DEF StartRun, TypeOK, HistoryTypeOK, history, bounds
  <2> QED BY <2>1, <2>2, <2>3, <2>4 DEF TypeOK
<1>4. ASSUME NEW p \in Processors, SelectPending(p)
      PROVE  TypeOK'
  <2>1. RowsTypeOK' /\ HistoryTypeOK'
    BY <1>4 DEF SelectPending, TypeOK, RowsTypeOK, HistoryTypeOK, row, history,
                bounds
  <2>2. PICK batch \in SUBSET Due(p) :
             IF batch = {}
             THEN EndRun(p)
             ELSE /\ pc' = [pc EXCEPT ![p] = "claiming"]
                  /\ selected' = [selected EXCEPT ![p] = batch]
                  /\ UNCHANGED << manual, now, claim, current >>
    BY <1>4 DEF SelectPending
  <2>3. CASE batch = {}
    BY <1>4, <2>1, <2>2, <2>3, EndRunType
       DEF SelectPending, TypeOK, MemoryTypeOK
  <2>4. CASE batch # {}
    <3>1. batch \in SUBSET Events
      BY DEF Due
    <3>2. MemoryTypeOK'
      <4>1. selected' \in [Processors -> SUBSET Events]
        BY <2>2, <2>4, <3>1 DEF TypeOK, MemoryTypeOK
      <4> QED
        BY <1>4, <2>2, <2>4, <4>1 DEF SelectPending, TypeOK, MemoryTypeOK, Steps
    <3>3. ControlOK'
      BY <1>4, <2>2, <2>4
         DEF SelectPending, TypeOK, MemoryTypeOK, ControlOK, Held
    <3> QED BY <2>1, <3>2, <3>3 DEF TypeOK
  <2> QED BY <2>3, <2>4
<1>5. ASSUME NEW p \in Processors, ClaimSelected(p)
      PROVE  TypeOK'
  <2>1. RowsTypeOK' /\ HistoryTypeOK'
    BY <1>5, TakeRowsType DEF ClaimSelected, TypeOK, HistoryTypeOK, bounds
  <2>2. CASE Claimable(p) = {}
    BY <1>5, <2>1, <2>2, EndRunType DEF ClaimSelected, TypeOK, MemoryTypeOK
  <2>3. CASE Claimable(p) # {}
    <3>1. MemoryTypeOK'
      <4>1. selected' \in [Processors -> SUBSET Events]
        BY <1>5, <2>3 DEF ClaimSelected, TypeOK, MemoryTypeOK
      <4>2. claim' \in [Processors -> [Events -> 0 .. MaxRetries \cup {Null}]]
        <5> DEFINE copies == [e \in Events |-> IF e \in Claimable(p)
                                                THEN retryCount[e] ELSE Null]
        <5>1. copies \in [Events -> 0 .. MaxRetries \cup {Null}]
          BY DEF TypeOK, RowsTypeOK
        <5>2. claim' = [claim EXCEPT ![p] = copies]
          BY <1>5, <2>3 DEF ClaimSelected
        <5> HIDE DEF copies
        <5> QED BY <5>1, <5>2 DEF TypeOK, MemoryTypeOK
      <4> QED
        BY <1>5, <2>3, <4>1, <4>2
           DEF ClaimSelected, TypeOK, MemoryTypeOK, Steps
    <3>2. ControlOK'
      BY <1>5, <2>3 DEF ClaimSelected, TypeOK, MemoryTypeOK, ControlOK, Held
    <3> QED BY <2>1, <3>1, <3>2 DEF TypeOK
  <2> QED BY <2>2, <2>3
<1>6. ASSUME NEW p \in Processors, NEW e \in Events, BeginEvent(p, e)
      PROVE  TypeOK'
  BY <1>6 DEF BeginEvent, TypeOK, RowsTypeOK, MemoryTypeOK, ControlOK,
              HistoryTypeOK, row, history, bounds, Held, Steps
<1>7. ASSUME NEW p \in Processors, NEW e \in Events, ReleaseAndStop(p, e)
      PROVE  TypeOK'
  <2>1. RowsTypeOK' /\ HistoryTypeOK'
    BY <1>7, UnlockType DEF ReleaseAndStop, TypeOK, RowsTypeOK, HistoryTypeOK,
                            history, bounds, Statuses
  <2> QED BY <1>7, <2>1, EndRunType DEF ReleaseAndStop, TypeOK, MemoryTypeOK
<1>8. ASSUME NEW p \in Processors, PublishOk(p) \/ PublishFails(p)
      PROVE  TypeOK'
  <2>1. RowsTypeOK'
    BY <1>8 DEF PublishOk, PublishFails, TypeOK, RowsTypeOK, row
  <2>2. PICK s \in {"marking", "failing"} : pc' = [pc EXCEPT ![p] = s]
    BY <1>8 DEF PublishOk, PublishFails
  <2>3. /\ pc[p] = "publishing"
        /\ UNCHANGED << manual, isShuttingDown, now, selected, claim, current >>
    BY <1>8 DEF PublishOk, PublishFails
  <2>4. MemoryTypeOK' /\ ControlOK'
    BY <2>2, <2>3 DEF TypeOK, MemoryTypeOK, ControlOK, Held, Steps
  <2>5. current[p] \in Events
    BY <2>3 DEF TypeOK, ControlOK, Held
  <2>6. HistoryTypeOK'
    BY <1>8, <2>5, LesserType
       DEF PublishOk, PublishFails, TypeOK, HistoryTypeOK, bounds, Lesser
  <2> QED BY <2>1, <2>4, <2>6 DEF TypeOK
<1>9. ASSUME NEW p \in Processors, MarkProcessed(p)
      PROVE  TypeOK'
  <2>1. RowsTypeOK' /\ HistoryTypeOK'
    BY <1>9, MarkRowType DEF MarkProcessed, TypeOK, HistoryTypeOK, history,
                             bounds
  <2> QED BY <1>9, <2>1, FinishEventType DEF MarkProcessed, TypeOK
<1>10. ASSUME NEW p \in Processors, HandleEventFailure(p)
       PROVE  TypeOK'
  <2>1. RowsTypeOK' /\ HistoryTypeOK'
    BY <1>10, RecordFailureType
       DEF HandleEventFailure, TypeOK, HistoryTypeOK, history, bounds
  <2> QED BY <1>10, <2>1, FinishEventType DEF HandleEventFailure, TypeOK
<1>11. ASSUME NEW p \in Processors, StatementFails(p)
       PROVE  TypeOK'
  <2>1. HistoryTypeOK'
    BY <1>11 DEF StatementFails, Fault, TypeOK, HistoryTypeOK, history
  <2>2. RowsTypeOK'
    <3>1. CASE UNCHANGED row
      BY <3>1 DEF TypeOK, RowsTypeOK, row
    <3>2. CASE TakeRows(p, Claimable(p))
      BY <3>2, TakeRowsType
    <3>3. CASE /\ pc[p] \in InFailure
               /\ RecordFailure(current[p], NewRetryCount(claim[p][current[p]]))
      BY <3>3, RecordFailureType
    <3> QED BY <1>11, <3>1, <3>2, <3>3 DEF StatementFails
  <2> QED BY <1>11, <2>1, <2>2, EndRunType
          DEF StatementFails, TypeOK, MemoryTypeOK
<1>12. ASSUME NEW p \in Processors, MarkFails(p)
       PROVE  TypeOK'
  <2>1. RowsTypeOK'
    <3>1. CASE UNCHANGED row
      BY <3>1 DEF TypeOK, RowsTypeOK, row
    <3>2. CASE MarkRow(current[p])
      BY <3>2, MarkRowType
    <3> QED BY <1>12, <3>1, <3>2 DEF MarkFails
  <2>2. MemoryTypeOK' /\ ControlOK'
    BY <1>12 DEF MarkFails, TypeOK, MemoryTypeOK, ControlOK, Held, Steps
  <2>3. HistoryTypeOK'
    <3>1. current[p] \in Events
      BY <1>12 DEF MarkFails, TypeOK, ControlOK, Held
    <3>2. failures' \in [Events -> 0 .. MaxRetries]
      BY <1>12, <3>1 DEF MarkFails, TypeOK, HistoryTypeOK, Lesser
    <3> QED BY <1>12, <3>2 DEF MarkFails, Fault, TypeOK, HistoryTypeOK
  <2> QED BY <2>1, <2>2, <2>3 DEF TypeOK
<1>13. ASSUME NEW p \in Processors, ShutDown(p)
       PROVE  TypeOK'
  BY <1>13 DEF ShutDown, Fault, TypeOK, RowsTypeOK, MemoryTypeOK, ControlOK,
               HistoryTypeOK, row, history, Held
<1>14. ASSUME NEW p \in Processors, Exit(p) \/ Crash(p)
       PROVE  TypeOK'
  <2>1. Restart(p) /\ faults' \in 0 .. MaxFaults
    BY <1>14 DEF Exit, Crash, Fault, TypeOK, HistoryTypeOK
  <2>2. RowsTypeOK' /\ HistoryTypeOK'
    BY <2>1 DEF Restart, TypeOK, RowsTypeOK, HistoryTypeOK, row
  <2> QED BY <2>1, <2>2, EndRunType DEF Restart, TypeOK, MemoryTypeOK
<1>15. CASE Tick
  <2>1. \A t \in Int : Aged(t) \in Int
    BY DEF Aged
  <2> QED
    BY <1>15, <2>1 DEF Tick, TypeOK, RowsTypeOK, MemoryTypeOK, ControlOK,
                       HistoryTypeOK, bounds, Held
<1>16. CASE UNCHANGED vars
  BY <1>16 DEF vars, row, memory, history, bounds, TypeOK, RowsTypeOK,
               MemoryTypeOK, ControlOK, HistoryTypeOK, Held
<1> QED
  BY <1>1, <1>2, <1>3, <1>4, <1>5, <1>6, <1>7, <1>8, <1>9, <1>10, <1>11, <1>12,
     <1>13, <1>14, <1>15, <1>16
     DEF Next, ProcessorStep, FaultStep

(* Every reachable state is well typed. *)
THEOREM TypeCorrect == Spec => []TypeOK
  BY InitType, StepType, PTL DEF Spec
-----------------------------------------------------------------------------
(* What the end of an iteration or of a run does to the replica's memory:  *)
(* it may drop claims, it keeps the others as they are, and it does        *)
(* nothing to another replica.                                             *)

LetsGo(p) ==
    /\ pc'[p] \notin InEvent
    /\ \A e \in Held(p)' : claim'[p][e] = claim[p][e] /\ now'[p] = now[p]
    /\ \A q \in Processors \ {p} :
          /\ pc'[q] = pc[q]
          /\ current'[q] = current[q]
          /\ now'[q] = now[q]
          /\ claim'[q] = claim[q]

LEMMA EndRunLetsGo ==
    ASSUME TypeOK, NEW p \in Processors, EndRun(p)
    PROVE  LetsGo(p) /\ Held(p)' = {}
  BY DEF TypeOK, MemoryTypeOK, EndRun, LetsGo, InEvent, Held, NoClaims

LEMMA FinishEventLetsGo ==
    ASSUME TypeOK, NEW p \in Processors, pc[p] \in InEvent, FinishEvent(p)
    PROVE  LetsGo(p) /\ current[p] \notin Held(p)'
<1>1. CASE Held(p) = {current[p]}
  BY <1>1, EndRunLetsGo DEF FinishEvent
<1>2. CASE Held(p) # {current[p]}
  <2>1. current[p] \in Held(p)
    BY DEF TypeOK, ControlOK, InEvent
  <2>2. /\ pc' = [pc EXCEPT ![p] = "looping"]
        /\ claim' = [claim EXCEPT ![p][current[p]] = Null]
        /\ current' = [current EXCEPT ![p] = Null]
        /\ now' = now
    BY <1>2 DEF FinishEvent
  <2>3. claim[p] \in [Events -> 0 .. MaxRetries \cup {Null}]
    BY DEF TypeOK, MemoryTypeOK
  <2>4. claim'[p] = [claim[p] EXCEPT ![current[p]] = Null]
    BY <2>2 DEF TypeOK, MemoryTypeOK
  <2>5. \A e \in Held(p)' : claim'[p][e] = claim[p][e] /\ e # current[p]
    BY <2>1, <2>3, <2>4 DEF Held
  <2>6. /\ pc'[p] = "looping"
        /\ \A q \in Processors \ {p} :
              pc'[q] = pc[q] /\ current'[q] = current[q] /\ claim'[q] = claim[q]
    BY <2>2 DEF TypeOK, MemoryTypeOK
  <2> QED BY <2>2, <2>5, <2>6 DEF LetsGo, InEvent
<1> QED BY <1>1, <1>2

(* Letting go keeps what the remaining copies and successes are owed. *)
LEMMA LetsGoKeepsCopies ==
    ASSUME TypeOK, CopiesAreCounted, NEW p \in Processors, LetsGo(p),
           UNCHANGED failures
    PROVE  CopiesAreCounted'
<1> SUFFICES ASSUME NEW q \in Processors, NEW e \in Held(q)'
             PROVE  /\ claim'[q][e] <= failures'[e]
                    /\ (pc'[q] \in InFailure /\ current'[q] = e)
                         => NewRetryCount(claim'[q][e]) <= failures'[e]
  BY DEF CopiesAreCounted, NewRetryCount, Lesser
<1>1. e \in Held(q) /\ claim'[q][e] = claim[q][e]
  BY DEF LetsGo, Held
<1>2. pc'[q] \in InFailure => pc[q] \in InFailure /\ current'[q] = current[q]
  BY DEF LetsGo, InEvent
<1> QED BY <1>1, <1>2 DEF CopiesAreCounted

LEMMA LetsGoKeepsMarking ==
    ASSUME TypeOK, MarkingWasDelivered, NEW p \in Processors, LetsGo(p),
           UNCHANGED deliveries, \A e \in Events : lostAck[e] => lostAck'[e]
    PROVE  MarkingWasDelivered'
<1> SUFFICES ASSUME NEW q \in Processors, pc'[q] \in {"marking", "unheard"}
             PROVE  /\ deliveries'[current'[q]] > 0
                    /\ pc'[q] = "unheard" => lostAck'[current'[q]]
  BY DEF MarkingWasDelivered
<1>1. pc'[q] = pc[q] /\ current'[q] = current[q]
  BY DEF LetsGo
<1>2. current[q] \in Events
  BY <1>1 DEF TypeOK, ControlOK, Held
<1> QED BY <1>1, <1>2 DEF MarkingWasDelivered

(* A holder that has not overrun its event holds it alone, and the row is  *)
(* PROCESSING, or PROCESSED by a holder that does not know.                *)
LEMMA FreshHolder ==
    ASSUME TypeOK, LocksMatchStatus, HoldersOwnFreshLocks,
           NEW e \in Events, ~overrun[e], NEW p \in Holders(e)
    PROVE  /\ Holders(e) = {p}
           /\ status[e] = IF Unheard(p, e) THEN "PROCESSED" ELSE "PROCESSING"
<1>1. CASE Unheard(p, e)
  BY <1>1 DEF HoldersOwnFreshLocks
<1>2. CASE ~Unheard(p, e)
  <2>1. lockedBy[e] = p /\ lockedBy[e] # Null
    BY <1>2 DEF HoldersOwnFreshLocks, Holders
  <2>2. status[e] = "PROCESSING"
    BY <2>1 DEF LocksMatchStatus
  <2>3. \A q \in Holders(e) : q = p
    BY <2>1 DEF HoldersOwnFreshLocks
  <2> QED BY <1>2, <2>2, <2>3
<1> QED BY <1>1, <1>2

(* A step that only drops claims, and leaves the locks of what is still    *)
(* held and not overrun as they are.                                       *)
LEMMA FreshLocksStay ==
    ASSUME HoldersOwnFreshLocks,
           \A e \in Events : \A q \in Holders(e)' : ~overrun'[e] =>
              /\ ~overrun[e]
              /\ q \in Holders(e) /\ Holders(e)' \subseteq Holders(e)
              /\ now'[q] = now[q]
              /\ Unheard(q, e)' <=> Unheard(q, e)
              /\ status'[e] = status[e]
              /\ lockedBy'[e] = lockedBy[e] /\ lockedAt'[e] = lockedAt[e]
    PROVE  HoldersOwnFreshLocks'
<1> SUFFICES ASSUME NEW e \in Events, NEW q \in Holders(e)', ~overrun'[e]
             PROVE  IF Unheard(q, e)'
                    THEN status'[e] = "PROCESSED" /\ Holders(e)' = {q}
                    ELSE /\ lockedBy'[e] = q
                         /\ lockedAt'[e] = now'[q]
                         /\ now'[q] > -LockTimeout
  BY DEF HoldersOwnFreshLocks
<1>1. /\ ~overrun[e]
      /\ q \in Holders(e) /\ Holders(e)' \subseteq Holders(e)
      /\ now'[q] = now[q]
      /\ Unheard(q, e)' <=> Unheard(q, e)
      /\ status'[e] = status[e]
      /\ lockedBy'[e] = lockedBy[e] /\ lockedAt'[e] = lockedAt[e]
  OBVIOUS
<1>2. CASE Unheard(q, e)
  BY <1>1, <1>2 DEF HoldersOwnFreshLocks
<1>3. CASE ~Unheard(q, e)
  BY <1>1, <1>3 DEF HoldersOwnFreshLocks
<1> QED BY <1>2, <1>3

(* When a replica writes the row of an event it holds and lets go of it,   *)
(* every replica that holds an event without having overrun it still owns  *)
(* its lock.                                                               *)
LEMMA LetsGoKeepsLocks ==
    ASSUME TypeOK, LocksMatchStatus, HoldersOwnFreshLocks,
           NEW p \in Processors, NEW e \in Held(p), LetsGo(p),
           e \notin Held(p)', pc[p] \in InEvent => current[p] = e,
           Unlock({e}), \A f \in Events \ {e} : status'[f] = status[f],
           UNCHANGED overrun
    PROVE  HoldersOwnFreshLocks'
<1> SUFFICES ASSUME NEW f \in Events, NEW q \in Holders(f)', ~overrun'[f]
             PROVE  IF Unheard(q, f)'
                    THEN status'[f] = "PROCESSED" /\ Holders(f)' = {q}
                    ELSE /\ lockedBy'[f] = q
                         /\ lockedAt'[f] = now'[q]
                         /\ now'[q] > -LockTimeout
  BY DEF HoldersOwnFreshLocks
<1>1. q \in Processors /\ q \in Holders(f) /\ now'[q] = now[q]
  BY DEF LetsGo, Held, Holders
<1>2. f # e
  <2>1. p \in Holders(e)
    BY DEF Held, Holders
  <2>2. CASE q = p
    BY <2>2 DEF Held, Holders
  <2>3. CASE q # p
    BY <1>1, <2>1, <2>3, FreshHolder DEF Held
  <2> QED BY <2>2, <2>3
<1>3. /\ lockedBy'[f] = lockedBy[f]
      /\ lockedAt'[f] = lockedAt[f]
      /\ status'[f] = status[f]
  BY <1>2 DEF Unlock
<1>4. Unheard(q, f)' <=> Unheard(q, f)
  BY <1>1, <1>2 DEF LetsGo, Unheard
<1>5. Holders(f)' \subseteq Holders(f)
  BY DEF LetsGo, Held, Holders
<1>6. CASE Unheard(q, f)
  BY <1>1, <1>3, <1>4, <1>5, <1>6 DEF HoldersOwnFreshLocks
<1>7. CASE ~Unheard(q, f)
  BY <1>1, <1>3, <1>4, <1>7 DEF HoldersOwnFreshLocks
<1> QED BY <1>6, <1>7

(* An event that was delivered and is in the hands of a replica that is    *)
(* not about to record it has one of the reasons for a second delivery.    *)
LEMMA DeliveredInHand ==
    ASSUME TypeOK, LocksMatchStatus, HoldersOwnFreshLocks,
           MarkingWasDelivered, DeliveriesAreRecorded, NEW p \in Processors,
           NEW e \in Held(p), deliveries[e] > 0, pc[p] # "marking"
    PROVE  overrun[e] \/ lostAck[e]
<1> SUFFICES ASSUME ~overrun[e], ~lostAck[e]
             PROVE  FALSE
  OBVIOUS
<1>1. e \in Events /\ p \in Holders(e)
  BY DEF Held, Holders
<1>2. status[e] = "PROCESSING" /\ Holders(e) = {p}
  BY <1>1, FreshHolder DEF MarkingWasDelivered, Unheard
<1>3. PICK q \in Processors : pc[q] = "marking" /\ current[q] = e
  BY <1>1, <1>2 DEF DeliveriesAreRecorded
<1>4. q \in Holders(e)
  BY <1>3 DEF TypeOK, ControlOK, Held, Holders
<1> QED BY <1>2, <1>3, <1>4
-----------------------------------------------------------------------------
(* The inductive invariant *)

LEMMA InitInd == Init => IndInv
  BY InitType DEF Init, IndInv, LocksMatchStatus, HoldersOwnFreshLocks,
     ProcessedWasDelivered, MarkingWasDelivered, DeadWasRetried,
     CopiesAreCounted, DuplicatesAreExplained, DeliveriesAreRecorded, Holders,
     Held, NoClaims, Unheard

(* Inserting a row, and requeueing dead ones: no replica holds any of them *)
(* without having overrun it, since the row of a fresh holder is locked.   *)
LEMMA StoreInd ==
    ASSUME IndInv, NEW e \in Events, StoreEvent(e), TypeOK'
    PROVE  IndInv'
<1> USE DEF IndInv, StoreEvent, TypeOK, RowsTypeOK
<1>1. LocksMatchStatus' /\ ProcessedWasDelivered' /\ DeadWasRetried'
  BY DEF LocksMatchStatus, ProcessedWasDelivered, DeadWasRetried, history,
         HistoryTypeOK
<1>2. CopiesAreCounted' /\ MarkingWasDelivered'
  BY DEF CopiesAreCounted, MarkingWasDelivered, Held, memory, history,
         NewRetryCount, Lesser
<1>4. HoldersOwnFreshLocks'
  <2>1. ASSUME NEW f \in Events, NEW q \in Holders(f), ~overrun[f]
        PROVE  status[f] \in {"PROCESSING", "PROCESSED"}
    BY <2>1, FreshHolder
  <2>2. \A f \in Events : status[f] \in {"PROCESSING", "PROCESSED"}
                             => status'[f] = status[f]
    OBVIOUS
  <2>3. \A f \in Events : Holders(f)' = Holders(f)
    BY DEF Holders, memory
  <2>4. \A q \in Processors, f \in Events : Unheard(q, f)' <=> Unheard(q, f)
    BY DEF Unheard, memory
  <2> QED BY <2>1, <2>2, <2>3, <2>4, FreshLocksStay DEF Holders, memory, history
<1>3. DuplicatesAreExplained' /\ DeliveriesAreRecorded'
  BY DEF DuplicatesAreExplained, DeliveriesAreRecorded, memory, history
<1> QED BY <1>1, <1>2, <1>3, <1>4

LEMMA RequeueInd ==
    ASSUME IndInv, NEW ids \in SUBSET Events, RetryDeadEvents(ids), TypeOK'
    PROVE  IndInv'
<1> USE DEF IndInv, RetryDeadEvents, TypeOK, RowsTypeOK, DeadAmong
<1>1. LocksMatchStatus' /\ ProcessedWasDelivered' /\ DeadWasRetried'
  BY DEF LocksMatchStatus, ProcessedWasDelivered, DeadWasRetried, history,
         HistoryTypeOK
<1>2. CopiesAreCounted' /\ MarkingWasDelivered'
  BY DEF CopiesAreCounted, MarkingWasDelivered, Held, memory, history,
         NewRetryCount, Lesser
<1>4. HoldersOwnFreshLocks'
  <2>1. ASSUME NEW f \in Events, NEW q \in Holders(f), ~overrun[f]
        PROVE  status[f] \in {"PROCESSING", "PROCESSED"}
    BY <2>1, FreshHolder
  <2>2. \A f \in Events : status[f] \in {"PROCESSING", "PROCESSED"}
                             => status'[f] = status[f]
    OBVIOUS
  <2>3. \A f \in Events : Holders(f)' = Holders(f)
    BY DEF Holders, memory
  <2>4. \A q \in Processors, f \in Events : Unheard(q, f)' <=> Unheard(q, f)
    BY DEF Unheard, memory
  <2> QED BY <2>1, <2>2, <2>3, <2>4, FreshLocksStay DEF Holders, memory, history
<1>3. DuplicatesAreExplained' /\ DeliveriesAreRecorded'
  BY DEF DuplicatesAreExplained, DeliveriesAreRecorded, memory, history
<1> QED BY <1>1, <1>2, <1>3, <1>4

(* Recovery unlocks only locks that are LockTimeout old; a holder of such  *)
(* a row has overrun it.                                                   *)
LEMMA StartRunInd ==
    ASSUME IndInv, NEW p \in Processors, NEW isManual \in BOOLEAN,
           StartRun(p, isManual), TypeOK'
    PROVE  IndInv'
<1> USE DEF IndInv
<1>1. /\ pc' = [pc EXCEPT ![p] = "selecting"] /\ pc[p] = "idle"
      /\ now' = [now EXCEPT ![p] = 0]
      /\ UNCHANGED << retryCount, claim, current, deliveries, failures,
                      lostAck, overrun >>
  BY DEF StartRun, history
<1>2. Held(p) = {}
  BY <1>1 DEF TypeOK, ControlOK
<1>3. LocksMatchStatus' /\ ProcessedWasDelivered' /\ DeadWasRetried'
  BY <1>1 DEF StartRun, RecoverStaleLocks, StaleLocks, Unlock,
     LocksMatchStatus, ProcessedWasDelivered, DeadWasRetried
<1>4. HoldersOwnFreshLocks'
  <2>1. ASSUME NEW e \in Events, NEW q \in Holders(e)', ~overrun'[e]
        PROVE  /\ q \in Holders(e) /\ q # p
               /\ pc'[q] = pc[q] /\ now'[q] = now[q]
               /\ e \notin StaleLocks
    <3>1. q \in Holders(e) /\ q # p /\ ~overrun[e] /\ q \in Processors
      BY <1>1, <1>2, <2>1 DEF Holders, Held
    <3>2. pc'[q] = pc[q] /\ now'[q] = now[q]
      BY <1>1, <3>1 DEF TypeOK, MemoryTypeOK
    <3>3. CASE Unheard(q, e)
      BY <3>1, <3>2, <3>3, FreshHolder DEF StaleLocks
    <3>4. CASE ~Unheard(q, e)
      <4>1. lockedAt[e] = now[q] /\ now[q] > -LockTimeout
        BY <3>1, <3>4 DEF HoldersOwnFreshLocks
      <4> QED BY <3>1, <3>2, <4>1 DEF StaleLocks, TypeOK, MemoryTypeOK
    <3> QED BY <3>1, <3>2, <3>3, <3>4
  <2>2. \A e \in Events : e \notin StaleLocks =>
           /\ status'[e] = status[e]
           /\ lockedBy'[e] = lockedBy[e] /\ lockedAt'[e] = lockedAt[e]
    BY DEF StartRun, RecoverStaleLocks, Unlock
  <2>3. \A e \in Events : Holders(e)' = Holders(e)
    BY <1>1 DEF Holders
  <2> QED BY <1>1, <2>1, <2>2, <2>3, FreshLocksStay DEF Unheard
<1>5. CopiesAreCounted' /\ MarkingWasDelivered'
  BY <1>1 DEF CopiesAreCounted, MarkingWasDelivered, Held, TypeOK, MemoryTypeOK,
     NewRetryCount, Lesser
<1>6. DuplicatesAreExplained'
  BY <1>1 DEF DuplicatesAreExplained
<1>7. DeliveriesAreRecorded'
  BY <1>1 DEF DeliveriesAreRecorded, TypeOK, MemoryTypeOK, StartRun,
     RecoverStaleLocks, StaleLocks
<1> QED BY <1>3, <1>4, <1>5, <1>6, <1>7
LEMMA SelectInd ==
    ASSUME IndInv, NEW p \in Processors, SelectPending(p), TypeOK'
    PROVE  IndInv'
<1> USE DEF IndInv
<1>1. /\ pc[p] = "selecting"
      /\ UNCHANGED << row, history >>
  BY DEF SelectPending
<1>2. /\ pc'[p] \notin InEvent
      /\ \A q \in Processors :
            /\ Held(q)' \subseteq Held(q)
            /\ \A e \in Held(q)' : claim'[q][e] = claim[q][e] /\ now'[q] = now[q]
            /\ q # p => pc'[q] = pc[q] /\ current'[q] = current[q]
  <2>1. PICK batch \in SUBSET Due(p) :
             IF batch = {}
             THEN EndRun(p)
             ELSE /\ pc' = [pc EXCEPT ![p] = "claiming"]
                  /\ UNCHANGED << now, claim, current >>
    BY DEF SelectPending
  <2>2. CASE batch = {}
    BY <2>1, <2>2, EndRunLetsGo DEF LetsGo, Held
  <2>3. CASE batch # {}
    BY <2>1, <2>3 DEF TypeOK, MemoryTypeOK, InEvent, Held
  <2> QED BY <2>2, <2>3
<1>3. LocksMatchStatus' /\ ProcessedWasDelivered' /\ DeadWasRetried'
      /\ DuplicatesAreExplained'
  BY <1>1 DEF row, history, LocksMatchStatus, ProcessedWasDelivered,
              DeadWasRetried, DuplicatesAreExplained
<1>4. HoldersOwnFreshLocks'
  <2>1. \A e \in Events : Holders(e)' \subseteq Holders(e)
    BY <1>2 DEF Holders, Held
  <2>2. \A e \in Events, q \in Processors : Unheard(q, e)' <=> Unheard(q, e)
    BY <1>1, <1>2 DEF Unheard
  <2>3. \A e \in Events : \A q \in Holders(e)' : now'[q] = now[q]
    BY <1>2 DEF Holders, Held
  <2> QED BY <1>1, <2>1, <2>2, <2>3, FreshLocksStay DEF row, history, Holders
<1>5. CopiesAreCounted'
  BY <1>1, <1>2 DEF history, CopiesAreCounted, InEvent, NewRetryCount, Lesser
<1>6. MarkingWasDelivered'
  BY <1>1, <1>2 DEF history, MarkingWasDelivered, InEvent
<1>7. DeliveriesAreRecorded'
  BY <1>1, <1>2 DEF row, history, DeliveriesAreRecorded
<1> QED BY <1>3, <1>4, <1>5, <1>6, <1>7

(* The rows taken were PENDING, so nobody who has not overrun them held    *)
(* them; the copy's count is the row's; a lock born stale is an overrun.   *)
LEMMA ClaimInd ==
    ASSUME IndInv, NEW p \in Processors, ClaimSelected(p), TypeOK'
    PROVE  IndInv'
<1> USE DEF IndInv
<1> DEFINE taken == Claimable(p)
<1>1. /\ pc[p] = "claiming" /\ Held(p) = {}
      /\ UNCHANGED << retryCount, deliveries, failures, lostAck >>
      /\ taken \subseteq Events
      /\ \A e \in taken : status[e] = "PENDING"
  BY DEF ClaimSelected, TakeRows, Claimable, TypeOK, MemoryTypeOK, ControlOK
<1>2. \A e \in Events :
         /\ e \in taken => /\ status'[e] = "PROCESSING"
                           /\ lockedAt'[e] = now[p] /\ lockedBy'[e] = p
                           /\ overrun'[e] <=> overrun[e] \/ now[p] <= -LockTimeout
         /\ e \notin taken => /\ status'[e] = status[e]
                              /\ lockedAt'[e] = lockedAt[e]
                              /\ lockedBy'[e] = lockedBy[e]
                              /\ overrun'[e] <=> overrun[e]
  BY DEF ClaimSelected, TakeRows, TypeOK, HistoryTypeOK
<1>3. /\ pc'[p] \notin InEvent
      /\ \A q \in Processors \ {p} :
            /\ pc'[q] = pc[q] /\ current'[q] = current[q]
            /\ now'[q] = now[q] /\ claim'[q] = claim[q]
      /\ \A e \in Held(p)' :
            e \in taken /\ claim'[p][e] = retryCount[e] /\ now'[p] = now[p]
  <2>1. CASE taken = {}
    BY <2>1, EndRunLetsGo DEF ClaimSelected, LetsGo
  <2>2. CASE taken # {}
    <3>1. /\ pc' = [pc EXCEPT ![p] = "looping"]
          /\ claim' = [claim EXCEPT ![p] =
                [e \in Events |-> IF e \in taken THEN retryCount[e] ELSE Null]]
          /\ UNCHANGED << now, current >>
      BY <2>2 DEF ClaimSelected
    <3>2. /\ pc'[p] = "looping" /\ now'[p] = now[p]
          /\ \A q \in Processors \ {p} :
                /\ pc'[q] = pc[q] /\ current'[q] = current[q]
                /\ now'[q] = now[q] /\ claim'[q] = claim[q]
      BY <3>1 DEF TypeOK, MemoryTypeOK
    <3>3. claim'[p] = [e \in Events |->
                          IF e \in taken THEN retryCount[e] ELSE Null]
      BY <3>1 DEF TypeOK, MemoryTypeOK
    <3>4. \A e \in Held(p)' : e \in taken /\ claim'[p][e] = retryCount[e]
      BY <3>3 DEF Held
    <3> QED BY <3>2, <3>4 DEF InEvent
  <2> QED BY <2>1, <2>2
<1>4. LocksMatchStatus'
  <2>1. p # Null /\ now[p] # Null
    BY <1>1 DEF TypeOK, MemoryTypeOK, ControlOK
  <2> HIDE DEF taken
  <2>2. ASSUME NEW e \in Events
        PROVE  /\ (status'[e] = "PROCESSING") <=> (lockedAt'[e] # Null)
               /\ (status'[e] = "PROCESSING") <=> (lockedBy'[e] # Null)
    <3>1. CASE e \in taken
      BY <1>2, <2>1, <3>1
    <3>2. CASE e \notin taken
      BY <1>2, <3>2 DEF LocksMatchStatus
    <3> QED BY <3>1, <3>2
  <2> QED BY <2>2 DEF LocksMatchStatus
<1>5. HoldersOwnFreshLocks'
  <2> SUFFICES ASSUME NEW e \in Events, NEW q \in Holders(e)', ~overrun'[e]
               PROVE  IF Unheard(q, e)'
                      THEN status'[e] = "PROCESSED" /\ Holders(e)' = {q}
                      ELSE /\ lockedBy'[e] = q
                           /\ lockedAt'[e] = now'[q]
                           /\ now'[q] > -LockTimeout
    BY DEF HoldersOwnFreshLocks
  <2>1. CASE q = p
    <3>1. e \in taken /\ now'[p] = now[p]
      BY <1>3, <2>1 DEF Holders, Held
    <3>2. now[p] \in Int /\ ~(now[p] <= -LockTimeout)
      BY <1>2, <3>1 DEF TypeOK, MemoryTypeOK
    <3>3. ~Unheard(q, e)'
      BY <1>3, <2>1 DEF Unheard
    <3> QED BY <1>2, <2>1, <3>1, <3>2, <3>3
  <2>2. CASE q # p
    <3>1. /\ q \in Processors /\ q \in Holders(e) /\ now'[q] = now[q]
          /\ ~overrun[e]
      BY <1>2, <1>3, <2>2 DEF Holders
    <3>2. e \notin taken
      BY <1>1, <3>1, FreshHolder
    <3>3. Unheard(q, e)' <=> Unheard(q, e)
      BY <1>3, <2>2, <3>1 DEF Unheard
    <3>4. p \notin Holders(e)'
      BY <1>3, <3>2 DEF Holders, Held
    <3>5. Holders(e)' \subseteq Holders(e)
      BY <1>3, <3>4 DEF Holders
    <3>6. CASE Unheard(q, e)
      BY <1>2, <2>2, <3>1, <3>2, <3>3, <3>5, <3>6 DEF HoldersOwnFreshLocks, Holders
    <3>7. CASE ~Unheard(q, e)
      BY <1>2, <3>1, <3>2, <3>3, <3>7 DEF HoldersOwnFreshLocks
    <3> QED BY <3>6, <3>7
  <2> QED BY <2>1, <2>2
<1>6. ProcessedWasDelivered' /\ DeadWasRetried'
  BY <1>1, <1>2 DEF ProcessedWasDelivered, DeadWasRetried
<1>7. CopiesAreCounted'
  <2> SUFFICES ASSUME NEW q \in Processors, NEW e \in Held(q)'
               PROVE  /\ claim'[q][e] <= failures'[e]
                      /\ (pc'[q] \in InFailure /\ current'[q] = e)
                            => NewRetryCount(claim'[q][e]) <= failures'[e]
    BY DEF CopiesAreCounted, NewRetryCount, Lesser
  <2>1. CASE q = p
    BY <1>1, <1>3, <2>1 DEF DeadWasRetried, InEvent
  <2>2. CASE q # p
    BY <1>1, <1>3, <2>2 DEF CopiesAreCounted, Held
  <2> QED BY <2>1, <2>2
<1>8. MarkingWasDelivered'
  BY <1>1, <1>3 DEF MarkingWasDelivered, InEvent
<1>9. DuplicatesAreExplained'
  BY <1>1, <1>2 DEF DuplicatesAreExplained
<1>10. DeliveriesAreRecorded'
  BY <1>1, <1>2, <1>3 DEF DeliveriesAreRecorded
<1> QED BY <1>4, <1>5, <1>6, <1>7, <1>8, <1>9, <1>10

LEMMA BeginInd ==
    ASSUME IndInv, NEW p \in Processors, NEW e \in Events, BeginEvent(p, e),
           TypeOK'
    PROVE  IndInv'
<1> USE DEF IndInv
<1>1. /\ pc[p] = "looping" /\ pc' = [pc EXCEPT ![p] = "publishing"]
      /\ current' = [current EXCEPT ![p] = e]
      /\ UNCHANGED << row, now, claim, history >>
  BY DEF BeginEvent
<1>2. LocksMatchStatus' /\ ProcessedWasDelivered' /\ DeadWasRetried'
      /\ DuplicatesAreExplained'
  BY <1>1 DEF row, history, LocksMatchStatus, ProcessedWasDelivered,
     DeadWasRetried, DuplicatesAreExplained
<1>4. HoldersOwnFreshLocks'
  BY <1>1, FreshLocksStay DEF row, history, Holders, Unheard, TypeOK,
                              MemoryTypeOK
<1>3. CopiesAreCounted' /\ MarkingWasDelivered' /\ DeliveriesAreRecorded'
  BY <1>1 DEF row, history, CopiesAreCounted, MarkingWasDelivered,
     DeliveriesAreRecorded, Held, TypeOK, MemoryTypeOK, NewRetryCount, Lesser
<1> QED BY <1>2, <1>3, <1>4

LEMMA ReleaseInd ==
    ASSUME IndInv, NEW p \in Processors, NEW e \in Events,
           ReleaseAndStop(p, e), TypeOK'
    PROVE  IndInv'
<1> USE DEF IndInv
<1>1. /\ pc[p] = "looping" /\ e \in Held(p) /\ EndRun(p) /\ Unlock({e})
      /\ status' = [status EXCEPT ![e] = "PENDING"]
      /\ UNCHANGED << retryCount, history >>
  BY DEF ReleaseAndStop
<1>2. LetsGo(p) /\ e \notin Held(p)'
  BY <1>1, EndRunLetsGo
<1>3. LocksMatchStatus' /\ ProcessedWasDelivered' /\ DeadWasRetried'
      /\ DuplicatesAreExplained'
  BY <1>1 DEF history, LocksMatchStatus, ProcessedWasDelivered, DeadWasRetried,
     DuplicatesAreExplained, Unlock, TypeOK, RowsTypeOK
<1>4. HoldersOwnFreshLocks'
  BY <1>1, <1>2, LetsGoKeepsLocks DEF history
<1>5. CopiesAreCounted' /\ MarkingWasDelivered'
  BY <1>1, <1>2, LetsGoKeepsCopies, LetsGoKeepsMarking DEF history
<1>6. DeliveriesAreRecorded'
  <2>1. deliveries[e] > 0 => overrun[e] \/ lostAck[e]
    BY <1>1, DeliveredInHand
  <2> QED
    BY <1>1, <1>2, <2>1 DEF history, DeliveriesAreRecorded, LetsGo, TypeOK,
                            RowsTypeOK
<1> QED BY <1>3, <1>4, <1>5, <1>6
(* A publish that succeeds: an event delivered before and in this          *)
(* replica's hands has one of the reasons for a second delivery.           *)
LEMMA PublishOkInd ==
    ASSUME IndInv, NEW p \in Processors, PublishOk(p), TypeOK'
    PROVE  IndInv'
<1> USE DEF IndInv
<1> DEFINE e == current[p]
<1>1. /\ pc[p] = "publishing" /\ pc' = [pc EXCEPT ![p] = "marking"]
      /\ UNCHANGED << row, now, claim, current, failures, lostAck, overrun >>
      /\ deliveries' = [deliveries EXCEPT ![e] = Lesser(@ + 1, 2)]
  BY DEF PublishOk
<1>2. e \in Held(p) /\ e \in Events
  BY <1>1 DEF TypeOK, ControlOK, Held
<1>3. /\ deliveries'[e] > 0
      /\ deliveries[e] = 0 => deliveries'[e] = 1
      /\ \A f \in Events \ {e} : deliveries'[f] = deliveries[f]
  BY <1>1, <1>2 DEF TypeOK, HistoryTypeOK, Lesser
<1>4. LocksMatchStatus' /\ DeadWasRetried'
  BY <1>1 DEF row, LocksMatchStatus, DeadWasRetried
<1>10. HoldersOwnFreshLocks'
  BY <1>1, FreshLocksStay DEF row, Holders, Unheard, TypeOK, MemoryTypeOK
<1>5. ProcessedWasDelivered'
  BY <1>1, <1>3 DEF row, ProcessedWasDelivered
<1>6. CopiesAreCounted'
  BY <1>1 DEF CopiesAreCounted, Held, TypeOK, MemoryTypeOK, NewRetryCount,
     Lesser
<1>7. MarkingWasDelivered'
  <2> SUFFICES ASSUME NEW q \in Processors, pc'[q] \in {"marking", "unheard"}
               PROVE  /\ deliveries'[current[q]] > 0
                      /\ pc'[q] = "unheard" => lostAck[current[q]]
    BY <1>1 DEF MarkingWasDelivered
  <2>1. CASE q = p
    BY <1>1, <1>3, <2>1 DEF TypeOK, MemoryTypeOK
  <2>2. CASE q # p
    <3>1. pc'[q] = pc[q]
      BY <1>1, <2>2 DEF TypeOK, MemoryTypeOK
    <3>2. current[q] \in Events
      BY <3>1 DEF TypeOK, ControlOK, Held
    <3> QED BY <1>3, <3>1, <3>2 DEF MarkingWasDelivered
  <2> QED BY <2>1, <2>2
<1>8. DuplicatesAreExplained'
  <2>1. deliveries[e] > 0 => overrun[e] \/ lostAck[e]
    BY <1>1, <1>2, DeliveredInHand
  <2>2. deliveries[e] \in 0 .. 2
    BY <1>2 DEF TypeOK, HistoryTypeOK
  <2> QED BY <1>1, <1>3, <2>1, <2>2 DEF DuplicatesAreExplained
<1>9. DeliveriesAreRecorded'
  <2>1. pc'[p] = "marking" /\ current'[p] = e
    BY <1>1 DEF TypeOK, MemoryTypeOK
  <2>2. \A q \in Processors : pc[q] = "marking" => pc'[q] = "marking"
    BY <1>1 DEF TypeOK, MemoryTypeOK
  <2> QED BY <1>1, <1>3, <2>1, <2>2 DEF row, DeliveriesAreRecorded
<1> QED BY <1>4, <1>5, <1>6, <1>7, <1>8, <1>9, <1>10

(* A failed attempt, or a success that cannot be recorded, is counted      *)
(* before the row is written.                                              *)
LEMMA AttemptFailsInd ==
    ASSUME IndInv, NEW p \in Processors, PublishFails(p) \/ MarkFails(p), TypeOK'
    PROVE  IndInv'
<1> USE DEF IndInv
<1> DEFINE e == current[p]
<1>0. pc[p] \in {"publishing", "marking"}
  BY DEF PublishFails, MarkFails
<1>2. e \in Held(p) /\ e \in Events
  BY <1>0 DEF TypeOK, ControlOK, Held
<1>1. /\ pc[p] \in {"publishing", "marking"}
      /\ UNCHANGED << retryCount, now, claim, current, deliveries, overrun >>
      /\ failures' = [failures EXCEPT ![e] = Lesser(@ + 1, MaxRetries)]
      /\ \A f \in Events : lostAck[f] => lostAck'[f]
      /\ pc[p] = "marking" => lostAck'[e] /\ deliveries[e] > 0
  BY <1>2 DEF PublishFails, MarkFails, TypeOK, HistoryTypeOK, row, MarkRow,
              MarkingWasDelivered
<1>10. PICK s \in InFailure :
          /\ pc' = [pc EXCEPT ![p] = s]
          /\ s = "failing" => UNCHANGED row
          /\ s = "unheard" => pc[p] = "marking" /\ MarkRow(e)
  BY DEF PublishFails, MarkFails
<1>11. /\ pc'[p] = s
       /\ \A q \in Processors \ {p} : pc'[q] = pc[q]
  BY <1>10 DEF TypeOK, MemoryTypeOK
<1>12. \A f \in Events :
          \/ /\ status'[f] = status[f]
             /\ lockedAt'[f] = lockedAt[f] /\ lockedBy'[f] = lockedBy[f]
          \/ /\ f = e /\ s = "unheard" /\ pc[p] = "marking"
             /\ status'[f] = "PROCESSED"
             /\ lockedAt'[f] = Null /\ lockedBy'[f] = Null
  BY <1>10 DEF row, MarkRow, Unlock, TypeOK, RowsTypeOK
<1>3. /\ failures'[e] = Lesser(failures[e] + 1, MaxRetries)
      /\ failures[e] \in 0 .. MaxRetries
      /\ \A f \in Events : failures[f] <= failures'[f] /\ failures'[f] <= MaxRetries
  BY <1>1, <1>2 DEF TypeOK, HistoryTypeOK, Lesser
<1>4. LocksMatchStatus' /\ ProcessedWasDelivered'
  BY <1>1, <1>12 DEF LocksMatchStatus, ProcessedWasDelivered
<1>13. HoldersOwnFreshLocks'
  <2>1. \A f \in Events : Holders(f)' = Holders(f)
    BY <1>1 DEF Holders
  <2>2. CASE s = "failing"
    <3>1. \A f \in Events, q \in Processors : Unheard(q, f)' <=> Unheard(q, f)
      BY <1>1, <1>11, <2>2 DEF Unheard
    <3> QED BY <1>1, <1>10, <2>1, <2>2, <3>1, FreshLocksStay DEF row, Holders
  <2>3. CASE s = "unheard"
    <3> SUFFICES ASSUME NEW f \in Events, NEW q \in Holders(f)', ~overrun'[f]
                 PROVE  IF Unheard(q, f)'
                        THEN status'[f] = "PROCESSED" /\ Holders(f)' = {q}
                        ELSE /\ lockedBy'[f] = q
                             /\ lockedAt'[f] = now'[q]
                             /\ now'[q] > -LockTimeout
      BY DEF HoldersOwnFreshLocks
    <3>1. q \in Processors /\ q \in Holders(f) /\ ~overrun[f]
      BY <1>1, <2>1 DEF Holders
    <3>2. CASE f = e
      <4>1. p \in Holders(e) /\ Holders(e) = {q}
        BY <1>2, <3>1, <3>2, FreshHolder DEF Holders, Held
      <4>2. status'[e] = "PROCESSED" /\ pc'[p] = "unheard" /\ current'[p] = e
        BY <1>1, <1>2, <1>10, <1>11, <2>3 DEF MarkRow, TypeOK, RowsTypeOK
      <4>3. q = p /\ Unheard(q, f)'
        BY <3>2, <4>1, <4>2 DEF Unheard
      <4> QED BY <2>1, <3>2, <4>1, <4>2, <4>3
    <3>3. CASE f # e
      <4>1. Unheard(q, f)' <=> Unheard(q, f)
        BY <1>1, <1>11, <3>1, <3>3 DEF Unheard
      <4>2. CASE Unheard(q, f)
        BY <1>12, <2>1, <3>1, <3>3, <4>1, <4>2 DEF HoldersOwnFreshLocks
      <4>3. CASE ~Unheard(q, f)
        BY <1>1, <1>12, <3>1, <3>3, <4>1, <4>3 DEF HoldersOwnFreshLocks
      <4> QED BY <4>2, <4>3
    <3> QED BY <3>2, <3>3
  <2> QED BY <2>2, <2>3
<1>5. DeadWasRetried'
  BY <1>1, <1>3, <1>12 DEF DeadWasRetried, TypeOK, RowsTypeOK, HistoryTypeOK
<1>6. CopiesAreCounted'
  <2> SUFFICES ASSUME NEW q \in Processors, NEW f \in Held(q)'
               PROVE  /\ claim[q][f] <= failures'[f]
                      /\ (pc'[q] \in InFailure /\ current[q] = f)
                            => NewRetryCount(claim[q][f]) <= failures'[f]
    BY <1>1 DEF CopiesAreCounted, NewRetryCount, Lesser
  <2>1. f \in Held(q) /\ f \in Events /\ claim[q][f] \in 0 .. MaxRetries
    BY <1>1 DEF Held, TypeOK, MemoryTypeOK
  <2>2. claim[q][f] <= failures[f] /\ failures[f] \in 0 .. MaxRetries
        /\ failures'[f] \in 0 .. MaxRetries
    BY <2>1 DEF CopiesAreCounted, TypeOK, HistoryTypeOK
  <2>3. CASE q = p /\ f = e
    BY <1>3, <2>1, <2>2, <2>3 DEF NewRetryCount, Lesser
  <2>4. CASE q = p /\ f # e
    BY <1>3, <2>1, <2>2, <2>4
  <2>5. CASE q # p
    <3>1. pc'[q] = pc[q]
      BY <1>11, <2>5
    <3>2. (pc[q] \in InFailure /\ current[q] = f)
             => NewRetryCount(claim[q][f]) <= failures[f]
      BY <2>1 DEF CopiesAreCounted
    <3> QED BY <1>3, <2>1, <2>2, <3>1, <3>2 DEF NewRetryCount, Lesser
  <2> QED BY <2>3, <2>4, <2>5
<1>7. MarkingWasDelivered'
  <2> SUFFICES ASSUME NEW q \in Processors, pc'[q] \in {"marking", "unheard"}
               PROVE  /\ deliveries[current[q]] > 0
                      /\ pc'[q] = "unheard" => lostAck'[current[q]]
    BY <1>1 DEF MarkingWasDelivered
  <2>1. CASE q = p
    BY <1>1, <1>10, <1>11, <2>1
  <2>2. CASE q # p
    <3>1. pc'[q] = pc[q]
      BY <1>11, <2>2
    <3>2. current[q] \in Events
      BY <3>1 DEF TypeOK, ControlOK, Held
    <3> QED BY <1>1, <3>1, <3>2 DEF MarkingWasDelivered
  <2> QED BY <2>1, <2>2
<1>8. DuplicatesAreExplained'
  BY <1>1 DEF DuplicatesAreExplained
<1>9. DeliveriesAreRecorded'
  <2> SUFFICES ASSUME NEW f \in Events, deliveries[f] > 0, ~overrun[f],
                      ~lostAck'[f], status'[f] # "PROCESSED"
               PROVE  \E q \in Processors : pc'[q] = "marking" /\ current[q] = f
    BY <1>1 DEF DeliveriesAreRecorded
  <2>1. status[f] # "PROCESSED" /\ ~lostAck[f]
    BY <1>1, <1>12
  <2>2. PICK q \in Processors : pc[q] = "marking" /\ current[q] = f
    BY <2>1 DEF DeliveriesAreRecorded
  <2>3. q # p
    BY <1>1, <2>2
  <2> QED BY <1>11, <2>2, <2>3
<1> QED BY <1>4, <1>5, <1>6, <1>7, <1>8, <1>9, <1>13

LEMMA MarkProcessedInd ==
    ASSUME IndInv, NEW p \in Processors, MarkProcessed(p), TypeOK'
    PROVE  IndInv'
<1> USE DEF IndInv
<1> DEFINE e == current[p]
<1>1. /\ pc[p] = "marking" /\ FinishEvent(p) /\ Unlock({e})
      /\ status' = [status EXCEPT ![e] = "PROCESSED"]
      /\ UNCHANGED << retryCount, history >>
  BY DEF MarkProcessed, MarkRow
<1>2. e \in Held(p) /\ e \in Events /\ deliveries[e] > 0
  BY <1>1 DEF TypeOK, ControlOK, Held, MarkingWasDelivered
<1>3. LetsGo(p) /\ e \notin Held(p)'
  BY <1>1, FinishEventLetsGo DEF InEvent
<1>4. LocksMatchStatus' /\ ProcessedWasDelivered' /\ DeadWasRetried'
      /\ DuplicatesAreExplained'
  BY <1>1, <1>2 DEF history, LocksMatchStatus, ProcessedWasDelivered,
     DeadWasRetried, DuplicatesAreExplained, Unlock, TypeOK, RowsTypeOK
<1>5. HoldersOwnFreshLocks'
  BY <1>1, <1>2, <1>3, LetsGoKeepsLocks DEF history
<1>6. CopiesAreCounted' /\ MarkingWasDelivered'
  BY <1>1, <1>3, LetsGoKeepsCopies, LetsGoKeepsMarking DEF history
<1>7. DeliveriesAreRecorded'
  BY <1>1, <1>2, <1>3 DEF history, DeliveriesAreRecorded, LetsGo, TypeOK,
                          RowsTypeOK
<1> QED BY <1>4, <1>5, <1>6, <1>7

(* The record of a failed attempt, whether or not the replica hears of it. *)
LEMMA RecordFailureInd ==
    ASSUME IndInv, NEW p \in Processors, pc[p] \in InFailure,
           RecordFailure(current[p], NewRetryCount(claim[p][current[p]])),
           FinishEvent(p) \/ EndRun(p), UNCHANGED history, TypeOK'
    PROVE  IndInv'
<1> USE DEF IndInv
<1> DEFINE e == current[p]
           n == NewRetryCount(claim[p][e])
<1>1. /\ pc[p] \in InFailure /\ Unlock({e})
      /\ status' = [status EXCEPT ![e] =
                       IF IsPoison(n) THEN "DEAD" ELSE "PENDING"]
      /\ retryCount' = [retryCount EXCEPT ![e] = n]
      /\ UNCHANGED history
  BY DEF RecordFailure
<1>2. e \in Held(p) /\ e \in Events
  BY <1>1 DEF TypeOK, ControlOK, Held
<1>3. LetsGo(p) /\ e \notin Held(p)'
  BY <1>1, FinishEventLetsGo, EndRunLetsGo DEF InEvent
<1>4. LocksMatchStatus' /\ ProcessedWasDelivered' /\ DuplicatesAreExplained'
  BY <1>1, <1>2 DEF history, LocksMatchStatus, ProcessedWasDelivered,
     DuplicatesAreExplained, Unlock, TypeOK, RowsTypeOK
<1>5. DeadWasRetried'
  <2>1. n <= failures[e]
    BY <1>1, <1>2 DEF CopiesAreCounted
  <2>2. failures[e] \in 0 .. MaxRetries /\ n \in Int
    BY <1>1, <1>2 DEF TypeOK, RowsTypeOK, HistoryTypeOK
  <2>3. IsPoison(n) => failures[e] = MaxRetries
    BY <2>1, <2>2 DEF IsPoison
  <2> QED BY <1>1, <1>2, <2>1, <2>3 DEF history, DeadWasRetried, TypeOK,
                                        RowsTypeOK
<1>6. HoldersOwnFreshLocks'
  BY <1>1, <1>2, <1>3, LetsGoKeepsLocks DEF history
<1>7. CopiesAreCounted' /\ MarkingWasDelivered'
  BY <1>1, <1>3, LetsGoKeepsCopies, LetsGoKeepsMarking DEF history
<1>8. DeliveriesAreRecorded'
  <2>1. deliveries[e] > 0 => overrun[e] \/ lostAck[e]
    BY <1>1, <1>2, DeliveredInHand
  <2> QED
    BY <1>1, <1>2, <1>3, <2>1 DEF history, DeliveriesAreRecorded, LetsGo,
                                  TypeOK, RowsTypeOK
<1> QED BY <1>4, <1>5, <1>6, <1>7, <1>8

(* A replica that is gone holds nothing any more, and the other replicas   *)
(* hold what they held.                                                    *)
LEMMA GoneKeepsLocks ==
    ASSUME HoldersOwnFreshLocks, NEW p \in Processors, LetsGo(p),
           Held(p)' = {}, UNCHANGED overrun,
           \A e \in Events : \A q \in Holders(e) \ {p} : ~overrun[e] =>
              /\ status'[e] = status[e]
              /\ lockedBy'[e] = lockedBy[e] /\ lockedAt'[e] = lockedAt[e]
    PROVE  HoldersOwnFreshLocks'
<1>1. \A e \in Events : \A q \in Holders(e)' :
         q \in Holders(e) \ {p} /\ now'[q] = now[q]
  BY DEF LetsGo, Held, Holders
<1>2. \A e \in Events : \A q \in Holders(e)' : Unheard(q, e)' <=> Unheard(q, e)
  BY <1>1 DEF LetsGo, Unheard, Holders
<1> QED BY <1>1, <1>2, FreshLocksStay

(* The rows are taken, but the replica does not hear of it: they stay      *)
(* locked with nobody at work on them.                                     *)
LEMMA ClaimLostInd ==
    ASSUME IndInv, NEW p \in Processors, pc[p] = "claiming",
           TakeRows(p, Claimable(p)), EndRun(p), UNCHANGED history, TypeOK'
    PROVE  IndInv'
<1> USE DEF IndInv
<1>1. /\ UNCHANGED retryCount
      /\ p # Null /\ now[p] # Null
      /\ \A e \in Events :
            \/ /\ status[e] = "PENDING" /\ status'[e] = "PROCESSING"
               /\ lockedAt'[e] = now[p] /\ lockedBy'[e] = p
            \/ /\ status'[e] = status[e]
               /\ lockedAt'[e] = lockedAt[e] /\ lockedBy'[e] = lockedBy[e]
  BY DEF TakeRows, Claimable, TypeOK, MemoryTypeOK
<1>2. LetsGo(p) /\ Held(p)' = {}
  BY EndRunLetsGo
<1>3. LocksMatchStatus'
  <2>1. ASSUME NEW e \in Events
        PROVE  /\ (status'[e] = "PROCESSING") <=> (lockedAt'[e] # Null)
               /\ (status'[e] = "PROCESSING") <=> (lockedBy'[e] # Null)
    BY <1>1 DEF LocksMatchStatus
  <2> QED BY <2>1 DEF LocksMatchStatus
<1>4. ProcessedWasDelivered' /\ DeadWasRetried' /\ DuplicatesAreExplained'
  BY <1>1 DEF history, ProcessedWasDelivered, DeadWasRetried,
              DuplicatesAreExplained
<1>5. HoldersOwnFreshLocks'
  <2>1. \A e \in Events : \A q \in Holders(e) : ~overrun[e] => status[e] # "PENDING"
    BY FreshHolder
  <2> QED BY <1>1, <1>2, <2>1, GoneKeepsLocks DEF history
<1>6. CopiesAreCounted' /\ MarkingWasDelivered'
  BY <1>2, LetsGoKeepsCopies, LetsGoKeepsMarking DEF history
<1>7. DeliveriesAreRecorded'
  BY <1>1, <1>2 DEF history, DeliveriesAreRecorded, LetsGo
<1> QED BY <1>3, <1>4, <1>5, <1>6, <1>7

(* A run that breaks off, or a process that dies, writes nothing: the rows *)
(* stay locked, and a success it could not record is a lost one.           *)
LEMMA AbandonInd ==
    ASSUME IndInv, NEW p \in Processors, EndRun(p), TypeOK',
           UNCHANGED << row, deliveries, failures, overrun >>,
           \A e \in Events : lostAck[e] => lostAck'[e],
           pc[p] = "marking" => lostAck'[current[p]]
    PROVE  IndInv'
<1> USE DEF IndInv
<1>1. LetsGo(p) /\ Held(p)' = {}
  BY EndRunLetsGo
<1>2. LocksMatchStatus' /\ ProcessedWasDelivered' /\ DeadWasRetried'
  BY DEF row, LocksMatchStatus, ProcessedWasDelivered, DeadWasRetried
<1>3. DuplicatesAreExplained'
  BY DEF DuplicatesAreExplained
<1>4. HoldersOwnFreshLocks'
  BY <1>1, GoneKeepsLocks DEF row
<1>5. CopiesAreCounted' /\ MarkingWasDelivered'
  BY <1>1, LetsGoKeepsCopies, LetsGoKeepsMarking
<1>6. DeliveriesAreRecorded'
  BY <1>1 DEF row, DeliveriesAreRecorded, LetsGo
<1> QED BY <1>2, <1>3, <1>4, <1>5, <1>6

(* Time only ages locks and the copies of their timestamps together.       *)
LEMMA TickInd ==
    ASSUME IndInv, Tick, TypeOK'
    PROVE  IndInv'
<1> USE DEF IndInv
<1>1. \A t \in Int : Aged(t) \in Int /\ Aged(t) <= t
  BY DEF Aged
<1>2. /\ UNCHANGED << status, retryCount, lockedBy, pc, claim, current,
                      deliveries, failures, lostAck >>
      /\ \A e \in Events :
            /\ lockedAt'[e] = IF lockedAt[e] = Null THEN Null
                                                    ELSE Aged(lockedAt[e])
            /\ overrun'[e] <=>
                  overrun[e] \/ \E p \in Holders(e) : Aged(now[p]) <= -LockTimeout
      /\ \A p \in Processors : now'[p] = IF pc[p] = "idle" THEN now[p]
                                                           ELSE Aged(now[p])
  BY DEF Tick, TypeOK, HistoryTypeOK
<1>3. LocksMatchStatus'
  BY <1>1, <1>2 DEF LocksMatchStatus, TypeOK, RowsTypeOK
<1>4. ProcessedWasDelivered' /\ DeadWasRetried' /\ MarkingWasDelivered'
      /\ CopiesAreCounted'
  BY <1>2 DEF ProcessedWasDelivered, DeadWasRetried, MarkingWasDelivered,
     CopiesAreCounted, Held, NewRetryCount, Lesser
<1>5. HoldersOwnFreshLocks'
  <2> SUFFICES ASSUME NEW e \in Events, NEW p \in Holders(e)', ~overrun'[e]
               PROVE  IF Unheard(p, e)'
                      THEN status'[e] = "PROCESSED" /\ Holders(e)' = {p}
                      ELSE /\ lockedBy'[e] = p
                           /\ lockedAt'[e] = now'[p]
                           /\ now'[p] > -LockTimeout
    BY DEF HoldersOwnFreshLocks
  <2>1. p \in Processors /\ p \in Holders(e) /\ ~overrun[e]
        /\ ~(Aged(now[p]) <= -LockTimeout)
    BY <1>2 DEF Holders
  <2>2. pc[p] # "idle" /\ now[p] \in Int
    BY <2>1 DEF TypeOK, MemoryTypeOK, ControlOK, Held, Holders
  <2>3. now'[p] = Aged(now[p])
    BY <1>2, <2>1, <2>2
  <2>4. (Unheard(p, e)' <=> Unheard(p, e)) /\ Holders(e)' = Holders(e)
    BY <1>2 DEF Unheard, Holders
  <2>5. CASE Unheard(p, e)
    BY <1>2, <2>1, <2>4, <2>5 DEF HoldersOwnFreshLocks
  <2>6. CASE ~Unheard(p, e)
    <3>1. lockedBy[e] = p /\ lockedAt[e] = now[p]
      BY <2>1, <2>6 DEF HoldersOwnFreshLocks
    <3>2. lockedAt'[e] = Aged(now[p])
      BY <1>2, <2>2, <3>1
    <3> QED BY <1>1, <1>2, <2>1, <2>2, <2>3, <2>4, <2>6, <3>1, <3>2
  <2> QED BY <2>5, <2>6
<1>6. DuplicatesAreExplained' /\ DeliveriesAreRecorded'
  BY <1>2 DEF DuplicatesAreExplained, DeliveriesAreRecorded
<1> QED BY <1>3, <1>4, <1>5, <1>6

LEMMA StepInd == IndInv /\ [Next]_vars => IndInv'
<1> SUFFICES ASSUME IndInv, [Next]_vars
             PROVE  IndInv'
  OBVIOUS
<1>1. TypeOK'
  BY StepType DEF IndInv
<1>2. ASSUME NEW e \in Events, StoreEvent(e)
      PROVE  IndInv'
  BY <1>1, <1>2, StoreInd
<1>3. ASSUME NEW ids \in SUBSET Events, RetryDeadEvents(ids)
      PROVE  IndInv'
  BY <1>1, <1>3, RequeueInd
<1>4. ASSUME NEW p \in Processors, NEW isManual \in BOOLEAN, StartRun(p, isManual)
      PROVE  IndInv'
  BY <1>1, <1>4, StartRunInd
<1>5. ASSUME NEW p \in Processors, ProcessorStep(p)
      PROVE  IndInv'
  BY <1>1, <1>5, SelectInd, ClaimInd, BeginInd, ReleaseInd, PublishOkInd,
     AttemptFailsInd, MarkProcessedInd, RecordFailureInd
     DEF ProcessorStep, HandleEventFailure
<1>6. ASSUME NEW p \in Processors, FaultStep(p)
      PROVE  IndInv'
  <2>1. CASE StatementFails(p)
    BY <1>1, <2>1, AbandonInd, ClaimLostInd, RecordFailureInd
       DEF StatementFails, history
  <2>2. CASE MarkFails(p)
    BY <1>1, <2>2, AttemptFailsInd
  <2>3. CASE ShutDown(p)
    BY <1>1, <2>3 DEF ShutDown, IndInv, row, history, LocksMatchStatus,
       HoldersOwnFreshLocks, ProcessedWasDelivered, MarkingWasDelivered,
       DeadWasRetried, CopiesAreCounted, DuplicatesAreExplained,
       DeliveriesAreRecorded, Holders, Held, Unheard, NewRetryCount, Lesser
  <2>4. CASE Exit(p) \/ Crash(p)
    <3>1. Restart(p)
      BY <2>4 DEF Exit, Crash
    <3>2. pc[p] = "marking" => current[p] \in Events
      BY DEF IndInv, TypeOK, ControlOK, Held
    <3> QED BY <1>1, <3>1, <3>2, AbandonInd DEF Restart
  <2> QED BY <1>6, <2>1, <2>2, <2>3, <2>4 DEF FaultStep
<1>7. CASE Tick
  BY <1>1, <1>7, TickInd
<1>8. CASE UNCHANGED vars
  BY <1>1, <1>8 DEF vars, IndInv, row, memory, history, LocksMatchStatus,
     HoldersOwnFreshLocks, ProcessedWasDelivered, MarkingWasDelivered,
     DeadWasRetried, CopiesAreCounted, DuplicatesAreExplained,
     DeliveriesAreRecorded, Holders, Held, Unheard, NewRetryCount, Lesser
<1> QED BY <1>2, <1>3, <1>4, <1>5, <1>6, <1>7, <1>8 DEF Next

(* The strengthening holds in every reachable state. *)
THEOREM Inductive == Spec => []IndInv
  BY InitInd, StepInd, PTL DEF Spec

-----------------------------------------------------------------------------
(* What follows *)

(* A row is locked exactly while it is PROCESSING: none is stranded. *)
THEOREM LocksCorrect == Spec => []LocksMatchStatus
<1>1. IndInv => LocksMatchStatus
  BY DEF IndInv
<1> QED BY <1>1, Inductive, PTL

(* No event counts as processed that was never published. *)
THEOREM ProcessedCorrect == Spec => []ProcessedWasDelivered
<1>1. IndInv => ProcessedWasDelivered
  BY DEF IndInv
<1> QED BY <1>1, Inductive, PTL

(* No event is dead-lettered before MaxRetries failed attempts. *)
THEOREM DeadCorrect == Spec => []DeadWasRetried
<1>1. IndInv => DeadWasRetried
  BY DEF IndInv
<1> QED BY <1>1, Inductive, PTL

(* Two replicas share an event only if one overran the lock timeout. *)
THEOREM ExclusiveHolders == Spec => []HoldersAreExclusive
<1>1. IndInv => HoldersAreExclusive
  BY FreshHolder DEF IndInv, HoldersAreExclusive, HoldersOwnFreshLocks, Holders
<1> QED BY <1>1, Inductive, PTL

(* An event is published twice only after an overrun or a lost record. *)
THEOREM DuplicatesCorrect == Spec => []DuplicatesAreExplained
<1>1. IndInv => DuplicatesAreExplained
  BY DEF IndInv
<1> QED BY <1>1, Inductive, PTL

-----------------------------------------------------------------------------
(***************************************************************************)
(* Outbox keeps the promise of AtLeastOnce, for every set of events and    *)
(* replicas: its initial states are initial states of the promise, and     *)
(* every step of it is a step of the promise or changes nothing the        *)
(* promise speaks of.  On top of IndInv this needs one more fact, that no  *)
(* replica holds an event whose row does not exist.                        *)
(***************************************************************************)

HeldIsStored == \A p \in Processors : \A e \in Held(p) : status[e] # "NONE"

PromiseInv == IndInv /\ HeldIsStored

-----------------------------------------------------------------------------
(* The strengthened invariant *)

(* The status that rows get in a step is never "NONE". *)
LEMMA TakingKeepsRows ==
    ASSUME NEW p, NEW taken, TakeRows(p, taken), NEW e \in Events,
           status[e] # "NONE"
    PROVE  status'[e] # "NONE"
  BY DEF TakeRows

LEMMA WritingKeepsRows ==
    ASSUME TypeOK, NEW f, NEW n, MarkRow(f) \/ RecordFailure(f, n),
           NEW e \in Events, status[e] # "NONE"
    PROVE  status'[e] # "NONE"
<1>1. PICK s \in {"DEAD", "PENDING", "PROCESSED"} :
           status' = [status EXCEPT ![f] = s]
  BY DEF MarkRow, RecordFailure
<1> QED BY <1>1 DEF TypeOK, RowsTypeOK

LEMMA RowsAreNeverDeleted ==
    ASSUME TypeOK, [Next]_vars, NEW e \in Events, status[e] # "NONE"
    PROVE  status'[e] # "NONE"
<1>1. ASSUME NEW f \in Events, StoreEvent(f)
      PROVE  status'[e] # "NONE"
  BY <1>1 DEF StoreEvent, TypeOK, RowsTypeOK
<1>2. ASSUME NEW ids \in SUBSET Events, RetryDeadEvents(ids)
      PROVE  status'[e] # "NONE"
  BY <1>2 DEF RetryDeadEvents
<1>3. ASSUME NEW p \in Processors, NEW isManual \in BOOLEAN, StartRun(p, isManual)
      PROVE  status'[e] # "NONE"
  BY <1>3 DEF StartRun, RecoverStaleLocks
<1>4. ASSUME NEW p \in Processors, ProcessorStep(p)
      PROVE  status'[e] # "NONE"
  <2>1. CASE ClaimSelected(p)
    BY <2>1, TakingKeepsRows DEF ClaimSelected
  <2>2. ASSUME NEW f \in Events, BeginEvent(p, f) \/ ReleaseAndStop(p, f)
        PROVE  status'[e] # "NONE"
    BY <2>2 DEF BeginEvent, ReleaseAndStop, row, TypeOK, RowsTypeOK
  <2>3. CASE MarkProcessed(p)
    BY <2>3, WritingKeepsRows DEF MarkProcessed
  <2>4. CASE HandleEventFailure(p)
    BY <2>4, WritingKeepsRows DEF HandleEventFailure
  <2> QED BY <1>4, <2>1, <2>2, <2>3, <2>4
          DEF ProcessorStep, SelectPending, PublishOk, PublishFails, row
<1>5. ASSUME NEW p \in Processors, FaultStep(p)
      PROVE  status'[e] # "NONE"
  <2>1. CASE StatementFails(p)
    BY <2>1, TakingKeepsRows, WritingKeepsRows DEF StatementFails, row
  <2>2. CASE MarkFails(p)
    BY <2>2, WritingKeepsRows DEF MarkFails, row
  <2> QED BY <1>5, <2>1, <2>2
          DEF FaultStep, ShutDown, Exit, Crash, Restart, row
<1> QED BY <1>1, <1>2, <1>3, <1>4, <1>5 DEF Next, Tick, vars, row

(* A replica comes to hold events only by claiming them. *)
LEMMA HoldingIsClaiming ==
    ASSUME TypeOK, [Next]_vars, NEW p \in Processors, NEW e \in Held(p)'
    PROVE  e \in Held(p) \/ status'[e] = "PROCESSING"
<1>0. e \in Events
  BY DEF Held
<1>1. ASSUME NEW q \in Processors, EndRun(q)
      PROVE  e \in Held(p)
  <2>1. p # q
    BY <1>1, EndRunLetsGo
  <2> QED BY <1>0, <1>1, <2>1, EndRunLetsGo DEF LetsGo, Held
<1>2. ASSUME NEW q \in Processors, pc[q] \in InEvent, FinishEvent(q)
      PROVE  e \in Held(p)
  <2>1. LetsGo(q)
    BY <1>2, FinishEventLetsGo
  <2> QED BY <1>0, <2>1 DEF LetsGo, Held
<1>3. ASSUME NEW q \in Processors, ClaimSelected(q)
      PROVE  e \in Held(p) \/ status'[e] = "PROCESSING"
  <2>1. CASE Claimable(q) = {}
    BY <1>1, <1>3, <2>1 DEF ClaimSelected
  <2>2. CASE Claimable(q) # {}
    <3>1. claim' = [claim EXCEPT ![q] =
                       [f \in Events |-> IF f \in Claimable(q) THEN retryCount[f]
                                                               ELSE Null]]
      BY <1>3, <2>2 DEF ClaimSelected
    <3>2. CASE p = q
      BY <1>0, <1>3, <3>1, <3>2
         DEF ClaimSelected, TakeRows, TypeOK, MemoryTypeOK, Held
    <3>3. CASE p # q
      BY <1>0, <3>1, <3>3 DEF TypeOK, MemoryTypeOK, Held
    <3> QED BY <3>2, <3>3
  <2> QED BY <2>1, <2>2
<1>4. claim' = claim => e \in Held(p)
  BY DEF Held
<1>5. ASSUME NEW q \in Processors, ProcessorStep(q)
      PROVE  e \in Held(p) \/ status'[e] = "PROCESSING"
  <2>1. ASSUME NEW f \in Events, BeginEvent(q, f) \/ ReleaseAndStop(q, f)
        PROVE  e \in Held(p)
    <3>1. EndRun(q) \/ claim' = claim
      BY <2>1 DEF BeginEvent, ReleaseAndStop
    <3> QED BY <1>1, <1>4, <3>1
  <2>2. CASE SelectPending(q)
    <3>1. EndRun(q) \/ claim' = claim
      BY <2>2 DEF SelectPending
    <3> QED BY <1>1, <1>4, <3>1
  <2>3. CASE MarkProcessed(q) \/ HandleEventFailure(q)
    BY <1>2, <2>3 DEF MarkProcessed, HandleEventFailure, InEvent
  <2>4. CASE PublishOk(q) \/ PublishFails(q)
    BY <1>4, <2>4 DEF PublishOk, PublishFails
  <2> QED BY <1>3, <1>5, <2>1, <2>2, <2>3, <2>4 DEF ProcessorStep
<1>6. ASSUME NEW q \in Processors, FaultStep(q)
      PROVE  e \in Held(p)
  <2>1. EndRun(q) \/ claim' = claim
    BY <1>6 DEF FaultStep, StatementFails, MarkFails, ShutDown, Exit, Crash, Restart
  <2> QED BY <1>1, <1>4, <2>1
<1>7. ASSUME NEW f \in Events, StoreEvent(f)
      PROVE  e \in Held(p)
  BY <1>4, <1>7 DEF StoreEvent, memory
<1>8. ASSUME NEW ids \in SUBSET Events, RetryDeadEvents(ids)
      PROVE  e \in Held(p)
  BY <1>4, <1>8 DEF RetryDeadEvents, memory
<1>9. ASSUME NEW q \in Processors, NEW isManual \in BOOLEAN, StartRun(q, isManual)
      PROVE  e \in Held(p)
  BY <1>4, <1>9 DEF StartRun
<1>10. CASE Tick \/ UNCHANGED vars
  BY <1>4, <1>10 DEF Tick, vars, memory
<1> QED BY <1>5, <1>6, <1>7, <1>8, <1>9, <1>10 DEF Next

(* What the promise needs to know of the reachable states. *)
LEMMA PromiseInvariant == Spec => []PromiseInv
<1>1. Init => HeldIsStored
  BY DEF Init, HeldIsStored, Held, NoClaims
<1>2. IndInv /\ HeldIsStored /\ [Next]_vars => HeldIsStored'
  <2> SUFFICES ASSUME IndInv, HeldIsStored, [Next]_vars,
                      NEW p \in Processors, NEW e \in Held(p)'
               PROVE  status'[e] # "NONE"
    BY DEF HeldIsStored
  <2>1. e \in Events /\ TypeOK
    BY DEF Held, IndInv
  <2> QED BY <2>1, HoldingIsClaiming, RowsAreNeverDeleted DEF HeldIsStored
<1> QED BY <1>1, <1>2, Inductive, PTL DEF Spec, PromiseInv

-----------------------------------------------------------------------------
(* The refinement mapping *)

st == [e \in Events |-> StateOf(e)]

(* What an event's status says of its state, and how the two change. *)
LEMMA StateByStatus ==
    ASSUME TypeOK, NEW e \in Events
    PROVE  /\ status[e] = "NONE" <=> st[e] = "none"
           /\ status[e] \in {"PENDING", "PROCESSING"} <=> st[e] = "open"
           /\ status[e] = "PROCESSED" /\ ~IsUnheard(e) <=> st[e] = "done"
           /\ status[e] = "PROCESSED" /\ IsUnheard(e) <=> st[e] = "unsure"
           /\ status[e] = "DEAD" <=> st[e] = "dead"
  BY DEF st, StateOf, TypeOK, RowsTypeOK, Statuses

LEMMA StateByStatusNext ==
    ASSUME TypeOK', NEW e \in Events
    PROVE  /\ status'[e] \in {"PENDING", "PROCESSING"} => st'[e] = "open"
           /\ status'[e] = "PROCESSED" =>
                 st'[e] = IF IsUnheard(e)' THEN "unsure" ELSE "done"
           /\ status'[e] = "DEAD" => st'[e] = "dead"
  BY DEF st, StateOf, TypeOK, RowsTypeOK, Statuses

LEMMA SameEventStatus ==
    ASSUME NEW e \in Events, status'[e] = status[e],
           IsUnheard(e)' <=> IsUnheard(e)
    PROVE  st'[e] = st[e]
<1>1. StateOf(e)' = StateOf(e)
  BY DEF StateOf
<1> QED BY <1>1 DEF st

LEMMA SameStates ==
    ASSUME \A e \in Events : st'[e] = st[e]
    PROVE  st' = st
  BY DEF st

LEMMA SameStatus ==
    ASSUME status' = status, \A e \in Events : IsUnheard(e)' <=> IsUnheard(e)
    PROVE  st' = st
  BY SameEventStatus, SameStates

(* A step of one replica leaves the others inside or outside their catch   *)
(* as they are, so an event is unheard of as before, unless the replica    *)
(* itself was or comes to be unheard with it.                              *)
OthersRest(p) ==
    \A q \in Processors \ {p} : pc'[q] = pc[q] /\ current'[q] = current[q]

LEMMA SameUnheard ==
    ASSUME NEW p \in Processors, OthersRest(p), NEW e \in Events,
           ~Unheard(p, e), ~Unheard(p, e)'
    PROVE  IsUnheard(e)' <=> IsUnheard(e)
  BY DEF OthersRest, IsUnheard, Unheard

LEMMA StepsOfOne ==
    ASSUME TypeOK, NEW p \in Processors,
           \/ \E isManual \in BOOLEAN : StartRun(p, isManual)
           \/ ProcessorStep(p)
           \/ FaultStep(p)
    PROVE  OthersRest(p)
<1>1. \/ \E s \in Steps : pc' = [pc EXCEPT ![p] = s]
      \/ pc' = pc
  BY DEF StartRun, ProcessorStep, FaultStep, SelectPending, ClaimSelected,
         BeginEvent, ReleaseAndStop, PublishOk, PublishFails, MarkProcessed,
         HandleEventFailure, StatementFails, MarkFails, ShutDown, Exit, Crash,
         Restart, FinishEvent, EndRun, Steps
<1>2. \/ \E e : current' = [current EXCEPT ![p] = e]
      \/ current' = current
  BY DEF StartRun, ProcessorStep, FaultStep, SelectPending, ClaimSelected,
         BeginEvent, ReleaseAndStop, PublishOk, PublishFails, MarkProcessed,
         HandleEventFailure, StatementFails, MarkFails, ShutDown, Exit, Crash,
         Restart, FinishEvent, EndRun
<1> QED BY <1>1, <1>2 DEF OthersRest, TypeOK, MemoryTypeOK

(* A step that writes the status of one row. *)
LEMMA OneRow ==
    ASSUME TypeOK, TypeOK', NEW e \in Events,
           NEW s \in {"PENDING", "PROCESSED", "DEAD"},
           status' = [status EXCEPT ![e] = s],
           \A f \in Events \ {e} : IsUnheard(f)' <=> IsUnheard(f)
    PROVE  /\ s = "PENDING" => st' = [st EXCEPT ![e] = "open"]
           /\ s = "PROCESSED" /\ IsUnheard(e)' =>
                 st' = [st EXCEPT ![e] = "unsure"]
           /\ s = "PROCESSED" /\ ~IsUnheard(e)' =>
                 st' = [st EXCEPT ![e] = "done"]
           /\ s = "DEAD" => st' = [st EXCEPT ![e] = "dead"]
<1>1. \A f \in Events : f # e => status'[f] = status[f]
  BY DEF TypeOK, RowsTypeOK
<1>2. \A f \in Events : f # e => st'[f] = st[f]
  BY <1>1, SameEventStatus
<1>3. status'[e] = s
  BY DEF TypeOK, RowsTypeOK
<1>4. /\ s = "PENDING" => st'[e] = "open"
      /\ s = "PROCESSED" /\ IsUnheard(e)' => st'[e] = "unsure"
      /\ s = "PROCESSED" /\ ~IsUnheard(e)' => st'[e] = "done"
      /\ s = "DEAD" => st'[e] = "dead"
  BY <1>3, StateByStatusNext
<1>5. \A v : st'[e] = v => st' = [st EXCEPT ![e] = v]
  BY <1>2 DEF st
<1> QED BY <1>4, <1>5

(* An event that a replica holds is still open, or the replica is late, or *)
(* it has marked the event without knowing.                                *)
LEMMA HeldIsInHand ==
    ASSUME PromiseInv, NEW p \in Processors, NEW e \in Held(p)
    PROVE  /\ e \in Events
           /\ st[e] # "none"
           /\ ~overrun[e] => st[e] = IF Unheard(p, e) THEN "unsure" ELSE "open"
           /\ Delivery!Unsettled(e)
           /\ ~Unheard(p, e) => Delivery!InHand(e)
<1>1. e \in Events /\ p \in Holders(e) /\ status[e] # "NONE"
  BY DEF Held, Holders, PromiseInv, HeldIsStored
<1>2. ~overrun[e] =>
         status[e] = IF Unheard(p, e) THEN "PROCESSED" ELSE "PROCESSING"
  BY <1>1, FreshHolder DEF PromiseInv, IndInv
<1>3. ~overrun[e] => st[e] = IF Unheard(p, e) THEN "unsure" ELSE "open"
  BY <1>1, <1>2, StateByStatus DEF PromiseInv, IndInv, IsUnheard
<1>4. st[e] # "none"
  BY <1>1, StateByStatus DEF PromiseInv, IndInv
<1> QED BY <1>1, <1>3, <1>4 DEF Delivery!Unsettled, Delivery!InHand, st

(* The event of a replica's present iteration. *)
LEMMA CurrentIsHeld ==
    ASSUME PromiseInv, NEW p \in Processors, pc[p] \in InEvent
    PROVE  current[p] \in Held(p)
  BY DEF PromiseInv, IndInv, TypeOK, ControlOK, InEvent

-----------------------------------------------------------------------------
(* Every step of Outbox, as the promise sees it *)

Kept == UNCHANGED << st, deliveries, failures, lostAck, overrun >>

LEMMA StoreStep ==
    ASSUME PromiseInv, TypeOK', NEW e \in Events, StoreEvent(e)
    PROVE  Delivery!Accept(e)
<1>1. st[e] = "none"
  BY StateByStatus DEF PromiseInv, IndInv, StoreEvent
<1>2. \A f \in Events : IsUnheard(f)' <=> IsUnheard(f)
  BY DEF StoreEvent, memory, IsUnheard, Unheard
<1>3. st' = [st EXCEPT ![e] = "open"]
  BY <1>2, OneRow DEF PromiseInv, IndInv, StoreEvent
<1> QED BY <1>1, <1>3 DEF StoreEvent, history, Delivery!Accept, st

LEMMA RequeueStep ==
    ASSUME PromiseInv, TypeOK', NEW ids \in SUBSET Events, RetryDeadEvents(ids)
    PROVE  Delivery!Requeue(DeadAmong(ids))
<1> DEFINE S == DeadAmong(ids)
<1>1. \A e \in S : e \in Events /\ st[e] = "dead"
  BY StateByStatus DEF PromiseInv, IndInv, DeadAmong
<1>2. \A e \in S : st'[e] = "open"
  BY <1>1, StateByStatusNext DEF RetryDeadEvents
<1>3. \A e \in Events \ S : st'[e] = st[e]
  <2>1. \A f \in Events : IsUnheard(f)' <=> IsUnheard(f)
    BY DEF RetryDeadEvents, memory, IsUnheard, Unheard
  <2> QED BY <2>1, SameEventStatus DEF RetryDeadEvents
<1>4. st' = [e \in Events |-> IF e \in S THEN "open" ELSE st[e]]
  BY <1>2, <1>3 DEF st
<1> HIDE DEF S
<1>5. UNCHANGED << deliveries, failures, lostAck, overrun >>
  BY DEF RetryDeadEvents, history
<1>6. S = DeadAmong(ids)
  BY DEF S
<1> QED BY <1>1, <1>4, <1>5, <1>6 DEF Delivery!Requeue, st

LEMMA RecoverStep ==
    ASSUME PromiseInv, TypeOK', NEW p \in Processors, NEW isManual \in BOOLEAN,
           StartRun(p, isManual)
    PROVE  Kept
<1>1. OthersRest(p) /\ pc[p] = "idle" /\ pc'[p] = "selecting"
  BY StepsOfOne DEF StartRun, PromiseInv, IndInv, TypeOK, MemoryTypeOK
<1>2. \A e \in Events : IsUnheard(e)' <=> IsUnheard(e)
  BY <1>1, SameUnheard DEF Unheard
<1>3. \A e \in Events \ StaleLocks : st'[e] = st[e]
  BY <1>2, SameEventStatus DEF StartRun, RecoverStaleLocks
<1>4. \A e \in StaleLocks : st'[e] = "open" /\ st[e] = "open"
  <2> SUFFICES ASSUME NEW e \in StaleLocks
               PROVE  st'[e] = "open" /\ st[e] = "open"
    OBVIOUS
  <2>1. e \in Events /\ status[e] = "PROCESSING" /\ status'[e] = "PENDING"
    BY DEF StartRun, RecoverStaleLocks, StaleLocks
  <2> QED BY <2>1, StateByStatus, StateByStatusNext DEF PromiseInv, IndInv
<1>5. st' = st
  BY <1>3, <1>4, SameStates
<1> QED BY <1>5 DEF StartRun, history, Kept

(* Rows that are taken were open and stay open. *)
LEMMA TakenStayOpen ==
    ASSUME PromiseInv, TypeOK', NEW p \in Processors, pc[p] = "claiming",
           pc'[p] \notin InEvent, OthersRest(p), TakeRows(p, Claimable(p))
    PROVE  /\ st' = st
           /\ \A e \in Claimable(p) : e \in Events /\ st[e] = "open"
<1>1. \A e \in Claimable(p) : e \in Events /\ status[e] = "PENDING"
  BY DEF Claimable, PromiseInv, IndInv, TypeOK, MemoryTypeOK
<1>2. \A e \in Claimable(p) : st[e] = "open"
  BY <1>1, StateByStatus DEF PromiseInv, IndInv
<1>3. \A e \in Claimable(p) : st'[e] = "open"
  BY <1>1, StateByStatusNext DEF TakeRows
<1>4. \A e \in Events : IsUnheard(e)' <=> IsUnheard(e)
  BY SameUnheard DEF Unheard
<1>5. \A e \in Events \ Claimable(p) : st'[e] = st[e]
  BY <1>4, SameEventStatus DEF TakeRows
<1>6. st' = st
  BY <1>2, <1>3, <1>5, SameStates
<1> QED BY <1>1, <1>2, <1>6

LEMMA ClaimStep ==
    ASSUME PromiseInv, TypeOK', NEW p \in Processors, ClaimSelected(p)
    PROVE  Delivery!Overrun({e \in Claimable(p) : now[p] <= -LockTimeout})
<1> DEFINE S == {e \in Claimable(p) : now[p] <= -LockTimeout}
<1>1. OthersRest(p)
  BY StepsOfOne DEF ProcessorStep, PromiseInv, IndInv
<1>2. pc'[p] \in {"idle", "looping"}
  BY DEF ClaimSelected, EndRun, PromiseInv, IndInv, TypeOK, MemoryTypeOK
<1>3. st' = st /\ \A e \in Claimable(p) : e \in Events /\ st[e] = "open"
  BY <1>1, <1>2, TakenStayOpen DEF ClaimSelected
<1>4. \A e \in S : Delivery!Unsettled(e)
  BY <1>3 DEF Delivery!Unsettled, Delivery!InHand, st
<1>5. overrun' = [e \in Events |-> overrun[e] \/ e \in S]
  BY DEF ClaimSelected
<1>6. UNCHANGED << deliveries, failures, lostAck >>
  BY DEF ClaimSelected
<1> QED BY <1>3, <1>4, <1>5, <1>6 DEF Delivery!Overrun, st

(* A row goes back to PENDING from the hands of a replica. *)
LEMMA BackToPending ==
    ASSUME PromiseInv, TypeOK', NEW p \in Processors, NEW e \in Held(p),
           status' = [status EXCEPT ![e] = "PENDING"],
           \A f \in Events \ {e} : IsUnheard(f)' <=> IsUnheard(f),
           UNCHANGED << deliveries, failures, lostAck, overrun >>
    PROVE  Kept \/ Delivery!Reopen(e)
<1>1. e \in Events /\ st[e] # "none" /\ Delivery!Unsettled(e)
  BY HeldIsInHand
<1>2. st' = [st EXCEPT ![e] = "open"]
  BY <1>1, OneRow DEF PromiseInv, IndInv
<1>3. CASE st[e] = "open"
  BY <1>2, <1>3 DEF Kept, st
<1>4. CASE st[e] # "open"
  <2>1. st[e] \in {"done", "dead", "unsure"}
    BY <1>1, <1>4, StateByStatus
       DEF PromiseInv, IndInv, TypeOK, RowsTypeOK, Statuses
  <2> QED
    BY <1>1, <1>2, <1>4, <2>1
       DEF Delivery!Reopen, Delivery!Unsettled, Delivery!InHand, st
<1> QED BY <1>3, <1>4

LEMMA ReleaseStep ==
    ASSUME PromiseInv, TypeOK', NEW p \in Processors, NEW e \in Events,
           ReleaseAndStop(p, e)
    PROVE  Kept \/ Delivery!Reopen(e)
<1>1. OthersRest(p) /\ pc[p] = "looping" /\ pc'[p] = "idle"
  BY StepsOfOne DEF ProcessorStep, ReleaseAndStop, EndRun, PromiseInv, IndInv,
                    TypeOK, MemoryTypeOK
<1>2. \A f \in Events : IsUnheard(f)' <=> IsUnheard(f)
  BY <1>1, SameUnheard DEF Unheard
<1> QED BY <1>2, BackToPending DEF ReleaseAndStop, history

LEMMA PublishStep ==
    ASSUME PromiseInv, TypeOK', NEW p \in Processors, PublishOk(p)
    PROVE  Delivery!Deliver(current[p])
<1> DEFINE e == current[p]
<1>1. e \in Held(p)
  BY CurrentIsHeld DEF PublishOk, InEvent
<1>2. e \in Events /\ Delivery!InHand(e) /\ deliveries \in [Events -> 0 .. 2]
  BY <1>1, HeldIsInHand DEF PublishOk, Unheard, PromiseInv, IndInv, TypeOK,
                            HistoryTypeOK
<1>3. deliveries[e] = 0 \/ lostAck[e] \/ overrun[e]
  BY <1>1, <1>2, DeliveredInHand DEF PublishOk, PromiseInv, IndInv
<1>4. deliveries' = [deliveries EXCEPT ![e] = IF @ = 0 THEN 1 ELSE 2]
  <2>1. deliveries[e] \in 0 .. 2
    BY <1>2
  <2>2. Lesser(deliveries[e] + 1, 2) = IF deliveries[e] = 0 THEN 1 ELSE 2
    BY <2>1 DEF Lesser
  <2> QED BY <2>2 DEF PublishOk
<1>5. st' = st
  <2>1. OthersRest(p) /\ pc[p] = "publishing" /\ pc'[p] = "marking"
    BY StepsOfOne DEF ProcessorStep, PublishOk, PromiseInv, IndInv, TypeOK,
                      MemoryTypeOK
  <2>2. \A f \in Events : IsUnheard(f)' <=> IsUnheard(f)
    BY <2>1, SameUnheard DEF Unheard
  <2> QED BY <2>2, SameStatus DEF PublishOk, row
<1>6. UNCHANGED << failures, lostAck, overrun >>
  BY DEF PublishOk
<1> QED BY <1>2, <1>3, <1>4, <1>5, <1>6 DEF Delivery!Deliver, st

(* An attempt that fails, the row unmarked or marked without an answer. *)
LEMMA FailStep ==
    ASSUME PromiseInv, TypeOK', NEW p \in Processors,
           PublishFails(p) \/ MarkFails(p)
    PROVE  Delivery!FailAttempt(current[p]) \/ Delivery!LoseReply(current[p])
<1>0. PICK e : e = current[p]
  OBVIOUS
<1>1. pc[p] \in {"publishing", "marking"} /\ OthersRest(p)
  BY StepsOfOne DEF ProcessorStep, FaultStep, PublishFails, MarkFails,
                    PromiseInv, IndInv
<1>2. e \in Held(p)
  BY <1>0, <1>1, CurrentIsHeld
<1>3. /\ e \in Events
      /\ Delivery!InHand(e)
      /\ failures \in [Events -> 0 .. MaxRetries]
      /\ lostAck \in [Events -> BOOLEAN]
      /\ deliveries \in [Events -> 0 .. 2]
  BY <1>1, <1>2, HeldIsInHand DEF Unheard, PromiseInv, IndInv, TypeOK,
                                  HistoryTypeOK
<1>4. failures' = Delivery!OneMoreFailure(e)
  <2>1. failures' = [failures EXCEPT ![e] = Lesser(@ + 1, MaxRetries)]
    BY <1>0 DEF PublishFails, MarkFails
  <2>2. failures[e] \in 0 .. MaxRetries
    BY <1>3
  <2>3. Lesser(failures[e] + 1, MaxRetries)
           = IF failures[e] < MaxRetries THEN failures[e] + 1 ELSE failures[e]
    BY <2>2 DEF Lesser
  <2> QED BY <1>3, <2>1, <2>3 DEF Delivery!OneMoreFailure
<1>5. UNCHANGED << deliveries, overrun >>
  BY DEF PublishFails, MarkFails
<1>6. CASE pc' = [pc EXCEPT ![p] = "failing"] /\ UNCHANGED row
  <2>1. lostAck' \in {lostAck, [lostAck EXCEPT ![e] = deliveries[e] > 0]}
    <3>1. CASE PublishFails(p)
      BY <3>1 DEF PublishFails
    <3>2. CASE MarkFails(p)
      <4>1. deliveries[e] > 0
        BY <1>0, <3>2 DEF MarkFails, PromiseInv, IndInv, MarkingWasDelivered
      <4>2. (deliveries[e] > 0) = TRUE
        BY <4>1
      <4>3. lostAck' = [lostAck EXCEPT ![e] = TRUE]
        BY <1>0, <3>2 DEF MarkFails
      <4> QED BY <4>2, <4>3
    <3> QED BY <3>1, <3>2
  <2>2. pc'[p] = "failing"
    BY <1>6 DEF PromiseInv, IndInv, TypeOK, MemoryTypeOK
  <2>3. \A f \in Events : IsUnheard(f)' <=> IsUnheard(f)
    BY <1>1, <2>2, SameUnheard DEF Unheard
  <2>4. st' = st
    BY <1>6, <2>3, SameStatus DEF row
  <2> QED BY <1>0, <1>3, <1>4, <1>5, <2>1, <2>4 DEF Delivery!FailAttempt, st
<1>7. CASE MarkFails(p) /\ pc' = [pc EXCEPT ![p] = "unheard"] /\ MarkRow(e)
  <2>1. deliveries[e] > 0 /\ lostAck' = [lostAck EXCEPT ![e] = TRUE]
    BY <1>0, <1>7 DEF MarkFails, PromiseInv, IndInv, MarkingWasDelivered
  <2>2. pc'[p] = "unheard" /\ current' = current /\ p \in Processors
    BY <1>7 DEF MarkFails, PromiseInv, IndInv, TypeOK, MemoryTypeOK
  <2>3. \A f \in Events \ {e} : IsUnheard(f)' <=> IsUnheard(f)
    BY <1>0, <1>1, <2>2, SameUnheard DEF Unheard
  <2>4. IsUnheard(e)'
    BY <1>0, <1>1, <2>2 DEF IsUnheard, Unheard
  <2>5. st' = [st EXCEPT ![e] = "unsure"]
    BY <1>3, <1>7, <2>3, <2>4, OneRow DEF MarkRow, PromiseInv, IndInv
  <2> QED BY <1>0, <1>3, <1>4, <1>5, <2>1, <2>5 DEF Delivery!LoseReply, st
<1> QED BY <1>0, <1>6, <1>7 DEF PublishFails, MarkFails

(* The row is marked; if a late replica has marked it before without       *)
(* knowing, the event stays unsure.                                        *)
LEMMA CompleteStep ==
    ASSUME PromiseInv, TypeOK', NEW p \in Processors, MarkProcessed(p)
    PROVE  Delivery!Complete(current[p]) \/ Delivery!LoseReply(current[p])
<1>0. PICK e : e = current[p]
  OBVIOUS
<1>1. pc[p] = "marking" /\ OthersRest(p)
  BY StepsOfOne DEF MarkProcessed, ProcessorStep, PromiseInv, IndInv
<1>9. pc'[p] \in {"idle", "looping"}
  BY DEF MarkProcessed, FinishEvent, EndRun, PromiseInv, IndInv, TypeOK,
         MemoryTypeOK
<1>2. e \in Events /\ Delivery!InHand(e)
  BY <1>0, <1>1, CurrentIsHeld, HeldIsInHand DEF Unheard
<1>3. deliveries[e] > 0
  BY <1>0 DEF MarkProcessed, PromiseInv, IndInv, MarkingWasDelivered
<1>4. \A f \in Events : IsUnheard(f)' <=> IsUnheard(f)
  BY <1>1, <1>9, SameUnheard DEF Unheard
<1>5. status' = [status EXCEPT ![e] = "PROCESSED"]
  BY <1>0 DEF MarkProcessed, MarkRow
<1>6. UNCHANGED << deliveries, failures, lostAck, overrun >>
  BY DEF MarkProcessed, history
<1>7. CASE IsUnheard(e)
  <2>1. lostAck[e] /\ lostAck \in [Events -> BOOLEAN]
    BY <1>7 DEF IsUnheard, Unheard, PromiseInv, IndInv, MarkingWasDelivered,
                TypeOK, HistoryTypeOK
  <2>2. lostAck' = [lostAck EXCEPT ![e] = TRUE]
    BY <1>6, <2>1
  <2>3. st' = [st EXCEPT ![e] = "unsure"]
    BY <1>2, <1>4, <1>5, <1>7, OneRow DEF PromiseInv, IndInv
  <2> QED BY <1>0, <1>2, <1>3, <1>6, <2>2, <2>3 DEF Delivery!LoseReply, st
<1>8. CASE ~IsUnheard(e)
  <2>1. st' = [st EXCEPT ![e] = "done"]
    BY <1>2, <1>4, <1>5, <1>8, OneRow DEF PromiseInv, IndInv
  <2> QED BY <1>0, <1>2, <1>3, <1>6, <2>1
          DEF Delivery!Complete, Delivery!Unsettled, Delivery!InHand, st
<1> QED BY <1>7, <1>8

(* The record of a failed attempt, whether or not the replica hears of it. *)
LEMMA FailureStep ==
    ASSUME PromiseInv, TypeOK', NEW p \in Processors, pc[p] \in InFailure,
           RecordFailure(current[p], NewRetryCount(claim[p][current[p]])),
           pc'[p] \notin InEvent, OthersRest(p), UNCHANGED history
    PROVE  \/ Kept
           \/ Delivery!Reopen(current[p])
           \/ Delivery!GiveUp(current[p])
<1> DEFINE e == current[p]
           n == NewRetryCount(claim[p][e])
<1>1. e \in Held(p)
  BY CurrentIsHeld
<1>2. e \in Events /\ Delivery!Unsettled(e)
  BY <1>1, HeldIsInHand
<1>3. UNCHANGED << deliveries, failures, lostAck, overrun >>
  BY DEF history
<1>4. \A f \in Events \ {e} : IsUnheard(f)' <=> IsUnheard(f)
  BY SameUnheard DEF Unheard
<1>5. CASE IsPoison(n)
  <2>1. claim[p][e] \in 0 .. MaxRetries /\ failures[e] \in 0 .. MaxRetries
    BY <1>1, <1>2 DEF PromiseInv, IndInv, TypeOK, MemoryTypeOK, HistoryTypeOK,
                      Held
  <2>2. n <= failures[e]
    BY <1>1 DEF PromiseInv, IndInv, CopiesAreCounted
  <2>3. failures[e] = MaxRetries
    BY <1>5, <2>1, <2>2 DEF IsPoison, NewRetryCount, Lesser
  <2>4. status' = [status EXCEPT ![e] = "DEAD"]
    BY <1>5 DEF RecordFailure
  <2>5. st' = [st EXCEPT ![e] = "dead"]
    BY <1>2, <1>4, <2>4, OneRow DEF PromiseInv, IndInv
  <2> QED BY <1>2, <1>3, <2>3, <2>5
          DEF Delivery!GiveUp, Delivery!Unsettled, Delivery!InHand, st
<1>6. CASE ~IsPoison(n)
  <2>1. status' = [status EXCEPT ![e] = "PENDING"]
    BY <1>6 DEF RecordFailure
  <2> QED BY <1>1, <1>3, <1>4, <2>1, BackToPending
<1> QED BY <1>5, <1>6

(* A replica that quits without writing: if it was the last that had       *)
(* marked its event without knowing, the mark is final from now on.        *)
LEMMA QuitStep ==
    ASSUME PromiseInv, TypeOK', NEW p \in Processors, pc'[p] \notin InEvent,
           OthersRest(p), status' = status,
           UNCHANGED << deliveries, failures, overrun, lostAck >>
    PROVE  \/ Kept
           \/ /\ current[p] \in Events
              /\ Delivery!Complete(current[p])
<1>0. PICK e : e = current[p]
  OBVIOUS
<1>1. CASE \A f \in Events : IsUnheard(f)' <=> IsUnheard(f)
  <2>1. st' = st
    BY <1>1, SameStatus
  <2> QED BY <2>1 DEF Kept
<1>2. CASE \E f \in Events : ~(IsUnheard(f)' <=> IsUnheard(f))
  <2>1. PICK f \in Events : ~(IsUnheard(f)' <=> IsUnheard(f))
    BY <1>2
  <2>2. pc[p] = "unheard" /\ e = f
    BY <1>0, <2>1, SameUnheard DEF Unheard
  <2>3. e \in Events /\ deliveries[e] > 0 /\ IsUnheard(e)
    BY <1>0, <2>1, <2>2 DEF PromiseInv, IndInv, MarkingWasDelivered, IsUnheard, Unheard
  <2>4. \A g \in Events \ {e} : IsUnheard(g)' <=> IsUnheard(g)
    BY <1>0, <2>2, SameUnheard DEF Unheard
  <2>5. ~IsUnheard(e)'
    BY <2>1, <2>2, <2>3
  <2>6. CASE status[e] # "PROCESSED"
    <3>1. st'[e] = st[e]
      <4>1. StateOf(e)' = StateOf(e)
        BY <2>6 DEF StateOf
      <4> QED BY <2>3, <4>1 DEF st
    <3>2. st' = st
      BY <2>3, <2>4, <3>1, SameEventStatus, SameStates
    <3> QED BY <3>2 DEF Kept
  <2>7. CASE status[e] = "PROCESSED"
    <3>1. st[e] = "unsure" /\ st'[e] = "done"
      BY <2>3, <2>5, <2>7, StateByStatus, StateByStatusNext
         DEF PromiseInv, IndInv
    <3>2. \A g \in Events \ {e} : st'[g] = st[g]
      BY <2>4, SameEventStatus
    <3>3. st' = [st EXCEPT ![e] = "done"]
      BY <3>1, <3>2 DEF st
    <3> QED BY <1>0, <2>3, <3>1, <3>3 DEF Delivery!Complete, Delivery!Unsettled, st
  <2> QED BY <2>6, <2>7
<1> QED BY <1>1, <1>2

LEMMA RestartStep ==
    ASSUME PromiseInv, TypeOK', NEW p \in Processors, Restart(p), OthersRest(p)
    PROVE  \/ Kept
           \/ /\ current[p] \in Events
              /\ Delivery!LoseAck(current[p]) \/ Delivery!Complete(current[p])
<1> DEFINE e == current[p]
<1>1. status' = status /\ UNCHANGED << deliveries, failures, overrun >>
  BY DEF Restart, row
<1>2. pc'[p] = "idle"
  BY DEF Restart, EndRun, PromiseInv, IndInv, TypeOK, MemoryTypeOK
<1>3. lostAck \in [Events -> BOOLEAN]
  BY DEF PromiseInv, IndInv, TypeOK, HistoryTypeOK
<1>4. CASE pc[p] = "marking"
  <2>1. e \in Held(p)
    BY <1>4, CurrentIsHeld DEF InEvent
  <2>2. e \in Events /\ Delivery!InHand(e)
    BY <1>4, <2>1, HeldIsInHand DEF Unheard
  <2>3. deliveries[e] > 0
    BY <1>4 DEF PromiseInv, IndInv, MarkingWasDelivered
  <2>4. lostAck' = [lostAck EXCEPT ![e] = TRUE]
    BY <1>3, <1>4 DEF Restart
  <2>5. \A f \in Events : IsUnheard(f)' <=> IsUnheard(f)
    BY <1>2, <1>4, SameUnheard DEF Unheard
  <2>6. st' = st
    BY <1>1, <2>5, SameStatus
  <2> QED BY <1>1, <2>2, <2>3, <2>4, <2>6 DEF Delivery!LoseAck, st
<1>5. CASE pc[p] # "marking"
  <2>1. lostAck' = lostAck
    BY <1>3, <1>5 DEF Restart
  <2> QED BY <1>1, <1>2, <2>1, QuitStep
<1> QED BY <1>4, <1>5

LEMMA TickStep ==
    ASSUME PromiseInv, Tick
    PROVE  \E S \in SUBSET Events : Delivery!Overrun(S)
<1> DEFINE S == {e \in Events : \E p \in Holders(e) : Aged(now[p]) <= -LockTimeout}
<1>1. \A e \in S : Delivery!Unsettled(e)
  BY HeldIsInHand DEF Held, Holders
<1>2. overrun' = [e \in Events |-> overrun[e] \/ e \in S]
  BY DEF Tick
<1>3. st' = st /\ UNCHANGED << deliveries, failures, lostAck >>
  <2>1. \A f \in Events : IsUnheard(f)' <=> IsUnheard(f)
    BY DEF Tick, IsUnheard, Unheard
  <2> QED BY <2>1, SameStatus DEF Tick
<1>4. S \in SUBSET Events
  OBVIOUS
<1> HIDE DEF S
<1>5. Delivery!Overrun(S)
  BY <1>1, <1>2, <1>3 DEF Delivery!Overrun, st
<1> QED BY <1>4, <1>5

LEMMA OtherSteps ==
    ASSUME PromiseInv, NEW p \in Processors,
           \/ SelectPending(p)
           \/ \E e \in Events : BeginEvent(p, e)
           \/ ShutDown(p)
    PROVE  Kept
<1>1. status' = status /\ UNCHANGED history
  BY DEF SelectPending, BeginEvent, ShutDown, row
<1>2. \/ UNCHANGED << pc, current >>
      \/ /\ OthersRest(p)
         /\ pc[p] \notin InEvent
         /\ pc'[p] \in {"idle", "claiming", "publishing"}
  BY StepsOfOne DEF ProcessorStep, SelectPending, BeginEvent, ShutDown, EndRun,
                    PromiseInv, IndInv, TypeOK, MemoryTypeOK
<1>3. \A f \in Events : IsUnheard(f)' <=> IsUnheard(f)
  <2>1. CASE UNCHANGED << pc, current >>
    BY <2>1 DEF IsUnheard, Unheard
  <2>2. CASE OthersRest(p) /\ pc[p] \notin InEvent /\ pc'[p] # "unheard"
    BY <2>2, SameUnheard DEF Unheard
  <2> QED BY <1>2, <2>1, <2>2
<1> QED BY <1>1, <1>3, SameStatus DEF Kept, history

-----------------------------------------------------------------------------
LEMMA StepKeepsPromise ==
    ASSUME PromiseInv, TypeOK', [Next]_vars
    PROVE  [Delivery!Next]_(Delivery!vars)
<1>1. Kept => UNCHANGED Delivery!vars
  BY DEF Kept, st, Delivery!vars
<1>2. ASSUME NEW e \in Events, StoreEvent(e)
      PROVE  Delivery!Next
  BY <1>2, StoreStep DEF Delivery!Next
<1>3. ASSUME NEW ids \in SUBSET Events, RetryDeadEvents(ids)
      PROVE  Delivery!Next
  <2>1. DeadAmong(ids) \in SUBSET Events
    BY DEF DeadAmong
  <2> QED BY <1>3, <2>1, RequeueStep DEF Delivery!Next
<1>4. ASSUME NEW p \in Processors, NEW isManual \in BOOLEAN, StartRun(p, isManual)
      PROVE  Kept
  BY <1>4, RecoverStep
<1>5. ASSUME NEW p \in Processors, ProcessorStep(p)
      PROVE  Kept \/ Delivery!Next
  <2>1. CASE ClaimSelected(p)
    <3>1. {e \in Claimable(p) : now[p] <= -LockTimeout} \in SUBSET Events
      BY DEF Claimable, PromiseInv, IndInv, TypeOK, MemoryTypeOK
    <3> QED BY <2>1, <3>1, ClaimStep DEF Delivery!Next
  <2>2. ASSUME NEW e \in Events, ReleaseAndStop(p, e)
        PROVE  Kept \/ Delivery!Next
    BY <2>2, ReleaseStep DEF Delivery!Next
  <2>3. ASSUME pc[p] \in InEvent
        PROVE  current[p] \in Events
    BY <2>3, CurrentIsHeld, HeldIsInHand
  <2>4. CASE PublishOk(p)
    BY <2>3, <2>4, PublishStep DEF Delivery!Next, PublishOk, InEvent
  <2>5. CASE PublishFails(p)
    BY <2>3, <2>5, FailStep DEF Delivery!Next, PublishFails, InEvent
  <2>6. CASE MarkProcessed(p)
    BY <2>3, <2>6, CompleteStep DEF Delivery!Next, MarkProcessed, InEvent
  <2>7. CASE HandleEventFailure(p)
    <3>1. pc[p] \in InFailure /\ pc'[p] \in {"idle", "looping"} /\ OthersRest(p)
      BY <1>5, <2>7, StepsOfOne
         DEF HandleEventFailure, FinishEvent, EndRun, PromiseInv, IndInv,
             TypeOK, MemoryTypeOK
    <3>2. \/ Kept \/ Delivery!Reopen(current[p]) \/ Delivery!GiveUp(current[p])
      BY <2>7, <3>1, FailureStep DEF HandleEventFailure
    <3> QED BY <2>3, <3>1, <3>2 DEF Delivery!Next
  <2> QED BY <1>5, <2>1, <2>2, <2>4, <2>5, <2>6, <2>7, OtherSteps
          DEF ProcessorStep
<1>6. ASSUME NEW p \in Processors, FaultStep(p)
      PROVE  Kept \/ Delivery!Next
  <2>1. OthersRest(p)
    BY <1>6, StepsOfOne DEF PromiseInv, IndInv
  <2>2. ASSUME pc[p] \in InEvent
        PROVE  current[p] \in Events
    BY <2>2, CurrentIsHeld, HeldIsInHand
  <2>3. CASE MarkFails(p)
    BY <2>2, <2>3, FailStep DEF Delivery!Next, MarkFails
  <2>4. CASE StatementFails(p)
    <3>1. pc'[p] = "idle" /\ UNCHANGED history
      BY <2>4 DEF StatementFails, EndRun, PromiseInv, IndInv, TypeOK,
                  MemoryTypeOK
    <3>2. CASE UNCHANGED row
      BY <2>1, <3>1, <3>2, QuitStep DEF row, history, Delivery!Next
    <3>3. CASE pc[p] = "claiming" /\ TakeRows(p, Claimable(p))
      BY <2>1, <3>1, <3>3, TakenStayOpen DEF history, Kept
    <3>4. CASE /\ pc[p] \in InFailure
               /\ RecordFailure(current[p], NewRetryCount(claim[p][current[p]]))
      BY <2>1, <2>2, <3>1, <3>4, FailureStep DEF Delivery!Next
    <3> QED BY <2>4, <3>2, <3>3, <3>4 DEF StatementFails
  <2>5. CASE Exit(p) \/ Crash(p)
    BY <2>1, <2>5, RestartStep DEF Exit, Crash, Delivery!Next
  <2> QED BY <1>6, <2>3, <2>4, <2>5, OtherSteps DEF FaultStep
<1>7. CASE Tick
  BY <1>7, TickStep DEF Delivery!Next
<1>8. CASE UNCHANGED vars
  <2>1. status' = status /\ UNCHANGED history
    BY <1>8 DEF vars, row
  <2>2. \A f \in Events : IsUnheard(f)' <=> IsUnheard(f)
    BY <1>8 DEF vars, memory, IsUnheard, Unheard
  <2>3. Kept
    BY <2>1, <2>2, SameStatus DEF Kept, history
  <2> QED BY <1>1, <2>3
<1> QED BY <1>1, <1>2, <1>3, <1>4, <1>5, <1>6, <1>7, <1>8 DEF Next

LEMMA InitKeepsPromise == Init => Delivery!Init
  BY DEF Init, Delivery!Init, StateOf

(* Outbox implements AtLeastOnce: whatever the replicas, the operators,    *)
(* the faults and the clock do, replies that are lost after their          *)
(* statement was applied included, is a step the promise allows.           *)
THEOREM PromiseKept == Spec => ImplementsAtLeastOnce
<1>1. PromiseInv /\ TypeOK' /\ [Next]_vars => [Delivery!Next]_(Delivery!vars)
  BY StepKeepsPromise
<1>2. PromiseInv => TypeOK
  BY DEF PromiseInv, IndInv
<1> QED BY <1>1, <1>2, InitKeepsPromise, PromiseInvariant, PTL
        DEF Spec, ImplementsAtLeastOnce, Delivery!Spec

-----------------------------------------------------------------------------
(* Only a replica that was late, or has marked the row without knowing,    *)
(* can hold a row that is PROCESSED, so no other step writes it: neither a *)
(* release nor a recorded failure does.                                    *)
LEMMA FinalStep ==
    ASSUME PromiseInv, [Next]_vars, NEW e \in Events,
           status[e] = "PROCESSED", ~overrun[e], ~IsUnheard(e)
    PROVE  status'[e] = "PROCESSED"
<1> USE DEF PromiseInv, IndInv, TypeOK, RowsTypeOK
<1>1. \A p \in Processors : e \notin Held(p)
  <2> SUFFICES ASSUME NEW p \in Processors, e \in Held(p)
               PROVE  FALSE
    OBVIOUS
  <2>1. st[e] = "open"
    BY HeldIsInHand DEF IsUnheard
  <2> QED BY <2>1, StateByStatus
<1>2. \A p \in Processors : pc[p] \in InEvent => current[p] # e
  BY <1>1, CurrentIsHeld
<1>3. ASSUME NEW f, f # e, NEW n, MarkRow(f) \/ RecordFailure(f, n)
      PROVE  status'[e] = "PROCESSED"
  BY <1>3 DEF MarkRow, RecordFailure
<1>4. ASSUME NEW p \in Processors, TakeRows(p, Claimable(p))
      PROVE  status'[e] = "PROCESSED"
  BY <1>4 DEF TakeRows, Claimable
<1>5. ASSUME NEW f \in Events, StoreEvent(f)
      PROVE  status'[e] = "PROCESSED"
  BY <1>5 DEF StoreEvent
<1>6. ASSUME NEW ids \in SUBSET Events, RetryDeadEvents(ids)
      PROVE  status'[e] = "PROCESSED"
  BY <1>6 DEF RetryDeadEvents, DeadAmong
<1>7. ASSUME NEW p \in Processors, NEW isManual \in BOOLEAN, StartRun(p, isManual)
      PROVE  status'[e] = "PROCESSED"
  BY <1>7 DEF StartRun, RecoverStaleLocks, StaleLocks
<1>8. ASSUME NEW p \in Processors, ProcessorStep(p)
      PROVE  status'[e] = "PROCESSED"
  <2>1. CASE ClaimSelected(p)
    BY <1>4, <2>1 DEF ClaimSelected
  <2>2. ASSUME NEW f \in Events, ReleaseAndStop(p, f)
        PROVE  status'[e] = "PROCESSED"
    BY <1>1, <2>2 DEF ReleaseAndStop
  <2>3. CASE MarkProcessed(p) \/ HandleEventFailure(p)
    BY <1>2, <1>3, <2>3 DEF MarkProcessed, HandleEventFailure
  <2> QED BY <1>8, <2>1, <2>2, <2>3
          DEF ProcessorStep, SelectPending, BeginEvent, PublishOk, PublishFails,
              row
<1>9. ASSUME NEW p \in Processors, FaultStep(p)
      PROVE  status'[e] = "PROCESSED"
  <2>1. CASE StatementFails(p)
    BY <1>2, <1>3, <1>4, <2>1 DEF StatementFails, row
  <2>2. CASE MarkFails(p)
    BY <1>2, <1>3, <2>2 DEF MarkFails, row
  <2> QED BY <1>9, <2>1, <2>2
          DEF FaultStep, ShutDown, Exit, Crash, Restart, row
<1> QED BY <1>5, <1>6, <1>7, <1>8, <1>9 DEF Next, Tick, vars, row

(* PROCESSED is final for an event that no replica has overrun and that    *)
(* none is inside handleEventFailure with after its own lost mark.         *)
THEOREM ProcessedFinal == Spec => ProcessedIsFinal
<1>1. PromiseInv /\ [Next]_vars =>
         [\A e \in Events :
             status[e] = "PROCESSED" /\ ~overrun[e] /\ ~IsUnheard(e)
                => status'[e] = "PROCESSED"]_vars
  BY FinalStep
<1> QED BY <1>1, PromiseInvariant, PTL DEF Spec, ProcessedIsFinal
=============================================================================
