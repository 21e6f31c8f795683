--------------------------- MODULE SchedulerLock ---------------------------
(***************************************************************************)
(* One advisory lock of the schedulers (src/src/shared/domain/             *)
(* advisory-lock.ts, used by ServiceDayScheduler).  PostgreSQL keeps the   *)
(* lock by session: a session that has it gets it again and again, and     *)
(* gives it back as often.  The program knows no sessions.  It talks to a  *)
(* pool, and each statement goes through a connection of the pool's        *)
(* choice, the one that takes the lock and the one that gives it back.     *)
(***************************************************************************)
EXTENDS Integers, FiniteSets

CONSTANTS
    Replicas,
    Slots,       \* connections in each replica's pool
    Turns,       \* runs of the job that may overlap in one replica
    MaxHolds     \* bound: how often one session has the lock

ASSUME LockAssumption == MaxHolds \in Nat /\ IsFiniteSet(Turns)

Connections == Replicas \X Slots
Pool(r)     == {r} \X Slots
Runs        == Replicas \X Turns
RunsOf(r)   == {r} \X Turns

VARIABLES
    holds,       \* how often each session has the lock
    working,     \* runs inside withAdvisoryLock's fn
    disturbed    \* replicas at work whose session lost the lock meanwhile

lockVars == << holds, working, disturbed >>

WorkingOf(r) == working \cap RunsOf(r)

LockInit ==
    /\ holds     = [c \in Connections |-> 0]
    /\ working   = {}
    /\ disturbed = {}

-----------------------------------------------------------------------------
(* Mutant: the answer of pg_try_advisory_lock is not looked at *)
Granted(c) == TRUE

(* pg_try_advisory_lock says no while another session has the lock. *)
Available(c) == \A d \in Connections \ {c} : holds[d] = 0

(* tryAcquireLock is granted and fn begins.  A run that is turned away     *)
(* changes nothing and is not a step.                                      *)
TryAcquire(n, c) ==
    /\ n \notin working
    /\ c \in Pool(n[1])
    /\ holds[c] < MaxHolds
    /\ Available(c)
    /\ holds' = [holds EXCEPT ![c] = @ + 1]
    /\ working' = working \cup {n}
    /\ UNCHANGED disturbed

(* Mutant: the session gives back all it has *)
UnlockedAll(c) == 0

(* Mutant: a release counts even if the session does not have the lock *)
UnlockedAnyway(c) == holds[c] - 1

(* pg_advisory_unlock; a session that has no lock only gets a warning. *)
Unlocked(c) == IF holds[c] > 0 THEN holds[c] - 1 ELSE 0

EndRun(n) ==
    /\ n \in working
    /\ working' = working \ {n}
    /\ disturbed' = IF WorkingOf(n[1]) = {n} THEN disturbed \ {n[1]}
                                             ELSE disturbed

(* fn has returned or thrown; releaseLock goes through any connection. *)
ReleaseLock(n, c) ==
    /\ c \in Pool(n[1])
    /\ holds' = [holds EXCEPT ![c] = Unlocked(c)]
    /\ EndRun(n)

(* The statement of releaseLock throws. *)
ReleaseFails(n) == EndRun(n) /\ UNCHANGED holds

(* Mutant: connections are kept for ever *)
KeepOpen(c) == FALSE

(* The pool ends a connection that has reached its lifetime, or it breaks: *)
(* the session's locks go with it.  The pool opens another in its place.   *)
Close(c) ==
    /\ holds[c] > 0
    /\ holds' = [holds EXCEPT ![c] = 0]
    /\ disturbed' = IF WorkingOf(c[1]) = {} THEN disturbed
                                            ELSE disturbed \cup {c[1]}
    /\ UNCHANGED working

(* The process is gone, and all its connections and runs with it. *)
Crash(r) ==
    /\ WorkingOf(r) # {}
    /\ holds' = [c \in Connections |-> IF c[1] = r THEN 0 ELSE holds[c]]
    /\ working' = working \ RunsOf(r)
    /\ disturbed' = disturbed \ {r}

LockNext ==
    \/ \E n \in Runs :
          \/ \E c \in Connections : TryAcquire(n, c) \/ ReleaseLock(n, c)
          \/ ReleaseFails(n)
    \/ \E c \in Connections : Close(c)
    \/ \E r \in Replicas : Crash(r)

LockSpec == LockInit /\ [][LockNext]_lockVars

LockIsFree == \A c \in Connections : holds[c] = 0

(* The cron jobs go on firing, so while the lock is free a run gets it; a  *)
(* run that has it ends, and no connection lives for ever.  Nothing is     *)
(* assumed of a replica that tries while another session has the lock.     *)
Fairness ==
    /\ WF_lockVars(/\ LockIsFree
                   /\ \E n \in Runs, c \in Connections : TryAcquire(n, c))
    /\ \A n \in Runs :
          WF_lockVars(ReleaseFails(n) \/ \E c \in Connections : ReleaseLock(n, c))
    /\ \A c \in Connections : WF_lockVars(Close(c))

FairSpec == LockSpec /\ Fairness

-----------------------------------------------------------------------------
(* Properties *)

(* Every variable has its type, and only a replica at work is disturbed. *)
LockTypeOK ==
    /\ holds \in [Connections -> 0 .. MaxHolds]
    /\ working \in SUBSET Runs
    /\ disturbed \in SUBSET {r \in Replicas : WorkingOf(r) # {}}

(* At most one session has the lock. *)
OneSession ==
    \A c, d \in Connections : holds[c] > 0 /\ holds[d] > 0 => c = d

(* While no session of it was closed under its runs, a replica has the     *)
(* lock once for each run at work, all in one session: an overlapping run  *)
(* that ends, through whichever connection, leaves the others theirs.      *)
RunsAreCovered ==
    \A r \in Replicas \ disturbed :
       WorkingOf(r) # {} =>
          \E c \in Pool(r) : holds[c] >= Cardinality(WorkingOf(r))

(* Runs of two replicas are at work at a time only if the session of one   *)
(* of them was closed meanwhile.                                           *)
ReplicasExclude ==
    \A r, s \in Replicas :
       r # s /\ WorkingOf(r) # {} /\ WorkingOf(s) # {} =>
          r \in disturbed \/ s \in disturbed

(* The job runs again and again, whatever leaks. *)
JobGoesOn == []<>(working # {})
=============================================================================
