--------------------------- MODULE Scheduler_proofs ---------------------------
(***************************************************************************)
(* Proofs about the scheduler.  Of its lock (SchedulerLock), for any       *)
(* number of replicas, any pool and any finite number of overlapping runs: *)
(* which runs are at work together.  Of its jobs on the clock (Calendar),  *)
(* for every zone with one change of its offset that stays within a day of *)
(* UTC, every notice period, every set of weekdays and every length of a   *)
(* day: which dates are generated and on which weekdays, the promptness of *)
(* the fallback, and how the three ways to reckon a deadline agree.        *)
(***************************************************************************)
EXTENDS Calendar, SchedulerLock, FiniteSetTheorems, WellFoundedInduction, TLAPS

-----------------------------------------------------------------------------
(* The lock *)

USE LockAssumption

LockIndInv == LockTypeOK /\ OneSession /\ RunsAreCovered

-----------------------------------------------------------------------------
(* Runs and connections belong to one replica each. *)
LEMMA Belonging ==
    /\ \A n \in Runs : n[1] \in Replicas /\ n \in RunsOf(n[1])
    /\ \A r \in Replicas : \A n \in RunsOf(r) : n[1] = r /\ n \in Runs
    /\ \A c \in Connections : c[1] \in Replicas /\ c \in Pool(c[1])
    /\ \A r \in Replicas : \A c \in Pool(r) : c[1] = r /\ c \in Connections
  BY DEF Runs, RunsOf, Connections, Pool

(* The runs at work in a replica can be counted. *)
LEMMA FiniteWork ==
    ASSUME NEW r \in Replicas, NEW S \in SUBSET RunsOf(r)
    PROVE  IsFiniteSet(S) /\ Cardinality(S) \in Nat
<1>1. IsFiniteSet({r})
  BY FS_Singleton
<1>2. IsFiniteSet(RunsOf(r))
  BY <1>1, FS_Product DEF RunsOf
<1> QED BY <1>2, FS_Subset, FS_CardinalityType

(* A replica at work that is not disturbed has the lock. *)
LEMMA AtWorkHolds ==
    ASSUME LockTypeOK, RunsAreCovered, NEW r \in Replicas, WorkingOf(r) # {},
           r \notin disturbed
    PROVE  \E c \in Pool(r) : c \in Connections /\ holds[c] > 0
<1>1. IsFiniteSet(WorkingOf(r)) /\ Cardinality(WorkingOf(r)) \in Nat
  BY FiniteWork DEF WorkingOf
<1>2. Cardinality(WorkingOf(r)) # 0
  BY <1>1, FS_EmptySet
<1>3. PICK c \in Pool(r) : holds[c] >= Cardinality(WorkingOf(r))
  BY DEF RunsAreCovered
<1> QED BY <1>1, <1>2, <1>3, Belonging DEF LockTypeOK

-----------------------------------------------------------------------------
(* Steps that end a run *)

(* A run that ends leaves the other runs of its replica, and the runs of   *)
(* the other replicas as they are.                                         *)
LEMMA EndOfRun ==
    ASSUME LockTypeOK, NEW n \in Runs, EndRun(n)
    PROVE  /\ WorkingOf(n[1])' = WorkingOf(n[1]) \ {n}
           /\ \A r \in Replicas \ {n[1]} : WorkingOf(r)' = WorkingOf(r)
           /\ \A r \in Replicas \ disturbed' :
                 WorkingOf(r)' # {} => r \notin disturbed
           /\ working' \in SUBSET Runs
           /\ disturbed' \in SUBSET {r \in Replicas : WorkingOf(r)' # {}}
           /\ Cardinality(WorkingOf(n[1]))
                 = Cardinality(WorkingOf(n[1])') + 1
<1>1. WorkingOf(n[1])' = WorkingOf(n[1]) \ {n}
  BY DEF EndRun, WorkingOf
<1>2. \A r \in Replicas \ {n[1]} : WorkingOf(r)' = WorkingOf(r)
  BY Belonging DEF EndRun, WorkingOf
<1>3. n \in WorkingOf(n[1]) /\ n[1] \in Replicas
  BY Belonging DEF EndRun, WorkingOf
<1>4. IsFiniteSet(WorkingOf(n[1])) /\ Cardinality(WorkingOf(n[1])) \in Nat
  BY <1>3, FiniteWork DEF WorkingOf
<1>5. Cardinality(WorkingOf(n[1])) = Cardinality(WorkingOf(n[1])') + 1
  <2>1. Cardinality(WorkingOf(n[1]) \ {n}) = Cardinality(WorkingOf(n[1])) - 1
    BY <1>3, <1>4, FS_RemoveElement
  <2> QED BY <1>1, <1>4, <2>1
<1>6. \A r \in Replicas \ disturbed' : WorkingOf(r)' # {} => r \notin disturbed
  BY <1>1 DEF EndRun
<1>7. working' \in SUBSET Runs
  BY DEF EndRun, LockTypeOK
<1>8. disturbed' \in SUBSET {r \in Replicas : WorkingOf(r)' # {}}
  BY <1>1, <1>2, <1>3 DEF EndRun, LockTypeOK
<1> QED BY <1>1, <1>2, <1>5, <1>6, <1>7, <1>8

(* Giving the lock back once, or not at all, leaves the remaining runs of  *)
(* the replica covered, since they are one less.                           *)
LEMMA EndKeepsCover ==
    ASSUME LockIndInv, NEW n \in Runs, EndRun(n),
           holds' \in [Connections -> Nat],
           \A c \in Connections :
              holds'[c] # holds[c] => c \in Pool(n[1]) /\ holds'[c] = holds[c] - 1
    PROVE  RunsAreCovered'
<1> SUFFICES ASSUME NEW r \in Replicas \ disturbed', WorkingOf(r)' # {}
             PROVE  \E c \in Pool(r) : holds'[c] >= Cardinality(WorkingOf(r)')
  BY DEF RunsAreCovered, Pool, WorkingOf, RunsOf
<1>1. LockTypeOK /\ r \notin disturbed
  BY EndOfRun DEF LockIndInv
<1>2. CASE r = n[1]
  <2>1. WorkingOf(r) # {}
    BY <1>1, <1>2, EndOfRun
  <2>2. PICK c \in Pool(r) : holds[c] >= Cardinality(WorkingOf(r))
    BY <1>1, <2>1 DEF LockIndInv, RunsAreCovered
  <2>3. Cardinality(WorkingOf(r)) = Cardinality(WorkingOf(r)') + 1
    BY <1>1, <1>2, EndOfRun
  <2>4. WorkingOf(r)' \in SUBSET RunsOf(r)
    BY DEF WorkingOf, RunsOf
  <2>5. Cardinality(WorkingOf(r)') \in Nat
    BY <2>4, FiniteWork
  <2>6. c \in Connections /\ holds[c] \in Nat /\ holds'[c] \in Nat
    BY <1>1, Belonging DEF LockTypeOK
  <2> QED BY <2>2, <2>3, <2>5, <2>6
<1>3. CASE r # n[1]
  <2>1. WorkingOf(r)' = WorkingOf(r)
    BY <1>1, <1>3, EndOfRun
  <2>2. PICK c \in Pool(r) : holds[c] >= Cardinality(WorkingOf(r))
    BY <1>1, <2>1 DEF LockIndInv, RunsAreCovered
  <2>3. c \in Connections /\ c \notin Pool(n[1])
    BY <1>3, Belonging
  <2> QED BY <2>1, <2>2, <2>3
<1> QED BY <1>2, <1>3

-----------------------------------------------------------------------------
(* The inductive invariant *)

LEMMA LockInitInd == LockInit => LockIndInv
  BY DEF LockInit, LockIndInv, LockTypeOK, OneSession, RunsAreCovered, WorkingOf

LEMMA LockStepInd == LockIndInv /\ [LockNext]_lockVars => LockIndInv'
<1> SUFFICES ASSUME LockIndInv, [LockNext]_lockVars
             PROVE  LockIndInv'
  OBVIOUS
<1> USE DEF LockIndInv
<1>1. ASSUME NEW n \in Runs, NEW c \in Connections, TryAcquire(n, c)
      PROVE  LockIndInv'
  <2> DEFINE r == n[1]
  <2>1. r \in Replicas /\ n \in RunsOf(r) /\ c \in Pool(r) /\ n \notin WorkingOf(r)
    BY <1>1, Belonging DEF TryAcquire, WorkingOf
  <2>2. /\ holds[c] \in Nat
        /\ holds' \in [Connections -> 0 .. MaxHolds]
        /\ holds'[c] = holds[c] + 1
        /\ \A d \in Connections \ {c} : holds'[d] = 0
    BY <1>1 DEF TryAcquire, Available, LockTypeOK
  <2>3. /\ WorkingOf(r)' = WorkingOf(r) \cup {n}
        /\ \A s \in Replicas \ {r} : WorkingOf(s)' = WorkingOf(s)
    BY <1>1, <2>1, Belonging DEF TryAcquire, WorkingOf, RunsOf
  <2>4. LockTypeOK'
    BY <1>1, <2>2, <2>3 DEF TryAcquire, LockTypeOK
  <2>5. OneSession'
    BY <2>2 DEF OneSession
  <2>6. RunsAreCovered'
    <3> SUFFICES ASSUME NEW s \in Replicas \ disturbed', WorkingOf(s)' # {}
                 PROVE  \E d \in Pool(s) : holds'[d] >= Cardinality(WorkingOf(s)')
      BY DEF RunsAreCovered, Pool, WorkingOf, RunsOf
    <3>1. s \notin disturbed
      BY <1>1 DEF TryAcquire
    <3>2. \A d \in Connections \ {c} : holds[d] = 0
      BY <1>1 DEF TryAcquire, Available
    <3>3. CASE s = r
      <4>1. IsFiniteSet(WorkingOf(r)) /\ Cardinality(WorkingOf(r)) \in Nat
        BY <2>1, FiniteWork DEF WorkingOf
      <4>2. Cardinality(WorkingOf(r)') = Cardinality(WorkingOf(r)) + 1
        BY <2>1, <2>3, <4>1, FS_AddElement
      <4>3. holds[c] >= Cardinality(WorkingOf(r))
        <5>1. CASE WorkingOf(r) = {}
          BY <2>2, <5>1, FS_EmptySet
        <5>2. CASE WorkingOf(r) # {}
          <6>1. PICK d \in Pool(r) : holds[d] >= Cardinality(WorkingOf(r))
            BY <2>1, <3>1, <3>3, <5>2 DEF RunsAreCovered
          <6>2. Cardinality(WorkingOf(r)) # 0
            BY <4>1, <5>2, FS_EmptySet
          <6>3. d = c
            BY <2>1, <3>2, <4>1, <6>1, <6>2, Belonging
          <6> QED BY <6>1, <6>3
        <5> QED BY <5>1, <5>2
      <4> QED BY <2>1, <2>2, <3>3, <4>1, <4>2, <4>3
    <3>4. CASE s # r
      <4>1. WorkingOf(s) # {}
        BY <2>3, <3>4
      <4>2. PICK d \in Pool(s) : d \in Connections /\ holds[d] > 0
        BY <3>1, <4>1, AtWorkHolds
      <4>3. d # c
        BY <2>1, <3>4, <4>2, Belonging
      <4> QED BY <3>2, <4>2, <4>3
    <3> QED BY <3>3, <3>4
  <2> QED BY <2>4, <2>5, <2>6
<1>2. ASSUME NEW n \in Runs, NEW c \in Connections, ReleaseLock(n, c)
      PROVE  LockIndInv'
  <2>1. EndRun(n) /\ c \in Pool(n[1])
    BY <1>2 DEF ReleaseLock
  <2>2. /\ holds' \in [Connections -> 0 .. MaxHolds]
        /\ \A d \in Connections : holds'[d] <= holds[d]
        /\ \A d \in Connections :
              holds'[d] # holds[d] => d \in Pool(n[1]) /\ holds'[d] = holds[d] - 1
    BY <1>2, <2>1 DEF ReleaseLock, Unlocked, LockTypeOK
  <2>3. LockTypeOK'
    BY <2>1, <2>2, EndOfRun DEF LockTypeOK
  <2>4. OneSession'
    BY <2>2 DEF OneSession, LockTypeOK
  <2>5. holds' \in [Connections -> Nat]
    BY <2>2
  <2> QED BY <2>1, <2>2, <2>3, <2>4, <2>5, EndKeepsCover
<1>3. ASSUME NEW n \in Runs, ReleaseFails(n)
      PROVE  LockIndInv'
  <2>1. EndRun(n) /\ holds' = holds
    BY <1>3 DEF ReleaseFails
  <2>2. LockTypeOK'
    BY <2>1, EndOfRun DEF LockTypeOK
  <2>3. holds' \in [Connections -> Nat]
    BY <2>1 DEF LockTypeOK
  <2>4. OneSession'
    BY <2>1 DEF OneSession
  <2>5. \A c \in Connections : holds'[c] = holds[c]
    BY <2>1
  <2> QED BY <2>1, <2>2, <2>3, <2>4, <2>5, EndKeepsCover
<1>4. ASSUME NEW c \in Connections, Close(c)
      PROVE  LockIndInv'
  <2>1. \A r \in Replicas : WorkingOf(r)' = WorkingOf(r)
    BY <1>4 DEF Close, WorkingOf
  <2>2. LockTypeOK'
    BY <1>4, <2>1, Belonging DEF Close, LockTypeOK
  <2>3. OneSession'
    BY <1>4 DEF Close, OneSession, LockTypeOK
  <2>4. RunsAreCovered'
    <3> SUFFICES ASSUME NEW r \in Replicas \ disturbed', WorkingOf(r)' # {}
                 PROVE  \E d \in Pool(r) : holds'[d] >= Cardinality(WorkingOf(r)')
      BY DEF RunsAreCovered, Pool, WorkingOf, RunsOf
    <3>1. r \notin disturbed /\ r # c[1] /\ WorkingOf(r) # {}
      BY <1>4, <2>1 DEF Close
    <3>2. PICK d \in Pool(r) : holds[d] >= Cardinality(WorkingOf(r))
      BY <3>1 DEF RunsAreCovered
    <3>3. d \in Connections /\ d # c
      BY <3>1, Belonging
    <3> QED BY <1>4, <2>1, <3>2, <3>3 DEF Close, LockTypeOK
  <2> QED BY <2>2, <2>3, <2>4
<1>5. ASSUME NEW r \in Replicas, Crash(r)
      PROVE  LockIndInv'
  <2>1. /\ WorkingOf(r)' = {}
        /\ \A s \in Replicas \ {r} : WorkingOf(s)' = WorkingOf(s)
    BY <1>5, Belonging DEF Crash, WorkingOf
  <2>2. LockTypeOK'
    BY <1>5, <2>1 DEF Crash, LockTypeOK
  <2>3. OneSession'
    BY <1>5 DEF Crash, OneSession, LockTypeOK
  <2>4. RunsAreCovered'
    <3> SUFFICES ASSUME NEW s \in Replicas \ disturbed', WorkingOf(s)' # {}
                 PROVE  \E d \in Pool(s) : holds'[d] >= Cardinality(WorkingOf(s)')
      BY DEF RunsAreCovered, Pool, WorkingOf, RunsOf
    <3>1. s # r /\ s \notin disturbed /\ WorkingOf(s)' = WorkingOf(s)
      BY <1>5, <2>1 DEF Crash
    <3>2. PICK d \in Pool(s) : holds[d] >= Cardinality(WorkingOf(s))
      BY <3>1 DEF RunsAreCovered
    <3>3. d \in Connections /\ d[1] # r
      BY <3>1, Belonging
    <3> QED BY <1>5, <3>1, <3>2, <3>3 DEF Crash
  <2> QED BY <2>2, <2>3, <2>4
<1>6. CASE UNCHANGED lockVars
  BY <1>6 DEF lockVars, LockTypeOK, OneSession, RunsAreCovered, WorkingOf
<1> QED BY <1>1, <1>2, <1>3, <1>4, <1>5, <1>6 DEF LockNext

(* Every reachable state satisfies the inductive invariant. *)
THEOREM LockInductive == LockSpec => []LockIndInv
  BY LockInitInd, LockStepInd, PTL DEF LockSpec

(* Every reachable state is well typed. *)
THEOREM LockTypeCorrect == LockSpec => []LockTypeOK
  BY LockInductive, PTL DEF LockIndInv

(* Overlapping runs never take the lock from one another. *)
THEOREM CoverCorrect == LockSpec => []RunsAreCovered
  BY LockInductive, PTL DEF LockIndInv

(* Two replicas are at work at a time only behind a closed session. *)
THEOREM ExclusionCorrect == LockSpec => []ReplicasExclude
<1>1. LockIndInv => ReplicasExclude
  <2> SUFFICES ASSUME LockIndInv, NEW r \in Replicas, NEW s \in Replicas, r # s,
                      WorkingOf(r) # {}, WorkingOf(s) # {},
                      r \notin disturbed, s \notin disturbed
               PROVE  FALSE
    BY DEF ReplicasExclude
  <2>1. PICK c \in Pool(r) : c \in Connections /\ holds[c] > 0
    BY AtWorkHolds DEF LockIndInv
  <2>2. PICK d \in Pool(s) : d \in Connections /\ holds[d] > 0
    BY AtWorkHolds DEF LockIndInv
  <2>3. c # d
    BY <2>1, <2>2, Belonging
  <2> QED BY <2>1, <2>2, <2>3 DEF LockIndInv, OneSession
<1> QED BY <1>1, LockInductive, PTL

HIDE LockAssumption

-----------------------------------------------------------------------------
(* The jobs on the clock *)

USE CalendarAssumption, DatesAssumption

-----------------------------------------------------------------------------
(* Instants *)

(* Offsets are whole numbers of ticks. *)
LEMMA ZoneFields ==
    ASSUME NEW z \in Zone
    PROVE  z.before \in Int /\ z.after \in Int /\ z.at \in Int
  BY DEF Zone

(* The midnight of a date is an instant. *)
LEMMA MidnightIsInstant ==
    ASSUME NEW d \in Int
    PROVE  MidnightOf(d) \in Int
  BY DEF MidnightOf

(* Going back by hours on the clock and in time that passes come to the    *)
(* same instant, if the zone has the same offset at both and at the start. *)
LEMMA HoursOnTheClock ==
    ASSUME NEW z \in Zone, NEW t \in Int, NEW n \in Int,
           Offset(z, AddLocalHours(z, t, -n)) = Offset(z, t),
           Offset(z, t - n) = Offset(z, t)
    PROVE  AddLocalHours(z, t, -n) = t - n
<1> z.before \in Int /\ z.after \in Int /\ z.at \in Int
  BY ZoneFields
<1>1. CASE t < z.at
  BY <1>1 DEF AddLocalHours, FromLocal, Local, Offset
<1>2. CASE ~(t < z.at)
  BY <1>2 DEF AddLocalHours, FromLocal, Local, Offset
<1> QED BY <1>1, <1>2

-----------------------------------------------------------------------------
(* Midnights and dates *)

(* The next midnight is a day later. *)
LEMMA MidnightStep ==
    ASSUME NEW d \in Int
    PROVE  MidnightOf(d + 1) = MidnightOf(d) + TicksPerDay
  BY DEF MidnightOf

(* Midnights come in the order of their dates, a day or more apart. *)
LEMMA MidnightOrder ==
    ASSUME NEW d \in Int, NEW e \in Int, d < e
    PROVE  MidnightOf(d) + TicksPerDay <= MidnightOf(e)
<1> DEFINE n == e - d - 1
<1>1. n \in Nat /\ e = d + 1 + n
  OBVIOUS
<1> HIDE DEF n
<1>2. n * TicksPerDay >= 0
  BY <1>1
<1>3. (d + 1 + n) * TicksPerDay
         = d * TicksPerDay + TicksPerDay + n * TicksPerDay
  BY <1>1
<1> QED BY <1>1, <1>2, <1>3 DEF MidnightOf

(* An instant lies between the midnight of its date and the next one. *)
LEMMA DateBounds ==
    ASSUME NEW t \in Int
    PROVE  /\ DateOf(t) \in Int
           /\ MidnightOf(DateOf(t)) <= t
           /\ t < MidnightOf(DateOf(t)) + TicksPerDay
  BY DEF DateOf, MidnightOf

(* No other date has it between its midnights. *)
LEMMA DateIs ==
    ASSUME NEW t \in Int, NEW d \in Int,
           MidnightOf(d) <= t, t < MidnightOf(d) + TicksPerDay
    PROVE  DateOf(t) = d
<1>1. ~(DateOf(t) < d)
  BY DateBounds, MidnightOrder, MidnightIsInstant
<1>2. ~(d < DateOf(t))
  BY DateBounds, MidnightOrder, MidnightIsInstant
<1> QED BY <1>1, <1>2, DateBounds

-----------------------------------------------------------------------------
(* Induction, on sets of numbers *)

(* A set of numbers that has 0, and with each number the next one, has all *)
(* of them.                                                                *)
LEMMA AllNumbers ==
    ASSUME NEW S, 0 \in S, \A n \in S \cap Nat : n + 1 \in S
    PROVE  Nat \subseteq S
<1> DEFINE T == Nat \ S
<1> SUFFICES ASSUME T # {}
             PROVE  FALSE
  OBVIOUS
<1>1. PICK n \in T : \A m \in T : << m, n >> \notin OpToRel(<, Nat)
  BY NatLessThanWellFounded, WFMin, T \subseteq Nat
<1>2. n \in Nat /\ n \notin S
  OBVIOUS
<1>3. n - 1 \in Nat
  BY <1>2
<1>4. << n - 1, n >> \in OpToRel(<, Nat)
  BY <1>2, <1>3 DEF OpToRel
<1>5. n - 1 \in S
  BY <1>1, <1>3, <1>4, Zenon
<1>6. (n - 1) + 1 \in S
  BY <1>3, <1>5
<1> QED BY <1>2, <1>6

-----------------------------------------------------------------------------
(* The walk *)

Realistic == zone \in Zone /\ StaysWithinDay(zone)

NextDay(t) == AddLocalDays(zone, t, 1)

Stored(t) == IF IsServiceDay(zone, t) THEN {DateOf(t)} ELSE {}

(* The numbers of a realistic zone *)
LEMMA ZoneNumbers ==
    ASSUME Realistic
    PROVE  /\ zone.before \in Int /\ zone.after \in Int /\ zone.at \in Int
           /\ -TicksPerDay < zone.before /\ zone.before < TicksPerDay
           /\ -TicksPerDay < zone.after /\ zone.after < TicksPerDay
           /\ -TicksPerDay < zone.after - zone.before
           /\ zone.after - zone.before < TicksPerDay
  BY ZoneFields DEF Realistic, StaysWithinDay

(* The same time on the next day comes within two days. *)
LEMMA WalkGoesOn ==
    ASSUME Realistic, NEW t \in Int
    PROVE  NextDay(t) \in (t + 1)..(t + 2 * TicksPerDay)
  BY ZoneNumbers DEF NextDay, AddLocalDays, FromLocal, Local, Offset

(* What a walk that ends at instant "to" stores from instant t on, if f    *)
(* says it of later instants                                               *)
From(f, to, t) == IF t > to THEN {} ELSE Stored(t) \cup f[NextDay(t)]

Instants(from, to) == from..(to + 2 * TicksPerDay)

(* f says it of the last n instants and of those that come after. *)
KnowsLast(f, n, from, to) ==
    \A t \in Instants(from, to) : t > to - n => f[t] = From(f, to, t)

(* What a walk stores is known of one instant more at a time. *)
LEMMA WalkByInstants ==
    ASSUME Realistic, NEW from \in Int, NEW to \in Int,
           NEW n \in Nat, NEW f,
           f = [t \in Instants(from, to) |-> f[t]],
           KnowsLast(f, n, from, to)
    PROVE  \E g : /\ g = [t \in Instants(from, to) |-> g[t]]
                  /\ KnowsLast(g, n + 1, from, to)
<1> DEFINE last == to - n
           g == [t \in Instants(from, to) |->
                    IF t = last THEN From(f, to, t) ELSE f[t]]
<1>1. g = [t \in Instants(from, to) |-> g[t]]
  OBVIOUS
<1>2. ASSUME NEW t \in Instants(from, to), t > to - (n + 1)
      PROVE  g[t] = From(g, to, t)
  <2>1. t \in Int /\ (t = last \/ t > last)
    <3>1. t \in Int
      BY DEF Instants
    <3> QED BY <3>1, <1>2
  <2>2. CASE t > to
    BY <2>1, <2>2, <1>2 DEF From, KnowsLast
  <2>3. CASE ~(t > to)
    <3>0. /\ t \in Int /\ from <= t /\ t <= to /\ t >= last
          /\ NextDay(t) \in (t + 1)..(t + 2 * TicksPerDay)
      BY <2>1, <2>3, WalkGoesOn DEF Instants
    <3>1. /\ NextDay(t) \in Instants(from, to)
          /\ NextDay(t) # last
      BY <3>0 DEF Instants
    <3>2. g[NextDay(t)] = f[NextDay(t)]
      BY <3>1
    <3>3. From(g, to, t) = From(f, to, t)
      BY <3>2 DEF From
    <3>4. g[t] = From(f, to, t)
      BY <2>1, <1>2 DEF KnowsLast
    <3> QED BY <3>3, <3>4
  <2> QED BY <2>2, <2>3
<1>3. KnowsLast(g, n + 1, from, to)
  BY <1>2 DEF KnowsLast
<1> QED BY <1>1, <1>3

(* So there is a function that says it of all. *)
LEMMA WalkIsKnown ==
    ASSUME Realistic, NEW from \in Int, NEW to \in Int
    PROVE  \E f : f = [t \in Instants(from, to) |-> From(f, to, t)]
<1> DEFINE Known(n) ==
              \E f : /\ f = [t \in Instants(from, to) |-> f[t]]
                     /\ KnowsLast(f, n, from, to)
           S == { n \in Nat : Known(n) }
<1>1. 0 \in S
  <2> DEFINE f == [t \in Instants(from, to) |-> {}]
  <2>1. f = [t \in Instants(from, to) |-> f[t]]
    OBVIOUS
  <2>2. KnowsLast(f, 0, from, to)
    BY DEF KnowsLast, From, Instants
  <2> QED BY <2>1, <2>2
<1>2. ASSUME NEW n \in S \cap Nat
      PROVE  n + 1 \in S
  <2>1. PICK f : /\ f = [t \in Instants(from, to) |-> f[t]]
                 /\ KnowsLast(f, n, from, to)
    OBVIOUS
  <2>2. Known(n + 1)
    BY <2>1, WalkByInstants
  <2> QED BY <2>2
<1>3. Nat \subseteq S
  <2> HIDE DEF S
  <2> QED BY <1>1, <1>2, AllNumbers
<1>4. PICK n \in Nat : to - n < from
  <2>1. CASE to < from
    BY <2>1
  <2>2. CASE ~(to < from)
    <3> to - from + 1 \in Nat /\ to - (to - from + 1) < from
      BY <2>2
    <3> QED OBVIOUS
  <2> QED BY <2>1, <2>2
<1>5. PICK f : /\ f = [t \in Instants(from, to) |-> f[t]]
               /\ KnowsLast(f, n, from, to)
  BY <1>3
<1>6. ASSUME NEW t \in Instants(from, to)
      PROVE  f[t] = From(f, to, t)
  <2>1. t > to - n
    BY <1>4 DEF Instants
  <2> QED BY <1>5, <2>1 DEF KnowsLast
<1>7. [t \in Instants(from, to) |-> f[t]]
         = [t \in Instants(from, to) |-> From(f, to, t)]
  BY <1>6
<1> QED BY <1>5, <1>7

(* What generateForContract stores is what such a function says of the     *)
(* first instant.                                                          *)
LEMMA ServiceDatesIsWalk ==
    ASSUME Realistic, NEW from \in Int, NEW to \in Int
    PROVE  \E f : /\ \A t \in Instants(from, to) : f[t] = From(f, to, t)
                  /\ ServiceDates(zone, from, to) = f[from]
<1> DEFINE walk == CHOOSE f : f = [t \in Instants(from, to) |-> From(f, to, t)]
<1>1. walk = [t \in Instants(from, to) |-> From(walk, to, t)]
  BY WalkIsKnown, Zenon
<1>2. ServiceDates(zone, from, to) = walk[from]
  BY DEF ServiceDates, Instants, From, Stored, NextDay
<1> HIDE DEF walk
<1>3. \A t \in Instants(from, to) : walk[t] = From(walk, to, t)
  BY <1>1, Zenon
<1> QED BY <1>2, <1>3

(* Where a walk comes by: the midnights of UTC and, once clocks have       *)
(* changed on the way, as far from them as clocks were set.  These are the *)
(* stations of the dates k, in their order.                                *)
IsStation(t, k, from) ==
    \/ t = MidnightOf(k)
    \/ /\ t = MidnightOf(k) + zone.before - zone.after
       /\ from < zone.at /\ zone.at <= t /\ zone.at <= MidnightOf(k)

(* From one station a walk comes to the next. *)
LEMMA NextStation ==
    ASSUME Realistic, NEW from \in Int, NEW k \in Int,
           NEW t \in Int, from <= t, IsStation(t, k, from)
    PROVE  IsStation(NextDay(t), k + 1, from)
<1> DEFINE m == MidnightOf(k)
<1>1. m \in Int /\ MidnightOf(k + 1) = m + TicksPerDay
  BY MidnightIsInstant, MidnightStep
<1> HIDE DEF m
<1>2. CASE t < zone.at
  <2>1. t = m
    BY <1>2, ZoneNumbers, <1>1 DEF IsStation, m
  <2>2. Local(zone, t) = m + zone.before
    BY <1>2, <2>1 DEF Local, Offset
  <2>3. \/ NextDay(t) = m + TicksPerDay
        \/ /\ NextDay(t) = m + TicksPerDay + zone.before - zone.after
           /\ zone.at <= m + TicksPerDay + zone.before - zone.after
           /\ zone.at <= m + TicksPerDay
    BY <2>2, <1>1, ZoneNumbers DEF NextDay, AddLocalDays, FromLocal
  <2> QED BY <2>1, <2>3, <1>1, <1>2, ZoneNumbers DEF IsStation
<1>3. CASE ~(t < zone.at)
  <2>1. NextDay(t) = t + TicksPerDay
    BY <1>3, ZoneNumbers
       DEF NextDay, AddLocalDays, FromLocal, Local, Offset
  <2> QED BY <2>1, <1>1, <1>3, ZoneNumbers DEF IsStation, m
<1> QED BY <1>2, <1>3

(* The date of an instant less than a day from the midnight of date k *)
LEMMA DateNearMidnight ==
    ASSUME NEW k \in Int, NEW o \in Int, -TicksPerDay < o, o < TicksPerDay
    PROVE  DateOf(MidnightOf(k) + o) = IF o < 0 THEN k - 1 ELSE k
<1>1. /\ MidnightOf(k) \in Int /\ MidnightOf(k - 1) \in Int
      /\ MidnightOf(k) = MidnightOf(k - 1) + TicksPerDay
  BY MidnightIsInstant, MidnightStep, k - 1 \in Int, (k - 1) + 1 = k
<1>2. CASE o < 0
  BY <1>1, <1>2, DateIs, MidnightOf(k) + o \in Int
<1>3. CASE ~(o < 0)
  BY <1>1, <1>3, DateIs, MidnightOf(k) + o \in Int
<1> QED BY <1>2, <1>3

(* What is read of a station of date k, whose local date is reckoned with  *)
(* offset o                                                                *)
StationReads(t, k, from, o) ==
    /\ LocalDate(zone, t) = IF o < 0 THEN k - 1 ELSE k
    /\ \/ t = MidnightOf(k) /\ DateOf(t) = k /\ o = Offset(zone, t)
       \/ /\ t = MidnightOf(k) + zone.before - zone.after
          /\ from < zone.at /\ zone.at <= t /\ zone.at <= MidnightOf(k)
          /\ o = zone.before
          /\ DateOf(t) = IF GoesForward THEN k - 1 ELSE k

(* The weekday of a station is the one of the date it belongs to, or, west *)
(* of Greenwich, the one before; its date in UTC is the date it belongs    *)
(* to, or the one before where clocks have gone forward on the way.        *)
LEMMA StationDates ==
    ASSUME Realistic, NEW from \in Int, NEW k \in Int,
           NEW t \in Int, IsStation(t, k, from)
    PROVE  \E o \in {zone.before, zone.after} : StationReads(t, k, from, o)
<1>1. MidnightOf(k) \in Int
  BY MidnightIsInstant
<1>2. CASE t = MidnightOf(k)
  <2>1. DateOf(t) = k
    BY <1>1, <1>2, DateIs
  <2>2. LocalDate(zone, t) = DateOf(MidnightOf(k) + Offset(zone, t))
    BY <1>2 DEF LocalDate, Local, DateOf
  <2>3. Offset(zone, t) \in {zone.before, zone.after}
    BY DEF Offset
  <2>4. DateOf(MidnightOf(k) + Offset(zone, t))
           = IF Offset(zone, t) < 0 THEN k - 1 ELSE k
    BY <2>3, ZoneNumbers, DateNearMidnight
  <2> QED BY <1>2, <2>1, <2>2, <2>3, <2>4 DEF StationReads
<1>3. CASE /\ t = MidnightOf(k) + zone.before - zone.after
           /\ from < zone.at /\ zone.at <= t /\ zone.at <= MidnightOf(k)
  <2>1. LocalDate(zone, t) = DateOf(MidnightOf(k) + zone.before)
    BY <1>1, <1>3, ZoneNumbers DEF LocalDate, Local, Offset, DateOf
  <2>2. DateOf(MidnightOf(k) + zone.before)
           = IF zone.before < 0 THEN k - 1 ELSE k
    BY ZoneNumbers, DateNearMidnight
  <2>3. DateOf(MidnightOf(k) + (zone.before - zone.after))
           = IF zone.before - zone.after < 0 THEN k - 1 ELSE k
    BY ZoneNumbers, DateNearMidnight
  <2>4. DateOf(t) = IF GoesForward THEN k - 1 ELSE k
    BY <1>1, <1>3, <2>3, ZoneNumbers DEF GoesForward
  <2> QED BY <1>3, <2>1, <2>2, <2>4 DEF StationReads
<1> QED BY <1>2, <1>3 DEF IsStation

(* What is stored at a station lies on a weekday of the contract, with the *)
(* exceptions.                                                             *)
LEMMA StationFits ==
    ASSUME Realistic, NEW from \in Int, NEW k \in Int,
           NEW t \in Int, IsStation(t, k, from),
           NEW d \in Stored(t)
    PROVE  LiesOnServiceWeekday(d)
<1>1. d = DateOf(t) /\ IsoDow(LocalDate(zone, t)) \in serviceDays
  BY DEF Stored, IsServiceDay, ToIsoDayOfWeek
<1>2. PICK o \in {zone.before, zone.after} : StationReads(t, k, from, o)
  BY StationDates
<1>3. o < 0 => IsWest(zone)
  BY DEF IsWest
<1>4. CASE d = k
  BY <1>1, <1>2, <1>3, <1>4 DEF LiesOnServiceWeekday, StationReads
<1>5. CASE d = k - 1 /\ GoesForward
  <2>1. d + 1 = k
    BY <1>5
  <2> QED BY <1>1, <1>2, <1>5, <2>1 DEF LiesOnServiceWeekday, StationReads
<1> QED BY <1>1, <1>2, <1>4, <1>5 DEF StationReads

(* All that a walk stores it stores at some instant, wherever it begins.   *)
LEMMA WalkStores ==
    ASSUME Realistic, NEW from \in Int, NEW to \in Int, from <= to,
           NEW d \in ServiceDates(zone, from, to)
    PROVE  \E t \in Int : d \in Stored(t)
<1>1. PICK f : /\ \A t \in Instants(from, to) : f[t] = From(f, to, t)
               /\ ServiceDates(zone, from, to) = f[from]
  BY ServiceDatesIsWalk
<1> DEFINE Stores(n) ==
              \A t \in Instants(from, to) :
                 t > to - n => \A e \in f[t] : \E s \in Int : e \in Stored(s)
           S == { n \in Nat : Stores(n) }
<1>2. 0 \in S
  <2> SUFFICES ASSUME NEW t \in Instants(from, to), t > to - 0
               PROVE  f[t] = {}
    OBVIOUS
  <2>1. t > to
    BY DEF Instants
  <2> QED BY <1>1, <2>1, Zenon DEF From
<1>3. ASSUME NEW n \in S \cap Nat
      PROVE  n + 1 \in S
  <2> SUFFICES ASSUME NEW t \in Instants(from, to), t > to - (n + 1),
                      NEW e \in f[t]
               PROVE  \E s \in Int : e \in Stored(s)
    OBVIOUS
  <2>0. e \in From(f, to, t)
    BY <1>1
  <2>1. /\ t \in Int /\ from <= t /\ ~(t > to)
        /\ e \in Stored(t) \cup f[NextDay(t)]
    BY <2>0 DEF From, Instants
  <2>2. CASE e \in Stored(t)
    BY <2>1, <2>2
  <2>3. CASE e \in f[NextDay(t)]
    <3>1. NextDay(t) \in (t + 1)..(t + 2 * TicksPerDay)
      BY <2>1, WalkGoesOn
    <3>2. NextDay(t) \in Instants(from, to) /\ NextDay(t) > to - n
      BY <2>1, <3>1 DEF Instants
    <3> QED BY <2>3, <3>2
  <2> QED BY <2>1, <2>2, <2>3
<1>4. to - from + 1 \in S
  <2> HIDE DEF S
  <2> QED BY <1>2, <1>3, AllNumbers
<1>5. from \in Instants(from, to) /\ from > to - (to - from + 1)
  BY DEF Instants
<1> QED BY <1>1, <1>4, <1>5

(* The date in the zone is the one in UTC, the next one east of Greenwich, *)
(* or the one before west of it.                                           *)
LEMMA LocalDateIsNear ==
    ASSUME Realistic, NEW t \in Int
    PROVE  \/ LocalDate(zone, t) = DateOf(t)
           \/ IsEast(zone) /\ LocalDate(zone, t) = DateOf(t) + 1
           \/ IsWest(zone) /\ LocalDate(zone, t) = DateOf(t) - 1
<1> DEFINE d == DateOf(t)
           l == Local(zone, t)
<1>1. d \in Int /\ MidnightOf(d) <= t /\ t < MidnightOf(d) + TicksPerDay
  BY DateBounds
<1>2. PICK o \in {zone.before, zone.after} : l = t + o
  BY DEF Local, Offset
<1>3. /\ o \in Int /\ -TicksPerDay < o /\ o < TicksPerDay
      /\ o > 0 => IsEast(zone)
      /\ o < 0 => IsWest(zone)
  BY ZoneNumbers DEF IsEast, IsWest
<1>4. LocalDate(zone, t) = DateOf(l) /\ l \in Int
  BY <1>2, <1>3 DEF LocalDate, DateOf
<1> HIDE DEF d, l
<1>5. /\ MidnightOf(d) \in Int
      /\ MidnightOf(d + 1) = MidnightOf(d) + TicksPerDay
      /\ MidnightOf(d) = MidnightOf(d - 1) + TicksPerDay
      /\ MidnightOf(d - 1) \in Int
  BY <1>1, MidnightIsInstant, MidnightStep, d - 1 \in Int, (d - 1) + 1 = d
<1>6. CASE l < MidnightOf(d)
  <2>1. o < 0 /\ MidnightOf(d - 1) <= l
    BY <1>1, <1>2, <1>3, <1>5, <1>6
  <2>2. DateOf(l) = d - 1
    BY <1>1, <1>4, <1>5, <1>6, <2>1, DateIs
  <2> QED BY <1>3, <1>4, <2>1, <2>2 DEF d
<1>7. CASE MidnightOf(d) <= l /\ l < MidnightOf(d) + TicksPerDay
  BY <1>1, <1>4, <1>7, DateIs DEF d
<1>8. CASE MidnightOf(d) + TicksPerDay <= l
  <2>1. o > 0 /\ l < MidnightOf(d + 1) + TicksPerDay
    BY <1>1, <1>2, <1>3, <1>5, <1>8
  <2>2. DateOf(l) = d + 1
    BY <1>1, <1>4, <1>5, <1>8, <2>1, DateIs
  <2> QED BY <1>3, <1>4, <2>1, <2>2 DEF d
<1> QED BY <1>4, <1>5, <1>6, <1>7, <1>8

(* So a date that a request for some time of day stores lies on a weekday  *)
(* of the contract, or next to one.                                        *)
LEMMA TimedWalkFits ==
    ASSUME Realistic, NEW from \in Int, NEW to \in Int, from <= to,
           NEW d \in ServiceDates(zone, from, to)
    PROVE  \/ LiesOnServiceWeekday(d)
           \/ IsEast(zone) /\ IsoDow(d + 1) \in serviceDays
<1>1. PICK t \in Int : d \in Stored(t)
  BY WalkStores
<1>2. d = DateOf(t) /\ IsoDow(LocalDate(zone, t)) \in serviceDays
  BY <1>1 DEF Stored, IsServiceDay, ToIsoDayOfWeek
<1> QED BY <1>2, LocalDateIsNear DEF LiesOnServiceWeekday

(* All that a walk from a midnight of UTC stores lies on weekdays of the   *)
(* contract, with the exceptions, however far it goes.                     *)
LEMMA WalkFits ==
    ASSUME Realistic, NEW from \in Int, NEW to \in Int, from <= to,
           NEW first \in Int, from = MidnightOf(first),
           NEW d \in ServiceDates(zone, from, to)
    PROVE  LiesOnServiceWeekday(d)
<1>1. PICK f : /\ \A t \in Instants(from, to) : f[t] = From(f, to, t)
               /\ ServiceDates(zone, from, to) = f[from]
  BY ServiceDatesIsWalk
<1> DEFINE Fits(n) ==
              \A t \in Instants(from, to), k \in Int :
                 t > to - n /\ IsStation(t, k, from)
                    => \A e \in f[t] : LiesOnServiceWeekday(e)
           S == { n \in Nat : Fits(n) }
<1>2. 0 \in S
  <2> SUFFICES ASSUME NEW t \in Instants(from, to), t > to - 0
               PROVE  f[t] = {}
    OBVIOUS
  <2>1. t > to
    BY DEF Instants
  <2> QED BY <1>1, <2>1, Zenon DEF From
<1>3. ASSUME NEW n \in S \cap Nat
      PROVE  n + 1 \in S
  <2> SUFFICES ASSUME NEW t \in Instants(from, to), NEW k \in Int,
                      t > to - (n + 1), IsStation(t, k, from),
                      NEW e \in f[t]
               PROVE  LiesOnServiceWeekday(e)
    OBVIOUS
  <2>0. e \in From(f, to, t)
    BY <1>1
  <2>1. /\ t \in Int /\ from <= t /\ ~(t > to)
        /\ e \in Stored(t) \cup f[NextDay(t)]
    BY <2>0 DEF From, Instants
  <2>2. CASE e \in Stored(t)
    BY <2>1, <2>2, StationFits
  <2>3. CASE e \in f[NextDay(t)]
    <3>1. NextDay(t) \in (t + 1)..(t + 2 * TicksPerDay)
      BY <2>1, WalkGoesOn
    <3>2. NextDay(t) \in Instants(from, to) /\ NextDay(t) > to - n
      BY <2>1, <3>1 DEF Instants
    <3>3. IsStation(NextDay(t), k + 1, from)
      BY <2>1, NextStation
    <3> QED BY <2>3, <3>2, <3>3
  <2> QED BY <2>1, <2>2, <2>3
<1>4. to - from + 1 \in S
  <2> HIDE DEF S
  <2> QED BY <1>2, <1>3, AllNumbers
<1>5. from \in Instants(from, to) /\ from > to - (to - from + 1)
  BY DEF Instants
<1>6. IsStation(from, first, from)
  BY DEF IsStation
<1> QED BY <1>1, <1>4, <1>5, <1>6

(* A walk from a midnight of UTC comes by a station of every date from its *)
(* first on, and stores what the walk from there does.                     *)
LEMMA WalkComesBy ==
    ASSUME Realistic, NEW from \in Int, NEW to \in Int,
           NEW first \in Int, from = MidnightOf(first),
           NEW f, \A t \in Instants(from, to) : f[t] = From(f, to, t),
           NEW d \in Int, first <= d
    PROVE  \E t \in Int : /\ from <= t /\ IsStation(t, d, from)
                          /\ t <= to => f[t] \subseteq f[from]
<1> DEFINE ComesBy(n) ==
              \E t \in Int : /\ from <= t /\ IsStation(t, first + n, from)
                             /\ t <= to => f[t] \subseteq f[from]
           S == { n \in Nat : ComesBy(n) }
<1>1. 0 \in S
  <2>1. IsStation(from, first + 0, from)
    BY DEF IsStation
  <2> QED BY <2>1
<1>2. ASSUME NEW n \in S \cap Nat
      PROVE  n + 1 \in S
  <2>1. PICK t \in Int : /\ from <= t /\ IsStation(t, first + n, from)
                         /\ t <= to => f[t] \subseteq f[from]
    OBVIOUS
  <2>2. NextDay(t) \in (t + 1)..(t + 2 * TicksPerDay)
    BY WalkGoesOn
  <2>3. IsStation(NextDay(t), (first + n) + 1, from)
    BY <2>1, NextStation
  <2>4. (first + n) + 1 = first + (n + 1)
    OBVIOUS
  <2>5. NextDay(t) <= to => f[NextDay(t)] \subseteq f[from]
    <3> SUFFICES ASSUME NextDay(t) <= to
                 PROVE  f[NextDay(t)] \subseteq f[from]
      OBVIOUS
    <3>1. t \in Instants(from, to) /\ t <= to /\ ~(t > to)
      BY <2>1, <2>2 DEF Instants
    <3>2. f[NextDay(t)] \subseteq f[t]
      BY <3>1 DEF From
    <3> QED BY <2>1, <3>1, <3>2
  <2>6. NextDay(t) \in Int /\ from <= NextDay(t)
    BY <2>1, <2>2
  <2>7. ComesBy(n + 1)
    BY <2>3, <2>4, <2>5, <2>6
  <2> QED BY <2>7
<1>3. d - first \in S
  <2> HIDE DEF S
  <2> QED BY <1>1, <1>2, AllNumbers
<1> QED BY <1>3, first + (d - first) = d

(* The generation that starts on date first plans a date, up to the eighth *)
(* or, where clocks go back, the seventh, if clocks do not change on the   *)
(* way to it in a way that moves weekdays.                                 *)
LEMMA WeekPlansDate ==
    ASSUME Realistic, NEW first \in Int, NEW d \in first..(first + 7),
           GoesBack => d <= first + 6,
           GoesForward \/ TurnsWest
              => ~(MidnightOf(first) < zone.at /\ zone.at <= MidnightOf(d)),
           DowGiven(d) \in serviceDays
    PROVE  d \in ServiceDates(zone, MidnightOf(first),
                              AddDays(MidnightOf(first), 7))
<1> DEFINE from == MidnightOf(first)
           to   == AddDays(MidnightOf(first), 7)
<1>1. /\ from \in Int /\ to \in Int /\ MidnightOf(d) \in Int
      /\ MidnightOf(d) <= to
      /\ GoesBack => MidnightOf(d) + TicksPerDay <= to
  <2>1. MidnightOf(first) \in Int /\ MidnightOf(d) \in Int
    BY MidnightIsInstant
  <2>2. to = MidnightOf(first + 7) /\ first + 7 \in Int
    BY DEF AddDays, MidnightOf
  <2>3. MidnightOf(first + 7) \in Int
    BY <2>2, MidnightIsInstant
  <2>4. d < first + 7 => MidnightOf(d) + TicksPerDay <= MidnightOf(first + 7)
    BY <2>2, MidnightOrder
  <2> QED BY <2>1, <2>2, <2>3, <2>4
<1> HIDE DEF to
<1>2. PICK f : /\ \A t \in Instants(from, to) : f[t] = From(f, to, t)
               /\ ServiceDates(zone, from, to) = f[from]
  BY <1>1, ServiceDatesIsWalk
<1>3. PICK t \in Int : /\ from <= t /\ IsStation(t, d, from)
                       /\ t <= to => f[t] \subseteq f[from]
  BY <1>1, <1>2, WalkComesBy
<1>4. IsServiceDay(zone, MidnightOf(d))
  BY DEF IsServiceDay, DowGiven
<1>5. t <= to /\ d \in Stored(t)
  <2>1. CASE t = MidnightOf(d)
    <3>1. DateOf(t) = d
      BY <1>1, <2>1, DateIs
    <3> QED BY <1>1, <1>4, <2>1, <3>1 DEF Stored
  <2>2. CASE t # MidnightOf(d)
    <3>1. /\ t = MidnightOf(d) + zone.before - zone.after
          /\ from < zone.at /\ zone.at <= t /\ zone.at <= MidnightOf(d)
      BY <1>3, <2>2 DEF IsStation
    <3>2. /\ GoesBack /\ ~GoesForward
          /\ zone.before < 0 <=> zone.after < 0
      BY <1>1, <2>2, <3>1, ZoneNumbers
         DEF GoesForward, GoesBack, TurnsWest
    <3>3. t <= to
      BY <1>1, <3>1, <3>2, ZoneNumbers
    <3>4. DateOf(t) = d /\ LocalDate(zone, t) = LocalDate(zone, MidnightOf(d))
      <4>1. Offset(zone, MidnightOf(d)) = zone.after
        BY <1>1, <3>1, ZoneNumbers DEF Offset
      <4>2. LocalDate(zone, MidnightOf(d))
               = IF zone.after < 0 THEN d - 1 ELSE d
        <5>1. LocalDate(zone, MidnightOf(d))
                 = DateOf(MidnightOf(d) + zone.after)
          BY <4>1 DEF LocalDate, Local, DateOf
        <5> QED BY <5>1, DateNearMidnight, ZoneNumbers
      <4>3. DateOf(t) = d
               /\ LocalDate(zone, t) = IF zone.before < 0 THEN d - 1 ELSE d
        <5>1. PICK o \in {zone.before, zone.after} :
                 StationReads(t, d, from, o)
          BY <1>1, <1>3, StationDates
        <5> QED BY <2>2, <3>2, <5>1 DEF StationReads
      <4> QED BY <3>2, <4>2, <4>3
    <3>5. IsServiceDay(zone, t)
      BY <1>4, <3>4 DEF IsServiceDay, ToIsoDayOfWeek
    <3> QED BY <3>3, <3>4, <3>5 DEF Stored
  <2> QED BY <2>1, <2>2
<1>6. f[t] = From(f, to, t)
  BY <1>1, <1>2, <1>3, <1>5 DEF Instants
<1>7. d \in f[t]
  BY <1>1, <1>5, <1>6 DEF From
<1> QED BY <1>2, <1>3, <1>5, <1>7 DEF to

-----------------------------------------------------------------------------
(* Midnights of the zone *)

(* Where the local time is that of a midnight, it is one. *)
LEMMA IsMidnightThere ==
    ASSUME NEW k \in Int, NEW t \in Int, Local(zone, t) = MidnightOf(k)
    PROVE  IsLocalMidnight(zone, t)
  BY DEF IsLocalMidnight, MidnightOf

(* While the offset stays, midnights of the zone are a day apart. *)
LEMMA DayHasMidnight ==
    ASSUME NEW o \in Int, NEW u \in Int, NEW v \in Int, u + TicksPerDay <= v,
           \A t \in (u + 1)..v : Offset(zone, t) = o
    PROVE  \E t \in (u + 1)..v : IsLocalMidnight(zone, t)
<1> DEFINE k == DateOf(u + o) + 1
           t == MidnightOf(k) - o
<1>1. /\ DateOf(u + o) \in Int
      /\ MidnightOf(DateOf(u + o)) <= u + o
      /\ u + o < MidnightOf(DateOf(u + o)) + TicksPerDay
      /\ MidnightOf(DateOf(u + o)) \in Int
  BY DateBounds, MidnightIsInstant, u + o \in Int
<1>2. k \in Int /\ MidnightOf(k) = MidnightOf(DateOf(u + o)) + TicksPerDay
  BY <1>1, MidnightStep
<1>3. t \in (u + 1)..v /\ t \in Int /\ MidnightOf(k) = t + o
  BY <1>1, <1>2
<1>4. Local(zone, t) = MidnightOf(k)
  BY <1>3 DEF Local
<1>5. IsLocalMidnight(zone, t)
  BY <1>2, <1>3, <1>4, IsMidnightThere
<1> QED BY <1>3, <1>5

NoMidnight(g, n) == \A t \in (g + 1)..n : ~IsLocalMidnight(zone, t)

(* Where there is none, there is less than a day. *)
LEMMA DayWithoutMidnight ==
    ASSUME NEW o \in Int, NEW u \in Int, NEW v \in Int, NoMidnight(u, v),
           \A t \in (u + 1)..v : Offset(zone, t) = o
    PROVE  v < u + TicksPerDay
<1>1. CASE u + TicksPerDay <= v
  <2>1. \E t \in (u + 1)..v : IsLocalMidnight(zone, t)
    BY <1>1, DayHasMidnight
  <2> QED BY <2>1 DEF NoMidnight
<1> QED BY <1>1

(* Within less than two days, at most two dates begin. *)
LEMMA DatesWithin ==
    ASSUME NEW g \in Int, NEW n \in Int, g <= n
    PROVE  /\ DateOf(g) <= DateOf(n)
           /\ n < g + TicksPerDay => DateOf(n) <= DateOf(g) + 1
           /\ n < g + 2 * TicksPerDay => DateOf(n) <= DateOf(g) + 2
<1> DEFINE G == DateOf(g)
           N == DateOf(n)
<1>1. /\ G \in Int /\ MidnightOf(G) \in Int /\ MidnightOf(G) <= g
      /\ g < MidnightOf(G) + TicksPerDay
      /\ N \in Int /\ MidnightOf(N) \in Int /\ MidnightOf(N) <= n
      /\ n < MidnightOf(N) + TicksPerDay
  BY DateBounds, MidnightIsInstant
<1>2. /\ MidnightOf(G + 1) = MidnightOf(G) + TicksPerDay
      /\ MidnightOf((G + 1) + 1) = MidnightOf(G + 1) + TicksPerDay
      /\ (G + 1) + 1 = G + 2
  BY <1>1, MidnightStep
<1> HIDE DEF G, N
<1>3. ~(N < G)
  BY <1>1, MidnightOrder
<1>4. ASSUME n < g + TicksPerDay
      PROVE  ~(G + 1 < N)
  BY <1>1, <1>2, <1>4, MidnightOrder
<1>5. ASSUME n < g + 2 * TicksPerDay
      PROVE  ~(G + 2 < N)
  BY <1>1, <1>2, <1>5, MidnightOrder
<1> QED BY <1>1, <1>3, <1>4, <1>5 DEF G, N

(* Without a midnight of the zone, clocks that are not changed let at most *)
(* one date of UTC begin, and clocks that are changed at most two.         *)
LEMMA DatesWithoutMidnight ==
    ASSUME Realistic, NEW g \in Int, NEW n \in Int, g <= n, NoMidnight(g, n)
    PROVE  /\ DateOf(g) <= DateOf(n)
           /\ DateOf(n) <= DateOf(g) + 1
                \/ /\ DateOf(n) = DateOf(g) + 2
                   /\ g < zone.at /\ zone.at <= n
                   /\ n < zone.at + TicksPerDay
<1>1. zone.before \in Int /\ zone.after \in Int /\ zone.at \in Int
  BY ZoneNumbers
<1>2. DateOf(g) \in Int /\ DateOf(n) \in Int
  BY DateBounds
<1>3. CASE zone.at <= g
  <2>1. \A t \in (g + 1)..n : Offset(zone, t) = zone.after
    BY <1>1, <1>3 DEF Offset
  <2>2. n < g + TicksPerDay
    BY <1>1, <2>1, DayWithoutMidnight
  <2> QED BY <1>2, <2>2, DatesWithin
<1>4. CASE n < zone.at
  <2>1. \A t \in (g + 1)..n : Offset(zone, t) = zone.before
    BY <1>1, <1>4 DEF Offset
  <2>2. n < g + TicksPerDay
    BY <1>1, <2>1, DayWithoutMidnight
  <2> QED BY <1>2, <2>2, DatesWithin
<1>5. CASE g < zone.at /\ zone.at <= n
  <2> DEFINE last == zone.at - 1
  <2>1. \A t \in (g + 1)..last : Offset(zone, t) = zone.before
    BY <1>1, <1>5 DEF Offset
  <2>2. NoMidnight(g, last)
    BY <1>1, <1>5 DEF NoMidnight
  <2>3. last \in Int /\ last < g + TicksPerDay
    BY <1>1, <2>1, <2>2, DayWithoutMidnight
  <2>4. \A t \in (zone.at + 1)..n : Offset(zone, t) = zone.after
    BY <1>1 DEF Offset
  <2>5. NoMidnight(zone.at, n)
    BY <1>1, <1>5 DEF NoMidnight
  <2>6. n < zone.at + TicksPerDay
    BY <1>1, <2>4, <2>5, DayWithoutMidnight
  <2>7. n < g + 2 * TicksPerDay
    BY <1>1, <2>3, <2>6
  <2> QED BY <1>2, <1>5, <2>6, <2>7, DatesWithin
<1> QED BY <1>1, <1>3, <1>4, <1>5

(* Clocks that go back within one side of Greenwich, or are not changed,   *)
(* do not let two begin.                                                   *)
LEMMA NoSecondDate ==
    ASSUME Realistic, ~GoesForward, ~TurnsWest,
           NEW g \in Int, NEW n \in Int, g <= n, NoMidnight(g, n),
           g < zone.at, zone.at <= n
    PROVE  DateOf(n) <= DateOf(g) + 1
<1> SUFFICES ASSUME DateOf(n) > DateOf(g) + 1
             PROVE  FALSE
  BY DateBounds
<1> DEFINE G == DateOf(g)
           k == IF zone.before < 0 THEN G + 1 ELSE G + 2
           before == MidnightOf(k) - zone.before
           after  == MidnightOf(k) - zone.after
<1>1. /\ G \in Int /\ MidnightOf(G) \in Int
      /\ g < MidnightOf(G) + TicksPerDay
  BY DateBounds, MidnightIsInstant
<1>2. /\ MidnightOf(G + 1) = MidnightOf(G) + TicksPerDay
      /\ MidnightOf(G + 2) = MidnightOf(G) + 2 * TicksPerDay
  BY <1>1, MidnightStep, (G + 1) + 1 = G + 2
<1>3. MidnightOf(G + 2) <= n
  <2>1. DateOf(n) \in Int /\ MidnightOf(DateOf(n)) <= n
           /\ MidnightOf(DateOf(n)) \in Int
    BY DateBounds, MidnightIsInstant
  <2>2. DateOf(n) = G + 2 \/ G + 2 < DateOf(n)
    BY <1>1, <2>1
  <2>3. G + 2 < DateOf(n)
           => MidnightOf(G + 2) + TicksPerDay <= MidnightOf(DateOf(n))
    BY <1>1, <2>1, MidnightOrder
  <2> QED BY <1>1, <1>2, <2>1, <2>2, <2>3
<1> HIDE DEF G
<1>4. /\ k \in Int /\ before \in Int /\ after \in Int
      /\ g < before /\ before <= after /\ after <= n
  BY <1>1, <1>2, <1>3, ZoneNumbers DEF GoesForward, TurnsWest
<1> HIDE DEF k
<1>5. CASE before < zone.at
  <2>1. Local(zone, before) = MidnightOf(k)
    BY <1>4, <1>5, ZoneNumbers, MidnightIsInstant DEF Local, Offset
  <2>2. IsLocalMidnight(zone, before)
    BY <1>4, <2>1, IsMidnightThere
  <2> QED BY <1>4, <2>2 DEF NoMidnight
<1>6. CASE ~(before < zone.at)
  <2>1. Local(zone, after) = MidnightOf(k)
    BY <1>4, <1>6, ZoneNumbers, MidnightIsInstant DEF Local, Offset
  <2>2. IsLocalMidnight(zone, after)
    BY <1>4, <2>1, IsMidnightThere
  <2> QED BY <1>4, <2>2 DEF NoMidnight
<1> QED BY <1>5, <1>6

(* The exception of WeekIsPlanned, for date d as seen on date N *)
Moved(N, d) ==
    /\ GoesForward \/ TurnsWest
    /\ MidnightOf(N - 1) < zone.at
    /\ zone.at <= MidnightOf(d)

(* What a generation has planned reaches far enough until the next         *)
(* midnight of the zone, with the exception.                               *)
LEMMA WeekReaches ==
    ASSUME Realistic, NEW g \in Int, NEW n \in Int, g <= n, NoMidnight(g, n),
           NEW d \in DateOf(n)..(DateOf(n) + DaysAhead), ~Moved(DateOf(n), d),
           DowGiven(d) \in serviceDays
    PROVE  d \in WeekFrom(zone, g)
<1> DEFINE G == DateOf(g)
           N == DateOf(n)
<1>1. /\ G \in Int /\ MidnightOf(G) \in Int /\ MidnightOf(G) <= g
      /\ N \in Int /\ MidnightOf(N) \in Int /\ MidnightOf(N) <= n
      /\ n < MidnightOf(N) + TicksPerDay
      /\ MidnightOf(N - 1) \in Int
      /\ MidnightOf(N) = MidnightOf(N - 1) + TicksPerDay
      /\ zone.at \in Int
  BY DateBounds, MidnightIsInstant, MidnightStep, ZoneNumbers,
     N - 1 \in Int, (N - 1) + 1 = N
<1>2. /\ d \in Int /\ MidnightOf(d) \in Int
      /\ N <= d /\ d <= N + 6
      /\ GoesBack => d <= N + 5
  BY <1>1, MidnightIsInstant DEF DaysAhead
<1>3. /\ G <= N
      /\ N <= G + 1
           \/ /\ N = G + 2
              /\ g < zone.at /\ zone.at <= n /\ n < zone.at + TicksPerDay
  BY DatesWithoutMidnight
<1> SUFFICES /\ d \in G..(G + 7)
             /\ GoesBack => d <= G + 6
             /\ GoesForward \/ TurnsWest
                  => ~(MidnightOf(G) < zone.at /\ zone.at <= MidnightOf(d))
  BY <1>1, WeekPlansDate DEF WeekFrom, ToUTCMidnight
<1> HIDE DEF G, N
<1>4. CASE N <= G + 1
  <2>1. MidnightOf(N - 1) <= MidnightOf(G)
    <3>1. N - 1 = G \/ N - 1 < G
      BY <1>1, <1>4
    <3> QED BY <1>1, <3>1, MidnightOrder
  <2> QED BY <1>1, <1>2, <1>3, <1>4, <2>1 DEF Moved, N
<1>5. CASE N = G + 2
  <2>1. g < zone.at /\ zone.at <= n /\ n < zone.at + TicksPerDay
    BY <1>1, <1>3, <1>5
  <2>2. GoesForward \/ TurnsWest
    BY <1>1, <1>5, <2>1, NoSecondDate DEF G, N
  <2>3. MidnightOf(N - 1) < zone.at
    BY <1>1, <2>1
  <2>4. MidnightOf(d) < zone.at
    BY <1>1, <1>2, <2>2, <2>3 DEF Moved, N
  <2>5. ~(N < d)
    BY <1>1, <1>2, <2>1, <2>4, MidnightOrder
  <2> QED BY <1>1, <1>2, <1>5, <2>4, <2>5
<1> QED BY <1>1, <1>3, <1>4, <1>5

-----------------------------------------------------------------------------
(* The invariant *)

(* The part of the invariant that does not depend on the zone *)
PromptInv == TypeOK /\ FallbackIsPrompt

(* Initially the server is down and there are no rows. *)
LEMMA InitEstablishes == Init => IndInv
  BY DEF Init, IndInv, TypeOK, FallbackIsPrompt, Dates,
         RowsOnServiceWeekdays, WeekFollowsMidnight

(* What is inserted is fresh, and every other row is as it was. *)
LEMMA InsertPreserves ==
    ASSUME PromptInv, NEW D, InsertDays(D),
           UNCHANGED << zone, now, server >>,
           timed' \subseteq timed \cup Missing(D),
           due' \subseteq due, "fallback" \in due => "fallback" \in due'
    PROVE  PromptInv'
<1>1. /\ rows' = [d \in Dates |->
                     IF d \in Missing(D) THEN "open" ELSE rows[d]]
      /\ fresh' = fresh \cup Missing(D)
      /\ Missing(D) \subseteq Dates
  BY DEF InsertDays, Missing
<1>2. TypeOK'
  BY <1>1 DEF PromptInv, TypeOK
<1>3. FallbackIsPrompt'
  <2> SUFFICES ASSUME server' = "up", "fallback" \notin due',
                      NEW d \in Dates \ fresh'
               PROVE  ~Eligible(d)'
    BY DEF FallbackIsPrompt, Dates
  <2>1. d \in Dates \ fresh /\ rows'[d] = rows[d]
    BY <1>1
  <2>2. ~Eligible(d)
    BY <2>1 DEF PromptInv, FallbackIsPrompt
  <2> QED BY <2>1, <2>2 DEF Eligible
<1> QED BY <1>2, <1>3 DEF PromptInv

(* A run of the fallback leaves no row that is eligible. *)
LEMMA FallbackPreserves ==
    ASSUME PromptInv, ApplyFallback
    PROVE  PromptInv'
<1> USE DEF ApplyFallback
<1>1. TypeOK'
  BY DEF PromptInv, TypeOK
<1>2. ASSUME NEW d \in Dates
      PROVE  ~Eligible(d)'
  BY DEF Eligible
<1>3. FallbackIsPrompt'
  BY <1>2 DEF FallbackIsPrompt, Dates
<1> QED BY <1>1, <1>3 DEF PromptInv

(* A row that a client answers is open no more. *)
LEMMA ConfirmPreserves ==
    ASSUME PromptInv, NEW d \in Dates, ConfirmExpected(d)
    PROVE  PromptInv'
<1> USE DEF ConfirmExpected
<1>1. TypeOK'
  BY DEF PromptInv, TypeOK
<1>2. ASSUME NEW e \in Dates, ~Eligible(e)
      PROVE  ~Eligible(e)'
  BY <1>2 DEF Eligible, PromptInv, TypeOK
<1>3. FallbackIsPrompt'
  BY <1>2 DEF PromptInv, FallbackIsPrompt, Dates
<1> QED BY <1>1, <1>3 DEF PromptInv

(* With the hour comes the next fallback. *)
LEMMA TickPreserves ==
    ASSUME PromptInv, Tick
    PROVE  PromptInv'
<1> USE DEF Tick
<1>1. TypeOK'
  BY DEF PromptInv, TypeOK, CronJobs
<1>2. FallbackIsPrompt'
  BY DEF PromptInv, TypeOK, FallbackIsPrompt, CronJobs
<1> QED BY <1>1, <1>2 DEF PromptInv

(* A server that starts or stops is not up, and owes nothing. *)
LEMMA StartStopPreserves ==
    ASSUME PromptInv, Start \/ Stop
    PROVE  PromptInv'
  BY DEF PromptInv, TypeOK, FallbackIsPrompt, Start, Stop

LEMMA PromptPreserves == PromptInv /\ [Next]_vars => PromptInv'
<1> SUFFICES ASSUME PromptInv, [Next]_vars
             PROVE  PromptInv'
  OBVIOUS
<1>1. CASE UNCHANGED vars
  BY <1>1 DEF vars, PromptInv, TypeOK, FallbackIsPrompt, Eligible
<1>2. CASE Generate
  BY <1>2, InsertPreserves DEF Generate
<1>3. ASSUME NEW fromDate \in Requestable, NEW toDate \in Requestable,
             GenerateByHand(fromDate, toDate)
      PROVE  PromptInv'
  BY <1>3, InsertPreserves DEF GenerateByHand
<1>4. CASE ApplyFallback
  BY <1>4, FallbackPreserves
<1>5. ASSUME NEW d \in Dates, ConfirmExpected(d)
      PROVE  PromptInv'
  BY <1>5, ConfirmPreserves
<1>6. CASE Tick
  BY <1>6, TickPreserves
<1>7. CASE Start \/ Stop
  BY <1>7, StartStopPreserves
<1> QED
  BY <1>1, <1>2, <1>3, <1>4, <1>5, <1>6, <1>7 DEF Next

(* The server's zone is one of the earth. *)
LEMMA ZoneIsRealistic ==
    ASSUME TypeOK
    PROVE  Realistic
  BY DEF TypeOK, Realistic

(* Rows lie where they should if those that are new do. *)
LEMMA RowsStayOnWeekdays ==
    ASSUME RowsOnServiceWeekdays, zone' = zone,
           timed \subseteq timed',
           \A d \in Dates : rows'[d] # "none"
              => rows[d] # "none" \/ LiesOnServiceWeekday(d)'
    PROVE  RowsOnServiceWeekdays'
<1> SUFFICES ASSUME NEW d \in Dates, rows'[d] # "none"
             PROVE  LiesOnServiceWeekday(d)'
  BY DEF RowsOnServiceWeekdays, Dates
<1>1. CASE LiesOnServiceWeekday(d)
  BY <1>1 DEF LiesOnServiceWeekday, GoesForward
<1> QED BY <1>1 DEF RowsOnServiceWeekdays

(* The rows that are new are those that are inserted, and no row goes. *)
LEMMA RowsAreInserted ==
    ASSUME NEW D, InsertDays(D), NEW d \in Dates
    PROVE  /\ rows[d] # "none" => rows'[d] # "none"
           /\ rows'[d] # "none" => rows[d] # "none" \/ d \in D
           /\ d \in D => rows'[d] # "none"
           /\ d \in D => rows[d] # "none" \/ d \in Missing(D)
  BY DEF InsertDays, Missing

(* No step deletes a row, and one that is new is on a weekday of the       *)
(* contract, with the exceptions.                                          *)
LEMMA RowsOfStep ==
    ASSUME TypeOK, [Next]_vars
    PROVE  /\ zone' = zone /\ timed \subseteq timed'
           /\ \A d \in Dates :
                /\ rows[d] # "none" => rows'[d] # "none"
                /\ rows'[d] # "none"
                     => rows[d] # "none" \/ LiesOnServiceWeekday(d)'
<1>1. CASE UNCHANGED vars
  BY <1>1 DEF vars
<1>2. CASE Generate
  <2>1. now \in Int /\ Realistic
    BY ZoneIsRealistic DEF TypeOK
  <2> DEFINE first == DateOf(now)
  <2>2. /\ first \in Int /\ MidnightOf(first) \in Int
        /\ MidnightOf(first) <= AddDays(MidnightOf(first), 7)
        /\ AddDays(MidnightOf(first), 7) \in Int
    BY <2>1, DateBounds, MidnightIsInstant DEF AddDays
  <2>3. \A d \in WeekFrom(zone, now) : LiesOnServiceWeekday(d)
    BY <2>1, <2>2, WalkFits DEF WeekFrom, ToUTCMidnight
  <2>4. InsertDays(WeekFrom(zone, now)) /\ zone' = zone /\ timed' = timed
    BY <1>2 DEF Generate
  <2>5. ASSUME NEW d \in WeekFrom(zone, now)
        PROVE  LiesOnServiceWeekday(d)'
    BY <2>3, <2>4 DEF LiesOnServiceWeekday, GoesForward
  <2> QED BY <2>4, <2>5, RowsAreInserted
<1>3. ASSUME NEW fromDate \in Requestable, NEW toDate \in Requestable,
             GenerateByHand(fromDate, toDate)
      PROVE  /\ zone' = zone /\ timed \subseteq timed'
             /\ \A d \in Dates :
                  /\ rows[d] # "none" => rows'[d] # "none"
                  /\ rows'[d] # "none"
                       => rows[d] # "none" \/ LiesOnServiceWeekday(d)'
  <2> DEFINE D == ServiceDates(zone, fromDate, toDate)
  <2>1. /\ fromDate \in Int /\ toDate \in Int /\ fromDate <= toDate
        /\ Realistic
    BY <1>3, ZoneIsRealistic DEF Requestable, GenerateByHand
  <2>2. /\ InsertDays(D) /\ zone' = zone
        /\ timed' = IF fromDate = ToUTCMidnight(fromDate) THEN timed
                    ELSE timed \cup Missing(D)
    BY <1>3 DEF GenerateByHand
  <2>3. ASSUME NEW d \in D, fromDate = ToUTCMidnight(fromDate)
        PROVE  LiesOnServiceWeekday(d)'
    <3>1. DateOf(fromDate) \in Int /\ fromDate = MidnightOf(DateOf(fromDate))
      BY <2>1, <2>3, DateBounds DEF ToUTCMidnight
    <3>2. LiesOnServiceWeekday(d)
      BY <2>1, <3>1, WalkFits
    <3> QED BY <2>2, <2>3, <3>2 DEF LiesOnServiceWeekday, GoesForward
  <2>4. ASSUME NEW d \in D, d \in Missing(D),
               fromDate # ToUTCMidnight(fromDate)
        PROVE  LiesOnServiceWeekday(d)'
    <3>1. \/ LiesOnServiceWeekday(d)
          \/ IsEast(zone) /\ IsoDow(d + 1) \in serviceDays
      BY <2>1, TimedWalkFits
    <3>2. d \in timed' /\ timed \subseteq timed'
      BY <2>2, <2>4
    <3> QED BY <2>2, <3>1, <3>2 DEF LiesOnServiceWeekday, GoesForward
  <2> HIDE DEF D
  <2> QED BY <2>2, <2>3, <2>4, RowsAreInserted
<1>4. CASE ApplyFallback
  <2>1. /\ zone' = zone /\ timed' = timed
        /\ rows' = [d \in Dates |->
                       IF Eligible(d) THEN "answered" ELSE rows[d]]
    BY <1>4 DEF ApplyFallback
  <2> QED BY <2>1 DEF Eligible
<1>5. ASSUME NEW d \in Dates, ConfirmExpected(d)
      PROVE  /\ zone' = zone /\ timed' = timed
             /\ \A e \in Dates :
                  /\ rows[e] # "none" => rows'[e] # "none"
                  /\ rows'[e] # "none" => rows[e] # "none"
  BY <1>5 DEF ConfirmExpected, TypeOK
<1>6. CASE Tick \/ Start \/ Stop
  BY <1>6 DEF Tick, Start, Stop
<1> QED
  BY <1>1, <1>2, <1>3, <1>4, <1>5, <1>6 DEF Next

(* The week that follows a midnight stays planned as long as nothing is    *)
(* due that was not before, and the clock stands still.                    *)
LEMMA WeekIsKept ==
    ASSUME WeekFollowsMidnight, TypeOK, zone' = zone, now' = now,
           server' # "down" => server # "down",
           "generate" \notin due' => "generate" \notin due,
           \A d \in Dates : rows[d] # "none" => rows'[d] # "none"
    PROVE  WeekFollowsMidnight'
<1> SUFFICES ASSUME server' # "down", "generate" \notin due'
             PROVE  \E g \in 0..now' :
                      /\ \A t \in (g + 1)..now' : ~IsLocalMidnight(zone', t)
                      /\ \A d \in Dates \cap WeekFrom(zone', g) :
                            rows'[d] # "none"
  BY DEF WeekFollowsMidnight, Dates
<1> QED BY DEF WeekFollowsMidnight

(* A generation plans a week, and until the next one is due no midnight of *)
(* the zone comes.                                                         *)
LEMMA WeekPreserves ==
    ASSUME IndInv, [Next]_vars
    PROVE  WeekFollowsMidnight'
<1>1. /\ TypeOK /\ WeekFollowsMidnight /\ zone' = zone
      /\ \A d \in Dates : rows[d] # "none" => rows'[d] # "none"
  BY RowsOfStep DEF IndInv
<1>2. CASE UNCHANGED vars
  BY <1>1, <1>2, WeekIsKept DEF vars
<1>3. CASE Generate
  <2>1. /\ now' = now /\ now \in 0..now
        /\ \A t \in (now + 1)..now : ~IsLocalMidnight(zone, t)
    BY <1>1, <1>3 DEF Generate, TypeOK
  <2>2. \A d \in Dates \cap WeekFrom(zone, now) : rows'[d] # "none"
    BY <1>3, RowsAreInserted DEF Generate
  <2>3. \E g \in 0..now' :
           /\ \A t \in (g + 1)..now' : ~IsLocalMidnight(zone', t)
           /\ \A d \in Dates \cap WeekFrom(zone', g) : rows'[d] # "none"
    BY <1>1, <2>1, <2>2
  <2> QED BY <2>3 DEF WeekFollowsMidnight, Dates
<1>4. ASSUME NEW fromDate \in Requestable, NEW toDate \in Requestable,
             GenerateByHand(fromDate, toDate)
      PROVE  WeekFollowsMidnight'
  BY <1>1, <1>4, WeekIsKept DEF GenerateByHand
<1>5. CASE ApplyFallback
  BY <1>1, <1>5, WeekIsKept DEF ApplyFallback
<1>6. ASSUME NEW d \in Dates, ConfirmExpected(d)
      PROVE  WeekFollowsMidnight'
  BY <1>1, <1>6, WeekIsKept DEF ConfirmExpected
<1>7. CASE Tick
  <2> SUFFICES ASSUME server' # "down", "generate" \notin due'
               PROVE  \E g \in 0..now' :
                        /\ \A t \in (g + 1)..now' : ~IsLocalMidnight(zone', t)
                        /\ \A d \in Dates \cap WeekFrom(zone', g) :
                              rows'[d] # "none"
    BY DEF WeekFollowsMidnight, Dates
  <2>1. /\ server # "down" /\ due = {} /\ now' = now + 1
        /\ due' = CronJobs(now + 1)
    BY <1>7 DEF Tick
  <2>2. ~IsLocalMidnight(zone, now + 1)
    BY <2>1 DEF CronJobs
  <2>3. PICK g \in 0..now :
           /\ \A t \in (g + 1)..now : ~IsLocalMidnight(zone, t)
           /\ \A d \in Dates \cap WeekFrom(zone, g) : rows[d] # "none"
    BY <1>1, <2>1 DEF WeekFollowsMidnight
  <2>4. g \in 0..now' /\ now \in Int
    BY <1>1, <2>1 DEF TypeOK
  <2>5. \A t \in (g + 1)..now' : ~IsLocalMidnight(zone', t)
    BY <1>1, <2>1, <2>2, <2>3, <2>4
  <2> QED BY <1>1, <2>3, <2>4, <2>5
<1>8. CASE Start \/ Stop
  BY <1>8 DEF Start, Stop, WeekFollowsMidnight
<1> QED
  BY <1>2, <1>3, <1>4, <1>5, <1>6, <1>7, <1>8 DEF Next

LEMMA NextPreserves == IndInv /\ [Next]_vars => IndInv'
<1> SUFFICES ASSUME IndInv, [Next]_vars
             PROVE  IndInv'
  OBVIOUS
<1>1. TypeOK' /\ FallbackIsPrompt'
  BY PromptPreserves DEF IndInv, PromptInv
<1>2. RowsOnServiceWeekdays'
  BY RowsOfStep, RowsStayOnWeekdays DEF IndInv
<1>3. WeekFollowsMidnight'
  BY WeekPreserves
<1> QED BY <1>1, <1>2, <1>3 DEF IndInv

(* The invariant that the theorems below rest on holds in every state. *)
THEOREM Inductive == Spec => []IndInv
  BY InitEstablishes, NextPreserves, PTL DEF Spec

(* The variables of the jobs and of the clock have their types, also when  *)
(* days are generated that lie beyond the last one whose rows are kept.    *)
THEOREM TypeCorrect == Spec => []TypeOK
<1>1. IndInv => TypeOK
  BY DEF IndInv
<1> QED BY <1>1, Inductive, PTL

(* Once the hour's fallback has run, no row whose deadline has passed is   *)
(* open but those generated within the hour.                               *)
THEOREM PromptCorrect == Spec => []FallbackIsPrompt
<1>1. IndInv => FallbackIsPrompt
  BY DEF IndInv
<1> QED BY <1>1, Inductive, PTL

(* Rows lie on weekdays of the contract but for the three exceptions, in   *)
(* every zone, whenever the ranges that are generated by hand begin, and   *)
(* however long they are.                                                  *)
THEOREM WeekdaysCorrect == Spec => []RowsOnServiceWeekdays
<1>1. IndInv => RowsOnServiceWeekdays
  BY DEF IndInv
<1> QED BY <1>1, Inductive, PTL

(* A server that is up and has generated what was due has planned the week *)
(* from today on, in every zone, whenever it was started and whenever its  *)
(* clocks change, but for days behind a change to come.                    *)
THEOREM PlanCorrect == Spec => []WeekIsPlanned
<1>1. IndInv => WeekIsPlanned
  <2> SUFFICES ASSUME IndInv, server # "down", "generate" \notin due,
                      NEW d \in Today..(Today + DaysAhead),
                      DowGiven(d) \in serviceDays, ~Moved(Today, d)
               PROVE  rows[d] # "none"
    BY DEF WeekIsPlanned, Moved
  <2>1. PICK g \in 0..now :
           /\ \A t \in (g + 1)..now : ~IsLocalMidnight(zone, t)
           /\ \A e \in Dates \cap WeekFrom(zone, g) : rows[e] # "none"
    BY DEF IndInv, WeekFollowsMidnight
  <2>2. /\ TypeOK /\ Realistic /\ now \in 0..LastHour
        /\ g \in Int /\ now \in Int /\ g <= now /\ NoMidnight(g, now)
    BY <2>1, ZoneIsRealistic DEF IndInv, TypeOK, NoMidnight
  <2>3. d \in WeekFrom(zone, g)
    BY <2>2, WeekReaches DEF Today
  <2>4. d \in Dates
    <3>1. /\ DateOf(now) \in Int /\ DateOf(now) <= DateOf(LastHour)
          /\ 0 <= DateOf(now)
      <4>1. DateOf(0) = 0
        BY DateIs DEF MidnightOf
      <4> QED BY <2>2, <4>1, DatesWithin, DateBounds
    <3>2. d \in Int /\ Today <= d /\ d <= Today + 6
      BY <3>1 DEF Today, DaysAhead
    <3> QED BY <3>1, <3>2, DateBounds DEF Today, Dates
  <2> QED BY <2>1, <2>3, <2>4
<1> QED BY <1>1, Inductive, PTL

-----------------------------------------------------------------------------
(* The deadline *)

(* For a date whose clock is even, the deadline of the entity is that of   *)
(* the query and of the rules.                                             *)
LEMMA DeadlineIsElapsed ==
    ASSUME TypeOK, NEW d \in Dates, ClockIsEven(d)
    PROVE  Deadline(d) = MidnightOf(d) - noticePeriodHours
<1>1. /\ zone \in Zone
      /\ MidnightOf(d) \in Int
      /\ noticePeriodHours \in Int
  BY MidnightIsInstant DEF TypeOK, Dates
<1>2. /\ Offset(zone, AddLocalHours(zone, MidnightOf(d), -noticePeriodHours))
            = Offset(zone, MidnightOf(d))
      /\ Offset(zone, MidnightOf(d) - noticePeriodHours)
            = Offset(zone, MidnightOf(d))
  BY DEF ClockIsEven, Deadline
<1> QED BY <1>1, <1>2, HoursOnTheClock DEF Deadline

(* Client and fallback share the time before and after a deadline without  *)
(* a gap, in every zone and for every notice period.                       *)
THEOREM DeadlinesCorrect == Spec => []DeadlinesAgree
<1>1. TypeOK => DeadlinesAgree
  <2> SUFFICES ASSUME TypeOK, NEW d \in Dates, ClockIsEven(d)
               PROVE  /\ IsWithinNoticePeriod(d) <=> WithinNoticePeriod(d)
                      /\ IsEligibleForFallback(d)
                            <=> Eligible(d) /\ now # Deadline(d)
                      /\ rows[d] = "open" =>
                            /\ WithinNoticePeriod(d) \/ Eligible(d)
                            /\ WithinNoticePeriod(d) /\ Eligible(d)
                                  => now = Deadline(d)
    BY DEF DeadlinesAgree
  <2>1. /\ MidnightOf(d) \in Int
        /\ noticePeriodHours \in Int
        /\ now \in Int
    BY MidnightIsInstant DEF TypeOK, Dates
  <2>2. Deadline(d) = MidnightOf(d) - noticePeriodHours
    BY DeadlineIsElapsed
  <2>3. IsWithinNoticePeriod(d) <=> WithinNoticePeriod(d)
    BY <2>1, <2>2 DEF IsWithinNoticePeriod, WithinNoticePeriod
  <2>4. IsEligibleForFallback(d) <=> Eligible(d) /\ now # Deadline(d)
    BY <2>1, <2>2 DEF IsEligibleForFallback, Eligible
  <2>5. rows[d] = "open" =>
           /\ WithinNoticePeriod(d) \/ Eligible(d)
           /\ WithinNoticePeriod(d) /\ Eligible(d) => now = Deadline(d)
    BY <2>1, <2>2 DEF WithinNoticePeriod, Eligible
  <2> QED BY <2>3, <2>4, <2>5
<1> QED BY <1>1, TypeCorrect, PTL
=============================================================================
