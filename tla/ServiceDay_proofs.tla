-------------------------- MODULE ServiceDay_proofs --------------------------
(***************************************************************************)
(* Proofs about ServiceDay, for any dates, requests, replicas, quantities  *)
(* and fault bound: its rows stay coherent and in time however the saves   *)
(* of different writers mix, an answered day stays answered, and only a    *)
(* save that was overtaken can change what is recorded.                    *)
(***************************************************************************)
EXTENDS ServiceDay, TLAPS

USE NullAssumption, QuantityAssumption

(* Initially there are no rows and nobody writes. *)
LEMMA InitEstablishes == Init => IndInv
<1> SUFFICES ASSUME Init PROVE IndInv
  OBVIOUS
<1>1. TypeOK
  BY DEF Init, TypeOK, Rows, NoEntities, Instants, Steps, Loaded
<1>2. RowsAreCoherent /\ QuantitiesInTime
  BY DEF Init, RowsAreCoherent, QuantitiesInTime
<1>3. EntitiesAreSound
  BY DEF Init, EntitiesAreSound, Loaded, NoEntities
<1> QED BY <1>1, <1>2, <1>3 DEF IndInv

-----------------------------------------------------------------------------
(* What the operations of the entity make of a row *)

(* A row that exists is a record of the table's columns. *)
LEMMA RowsExist ==
    ASSUME IndInv, NEW d \in Days, row[d] # Null
    PROVE  row[d] \in Row /\ Coherent(row[d]) /\ InTime(row[d])
  BY DEF IndInv, TypeOK, Rows, RowsAreCoherent, QuantitiesInTime

(* An entity that passes for a change of row[d] by a writer just loaded. *)
Sound(d, e) ==
    /\ e \in Row
    /\ Coherent(e)
    /\ InTime(e)
    /\ Answered(e)
    /\ Follows(row[d], e)

(* confirmExpected makes a sound change. *)
LEMMA ExpectedIsSound ==
    ASSUME IndInv, NEW d \in Days, row[d] # Null, NEW q \in Quantities,
           NEW at \in Instants, CanConfirmExpected(row[d], q, at)
    PROVE  Sound(d, WithExpected(row[d], q, at))
<1> DEFINE e == WithExpected(row[d], q, at)
<1>1. row[d] \in Row /\ Coherent(row[d])
  BY RowsExist
<1>2. q \in Nat /\ q # Null /\ at # Null /\ Null \notin Row
  BY DEF Instants
<1>3. /\ e \in Row
      /\ e.expectedQuantity = q
      /\ e.expectedConfirmedAt = at
      /\ e.servedQuantity = row[d].servedQuantity
      /\ e.status = row[d].status
  BY <1>1, <1>2 DEF WithExpected, Row
<1>4. /\ row[d].status # "CONFIRMED"
      /\ row[d].expectedQuantity = Null
      /\ at # "after"
      /\ InRange(q)
  BY <1>1 DEF CanConfirmExpected, Coherent, WithinNoticePeriod
<1> HIDE DEF e
<1> QED BY <1>1, <1>2, <1>3, <1>4 DEF Sound, Coherent, InTime, Answered, Follows, e

(* confirmServed makes a sound change. *)
LEMMA ServedIsSound ==
    ASSUME IndInv, NEW d \in Days, row[d] # Null, NEW q \in Quantities,
           CanConfirmServed(row[d], q)
    PROVE  Sound(d, WithServed(row[d], q))
<1> DEFINE e == WithServed(row[d], q)
<1>1. row[d] \in Row /\ Coherent(row[d]) /\ InTime(row[d])
  BY RowsExist
<1>2. q \in Nat /\ q # Null /\ Null \notin Row
  OBVIOUS
<1>3. /\ e \in Row
      /\ e.expectedQuantity = row[d].expectedQuantity
      /\ e.expectedConfirmedAt = row[d].expectedConfirmedAt
      /\ e.servedQuantity = q
      /\ e.status = "CONFIRMED"
  BY <1>1, <1>2 DEF WithServed, Row, Status
<1>4. row[d].status # "CONFIRMED"
  BY DEF CanConfirmServed
<1> HIDE DEF e
<1> QED BY <1>1, <1>2, <1>3, <1>4 DEF Sound, Coherent, InTime, Answered, Follows, e

(* applyFallback makes a sound change. *)
LEMMA FallbackIsSound ==
    ASSUME IndInv, NEW d \in Days, row[d] # Null, NEW at \in Instants,
           NeedsFallback(row[d])
    PROVE  Sound(d, WithExpected(row[d], minDailyQuantity, at))
<1> DEFINE q == minDailyQuantity
           e == WithExpected(row[d], q, at)
<1>1. row[d] \in Row /\ Coherent(row[d])
  BY RowsExist
<1>2. q \in Nat /\ q # Null /\ at # Null /\ Null \notin Row /\ InRange(q)
  BY DEF Instants, InRange
<1>3. /\ e \in Row
      /\ e.expectedQuantity = q
      /\ e.expectedConfirmedAt = at
      /\ e.servedQuantity = row[d].servedQuantity
      /\ e.status = row[d].status
  BY <1>1, <1>2 DEF WithExpected, Row
<1>4. row[d].status # "CONFIRMED" /\ row[d].expectedQuantity = Null
  BY DEF NeedsFallback
<1> HIDE DEF e
<1> QED BY <1>1, <1>2, <1>3, <1>4 DEF Sound, Coherent, InTime, Answered, Follows, e

(* The row that generation inserts is sound as it stands. *)
LEMMA NewRowIsSound == NewRow \in Row /\ Coherent(NewRow) /\ InTime(NewRow)
<1> DEFINE e == NewRow
<1>1. /\ e \in Row
      /\ e.expectedQuantity = Null
      /\ e.expectedConfirmedAt = Null
      /\ e.servedQuantity = Null
      /\ e.status = "PENDING"
  BY DEF NewRow, Row, Status
<1> HIDE DEF e
<1> QED BY <1>1 DEF Coherent, InTime, e

-----------------------------------------------------------------------------
(* The steps of a writer *)

(* A writer that takes up sound entities keeps the invariant. *)
LEMMA HoldPreserves ==
    ASSUME IndInv, NEW w \in Writers, pc[w] = "loading",
           NEW step \in {"inserting", "saving"},
           NEW loaded \in [Days -> Rows],
           step = "inserting" =>
              \A d \in Days : loaded[d] # Null => loaded[d] = NewRow,
           step = "saving" =>
              /\ \A d \in Days :
                    loaded[d] # Null => row[d] # Null /\ Sound(d, loaded[d])
              /\ \E d \in Days : loaded[d] # Null,
           Hold(w, step, loaded)
    PROVE  IndInv'
<1>1. /\ pc' = [pc EXCEPT ![w] = step]
      /\ entities' = [entities EXCEPT ![w] = loaded]
      /\ UNCHANGED << contractStatus, row, instant, now, overtaken, raced, faults >>
  BY DEF Hold, tables
<1>2. TypeOK'
  <2>1. /\ pc' \in [Writers -> Steps]
        /\ entities' \in [Writers -> [Days -> Rows]]
    BY <1>1 DEF IndInv, TypeOK, Steps
  <2>2. \A v \in Writers :
           /\ (pc'[v] = "idle") <=> (now'[v] = Null)
           /\ overtaken'[v] # {} => pc'[v] = "saving"
    BY <1>1 DEF IndInv, TypeOK
  <2>3. ASSUME NEW v \in Writers, pc'[v] = "saving"
        PROVE  Loaded(v)' # {}
    <3>1. CASE v = w
      BY <1>1, <2>3, <3>1 DEF IndInv, TypeOK, Loaded
    <3>2. CASE v # w
      BY <1>1, <2>3, <3>2 DEF IndInv, TypeOK, Loaded
    <3> QED BY <3>1, <3>2
  <2>4. ASSUME NEW v \in Writers
        PROVE  overtaken'[v] \subseteq Loaded(v)'
    <3>1. CASE v = w
      BY <1>1, <3>1 DEF IndInv, TypeOK
    <3>2. CASE v # w
      BY <1>1, <3>2 DEF IndInv, TypeOK, Loaded
    <3> QED BY <3>1, <3>2
  <2> QED BY <1>1, <2>1, <2>2, <2>3, <2>4 DEF IndInv, TypeOK
<1>3. RowsAreCoherent' /\ QuantitiesInTime'
  BY <1>1 DEF IndInv, RowsAreCoherent, QuantitiesInTime, Coherent, InTime, InRange
<1>4. EntitiesAreSound'
  <2> SUFFICES ASSUME NEW v \in Writers, NEW d \in Days, entities'[v][d] # Null
               PROVE  /\ Coherent(entities'[v][d])
                      /\ InTime(entities'[v][d])
                      /\ pc'[v] = "inserting" \/ pc'[v] = "saving"
                      /\ pc'[v] = "inserting" => entities'[v][d] = NewRow
                      /\ pc'[v] = "saving" =>
                            /\ row[d] # Null
                            /\ Answered(entities'[v][d])
                            /\ d \notin overtaken[v] =>
                                  Follows(row[d], entities'[v][d])
    BY <1>1 DEF EntitiesAreSound, Loaded, Coherent, InTime, InRange, Answered,
                Follows, NewRow
  <2>1. CASE v = w
    <3>1. entities'[v][d] = loaded[d] /\ pc'[v] = step
      BY <1>1, <2>1 DEF IndInv, TypeOK
    <3> QED BY <3>1, NewRowIsSound DEF Sound
  <2>2. CASE v # w
    <3>1. entities'[v] = entities[v] /\ pc'[v] = pc[v] /\ d \in Loaded(v)
      BY <1>1, <2>2 DEF IndInv, TypeOK, Loaded
    <3> QED BY <3>1 DEF IndInv, EntitiesAreSound
  <2> QED BY <2>1, <2>2
<1> QED BY <1>2, <1>3, <1>4 DEF IndInv

(* The time a loading writer has taken *)
LEMMA TimeIsTaken ==
    ASSUME IndInv, NEW w \in Writers, pc[w] = "loading", NEW d \in Days
    PROVE  now[w][d] \in Instants
  BY DEF IndInv, TypeOK

(* The load of confirmExpected *)
LEMMA LoadExpectedPreserves ==
    ASSUME IndInv, NEW w \in Writers, NEW d \in Days, NEW q \in Quantities,
           LoadExpected(w, d, q)
    PROVE  IndInv'
<1> DEFINE e == WithExpected(row[d], q, now[w][d])
           loaded == [NoEntities EXCEPT ![d] = e]
<1>1. Sound(d, e) /\ row[d] # Null /\ pc[w] = "loading"
  BY TimeIsTaken, ExpectedIsSound DEF LoadExpected
<1>2. Hold(w, "saving", loaded)
  BY DEF LoadExpected
<1> HIDE DEF e
<1>3. e \in Row /\ e # Null
  BY <1>1 DEF Sound
<1>4. /\ loaded \in [Days -> Rows]
      /\ loaded[d] = e
      /\ \A f \in Days : f # d => loaded[f] = Null
  BY <1>3 DEF NoEntities, Rows
<1> HIDE DEF loaded
<1> QED BY <1>1, <1>2, <1>3, <1>4, HoldPreserves

(* The load of confirmServed *)
LEMMA LoadServedPreserves ==
    ASSUME IndInv, NEW w \in Writers, NEW d \in Days, NEW q \in Quantities,
           LoadServed(w, d, q)
    PROVE  IndInv'
<1> DEFINE e == WithServed(row[d], q)
           loaded == [NoEntities EXCEPT ![d] = e]
<1>1. Sound(d, e) /\ row[d] # Null /\ pc[w] = "loading"
  BY ServedIsSound DEF LoadServed
<1>2. Hold(w, "saving", loaded)
  BY DEF LoadServed
<1> HIDE DEF e
<1>3. e \in Row /\ e # Null
  BY <1>1 DEF Sound
<1>4. /\ loaded \in [Days -> Rows]
      /\ loaded[d] = e
      /\ \A f \in Days : f # d => loaded[f] = Null
  BY <1>3 DEF NoEntities, Rows
<1> HIDE DEF loaded
<1> QED BY <1>1, <1>2, <1>3, <1>4, HoldPreserves

(* The load of generateForContract *)
LEMMA LoadContractPreserves ==
    ASSUME IndInv, NEW w \in Writers, NEW dates \in SUBSET Days,
           LoadContract(w, dates)
    PROVE  IndInv'
<1> DEFINE loaded == [d \in Days |-> IF d \in dates THEN NewRow ELSE Null]
<1>1. pc[w] = "loading" /\ Hold(w, "inserting", loaded)
  BY DEF LoadContract
<1>2. /\ loaded \in [Days -> Rows]
      /\ \A d \in Days : loaded[d] # Null => loaded[d] = NewRow
  BY NewRowIsSound DEF Rows
<1> HIDE DEF loaded
<1> QED BY <1>1, <1>2, HoldPreserves

(* The end of a request or run leaves a memory of its type. *)
LEMMA EndIsTyped ==
    ASSUME IndInv, NEW w \in Writers, EndWork(w)
    PROVE  /\ pc' \in [Writers -> Steps]
           /\ now' \in [Writers -> [Days -> Instants] \cup {Null}]
           /\ entities' \in [Writers -> [Days -> Rows]]
<1>1. NoEntities \in [Days -> Rows]
  BY DEF NoEntities, Rows
<1>2. pc' \in [Writers -> Steps]
  BY DEF IndInv, TypeOK, EndWork, Steps
<1>3. now' \in [Writers -> [Days -> Instants] \cup {Null}]
  BY DEF IndInv, TypeOK, EndWork
<1>4. entities' \in [Writers -> [Days -> Rows]]
  BY <1>1 DEF IndInv, TypeOK, EndWork
<1> QED BY <1>2, <1>3, <1>4

(* A step that changes no row and only forgets entities of w: the request  *)
(* or the run ends, or one day of it is done.                              *)
LEMMA ForgetPreserves ==
    ASSUME IndInv, NEW w \in Writers,
           row' = row, instant' \in [Days -> Instants],
           contractStatus' = contractStatus, raced' = raced,
           faults' \in 0 .. MaxFaults,
           \/ /\ EndWork(w)
              /\ \A v \in Writers : v # w => overtaken'[v] = overtaken[v]
              /\ overtaken'[w] = {}
           \/ \E d \in Days :
                 /\ pc[w] = "saving"
                 /\ Loaded(w) # {d}
                 /\ entities' = [entities EXCEPT ![w][d] = Null]
                 /\ UNCHANGED << pc, now >>
                 /\ \A v \in Writers : v # w => overtaken'[v] = overtaken[v]
                 /\ overtaken'[w] = overtaken[w] \ {d},
           overtaken' \in [Writers -> SUBSET Days]
    PROVE  IndInv'
<1>1. /\ pc' \in [Writers -> Steps]
      /\ now' \in [Writers -> [Days -> Instants] \cup {Null}]
      /\ entities' \in [Writers -> [Days -> Rows]]
  <2>1. CASE EndWork(w)
    BY <2>1, EndIsTyped
  <2>2. CASE ~EndWork(w)
    <3>1. PICK d \in Days :
             /\ entities' = [entities EXCEPT ![w][d] = Null]
             /\ UNCHANGED << pc, now >>
      BY <2>2
    <3>2. entities' \in [Writers -> [Days -> Rows]]
      BY <3>1 DEF IndInv, TypeOK, Rows
    <3> QED BY <3>1, <3>2 DEF IndInv, TypeOK
  <2> QED BY <2>1, <2>2
<1>2. ASSUME NEW v \in Writers, NEW f \in Days, entities'[v][f] # Null
      PROVE  /\ entities'[v][f] = entities[v][f]
             /\ pc'[v] = pc[v]
             /\ f \notin overtaken'[v] => f \notin overtaken[v]
  <2>1. CASE EndWork(w)
    <3>1. v # w
      BY <1>2, <2>1 DEF IndInv, TypeOK, EndWork, NoEntities
    <3>2. entities'[v] = entities[v] /\ pc'[v] = pc[v]
      BY <2>1, <3>1 DEF IndInv, TypeOK, EndWork
    <3>3. overtaken'[v] = overtaken[v]
      BY <3>1
    <3> QED BY <3>2, <3>3
  <2>2. CASE ~EndWork(w)
    <3>1. PICK d \in Days :
             /\ entities' = [entities EXCEPT ![w][d] = Null]
             /\ UNCHANGED << pc, now >>
             /\ \A u \in Writers : u # w => overtaken'[u] = overtaken[u]
             /\ overtaken'[w] = overtaken[w] \ {d}
      BY <2>2
    <3>2. entities'[v][f] = entities[v][f] /\ (v = w => f # d)
      BY <1>2, <3>1 DEF IndInv, TypeOK
    <3> QED BY <3>1, <3>2
  <2> QED BY <2>1, <2>2
<1>3. ASSUME NEW v \in Writers
      PROVE  /\ (pc'[v] = "idle") <=> (now'[v] = Null)
             /\ overtaken'[v] # {} => pc'[v] = "saving"
  BY DEF IndInv, TypeOK, EndWork
<1>4. ASSUME NEW v \in Writers, pc'[v] = "saving"
      PROVE  Loaded(v)' # {}
  <2>1. pc[v] = "saving" /\ Loaded(v) # {}
    BY <1>4 DEF IndInv, TypeOK, EndWork
  <2>2. PICK f \in Loaded(v) : entities'[v][f] = entities[v][f]
    <3>1. CASE v # w
      BY <2>1, <3>1 DEF IndInv, TypeOK, EndWork
    <3>2. CASE v = w
      <4>1. PICK d \in Days :
               /\ Loaded(w) # {d}
               /\ entities' = [entities EXCEPT ![w][d] = Null]
        BY <1>4, <3>2 DEF IndInv, TypeOK, EndWork
      <4>2. PICK f \in Loaded(w) : f # d
        BY <2>1, <3>2, <4>1
      <4> QED BY <3>2, <4>1, <4>2 DEF IndInv, TypeOK, Loaded
    <3> QED BY <3>1, <3>2
  <2> QED BY <2>2 DEF Loaded
<1>5. TypeOK'
  <2>1. ASSUME NEW v \in Writers
        PROVE  overtaken'[v] \subseteq Loaded(v)'
    <3>1. CASE v # w
      <4>1. entities'[v] = entities[v] /\ overtaken'[v] = overtaken[v]
        BY <3>1 DEF IndInv, TypeOK, EndWork
      <4> QED BY <4>1 DEF IndInv, TypeOK, Loaded
    <3>2. CASE v = w /\ overtaken'[w] = {}
      BY <3>2
    <3>3. CASE v = w /\ overtaken'[w] # {}
      <4>1. PICK d \in Days :
               /\ entities' = [entities EXCEPT ![w][d] = Null]
               /\ overtaken'[w] = overtaken[w] \ {d}
        BY <3>3
      <4> QED BY <3>3, <4>1 DEF IndInv, TypeOK, Loaded
    <3> QED BY <3>1, <3>2, <3>3
  <2> QED BY <1>1, <1>3, <1>4, <2>1 DEF IndInv, TypeOK
<1>6. RowsAreCoherent' /\ QuantitiesInTime'
  BY DEF IndInv, RowsAreCoherent, QuantitiesInTime, Coherent, InTime, InRange
<1>7. EntitiesAreSound'
  <2> SUFFICES ASSUME NEW v \in Writers, NEW d \in Days, entities'[v][d] # Null
               PROVE  /\ Coherent(entities'[v][d])
                      /\ InTime(entities'[v][d])
                      /\ pc'[v] = "inserting" \/ pc'[v] = "saving"
                      /\ pc'[v] = "inserting" => entities'[v][d] = NewRow
                      /\ pc'[v] = "saving" =>
                            /\ row[d] # Null
                            /\ Answered(entities'[v][d])
                            /\ d \notin overtaken'[v] =>
                                  Follows(row[d], entities'[v][d])
    BY DEF EntitiesAreSound, Loaded, Coherent, InTime, InRange, Answered,
           Follows, NewRow
  <2> QED BY <1>2 DEF IndInv, EntitiesAreSound, Loaded
<1> QED BY <1>5, <1>6, <1>7 DEF IndInv
(* A writer that gives up, or is done without a save, keeps it. *)
LEMMA EndPreserves ==
    ASSUME IndInv, NEW w \in Writers, EndWork(w),
           UNCHANGED << tables, instant, raced >>, faults' \in 0 .. MaxFaults,
           overtaken' = [overtaken EXCEPT ![w] = {}]
    PROVE  IndInv'
<1>1. /\ overtaken' \in [Writers -> SUBSET Days]
      /\ overtaken'[w] = {}
      /\ \A v \in Writers : v # w => overtaken'[v] = overtaken[v]
  BY DEF IndInv, TypeOK
<1> QED BY <1>1, ForgetPreserves DEF IndInv, TypeOK, tables

(* The job's query *)
LEMMA FindEligiblePreserves ==
    ASSUME IndInv, NEW w \in Writers, FindEligible(w)
    PROVE  IndInv'
<1>1. CASE Eligible(w) = {}
  <2>1. overtaken[w] = {} /\ overtaken' = overtaken /\ faults' = faults
    BY <1>1 DEF FindEligible, IndInv, TypeOK
  <2>2. overtaken' = [overtaken EXCEPT ![w] = {}] /\ faults' \in 0 .. MaxFaults
    BY <2>1 DEF IndInv, TypeOK
  <2> QED BY <1>1, <2>2, EndPreserves DEF FindEligible
<1>2. CASE Eligible(w) # {}
  <2> DEFINE loaded ==
        [d \in Days |->
            IF d \in Eligible(w)
            THEN WithExpected(row[d], minDailyQuantity, now[w][d])
            ELSE Null]
  <2>1. pc[w] = "loading" /\ Hold(w, "saving", loaded)
    BY <1>2 DEF FindEligible
  <2>2. ASSUME NEW d \in Eligible(w)
        PROVE  d \in Days /\ row[d] # Null /\ Sound(d, loaded[d])
    BY <2>1, TimeIsTaken, FallbackIsSound DEF Eligible
  <2>3. /\ loaded \in [Days -> Rows]
        /\ \A d \in Days : loaded[d] # Null => d \in Eligible(w)
        /\ \A d \in Eligible(w) : loaded[d] # Null
    BY <2>2 DEF Sound, Rows
  <2> HIDE DEF loaded
  <2>4. \E d \in Days : loaded[d] # Null
    BY <1>2, <2>2, <2>3
  <2> QED BY <2>1, <2>2, <2>3, <2>4, HoldPreserves
<1> QED BY <1>1, <1>2

(* The beginning of a request or run *)
LEMMA BeginPreserves ==
    ASSUME IndInv, NEW w \in Writers, Begin(w)
    PROVE  IndInv'
<1>1. /\ pc[w] = "idle"
      /\ pc' = [pc EXCEPT ![w] = "loading"]
      /\ now' = [now EXCEPT ![w] = instant]
      /\ UNCHANGED << contractStatus, row, instant, entities, overtaken, raced,
                      faults >>
  BY DEF Begin, tables
<1>2. TypeOK'
  <2>1. instant \in [Days -> Instants] /\ instant # Null
    BY DEF IndInv, TypeOK
  <2> QED BY <1>1, <2>1 DEF IndInv, TypeOK, Steps, Loaded
<1>3. RowsAreCoherent' /\ QuantitiesInTime'
  BY <1>1 DEF IndInv, RowsAreCoherent, QuantitiesInTime, Coherent, InTime, InRange
<1>4. EntitiesAreSound'
  <2>1. ASSUME NEW v \in Writers, NEW d \in Days, entities[v][d] # Null
        PROVE  pc'[v] = pc[v]
    BY <1>1, <2>1 DEF IndInv, TypeOK, EntitiesAreSound, Loaded
  <2> QED BY <1>1, <2>1 DEF IndInv, EntitiesAreSound, Loaded, Coherent, InTime,
             InRange, Answered, Follows, NewRow
<1> QED BY <1>2, <1>3, <1>4 DEF IndInv

(* The contract's status and the clock are in no other variable's way. *)
LEMMA EnvironmentPreserves ==
    ASSUME IndInv, UNCHANGED << row, memory, overtaken, raced, faults >>,
           contractStatus' \in {"ACTIVE", "PAUSED", "TERMINATED"},
           instant' \in [Days -> Instants]
    PROVE  IndInv'
<1> USE DEF IndInv, memory
<1>1. TypeOK'
  BY DEF TypeOK, Loaded
<1>2. RowsAreCoherent' /\ QuantitiesInTime'
  BY DEF RowsAreCoherent, QuantitiesInTime, Coherent, InTime, InRange
<1>3. EntitiesAreSound'
  BY DEF EntitiesAreSound, Loaded, Coherent, InTime, InRange, Answered, Follows,
         NewRow
<1> QED BY <1>1, <1>2, <1>3

-----------------------------------------------------------------------------
(* The writes *)

(* A save puts a sound entity in place of the row and marks the others who *)
(* have the day loaded.                                                    *)
LEMMA SavePreserves ==
    ASSUME IndInv, NEW w \in Writers, NEW d \in Days, Save(w, d)
    PROVE  IndInv'
<1> DEFINE e == entities[w][d]
<1>1. /\ pc[w] = "saving"
      /\ d \in Loaded(w)
      /\ row' = [row EXCEPT ![d] = e]
      /\ raced' = IF d \in overtaken[w] THEN raced \cup {d} ELSE raced
      /\ overtaken' = [v \in Writers |->
             IF v # w /\ pc[v] = "saving" /\ d \in Loaded(v)
             THEN overtaken[v] \cup {d}
             ELSE overtaken[v] \ {d}]
      /\ FinishDay(w, d)
      /\ UNCHANGED << contractStatus, instant, faults >>
  BY DEF Save, Saved
<1>2. e \in Row /\ e # Null /\ Coherent(e) /\ InTime(e)
  BY <1>1 DEF IndInv, TypeOK, EntitiesAreSound, Loaded, Rows
<1> HIDE DEF e
<1>3. /\ row' \in [Days -> Rows]
      /\ row'[d] = e
      /\ \A f \in Days : f # d => row'[f] = row[f]
  BY <1>1, <1>2 DEF IndInv, TypeOK, Rows
<1>4. overtaken' \in [Writers -> SUBSET Days] /\ raced' \in SUBSET Days
  BY <1>1 DEF IndInv, TypeOK
<1>5. /\ pc' \in [Writers -> Steps]
      /\ now' \in [Writers -> [Days -> Instants] \cup {Null}]
      /\ entities' \in [Writers -> [Days -> Rows]]
  <2>1. CASE Loaded(w) = {d}
    BY <1>1, <2>1, EndIsTyped DEF FinishDay
  <2>2. CASE Loaded(w) # {d}
    BY <1>1, <2>2 DEF IndInv, TypeOK, FinishDay, Rows
  <2> QED BY <2>1, <2>2
<1>6. ASSUME NEW v \in Writers, NEW f \in Days, entities'[v][f] # Null
      PROVE  /\ entities'[v][f] = entities[v][f]
             /\ pc'[v] = pc[v]
             /\ ~(v = w /\ f = d)
  <2>1. CASE Loaded(w) = {d}
    <3>1. v # w
      BY <1>1, <1>6, <2>1 DEF IndInv, TypeOK, FinishDay, EndWork, NoEntities
    <3> QED BY <1>1, <2>1, <3>1 DEF IndInv, TypeOK, FinishDay, EndWork
  <2>2. CASE Loaded(w) # {d}
    BY <1>1, <1>6, <2>2 DEF IndInv, TypeOK, FinishDay
  <2> QED BY <2>1, <2>2
<1>7. ASSUME NEW v \in Writers
      PROVE  /\ (pc'[v] = "idle") <=> (now'[v] = Null)
             /\ pc'[v] = "saving" => Loaded(v)' # {}
             /\ overtaken'[v] # {} => pc'[v] = "saving"
             /\ overtaken'[v] \subseteq Loaded(v)'
  <2>1. CASE v # w
    <3>1. pc'[v] = pc[v] /\ now'[v] = now[v] /\ entities'[v] = entities[v]
      BY <1>1, <2>1 DEF IndInv, TypeOK, FinishDay, EndWork
    <3>2. Loaded(v)' = Loaded(v)
      BY <3>1 DEF Loaded
    <3>3. /\ overtaken'[v] # {} => overtaken[v] # {} \/ pc[v] = "saving"
          /\ overtaken'[v] \subseteq overtaken[v] \cup Loaded(v)
      BY <1>1
    <3> QED BY <3>1, <3>2, <3>3 DEF IndInv, TypeOK
  <2>2. CASE v = w /\ Loaded(w) = {d}
    <3>1. pc'[w] = "idle" /\ now'[w] = Null
      BY <1>1, <2>2 DEF IndInv, TypeOK, FinishDay, EndWork
    <3>2. overtaken[w] \subseteq {d}
      BY <1>1, <2>2 DEF IndInv, TypeOK
    <3>3. overtaken'[w] = {}
      BY <1>1, <3>2
    <3> QED BY <2>2, <3>1, <3>3
  <2>3. CASE v = w /\ Loaded(w) # {d}
    <3>1. pc' = pc /\ now' = now /\ entities' = [entities EXCEPT ![w][d] = Null]
      BY <1>1, <2>3 DEF FinishDay
    <3>2. PICK f \in Loaded(w) : f # d
      BY <1>1, <2>3
    <3>3. f \in Loaded(w)'
      BY <3>1, <3>2 DEF IndInv, TypeOK, Loaded
    <3>4. overtaken'[w] \subseteq Loaded(w)'
      <4>1. overtaken'[w] = overtaken[w] \ {d}
        BY <1>1
      <4> QED BY <3>1, <4>1 DEF IndInv, TypeOK, Loaded
    <3> QED BY <1>1, <2>3, <3>1, <3>3, <3>4 DEF IndInv, TypeOK
  <2> QED BY <2>1, <2>2, <2>3
<1>8. TypeOK'
  BY <1>1, <1>3, <1>4, <1>5, <1>7 DEF IndInv, TypeOK
<1>9. RowsAreCoherent' /\ QuantitiesInTime'
  <2>1. \A f \in Days : row'[f] # Null => Coherent(row'[f]) /\ InTime(row'[f])
    BY <1>2, <1>3 DEF IndInv, RowsAreCoherent, QuantitiesInTime
  <2> QED BY <2>1 DEF RowsAreCoherent, QuantitiesInTime, Coherent, InTime, InRange
<1>10. EntitiesAreSound'
  <2> SUFFICES ASSUME NEW v \in Writers, NEW f \in Days, entities'[v][f] # Null
               PROVE  /\ Coherent(entities'[v][f])
                      /\ InTime(entities'[v][f])
                      /\ pc'[v] = "inserting" \/ pc'[v] = "saving"
                      /\ pc'[v] = "inserting" => entities'[v][f] = NewRow
                      /\ pc'[v] = "saving" =>
                            /\ row'[f] # Null
                            /\ Answered(entities'[v][f])
                            /\ f \notin overtaken'[v] =>
                                  Follows(row'[f], entities'[v][f])
    BY DEF EntitiesAreSound, Loaded, Coherent, InTime, InRange, Answered,
           Follows, NewRow
  <2>1. /\ entities'[v][f] = entities[v][f]
        /\ pc'[v] = pc[v]
        /\ ~(v = w /\ f = d)
        /\ f \in Loaded(v)
    BY <1>6 DEF Loaded
  <2>2. CASE f = d
    <3>1. pc[v] = "saving" => d \in overtaken'[v]
      BY <1>1, <2>1, <2>2
    <3> QED BY <1>2, <1>3, <2>1, <2>2, <3>1 DEF IndInv, EntitiesAreSound
  <2>3. CASE f # d
    <3>1. f \notin overtaken'[v] => f \notin overtaken[v]
      BY <1>1, <2>3
    <3> QED BY <1>3, <2>1, <2>3, <3>1 DEF IndInv, EntitiesAreSound
  <2> QED BY <2>2, <2>3
<1> QED BY <1>8, <1>9, <1>10 DEF IndInv

(* The INSERT adds blank rows where there were none. *)
LEMMA InsertPreserves ==
    ASSUME IndInv, NEW w \in Writers, InsertDays(w)
    PROVE  IndInv'
<1>1. /\ pc[w] = "inserting"
      /\ EndWork(w)
      /\ UNCHANGED << contractStatus, instant, overtaken, raced, faults >>
      /\ row' = [f \in Days |-> IF f \in Loaded(w) /\ row[f] = Null
                                 THEN entities[w][f] ELSE row[f]]
  BY DEF InsertDays
<1>2. \A f \in Loaded(w) : entities[w][f] = NewRow
  BY <1>1 DEF IndInv, EntitiesAreSound
<1>3. \A f \in Days : row'[f] = row[f] \/ (row[f] = Null /\ row'[f] = NewRow)
  BY <1>1, <1>2
<1>4. row' \in [Days -> Rows]
  BY <1>1, <1>2, NewRowIsSound DEF IndInv, TypeOK, Rows
<1>5. TypeOK'
  <2>1. /\ pc' \in [Writers -> Steps]
        /\ now' \in [Writers -> [Days -> Instants] \cup {Null}]
        /\ entities' \in [Writers -> [Days -> Rows]]
    BY <1>1, EndIsTyped
  <2>2. \A v \in Writers :
           /\ (pc'[v] = "idle") <=> (now'[v] = Null)
           /\ pc'[v] = "saving" => Loaded(v)' # {}
           /\ overtaken'[v] # {} => pc'[v] = "saving"
           /\ overtaken'[v] \subseteq Loaded(v)'
    BY <1>1 DEF IndInv, TypeOK, EndWork, Loaded
  <2> QED BY <1>1, <1>4, <2>1, <2>2 DEF IndInv, TypeOK
<1>6. RowsAreCoherent' /\ QuantitiesInTime'
  <2>1. \A f \in Days : row'[f] # Null => Coherent(row'[f]) /\ InTime(row'[f])
    BY <1>3, NewRowIsSound DEF IndInv, RowsAreCoherent, QuantitiesInTime
  <2> QED BY <2>1 DEF RowsAreCoherent, QuantitiesInTime, Coherent, InTime, InRange
<1>7. EntitiesAreSound'
  <2> SUFFICES ASSUME NEW v \in Writers, NEW f \in Days, entities'[v][f] # Null
               PROVE  /\ Coherent(entities'[v][f])
                      /\ InTime(entities'[v][f])
                      /\ pc'[v] = "inserting" \/ pc'[v] = "saving"
                      /\ pc'[v] = "inserting" => entities'[v][f] = NewRow
                      /\ pc'[v] = "saving" =>
                            /\ row'[f] # Null
                            /\ Answered(entities'[v][f])
                            /\ f \notin overtaken'[v] =>
                                  Follows(row'[f], entities'[v][f])
    BY DEF EntitiesAreSound, Loaded, Coherent, InTime, InRange, Answered,
           Follows, NewRow
  <2>1. v # w
    BY <1>1 DEF IndInv, TypeOK, EndWork, NoEntities
  <2>2. /\ entities'[v] = entities[v]
        /\ pc'[v] = pc[v]
        /\ overtaken'[v] = overtaken[v]
        /\ f \in Loaded(v)
    BY <1>1, <2>1 DEF IndInv, TypeOK, EndWork, Loaded
  <2>3. row[f] # Null => row'[f] = row[f]
    BY <1>3
  <2> QED BY <2>2, <2>3 DEF IndInv, EntitiesAreSound
<1> QED BY <1>5, <1>6, <1>7 DEF IndInv

(* A failed save forgets the day. *)
LEMMA SaveFailsPreserves ==
    ASSUME IndInv, NEW w \in Writers, NEW d \in Days, SaveFails(w, d)
    PROVE  IndInv'
<1>1. /\ pc[w] = "saving"
      /\ d \in Loaded(w)
      /\ FinishDay(w, d)
      /\ overtaken' = [overtaken EXCEPT ![w] = @ \ {d}]
      /\ UNCHANGED << contractStatus, row, instant, raced >>
      /\ faults' \in 0 .. MaxFaults
  BY DEF SaveFails, Fault, tables, IndInv, TypeOK
<1>2. /\ overtaken' \in [Writers -> SUBSET Days]
      /\ overtaken'[w] = overtaken[w] \ {d}
      /\ \A v \in Writers : v # w => overtaken'[v] = overtaken[v]
  BY <1>1 DEF IndInv, TypeOK
<1>3. instant' \in [Days -> Instants]
  BY <1>1 DEF IndInv, TypeOK
<1>4. CASE Loaded(w) = {d}
  <2>1. EndWork(w)
    BY <1>1, <1>4 DEF FinishDay
  <2>2. overtaken[w] \subseteq {d}
    BY <1>4 DEF IndInv, TypeOK
  <2>3. overtaken'[w] = {}
    BY <1>2, <2>2
  <2> QED BY <1>1, <1>2, <1>3, <2>1, <2>3, ForgetPreserves
<1>5. CASE Loaded(w) # {d}
  <2>1. entities' = [entities EXCEPT ![w][d] = Null] /\ UNCHANGED << pc, now >>
    BY <1>1, <1>5 DEF FinishDay
  <2> QED BY <1>1, <1>2, <1>3, <1>5, <2>1, ForgetPreserves
<1> QED BY <1>4, <1>5

(* IndInv is inductive. *)
LEMMA NextPreserves == IndInv /\ [Next]_vars => IndInv'
<1> SUFFICES ASSUME IndInv, [Next]_vars
             PROVE  IndInv'
  OBVIOUS
<1> USE DEF Writers
<1>1. CASE UNCHANGED vars
  BY <1>1, EnvironmentPreserves DEF vars, tables, IndInv, TypeOK
<1>2. ASSUME NEW w \in Requests, RequestStep(w)
      PROVE  IndInv'
  <2>1. CASE Abandon(w)
    <3>1. faults' \in 0 .. MaxFaults
      BY <2>1 DEF Abandon, IndInv, TypeOK
    <3> QED BY <2>1, <3>1, EndPreserves DEF Abandon
  <2> QED BY <1>2, <2>1, BeginPreserves, LoadExpectedPreserves,
             LoadServedPreserves, LoadContractPreserves, SavePreserves,
             InsertPreserves DEF RequestStep
<1>3. ASSUME NEW w \in Jobs, JobStep(w)
      PROVE  IndInv'
  BY <1>3, BeginPreserves, FindEligiblePreserves, SavePreserves DEF JobStep
<1>4. ASSUME NEW w \in Jobs, JobFault(w)
      PROVE  IndInv'
  <2>1. CASE JobFails(w)
    <3>1. faults' \in 0 .. MaxFaults
      BY <2>1 DEF JobFails, Fault, IndInv, TypeOK
    <3> QED BY <2>1, <3>1, EndPreserves DEF JobFails
  <2> QED BY <1>4, <2>1, SaveFailsPreserves DEF JobFault
<1>5. ASSUME NEW s \in {"ACTIVE", "PAUSED", "TERMINATED"}, ContractChanges(s)
      PROVE  IndInv'
  BY <1>5, EnvironmentPreserves DEF ContractChanges, IndInv, TypeOK
<1>6. ASSUME NEW d \in Days, Tick(d)
      PROVE  IndInv'
  <2>1. instant' \in [Days -> Instants]
    BY <1>6 DEF Tick, IndInv, TypeOK, Instants
  <2>2. contractStatus' = contractStatus
    BY <1>6 DEF Tick, tables
  <2> QED BY <1>6, <2>1, <2>2, EnvironmentPreserves
          DEF Tick, tables, IndInv, TypeOK
<1> QED BY <1>1, <1>2, <1>3, <1>4, <1>5, <1>6 DEF Next

-----------------------------------------------------------------------------
(* The invariant that the theorems below rest on holds in every state. *)
THEOREM Inductive == Spec => []IndInv
  BY InitEstablishes, NextPreserves, PTL DEF Spec

(* Every variable has its type, and a writer's memory fits its step. *)
THEOREM TypeCorrect == Spec => []TypeOK
<1>1. IndInv => TypeOK
  BY DEF IndInv
<1> QED BY <1>1, Inductive, PTL

(* A quantity and its confirmation are recorded together, and a day is     *)
(* CONFIRMED exactly when a served quantity is, whatever saves have mixed. *)
THEOREM RowsCorrect == Spec => []RowsAreCoherent
<1>1. IndInv => RowsAreCoherent
  BY DEF IndInv
<1> QED BY <1>1, Inductive, PTL

(* No expected quantity is out of range, or above the minimum and late. *)
THEOREM QuantitiesCorrect == Spec => []QuantitiesInTime
<1>1. IndInv => QuantitiesInTime
  BY DEF IndInv
<1> QED BY <1>1, Inductive, PTL

(* What a step does to a row: nothing, or it adds a blank one, or a writer *)
(* saves an entity that answers it and, unless overtaken, is a change that *)
(* the domain allows.                                                      *)
LEMMA StepOnRow ==
    ASSUME IndInv, [Next]_vars, NEW d \in Days, row[d] # Null
    PROVE  \/ row'[d] = row[d]
           \/ /\ Answered(row'[d])
              /\ d \notin raced' => Follows(row[d], row'[d])
<1> USE DEF Writers
<1>1. ASSUME NEW w \in Writers, NEW f \in Days, Save(w, f)
      PROVE  \/ row'[d] = row[d]
             \/ /\ Answered(row'[d])
                /\ d \notin raced' => Follows(row[d], row'[d])
  <2>1. /\ row' = [row EXCEPT ![f] = entities[w][f]]
        /\ raced' = IF f \in overtaken[w] THEN raced \cup {f} ELSE raced
        /\ pc[w] = "saving"
        /\ f \in Loaded(w)
    BY <1>1 DEF Save, Saved
  <2>2. CASE f # d
    BY <2>1, <2>2
  <2>3. CASE f = d
    <3>1. row'[d] = entities[w][d]
      BY <2>1, <2>3 DEF IndInv, TypeOK
    <3>2. d \notin raced' => d \notin overtaken[w]
      BY <2>1, <2>3
    <3>3. /\ Answered(entities[w][d])
          /\ d \notin overtaken[w] => Follows(row[d], entities[w][d])
      BY <2>1, <2>3 DEF IndInv, EntitiesAreSound
    <3> QED BY <3>1, <3>2, <3>3
  <2> QED BY <2>2, <2>3
<1>2. ASSUME NEW w \in Writers, InsertDays(w)
      PROVE  row'[d] = row[d]
  BY <1>2 DEF InsertDays
<1>3. CASE row' = row
  BY <1>3
<1> QED
  BY <1>1, <1>2, <1>3
     DEF Next, RequestStep, JobStep, JobFault, Begin, LoadExpected, LoadServed,
         LoadContract, Hold, FindEligible, Abandon, JobFails, SaveFails,
         ContractChanges, Tick, vars, tables

(* A day that has an answer never loses it, not even to a save that was    *)
(* overtaken: the fallback and the generation cannot blank a row.          *)
THEOREM AnswersLast == Spec => AnsweredStaysAnswered
<1>1. IndInv /\ [Next]_vars =>
         [\A d \in Days : Answered(row[d]) => Answered(row'[d])]_vars
  BY StepOnRow DEF Answered
<1> QED BY <1>1, Inductive, PTL DEF Spec, AnsweredStaysAnswered

(* Immutability after confirmation: only a save that another has overtaken *)
(* can change a recorded quantity or a CONFIRMED day.                      *)
THEOREM OnlyRacesChange == Spec => ImmutableUnlessRaced
<1>1. IndInv /\ [Next]_vars =>
         [\A d \in Days :
             row[d] # Null /\ d \notin raced' =>
                /\ row[d].expectedQuantity # Null =>
                      row'[d].expectedQuantity = row[d].expectedQuantity
                /\ row[d].status = "CONFIRMED" => row'[d] = row[d]]_vars
  BY StepOnRow DEF Follows
<1> QED BY <1>1, Inductive, PTL DEF Spec, ImmutableUnlessRaced
=============================================================================
