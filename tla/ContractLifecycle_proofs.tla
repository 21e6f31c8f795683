---------------------- MODULE ContractLifecycle_proofs ----------------------
(***************************************************************************)
(* Proofs about ContractLifecycle, for any companies, contracts and        *)
(* requests: its inductive invariant, the uniqueness of a pair's ACTIVE    *)
(* contract, what the stored events tell, and that the service implements  *)
(* ContractRules.                                                          *)
(***************************************************************************)
EXTENDS ContractLifecycle, TLAPS

USE NullAssumption

(* Initially there is no contract and no request. *)
LEMMA InitEstablishes == Init => IndInv
<1> SUFFICES ASSUME Init PROVE IndInv
  OBVIOUS
<1>1. TypeOK
  BY DEF Init, TypeOK, TablesTypeOK, MemoryTypeOK, HistoryTypeOK, ControlOK,
         Companies, CompanyStatus, Steps, Written, ContractEvents, NoEvent
<1>2. OneActivePerPair /\ SeenIsCurrent /\ CheckedAreActive
  BY DEF Init, OneActivePerPair, SeenIsCurrent, CheckedAreActive
<1>3. TransactionsAlone
  BY DEF Init, TransactionsAlone, ContractStatus
<1>4. \A c \in Contracts : event[c].newStatus = status[c]
  BY DEF Init, NoEvent
<1> QED BY <1>1, <1>2, <1>3, <1>4 DEF IndInv

(* A request that is turned away leaves the tables alone and forgets. *)
LEMMA RejectPreserves ==
    ASSUME IndInv, NEW r \in Requests, Reject(r)
    PROVE  IndInv'
<1> USE DEF IndInv, Reject, EndRequest, tables
<1>1. TypeOK'
  <2>1. TablesTypeOK' /\ HistoryTypeOK'
    BY DEF TypeOK, TablesTypeOK, HistoryTypeOK
  <2>2. MemoryTypeOK'
    BY DEF TypeOK, MemoryTypeOK, Steps, NoEvent, ContractEvents
  <2>3. ControlOK'
    BY DEF TypeOK, MemoryTypeOK, HistoryTypeOK, ControlOK, Written
  <2> QED BY <2>1, <2>2, <2>3 DEF TypeOK
<1>2. OneActivePerPair'
  BY DEF OneActivePerPair
<1>3. SeenIsCurrent'
  BY DEF SeenIsCurrent, TypeOK, MemoryTypeOK, HistoryTypeOK, Accepts
<1>4. CheckedAreActive'
  BY DEF CheckedAreActive, Vouched, TypeOK, MemoryTypeOK, HistoryTypeOK
<1>5. TransactionsAlone'
  <2> SUFFICES ASSUME NEW q \in Requests
               PROVE  TransactionsAlone!(q)'
    BY DEF TransactionsAlone
  <2>1. row'[r] = Null /\ pc'[r] = "idle"
    BY DEF TypeOK, MemoryTypeOK
  <2>2. ASSUME NEW p \in Requests, p # r
        PROVE  /\ row'[p] = row[p] /\ pc'[p] = pc[p] /\ target'[p] = target[p]
               /\ parties'[p] = parties[p] /\ action'[p] = action[p]
               /\ stored'[p] = stored[p] /\ EventOf(p)' = EventOf(p)
    BY <2>2 DEF TypeOK, MemoryTypeOK, EventOf
  <2>3. CASE q # r
    <3>1. Holders(target[q])' \subseteq Holders(target[q])
      BY <2>1, <2>2, <2>3 DEF Holders
    <3>2. row[q] # Null => q \in Holders(target[q])'
      BY <2>2, <2>3 DEF Holders
    <3>3. TransactionsAlone!(q)
      BY DEF TransactionsAlone
    <3>4. \A p \in Requests : row'[p] = "ACTIVE" => p # r
      BY <2>1 DEF ContractStatus
    <3>5. ActiveFor(parties[q])' = ActiveFor(parties[q])
      BY <2>2, <2>3 DEF ActiveFor
    <3> QED BY <2>2, <2>3, <3>1, <3>2, <3>3, <3>4, <3>5
  <2> QED BY <2>1, <2>3 DEF ContractStatus
<1> QED BY <1>1, <1>2, <1>3, <1>4, <1>5

(* Requests without a transaction do not disturb those that have one. *)
LEMMA OthersTransactions ==
    ASSUME IndInv, NEW r \in Requests, row[r] = Null, pc'[r] # "committing",
           UNCHANGED << tables, row, stored >>,
           \A q \in Requests \ {r} :
              /\ pc'[q] = pc[q] /\ target'[q] = target[q]
              /\ parties'[q] = parties[q] /\ action'[q] = action[q]
              /\ seen'[q] = seen[q]
    PROVE  TransactionsAlone'
<1> SUFFICES ASSUME NEW q \in Requests
             PROVE  TransactionsAlone!(q)'
  BY DEF TransactionsAlone
<1>1. TransactionsAlone!(q)
  BY DEF IndInv, TransactionsAlone
<1>2. CASE q = r
  BY <1>2 DEF ContractStatus
<1>3. CASE q # r
  <2>1. Holders(target[q])' = Holders(target[q])
    BY <1>3 DEF Holders
  <2>2. ActiveFor(parties[q])' = ActiveFor(parties[q])
    BY <1>3 DEF ActiveFor, tables
  <2>3. EventOf(q)' = EventOf(q)
    BY <1>3 DEF EventOf
  <2>4. \A p \in Requests : row'[p] = "ACTIVE" => p # r
    BY DEF ContractStatus
  <2> QED BY <1>1, <1>3, <2>1, <2>2, <2>3, <2>4 DEF tables
<1> QED BY <1>2, <1>3

(* So does one that goes on to its next check. *)
LEMMA ProceedPreserves ==
    ASSUME IndInv, NEW r \in Requests,
           NEW step \in {"checkingExisting", "inserting"},
           pc[r] \in {"checkingClient", "checkingExisting"},
           \/ pc[r] = "checkingExisting"
           \/ companyStatus[parties[r][2]] = "ACTIVE",
           Proceed(r, step)
    PROVE  IndInv'
<1> USE DEF IndInv, Proceed, tables, history, transaction
<1>0. row[r] = Null /\ pc'[r] = step
      /\ \A q \in Requests \ {r} : pc'[q] = pc[q]
  BY DEF TypeOK, MemoryTypeOK, ControlOK, Written
<1>1. TypeOK'
  BY DEF TypeOK, TablesTypeOK, MemoryTypeOK, HistoryTypeOK, ControlOK, Steps,
         Written
<1>2. OneActivePerPair'
  BY DEF OneActivePerPair
<1>3. SeenIsCurrent'
  BY DEF SeenIsCurrent, TypeOK, MemoryTypeOK, Accepts
<1>4. CheckedAreActive'
  BY DEF CheckedAreActive, Vouched, TypeOK, MemoryTypeOK, HistoryTypeOK
<1>5. TransactionsAlone'
  BY <1>0, OthersTransactions
<1> QED BY <1>1, <1>2, <1>3, <1>4, <1>5

(* The first check of create. *)
LEMMA CheckCateringPreserves ==
    ASSUME IndInv, NEW r \in Requests, NEW p \in Pairs, CheckCatering(r, p)
    PROVE  IndInv'
<1> USE DEF IndInv, CheckCatering, tables, history, transaction
<1>0. /\ p # Null /\ row[r] = Null /\ seen[r] = Null
      /\ pc'[r] = "checkingClient"
      /\ \A q \in Requests \ {r} :
            /\ pc'[q] = pc[q] /\ parties'[q] = parties[q]
            /\ action'[q] = action[q]
  BY DEF TypeOK, MemoryTypeOK, ControlOK, Written
<1>1. TypeOK'
  BY <1>0 DEF TypeOK, TablesTypeOK, MemoryTypeOK, HistoryTypeOK, ControlOK,
              Steps, Written
<1>2. OneActivePerPair'
  BY DEF OneActivePerPair
<1>3. SeenIsCurrent'
  BY <1>0 DEF SeenIsCurrent, Accepts
<1>4. CheckedAreActive'
  BY DEF CheckedAreActive, Vouched, TypeOK, MemoryTypeOK, HistoryTypeOK
<1>5. TransactionsAlone'
  BY <1>0, OthersTransactions
<1> QED BY <1>1, <1>2, <1>3, <1>4, <1>5

(* The read that pause, resume and terminate decide on. *)
LEMMA ReadPreserves ==
    ASSUME IndInv, NEW r \in Requests, NEW c \in Contracts,
           NEW a \in ContractAction, ReadContract(r, c, a)
    PROVE  IndInv'
<1> USE DEF IndInv, ReadContract, tables, history, transaction
<1>0. /\ a # Null /\ a # "create" /\ c # Null
      /\ status[c] \in ContractStatus /\ pair[c] \in Pairs
      /\ row[r] = Null /\ pc'[r] = "writing"
      /\ \A q \in Requests \ {r} :
            /\ pc'[q] = pc[q] /\ target'[q] = target[q]
            /\ parties'[q] = parties[q] /\ action'[q] = action[q]
            /\ seen'[q] = seen[q]
  BY DEF TypeOK, TablesTypeOK, MemoryTypeOK, ControlOK, Written, ContractAction
<1>1. TypeOK'
  <2>1. TablesTypeOK' /\ HistoryTypeOK'
    BY DEF TypeOK, TablesTypeOK, HistoryTypeOK
  <2>2. MemoryTypeOK'
    BY <1>0 DEF TypeOK, TablesTypeOK, MemoryTypeOK, Steps
  <2>3. ControlOK'
    BY <1>0 DEF TypeOK, MemoryTypeOK, ControlOK, Written, ContractStatus
  <2> QED BY <2>1, <2>2, <2>3 DEF TypeOK
<1>2. OneActivePerPair'
  BY DEF OneActivePerPair
<1>3. SeenIsCurrent'
  BY <1>0 DEF SeenIsCurrent, TypeOK, MemoryTypeOK, Accepts
<1>4. CheckedAreActive'
  BY <1>0 DEF CheckedAreActive, Vouched, TypeOK, MemoryTypeOK, HistoryTypeOK
<1>5. TransactionsAlone'
  BY <1>0, OthersTransactions
<1> QED BY <1>1, <1>2, <1>3, <1>4, <1>5

(* The row is written, or refused by the index. *)
LEMMA WriteRowPreserves ==
    ASSUME IndInv, NEW r \in Requests, NEW c \in Contracts,
           pc[r] \in {"inserting", "writing"},
           IF pc[r] = "inserting" THEN status[c] = "NONE" ELSE c = target[r],
           WriteRow(r, c, NewStatus(action[r]))
    PROVE  IndInv'
<1> DEFINE s == NewStatus(action[r])
<1>1. CASE ~(s = "ACTIVE" => IndexAllows(c, parties[r]))
  BY <1>1, RejectPreserves DEF WriteRow
<1>2. CASE s = "ACTIVE" => IndexAllows(c, parties[r])
  <2>1. /\ pc' = [pc EXCEPT ![r] = "storing"]
        /\ target' = [target EXCEPT ![r] = c]
        /\ row' = [row EXCEPT ![r] = s]
        /\ UNCHANGED << tables, parties, action, seen, stored, history >>
        /\ Holders(c) = {}
        /\ s = "ACTIVE" => Undecided(parties[r]) = {}
    BY <1>2 DEF WriteRow
  <2>2. /\ parties[r] \in Pairs /\ row[r] = Null /\ seen[r] # Null <=> pc[r] = "writing"
        /\ action[r] \in ContractAction \cup {"create"}
        /\ action[r] = "create" <=> pc[r] = "inserting"
        /\ c # Null
        /\ pc[r] = "writing" => pair[c] = parties[r]
    BY DEF IndInv, TypeOK, MemoryTypeOK, ControlOK, Written, ContractAction
  <2>3. s \in ContractStatus /\ s # Null
    BY <2>2 DEF NewStatus, ContractAction, ContractStatus
  <2> HIDE DEF s
  <2>4. /\ pc'[r] = "storing" /\ target'[r] = c /\ row'[r] = s
        /\ \A q \in Requests \ {r} :
              pc'[q] = pc[q] /\ target'[q] = target[q] /\ row'[q] = row[q]
    BY <2>1 DEF IndInv, TypeOK, MemoryTypeOK
  <2>5. TypeOK'
    <3>1. TablesTypeOK' /\ HistoryTypeOK'
      BY <2>1 DEF IndInv, TypeOK, TablesTypeOK, HistoryTypeOK, tables, history
    <3>2. MemoryTypeOK'
      BY <2>1, <2>3 DEF IndInv, TypeOK, MemoryTypeOK, Steps, Written
    <3>3. ControlOK'
      BY <2>1, <2>2, <2>3, <2>4 DEF IndInv, TypeOK, ControlOK, Written, tables,
                                    history
    <3> QED BY <3>1, <3>2, <3>3 DEF TypeOK
  <2>6. OneActivePerPair'
    BY <2>1 DEF IndInv, OneActivePerPair, tables
  <2>7. SeenIsCurrent'
    BY <2>1, <2>2, <2>4 DEF IndInv, SeenIsCurrent, Accepts, tables, history
  <2>8. CheckedAreActive'
    BY <2>1, <2>2, <2>4 DEF IndInv, CheckedAreActive, Vouched, tables, history
  <2>9. TransactionsAlone'
    <3> SUFFICES ASSUME NEW q \in Requests
                 PROVE  TransactionsAlone!(q)'
      BY DEF TransactionsAlone
    <3>1. TransactionsAlone!(q)
      BY DEF IndInv, TransactionsAlone
    <3>2. ActiveFor(parties[q])' = ActiveFor(parties[q])
      BY <2>1 DEF ActiveFor, tables
    <3>3. EventOf(q)' = EventOf(q)
      BY <2>1 DEF EventOf
    <3>4. s = "ACTIVE" =>
             \A p \in Requests : row[p] = "ACTIVE" => parties[p] # parties[r]
      BY <2>1 DEF Undecided, ContractStatus
    <3>5. CASE q = r
      <4>1. Holders(c)' = {r}
        BY <2>1, <2>3, <2>4 DEF Holders
      <4>2. s = "ACTIVE" => ActiveFor(parties[r]) \subseteq {c}
        BY <1>2 DEF IndexAllows
      <4>3. action[r] = "create" => status[c] = "NONE"
        BY <2>2
      <4> QED BY <2>1, <2>3, <2>4, <3>2, <3>4, <3>5, <4>1, <4>2, <4>3
              DEF tables, s
    <3>6. CASE q # r
      <4>1. row[q] # Null => target[q] # c
        BY <2>1 DEF Holders
      <4>2. row[q] # Null => Holders(target[q])' = {q}
        BY <2>1, <2>2, <2>4, <3>1, <3>6, <4>1 DEF Holders
      <4>3. row[q] = "ACTIVE" =>
               \A p \in Requests :
                  row'[p] = "ACTIVE" /\ parties[p] = parties[q] => p = q
        BY <2>4, <3>1, <3>4, <3>6
      <4> QED BY <2>1, <2>4, <3>1, <3>2, <3>3, <3>6, <4>2, <4>3 DEF tables
    <3> QED BY <3>5, <3>6
  <2> QED BY <2>1, <2>5, <2>6, <2>7, <2>8, <2>9 DEF IndInv, tables
<1> QED BY <1>1, <1>2

(* The event joins the row in the transaction. *)
LEMMA StorePreserves ==
    ASSUME IndInv, NEW r \in Requests, StoreEvent(r)
    PROVE  IndInv'
<1> USE DEF IndInv, StoreEvent, tables, history
<1>0. /\ pc'[r] = "committing" /\ stored'[r] = EventOf(r)
      /\ \A q \in Requests \ {r} : pc'[q] = pc[q] /\ stored'[q] = stored[q]
  BY DEF TypeOK, MemoryTypeOK
<1>1. EventOf(r) \in ContractEvents
  BY DEF EventOf, ContractEvents, NewStatus, TypeOK, MemoryTypeOK, ControlOK,
         ContractAction, ContractStatus
<1>2. TypeOK'
  <2>1. TablesTypeOK' /\ HistoryTypeOK'
    BY DEF TypeOK, TablesTypeOK, HistoryTypeOK
  <2>2. MemoryTypeOK'
    BY <1>1 DEF TypeOK, MemoryTypeOK, Steps, Written
  <2>3. ControlOK'
    BY <1>0 DEF TypeOK, ControlOK, Written
  <2> QED BY <2>1, <2>2, <2>3 DEF TypeOK
<1>3. OneActivePerPair'
  BY DEF OneActivePerPair
<1>4. SeenIsCurrent'
  BY DEF SeenIsCurrent, Accepts
<1>5. CheckedAreActive'
  BY <1>0 DEF CheckedAreActive, Vouched
<1>6. TransactionsAlone'
  BY <1>0 DEF TransactionsAlone, Holders, ActiveFor, EventOf
<1> QED BY <1>2, <1>3, <1>4, <1>5, <1>6

(* What is known of a request that is about to commit. *)
LEMMA CommitterKnows ==
    ASSUME IndInv, NEW r \in Requests, pc[r] = "committing"
    PROVE  /\ target[r] \in Contracts
           /\ action[r] \in ContractAction \cup {"create"}
           /\ row[r] \in ContractStatus
           /\ row[r] = NewStatus(action[r])
           /\ parties[r] \in Pairs
           /\ stored[r] \in ContractEvents
           /\ stored[r] = EventOf(r)
           /\ Holders(target[r]) = {r}
           /\ IF action[r] = "create"
              THEN status[target[r]] = "NONE"
              ELSE /\ status[target[r]] \in ContractStatus
                   /\ pair[target[r]] = parties[r]
                   /\ Accepts(action[r], seen[r])
                   /\ ~overtaken[r] => seen[r] = status[target[r]]
<1>1. /\ target[r] \in Contracts
      /\ action[r] \in ContractAction \cup {"create"}
      /\ row[r] \in ContractStatus
      /\ parties[r] \in Pairs
      /\ stored[r] \in ContractEvents
      /\ action[r] # "create" =>
            pair[target[r]] = parties[r] /\ seen[r] # Null
  BY DEF IndInv, TypeOK, MemoryTypeOK, ControlOK, Written
<1>2. TransactionsAlone!(r)
  BY DEF IndInv, TransactionsAlone
<1>3. row[r] # Null
  BY <1>1
<1>4. action[r] # "create" => status[target[r]] \in ContractStatus
  BY <1>1 DEF IndInv, TypeOK, TablesTypeOK, ControlOK
<1>5. action[r] # "create" =>
         /\ Accepts(action[r], seen[r])
         /\ ~overtaken[r] => seen[r] = status[target[r]]
  BY <1>1 DEF IndInv, SeenIsCurrent
<1> QED BY <1>1, <1>2, <1>3, <1>4, <1>5

(* The row and the event become visible. *)
LEMMA CommitPreserves ==
    ASSUME IndInv, NEW r \in Requests, Commit(r)
    PROVE  IndInv'
<1> DEFINE c == target[r]
<1>0. /\ c \in Contracts /\ c # Null
      /\ row[r] \in ContractStatus
      /\ parties[r] \in Pairs /\ parties[r] # Null
      /\ stored[r] \in ContractEvents /\ stored[r].newStatus = row[r]
      /\ Holders(c) = {r}
      /\ action[r] # "create" => pair[c] = parties[r]
      /\ action[r] = "create" => status[c] = "NONE"
  <2>1. pc[r] = "committing"
    BY DEF Commit
  <2>2. stored[r].newStatus = row[r]
    <3>1. stored[r] = EventOf(r) /\ row[r] = NewStatus(action[r])
      BY <2>1, CommitterKnows
    <3>2. EventOf(r).newStatus = NewStatus(action[r])
      BY DEF EventOf
    <3> QED BY <3>1, <3>2
  <2> QED BY <2>1, <2>2, CommitterKnows
<1>1. /\ status' = [status EXCEPT ![c] = row[r]]
      /\ pair' = [pair EXCEPT ![c] = parties[r]]
      /\ event' = [event EXCEPT ![c] = stored[r]]
      /\ EndRequest(r)
      /\ overtaken' = [q \in Requests |->
             q # r /\ (overtaken[q] \/ target[q] = c)]
      /\ raced' = [raced EXCEPT ![c] = @ \/ overtaken[r]]
      /\ ended' = [ended EXCEPT ![c] =
             IF row[r] = "TERMINATED" /\ @ < 2 THEN @ + 1 ELSE @]
      /\ UNCHANGED companyStatus
  BY DEF Commit
<1> HIDE DEF c
<1>2. /\ pc'[r] = "idle" /\ parties'[r] = Null /\ target'[r] = Null
      /\ action'[r] = Null /\ seen'[r] = Null /\ row'[r] = Null
      /\ flipped'[r] = {}
      /\ \A q \in Requests \ {r} :
            /\ pc'[q] = pc[q] /\ parties'[q] = parties[q]
            /\ target'[q] = target[q] /\ action'[q] = action[q]
            /\ seen'[q] = seen[q] /\ row'[q] = row[q]
            /\ stored'[q] = stored[q] /\ flipped'[q] = flipped[q]
  BY <1>1 DEF IndInv, TypeOK, MemoryTypeOK, HistoryTypeOK, EndRequest
<1>3. /\ status'[c] = row[r] /\ pair'[c] = parties[r] /\ event'[c] = stored[r]
      /\ \A d \in Contracts \ {c} :
            status'[d] = status[d] /\ pair'[d] = pair[d] /\ event'[d] = event[d]
  BY <1>0, <1>1 DEF IndInv, TypeOK, TablesTypeOK
<1>4. TypeOK'
  <2>1. TablesTypeOK'
    BY <1>0, <1>1 DEF IndInv, TypeOK, TablesTypeOK
  <2>2. MemoryTypeOK'
    BY <1>1 DEF IndInv, TypeOK, MemoryTypeOK, EndRequest, Steps, NoEvent,
                ContractEvents
  <2>3. HistoryTypeOK'
    <3>1. flipped' \in [Requests -> SUBSET Companies]
      BY <1>1 DEF IndInv, TypeOK, HistoryTypeOK, EndRequest
    <3>2. overtaken' \in [Requests -> BOOLEAN]
      BY <1>1
    <3>3. raced' \in [Contracts -> BOOLEAN]
      BY <1>1 DEF IndInv, TypeOK, HistoryTypeOK
    <3>4. ended' \in [Contracts -> 0 .. 2]
      <4>1. ended \in [Contracts -> 0 .. 2]
        BY DEF IndInv, TypeOK, HistoryTypeOK
      <4>2. ended[c] < 2 => ended[c] + 1 \in 0 .. 2
        BY <1>0, <4>1
      <4> QED BY <1>0, <1>1, <4>1, <4>2
    <3> QED BY <3>1, <3>2, <3>3, <3>4 DEF HistoryTypeOK
  <2>4. ControlOK'
    <3>1. \A d \in Contracts : (status'[d] = "NONE") <=> (pair'[d] = Null)
      BY <1>0, <1>3 DEF IndInv, TypeOK, ControlOK, ContractStatus
    <3>2. ASSUME NEW q \in Requests
          PROVE  ControlOK!2!(q)'
      <4>1. ControlOK!2!(q)
        BY DEF IndInv, TypeOK, ControlOK
      <4>2. CASE q = r
        BY <1>1, <1>2, <4>2 DEF Written
      <4>3. CASE q # r
        <5>1. seen'[q] = Null => ~overtaken'[q]
          <6>1. seen[q] = Null /\ target[q] = c => row[q] # Null
            BY <1>0, <4>1
          <6>2. seen[q] = Null => target[q] # c
            BY <1>0, <4>3, <6>1 DEF Holders
          <6> QED BY <1>1, <1>2, <4>1, <4>3, <6>2
        <5>2. target[q] # Null /\ action[q] # "create" =>
                 pair'[target[q]] = parties[q]
          <6>1. CASE target[q] = c /\ action[q] # "create"
            <7>1. pair[c] = parties[q]
              BY <1>0, <4>1, <6>1
            <7>2. pair[c] # Null
              BY <1>0, <1>2, <4>1, <4>3, <6>1, <7>1 DEF Written
            <7>3. status[c] # "NONE"
              BY <1>0, <7>2 DEF IndInv, TypeOK, ControlOK
            <7> QED BY <1>0, <1>3, <6>1, <7>1, <7>3
          <6>2. CASE target[q] # c
            BY <1>3, <4>1, <6>2 DEF IndInv, TypeOK, MemoryTypeOK
          <6> QED BY <6>1, <6>2
        <5> QED BY <1>2, <4>1, <4>3, <5>1, <5>2
      <4> QED BY <4>2, <4>3
    <3> QED BY <3>1, <3>2 DEF ControlOK
  <2> QED BY <2>1, <2>2, <2>3, <2>4 DEF TypeOK
<1>5. row[r] = "ACTIVE" =>
         /\ \A q \in Requests :
               row[q] = "ACTIVE" /\ parties[q] = parties[r] => q = r
         /\ \A d \in Contracts :
               status[d] = "ACTIVE" /\ pair[d] = parties[r] => d = c
  BY DEF IndInv, TransactionsAlone, ActiveFor, c
<1>6. OneActivePerPair'
  BY <1>3, <1>5 DEF IndInv, OneActivePerPair
<1>7. SeenIsCurrent'
  <2> SUFFICES ASSUME NEW q \in Requests, seen'[q] # Null
               PROVE  /\ Accepts(action'[q], seen'[q])
                      /\ ~overtaken'[q] => seen'[q] = status'[target'[q]]
    BY DEF SeenIsCurrent, Accepts
  <2>1. /\ q # r /\ seen'[q] = seen[q] /\ action'[q] = action[q]
        /\ target'[q] = target[q] /\ target[q] \in Contracts
    BY <1>2 DEF IndInv, TypeOK, MemoryTypeOK, ControlOK
  <2>2. ~overtaken'[q] => ~overtaken[q] /\ target[q] # c
    BY <1>1, <2>1
  <2> QED BY <1>3, <2>1, <2>2 DEF IndInv, SeenIsCurrent
<1>8. CheckedAreActive'
  BY <1>1, <1>2 DEF IndInv, CheckedAreActive, Vouched
<1>9. TransactionsAlone'
  <2> SUFFICES ASSUME NEW q \in Requests
               PROVE  TransactionsAlone!(q)'
    BY DEF TransactionsAlone
  <2>1. TransactionsAlone!(q)
    BY DEF IndInv, TransactionsAlone
  <2>2. CASE q = r
    BY <1>2, <2>2 DEF ContractStatus
  <2>3. CASE q # r
    <3>1. row[q] # Null => target[q] # c /\ target[q] \in Contracts
      BY <1>0, <2>3 DEF Holders, IndInv, TypeOK, MemoryTypeOK, ControlOK,
                        Written
    <3>2. row[q] # Null => Holders(target[q])' = {q}
      BY <1>2, <2>1, <2>3 DEF Holders
    <3>3. row[q] = "ACTIVE" => ActiveFor(parties[q])' \subseteq {target[q]}
      <4>1. parties'[q] = parties[q]
        BY <1>2, <2>3
      <4> QED BY <1>3, <1>5, <2>1, <2>3, <4>1 DEF ActiveFor
    <3>4. EventOf(q)' = EventOf(q)
      BY <1>2, <2>3 DEF EventOf
    <3>5. row[q] = "ACTIVE" =>
             \A p \in Requests :
                row'[p] = "ACTIVE" /\ parties'[p] = parties[q] => p = q
      BY <1>2, <2>1 DEF ContractStatus
    <3> QED BY <1>2, <1>3, <2>1, <2>3, <3>1, <3>2, <3>3, <3>4, <3>5
  <2> QED BY <2>2, <2>3
<1>10. \A d \in Contracts : event'[d].newStatus = status'[d]
  BY <1>0, <1>3 DEF IndInv
<1> QED BY <1>4, <1>6, <1>7, <1>8, <1>9, <1>10 DEF IndInv

(* Company updates touch no contract. *)
LEMMA SetCompanyStatusPreserves ==
    ASSUME IndInv, NEW o \in Companies, NEW s \in CompanyStatus,
           SetCompanyStatus(o, s)
    PROVE  IndInv'
<1> USE DEF IndInv, SetCompanyStatus, memory, transaction
<1>1. TypeOK'
  BY DEF TypeOK, TablesTypeOK, MemoryTypeOK, HistoryTypeOK, ControlOK
<1>2. OneActivePerPair'
  BY DEF OneActivePerPair
<1>3. SeenIsCurrent'
  BY DEF SeenIsCurrent, Accepts
<1>4. CheckedAreActive'
  BY DEF CheckedAreActive, Vouched, TypeOK, TablesTypeOK, MemoryTypeOK,
         HistoryTypeOK, ControlOK
<1>5. TransactionsAlone'
  BY DEF TransactionsAlone, Holders, ActiveFor, EventOf
<1> QED BY <1>1, <1>2, <1>3, <1>4, <1>5

LEMMA IdlePreserves == IndInv /\ UNCHANGED vars => IndInv'
<1> SUFFICES ASSUME IndInv, UNCHANGED vars PROVE IndInv'
  OBVIOUS
<1> USE DEF IndInv, vars, tables, memory, transaction, history
<1>1. TypeOK'
  BY DEF TypeOK, TablesTypeOK, MemoryTypeOK, HistoryTypeOK, ControlOK
<1>2. OneActivePerPair' /\ SeenIsCurrent' /\ CheckedAreActive'
  BY DEF OneActivePerPair, SeenIsCurrent, Accepts, CheckedAreActive, Vouched
<1>3. TransactionsAlone'
  BY DEF TransactionsAlone, Holders, ActiveFor, EventOf
<1> QED BY <1>1, <1>2, <1>3

(* IndInv is inductive. *)
LEMMA NextPreserves == IndInv /\ [Next]_vars => IndInv'
<1> SUFFICES ASSUME IndInv, [Next]_vars
             PROVE  IndInv'
  OBVIOUS
<1>1. CASE UNCHANGED vars
  BY <1>1, IdlePreserves
<1>2. ASSUME NEW r \in Requests, NEW p \in Pairs, CheckCatering(r, p)
      PROVE  IndInv'
  BY <1>2, CheckCateringPreserves
<1>3. ASSUME NEW r \in Requests, CheckClient(r)
      PROVE  IndInv'
  BY <1>3, ProceedPreserves, RejectPreserves DEF CheckClient
<1>4. ASSUME NEW r \in Requests, CheckExisting(r)
      PROVE  IndInv'
  BY <1>4, ProceedPreserves, RejectPreserves DEF CheckExisting
<1>5. ASSUME NEW r \in Requests, NEW c \in Contracts, InsertContract(r, c)
      PROVE  IndInv'
  <2>1. action[r] = "create"
    BY <1>5 DEF InsertContract, IndInv, TypeOK, ControlOK, Written
  <2>2. NewStatus(action[r]) = "ACTIVE"
    BY <2>1 DEF NewStatus
  <2> QED BY <1>5, <2>2, WriteRowPreserves DEF InsertContract
<1>6. ASSUME NEW r \in Requests, NEW c \in Contracts, NEW a \in ContractAction,
             ReadContract(r, c, a)
      PROVE  IndInv'
  BY <1>6, ReadPreserves
<1>7. ASSUME NEW r \in Requests, UpdateContract(r)
      PROVE  IndInv'
  <2>1. target[r] \in Contracts
    BY <1>7 DEF UpdateContract, IndInv, TypeOK, MemoryTypeOK, ControlOK
  <2> QED BY <1>7, <2>1, WriteRowPreserves DEF UpdateContract
<1>8. ASSUME NEW r \in Requests, StoreEvent(r) \/ Commit(r) \/ Fail(r)
      PROVE  IndInv'
  BY <1>8, StorePreserves, CommitPreserves, RejectPreserves DEF Fail
<1>9. ASSUME NEW o \in Companies, NEW s \in CompanyStatus,
             SetCompanyStatus(o, s)
      PROVE  IndInv'
  BY <1>9, SetCompanyStatusPreserves
<1> QED
  BY <1>1, <1>2, <1>3, <1>4, <1>5, <1>6, <1>7, <1>8, <1>9
     DEF Next, RequestStep

(* The invariant that the theorems below rest on holds in every state. *)
THEOREM Inductive == Spec => []IndInv
  BY InitEstablishes, NextPreserves, PTL DEF Spec

(* Every variable of the service has its type, and a request's memory fits *)
(* the statement it has reached (contract.service.ts 94-330).              *)
THEOREM TypeCorrect == Spec => []TypeOK
<1>1. IndInv => TypeOK
  BY DEF IndInv
<1> QED BY <1>1, Inductive, PTL

(* No interleaving of creates and resumes gives two companies two ACTIVE   *)
(* contracts at a time (contract.service.ts 172-190, 285-289).             *)
THEOREM PairsCorrect == Spec => []OneActivePerPair
<1>1. IndInv => OneActivePerPair
  BY DEF IndInv
<1> QED BY <1>1, Inductive, PTL

-----------------------------------------------------------------------------
(* Only COMMIT is seen *)

(* Other steps leave the committed contracts and their events alone. *)
LEMMA OnlyCommitShows ==
    ASSUME [Next]_vars
    PROVE  \/ \E r \in Requests : Commit(r)
           \/ UNCHANGED << status, pair, event, raced, ended >>
<1>1. CASE UNCHANGED vars
  BY <1>1 DEF vars, tables, history
<1>2. ASSUME NEW o \in Companies, NEW s \in CompanyStatus,
             SetCompanyStatus(o, s)
      PROVE  UNCHANGED << status, pair, event, raced, ended >>
  BY <1>2 DEF SetCompanyStatus
<1>3. ASSUME NEW r \in Requests, NEW c \in Contracts, NEW s, WriteRow(r, c, s)
      PROVE  UNCHANGED << status, pair, event, raced, ended >>
  BY <1>3 DEF WriteRow, Reject, tables, history
<1>4. ASSUME NEW r \in Requests, RequestStep(r), ~Commit(r)
      PROVE  UNCHANGED << status, pair, event, raced, ended >>
  <2> USE DEF tables, history
  <2>1. CASE \/ \E p \in Pairs : CheckCatering(r, p)
             \/ CheckClient(r)
             \/ CheckExisting(r)
             \/ StoreEvent(r)
             \/ Fail(r)
    BY <2>1 DEF CheckCatering, CheckClient, CheckExisting, StoreEvent, Fail,
                Proceed, Reject
  <2>2. CASE \E c \in Contracts, a \in ContractAction : ReadContract(r, c, a)
    BY <2>2 DEF ReadContract
  <2>3. CASE \E c \in Contracts : InsertContract(r, c)
    BY <2>3 DEF InsertContract, WriteRow, Reject
  <2>4. CASE UpdateContract(r)
    BY <2>4 DEF UpdateContract, WriteRow, Reject
  <2> QED BY <1>4, <2>1, <2>2, <2>3, <2>4 DEF RequestStep
<1> QED BY <1>1, <1>2, <1>4 DEF Next

(* One step of EventsTellStatus *)
EventTells ==
    \A c \in Contracts :
       event'[c] # event[c] \/ status'[c] # status[c] =>
          /\ event'[c].newStatus = status'[c]
          /\ \/ event'[c].previousStatus \in {status[c], Null}
             \/ \E r \in Requests :
                   target[r] = c /\ overtaken[r] /\ pc'[r] = "idle"

LEMMA StepTells == IndInv /\ [Next]_vars => EventTells
<1> SUFFICES ASSUME IndInv, [Next]_vars, NEW c \in Contracts,
                    event'[c] # event[c] \/ status'[c] # status[c]
             PROVE  /\ event'[c].newStatus = status'[c]
                    /\ \/ event'[c].previousStatus \in {status[c], Null}
                       \/ \E r \in Requests :
                             target[r] = c /\ overtaken[r] /\ pc'[r] = "idle"
  BY DEF EventTells
<1>1. PICK r \in Requests : Commit(r)
  BY OnlyCommitShows
<1>2. /\ status' = [status EXCEPT ![target[r]] = row[r]]
      /\ event' = [event EXCEPT ![target[r]] = stored[r]]
      /\ pc' = [pc EXCEPT ![r] = "idle"]
      /\ pc[r] = "committing"
  BY <1>1 DEF Commit, EndRequest
<1>3. target[r] = c
  BY <1>2 DEF IndInv, TypeOK, TablesTypeOK
<1>4. status'[c] = row[r] /\ event'[c] = stored[r] /\ pc'[r] = "idle"
  BY <1>2, <1>3 DEF IndInv, TypeOK, TablesTypeOK, MemoryTypeOK
<1>5. stored[r] = EventOf(r) /\ row[r] = NewStatus(action[r])
  BY <1>2, CommitterKnows
<1>6. event'[c].newStatus = status'[c]
  BY <1>4, <1>5 DEF EventOf
<1>7. CASE action[r] \in {"pause", "resume"}
  <2>1. overtaken[r] \/ seen[r] = status[c]
    BY <1>2, <1>3, <1>7, CommitterKnows
  <2>2. event'[c].previousStatus = seen[r]
    BY <1>4, <1>5, <1>7 DEF EventOf
  <2> QED BY <1>3, <1>4, <1>6, <2>1, <2>2
<1>8. CASE action[r] \notin {"pause", "resume"}
  <2>1. event'[c].previousStatus = Null
    BY <1>4, <1>5, <1>8 DEF EventOf
  <2> QED BY <1>6, <2>1
<1> QED BY <1>7, <1>8

(* Whatever fails between the row, its event and COMMIT: what the others   *)
(* see of a contract and the last event stored for it change together, and *)
(* the event continues where the row was, unless the request was overtaken *)
(* (contract.service.ts 190-239, 252-268, 285-301, 310-326).               *)
THEOREM EventsCorrect == Spec => EventsTellStatus
<1>1. Spec => [][EventTells]_vars
  BY Inductive, StepTells, PTL DEF Spec
<1> QED BY <1>1 DEF EventsTellStatus, EventTells

-----------------------------------------------------------------------------
(* The service implements the rules. *)

(* What the service's checks accept, canTransition allows; the one other   *)
(* case is a termination repeated.                                         *)
LEMMA AcceptedIsAllowed ==
    ASSUME NEW a \in ContractAction, NEW s \in ContractStatus, Accepts(a, s)
    PROVE  \/ Rules!canTransition(s, a)
           \/ a = "terminate" /\ s = "TERMINATED"
  BY DEF Accepts, Rules!canTransition, Rules!VALID_TRANSITIONS,
         Rules!ContractStatus, ContractAction, ContractStatus

(* A commit is an allowed action, or one of the two that are owned up to. *)
LEMMA CommitImplements ==
    ASSUME IndInv, NEW r \in Requests, Commit(r)
    PROVE  Rules!Next
<1> DEFINE c == target[r]
           a == action[r]
           s == row[r]
<1>0. /\ c \in Contracts
      /\ a \in ContractAction \cup {"create"}
      /\ s \in ContractStatus /\ s = NewStatus(a)
      /\ IF a = "create"
         THEN status[c] = "NONE"
         ELSE /\ status[c] \in ContractStatus
              /\ Accepts(a, seen[r])
              /\ ~overtaken[r] => seen[r] = status[c]
  BY CommitterKnows DEF Commit
<1>1. Rules!Become(c, s)
  BY DEF Commit, Rules!Become
<1>2. raced' = [raced EXCEPT ![c] = @ \/ overtaken[r]]
  BY DEF Commit
<1>3. /\ raced \in [Contracts -> BOOLEAN]
      /\ overtaken[r] \in BOOLEAN
      /\ status[c] \in ContractStatus => status[c] # "NONE"
  BY DEF IndInv, TypeOK, HistoryTypeOK, ContractStatus
<1> HIDE DEF c, s, a
<1>4. CASE overtaken[r] /\ a # "create"
  <2>1. raced' = [raced EXCEPT ![c] = TRUE]
    BY <1>0, <1>2, <1>3, <1>4
  <2>2. Rules!Overwrite(c)
    BY <1>0, <1>1, <1>3, <1>4, <2>1
       DEF Rules!Overwrite, Rules!ContractStatus, ContractStatus
  <2> QED BY <1>0, <2>2 DEF Rules!Next
<1>5. CASE ~overtaken[r] /\ a # "create"
  <2>1. raced' = raced
    BY <1>0, <1>2, <1>3, <1>5
  <2>2. a \in ContractAction /\ Accepts(a, status[c])
    BY <1>0, <1>5
  <2>3. CASE Rules!canTransition(status[c], a)
    <3>1. s = Rules!NextStatus(a)
      BY <1>0, <2>2 DEF NewStatus, Rules!NextStatus, ContractAction
    <3>2. Rules!Act(c, a)
      BY <1>0, <1>1, <1>3, <1>5, <2>1, <2>3, <3>1 DEF Rules!Act
    <3> QED BY <1>0, <2>2, <3>2
            DEF Rules!Next, Rules!ContractAction, ContractAction
  <2>4. CASE a = "terminate" /\ status[c] = "TERMINATED"
    <3>1. s = "TERMINATED"
      BY <1>0, <2>4 DEF NewStatus
    <3>2. Rules!TerminateAgain(c)
      BY <1>1, <2>1, <2>4, <3>1 DEF Rules!TerminateAgain
    <3> QED BY <1>0, <3>2 DEF Rules!Next
  <2> QED BY <1>0, <1>5, <2>2, <2>3, <2>4, AcceptedIsAllowed
<1>6. CASE a = "create"
  <2>1. ~overtaken[r]
    BY <1>6 DEF IndInv, TypeOK, ControlOK, a
  <2>2. raced' = raced
    BY <1>0, <1>2, <1>3, <2>1
  <2>3. s = "ACTIVE"
    BY <1>0, <1>6 DEF NewStatus
  <2>4. Rules!Create(c)
    BY <1>0, <1>1, <1>6, <2>2, <2>3 DEF Rules!Create
  <2> QED BY <1>0, <2>4 DEF Rules!Next
<1> QED BY <1>3, <1>4, <1>5, <1>6

(* Every step of the service is a step of the rules or leaves their state. *)
LEMMA StepImplements == IndInv /\ [Next]_vars => [Rules!Next]_Rules!vars
  BY OnlyCommitShows, CommitImplements DEF Rules!vars

(* The service makes only the changes that contract.rules.ts allows, with  *)
(* the status that it gives, and tells of each termination once, except in *)
(* a write that was overtaken and in terminating what is TERMINATED        *)
(* (contract.service.ts 241-330, contract.rules.ts 28-70).                 *)
THEOREM RulesImplemented == Spec => ImplementsContractRules
<1>1. Init => Rules!Init
  BY DEF Init, Rules!Init
<1> QED
  BY <1>1, Inductive, StepImplements, PTL
     DEF Spec, ImplementsContractRules, Rules!Spec

-----------------------------------------------------------------------------
(* Creation for active companies. *)

(* One step of CreatedForActiveCompanies *)
CreatedFromChecked ==
    \A r \in Requests, c \in Contracts :
       /\ action[r] = "create" /\ pc'[r] = "idle"
       /\ status[c] = "NONE" /\ status'[c] # "NONE"
       => \A o \in {pair'[c][1], pair'[c][2]} :
             companyStatus[o] = "ACTIVE" \/ o \in flipped[r]

(* Only the request that commits a row turns idle in the step in which the *)
(* row appears, and the row is for the companies that it checked.          *)
LEMMA StepCreates == IndInv /\ [Next]_vars => CreatedFromChecked
<1> SUFFICES ASSUME IndInv, [Next]_vars,
                    NEW r \in Requests, NEW c \in Contracts,
                    action[r] = "create", pc'[r] = "idle",
                    status[c] = "NONE", status'[c] # "NONE"
             PROVE  \A o \in {pair'[c][1], pair'[c][2]} :
                       companyStatus[o] = "ACTIVE" \/ o \in flipped[r]
  BY DEF CreatedFromChecked
<1>1. PICK q \in Requests : Commit(q)
  BY OnlyCommitShows
<1>2. /\ pc' = [pc EXCEPT ![q] = "idle"]
      /\ status' = [status EXCEPT ![target[q]] = row[q]]
      /\ pair' = [pair EXCEPT ![target[q]] = parties[q]]
      /\ pc[q] = "committing"
  BY <1>1 DEF Commit, EndRequest
<1>3. pc[r] # "idle"
  BY DEF IndInv, TypeOK, ControlOK
<1>4. q = r /\ target[q] = c
  BY <1>2, <1>3 DEF IndInv, TypeOK, TablesTypeOK, MemoryTypeOK
<1>5. pair'[c] = parties[r]
  BY <1>2, <1>4 DEF IndInv, TypeOK, TablesTypeOK
<1>6. Vouched(r, parties[r][1]) /\ Vouched(r, parties[r][2])
  BY <1>2, <1>4 DEF IndInv, CheckedAreActive
<1> QED BY <1>5, <1>6 DEF Vouched

(* Every contract that appears is for two companies that were active when  *)
(* its request checked them: one that is not is among those updated since. *)
THEOREM CreationCorrect == Spec => CreatedForActiveCompanies
<1>1. Spec => [][CreatedFromChecked]_vars
  BY Inductive, StepCreates, PTL DEF Spec
<1> QED BY <1>1 DEF CreatedForActiveCompanies, CreatedFromChecked
=============================================================================
