------------------------- MODULE EventDelivery_proofs -------------------------
(***************************************************************************)
(* Proofs about EventDelivery, for any events, contracts, replicas and     *)
(* ports, any retry limit and any number of faults: what the records of    *)
(* processed_events say is true, and a recipient is reached again only     *)
(* when a task was cut short or two replicas had it at a time.             *)
(***************************************************************************)
EXTENDS EventDelivery, TLAPS

USE DeliveryAssumption

(* Initially nothing is stored and nobody publishes. *)
LEMMA InitEstablishes == Init => IndInv
<1> SUFFICES ASSUME Init PROVE IndInv
  OBVIOUS
<1>1. TypeOK
  BY DEF Init, Promise!Init, TypeOK, Steps
<1>2. StoredFirst /\ HandlersProgress
  BY DEF Init, Promise!Init, StoredFirst, HandlersProgress
<1>3. TasksRunOnce
  BY DEF Init, TasksRunOnce, WorkingOn, ReachedBy, Recipients
<1>4. RecordsAreTrue
  BY DEF Init, RecordsAreTrue, RecordedWasReached, ResolvedIsRecorded
<1> QED BY <1>1, <1>2, <1>3, <1>4 DEF IndInv

-----------------------------------------------------------------------------
(* Ports and recipients *)

(* A handler uses two ports at most, each for recipients of its own. *)
LEMMA PortFacts ==
    /\ \A type : PortsOf(type) \subseteq Ports
    /\ \A port \in Ports : port = "notifications" \/ port = "analytics"
    /\ \A port \in Ports : ReachedBy(port) \subseteq Recipients
                           /\ ReachedBy(port) # {}
    /\ \A port, other \in Ports :
          ReachedBy(port) \cap ReachedBy(other) # {} => port = other
    /\ \A ports \in SUBSET Ports : ports # {} => FirstOf(ports) \in ports
    /\ Null \notin Topics /\ Null \notin Events /\ Null \notin Ports
  BY DEF PortsOf, ReachedBy, Recipients, FirstOf

-----------------------------------------------------------------------------
(* The outbox *)

(* Steps of the outbox that store and deliver nothing. *)
OutboxKeeps ==
    /\ state' \in [Events -> {"none", "open", "done", "dead", "unsure"}]
    /\ deliveries' \in [Events -> 0 .. 2]
    /\ failures' \in [Events -> 0 .. MaxRetries]
    /\ lostAck' \in [Events -> BOOLEAN] /\ late' \in [Events -> BOOLEAN]
    /\ \A f \in Events :
          /\ state'[f] = "none" <=> state[f] = "none"
          /\ state'[f] = "none" => deliveries'[f] = 0 /\ ~late'[f]
          /\ deliveries'[f] > 0 \/ state'[f] = "done" =>
                deliveries[f] > 0 \/ state[f] = "done"

LEMMA OutboxIdle == TypeOK /\ StoredFirst /\ UNCHANGED outbox => OutboxKeeps
  BY DEF TypeOK, StoredFirst, outbox, OutboxKeeps

LEMMA FailKeeps ==
    ASSUME TypeOK, StoredFirst, NEW e \in Events, Promise!FailAttempt(e)
    PROVE  OutboxKeeps
<1>1. /\ lostAck' \in [Events -> BOOLEAN]
      /\ UNCHANGED << state, deliveries, late >>
  <2>1. (deliveries[e] > 0) \in BOOLEAN
    OBVIOUS
  <2>2. \/ lostAck' = lostAck
        \/ lostAck' = [lostAck EXCEPT ![e] = (deliveries[e] > 0)]
    BY DEF Promise!FailAttempt
  <2>3. \A b \in BOOLEAN : [lostAck EXCEPT ![e] = b] \in [Events -> BOOLEAN]
    BY DEF TypeOK
  <2>4. [lostAck EXCEPT ![e] = (deliveries[e] > 0)] \in [Events -> BOOLEAN]
    BY <2>1, <2>3
  <2> QED BY <2>2, <2>4 DEF TypeOK, Promise!FailAttempt
<1>2. failures' \in [Events -> 0 .. MaxRetries]
  BY DEF TypeOK, Promise!FailAttempt, Promise!OneMoreFailure
<1> QED BY <1>1, <1>2 DEF TypeOK, StoredFirst, OutboxKeeps

LEMMA OutcomeKeeps ==
    ASSUME TypeOK, StoredFirst, NEW e \in Events,
           \/ Promise!Complete(e) \/ Promise!LoseAck(e)
           \/ Promise!GiveUp(e) \/ Promise!Reopen(e) \/ Promise!LoseReply(e)
    PROVE  OutboxKeeps
<1> USE DEF TypeOK, StoredFirst, OutboxKeeps, Promise!InHand, Promise!Unsettled
<1>1. CASE Promise!Complete(e)
  BY <1>1 DEF Promise!Complete
<1>2. CASE Promise!LoseAck(e)
  BY <1>2 DEF Promise!LoseAck
<1>3. CASE Promise!GiveUp(e)
  BY <1>3 DEF Promise!GiveUp
<1>4. CASE Promise!Reopen(e)
  BY <1>4 DEF Promise!Reopen
<1>5. CASE Promise!LoseReply(e)
  <2>1. failures' \in [Events -> 0 .. MaxRetries]
    BY <1>5 DEF Promise!LoseReply, Promise!OneMoreFailure
  <2> QED BY <1>5, <2>1 DEF Promise!LoseReply
<1> QED BY <1>1, <1>2, <1>3, <1>4, <1>5

LEMMA SweepKeeps ==
    ASSUME TypeOK, StoredFirst, NEW S \in SUBSET Events,
           Promise!Requeue(S) \/ Promise!Overrun(S)
    PROVE  OutboxKeeps
<1>1. CASE Promise!Requeue(S)
  BY <1>1 DEF TypeOK, StoredFirst, OutboxKeeps, Promise!Requeue
<1>2. CASE Promise!Overrun(S)
  BY <1>2 DEF TypeOK, StoredFirst, OutboxKeeps, Promise!Overrun, Promise!InHand,
                  Promise!Unsettled
<1> QED BY <1>1, <1>2

(* What is resolved stays recorded. *)
LEMMA ResolvedStays ==
    ASSUME TypeOK, ResolvedIsRecorded, OutboxKeeps, UNCHANGED topic,
           processed \subseteq processed'
    PROVE  ResolvedIsRecorded'
  BY DEF ResolvedIsRecorded, OutboxKeeps

(* What was reached stays reached. *)
LEMMA ReachedStays ==
    ASSUME RecordedWasReached, UNCHANGED << topic, processed >>,
           \A e \in Events : reached[e] \subseteq reached'[e],
           refused \subseteq refused'
    PROVE  RecordedWasReached'
<1> SUFFICES ASSUME NEW k \in Topics, NEW port \in Ports,
                    << k, port >> \in processed
             PROVE  \E e \in Events :
                       /\ topic[e] = k
                       /\ \A r \in ReachedBy(port) :
                             r \in reached'[e] \/ << k, r >> \in refused'
  BY DEF RecordedWasReached
<1>1. PICK e \in Events :
         /\ topic[e] = k
         /\ \A r \in ReachedBy(port) :
               r \in reached[e] \/ << k, r >> \in refused
  BY DEF RecordedWasReached
<1> QED BY <1>1

(* Steps around the replicas leave their work alone. *)
LEMMA OutboxStepPreserves ==
    ASSUME IndInv, OutboxStep
    PROVE  IndInv'
<1>1. TypeOK /\ StoredFirst /\ OutboxKeeps
  BY OutcomeKeeps, SweepKeeps DEF IndInv, OutboxStep
<1>2. UNCHANGED << topic, processed, memory, history, faults >>
  BY DEF OutboxStep
<1>3. TypeOK' /\ StoredFirst'
  BY <1>1, <1>2 DEF TypeOK, StoredFirst, OutboxKeeps, memory, history
<1>4. HandlersProgress' /\ TasksRunOnce'
  BY <1>2 DEF IndInv, HandlersProgress, TasksRunOnce, WorkingOn, Others,
              memory, history
<1>5. RecordsAreTrue'
  BY <1>1, <1>2, ResolvedStays, ReachedStays DEF IndInv, RecordsAreTrue, history
<1> QED BY <1>3, <1>4, <1>5 DEF IndInv

(* A stored event is new: nobody has it, and no record is about it alone.  *)
LEMMA StorePreserves ==
    ASSUME IndInv, NEW e \in Events, NEW k \in Topics, Store(e, k)
    PROVE  IndInv'
<1>1. TypeOK /\ StoredFirst
  BY DEF IndInv
<1>2. /\ state[e] = "none" /\ topic[e] = Null /\ k # Null
      /\ deliveries[e] = 0 /\ ~late[e]
      /\ state' = [state EXCEPT ![e] = "open"]
      /\ topic' = [topic EXCEPT ![e] = k]
      /\ UNCHANGED << deliveries, failures, lostAck, late >>
      /\ UNCHANGED << processed, memory, history, faults >>
  BY <1>1, PortFacts DEF Store, Promise!Accept, TypeOK, StoredFirst
<1>3. \A p \in Processors : pc[p] # "idle" =>
         current[p] \in Events \ {e} /\ topic'[current[p]] = topic[current[p]]
  BY <1>1, <1>2 DEF TypeOK, StoredFirst
<1>4. TypeOK'
  BY <1>1, <1>2 DEF TypeOK, memory, history
<1>5. StoredFirst'
  BY <1>1, <1>2, <1>3 DEF StoredFirst, TypeOK, memory
<1>6. HandlersProgress'
  <2> SUFFICES ASSUME NEW p \in Processors, task[p] # Null
               PROVE  HandlersProgress!(p)'
    BY <1>2 DEF HandlersProgress, memory
  <2>1. topic'[current[p]] = topic[current[p]]
    BY <1>1, <1>3 DEF TypeOK
  <2> QED BY <1>2, <2>1 DEF IndInv, HandlersProgress, Others, memory, history
<1>7. TasksRunOnce'
  <2>1. \A j \in Topics, port \in Ports :
           WorkingOn(j, port)' = WorkingOn(j, port)
    BY <1>2, <1>3 DEF WorkingOn, memory
  <2>2. UNCHANGED << processed, pending, sent, cut, overlapped >>
    BY <1>2 DEF memory, history
  <2> SUFFICES ASSUME NEW j \in Topics, NEW port \in Ports,
                      << j, port >> \notin cut \cup overlapped
               PROVE  TasksRunOnce!(j, port)!2'
    BY <2>2 DEF TasksRunOnce
  <2>3. TasksRunOnce!(j, port)!2
    BY DEF IndInv, TasksRunOnce
  <2> QED BY <2>1, <2>2, <2>3
<1>8. RecordedWasReached'
  <2> SUFFICES ASSUME NEW j \in Topics, NEW port \in Ports,
                      << j, port >> \in processed
               PROVE  \E f \in Events :
                         /\ topic'[f] = j
                         /\ \A r \in ReachedBy(port) :
                               r \in reached[f] \/ << j, r >> \in refused
    BY <1>2 DEF RecordedWasReached, history
  <2>1. PICK f \in Events :
           /\ topic[f] = j
           /\ \A r \in ReachedBy(port) :
                 r \in reached[f] \/ << j, r >> \in refused
    BY DEF IndInv, RecordsAreTrue, RecordedWasReached
  <2>2. f # e
    BY <1>2, <2>1, PortFacts
  <2> QED BY <1>1, <1>2, <2>1, <2>2 DEF TypeOK
<1>9. ResolvedIsRecorded'
  BY <1>1, <1>2 DEF IndInv, RecordsAreTrue, ResolvedIsRecorded, TypeOK
<1> QED BY <1>4, <1>5, <1>6, <1>7, <1>8, <1>9 DEF IndInv, RecordsAreTrue

-----------------------------------------------------------------------------
(* A replica lets go of its event *)

(* Whoever ends a publish, for good or ill, leaves the records true; his   *)
(* task had reached nobody, or is marked as cut.                           *)
LEMMA LetGoPreserves ==
    ASSUME IndInv, NEW p \in Processors, Rest(p), OutboxKeeps,
           UNCHANGED << topic, processed, reached, refused, sent, overlapped >>,
           cut \subseteq cut', cut' \in SUBSET (Topics \X Ports),
           faults' \in 0 .. MaxFaults,
           pc[p] \in {"sending", "recording"} =>
              \/ << topic[current[p]], task[p] >> \in cut' \cup overlapped
              \/ pc[p] = "sending" /\ pending[p] = ReachedBy(task[p])
    PROVE  IndInv'
<1>1. TypeOK /\ StoredFirst
  BY DEF IndInv
<1>2. /\ pc' \in [Processors -> Steps] /\ current' \in [Processors -> Events \cup {Null}]
      /\ task' \in [Processors -> Ports \cup {Null}]
      /\ pending' \in [Processors -> SUBSET Recipients]
      /\ pc'[p] = "idle" /\ current'[p] = Null /\ task'[p] = Null
      /\ pending'[p] = {}
      /\ \A q \in Processors \ {p} :
            /\ pc'[q] = pc[q] /\ current'[q] = current[q]
            /\ task'[q] = task[q] /\ pending'[q] = pending[q]
  BY <1>1 DEF Rest, TypeOK, Steps
<1>3. TypeOK'
  <2>1. \A q \in Processors :
           /\ pc'[q] = "idle" <=> current'[q] = Null
           /\ pc'[q] \in {"idle", "acknowledging"} <=> task'[q] = Null
           /\ pc'[q] = "sending" <=> pending'[q] # {}
    BY <1>1, <1>2 DEF TypeOK
  <2>2. /\ reached' \in [Events -> SUBSET Recipients]
        /\ sent' \in [Topics -> [Recipients -> 0 .. 2]]
        /\ refused' \in SUBSET (Topics \X Recipients)
        /\ overlapped' \in SUBSET (Topics \X Ports)
        /\ topic' \in [Events -> Topics \cup {Null}]
        /\ processed' \in SUBSET (Topics \X Ports)
    BY <1>1 DEF TypeOK
  <2>3. \A e \in Events : state'[e] = "none" <=> topic'[e] = Null
    BY <1>1 DEF TypeOK, OutboxKeeps
  <2> QED BY <1>2, <2>1, <2>2, <2>3 DEF TypeOK, OutboxKeeps
<1>4. StoredFirst'
  BY <1>1, <1>2 DEF StoredFirst, OutboxKeeps
<1>5. HandlersProgress'
  BY <1>2 DEF IndInv, HandlersProgress, Others
<1>6. TasksRunOnce'
  <2> SUFFICES ASSUME NEW k \in Topics, NEW port \in Ports,
                      << k, port >> \notin cut' \cup overlapped
               PROVE  TasksRunOnce!(k, port)!2'
    BY DEF TasksRunOnce
  <2>1. /\ \A q, r \in WorkingOn(k, port) : q = r
        /\ << k, port >> \in processed => WorkingOn(k, port) = {}
        /\ \A r \in ReachedBy(port) :
              /\ sent[k][r] <= 1
              /\ sent[k][r] > 0 =>
                    \/ << k, port >> \in processed
                    \/ \E q \in WorkingOn(k, port) : r \notin pending[q]
    BY DEF IndInv, TasksRunOnce
  <2>2. WorkingOn(k, port)' = WorkingOn(k, port) \ {p}
    BY <1>2 DEF WorkingOn
  <2>3. p \in WorkingOn(k, port) => pending[p] = ReachedBy(port)
    BY DEF WorkingOn
  <2>4. \A r \in ReachedBy(port) :
           sent[k][r] > 0 /\ << k, port >> \notin processed =>
              \E q \in WorkingOn(k, port)' : r \notin pending'[q]
    BY <1>2, <2>1, <2>2, <2>3 DEF WorkingOn
  <2> QED BY <2>1, <2>2, <2>4
<1>7. RecordsAreTrue'
  BY <1>1, ResolvedStays, ReachedStays DEF IndInv, RecordsAreTrue
<1> QED BY <1>3, <1>4, <1>5, <1>6, <1>7 DEF IndInv


-----------------------------------------------------------------------------
(* A replica goes on with its handler *)

(* GoOn leaves the outbox alone until nothing is left, and then delivers.  *)
LEMMA GoOnEffects ==
    ASSUME TypeOK, StoredFirst, NEW p \in Processors, NEW e \in Events,
           topic[e] # Null, NEW ports \in SUBSET Ports, GoOn(p, e, ports)
    PROVE  /\ pc' \in [Processors -> Steps]
           /\ task' \in [Processors -> Ports \cup {Null}]
           /\ \A q \in Processors \ {p} : pc'[q] = pc[q] /\ task'[q] = task[q]
           /\ \/ /\ ports # {} /\ pc'[p] = "checking"
                 /\ task'[p] = FirstOf(ports) /\ task'[p] \in ports
                 /\ UNCHANGED outbox
              \/ /\ ports = {} /\ pc'[p] = "acknowledging" /\ task'[p] = Null
                 /\ UNCHANGED << state, failures, lostAck, late >>
                 /\ deliveries' \in [Events -> 0 .. 2]
                 /\ \A f \in Events \ {e} : deliveries'[f] = deliveries[f]
<1>1. CASE ports = {}
  <2>1. /\ pc' = [pc EXCEPT ![p] = "acknowledging"]
        /\ task' = [task EXCEPT ![p] = Null] /\ Promise!Deliver(e)
    BY <1>1 DEF GoOn
  <2>2. deliveries' \in [Events -> 0 .. 2]
    BY <2>1 DEF Promise!Deliver, TypeOK
  <2>3. /\ UNCHANGED << state, failures, lostAck, late >>
        /\ \A f \in Events \ {e} : deliveries'[f] = deliveries[f]
    BY <2>1 DEF Promise!Deliver, TypeOK
  <2> QED BY <1>1, <2>1, <2>2, <2>3 DEF TypeOK, Steps
<1>2. CASE ports # {}
  <2>1. FirstOf(ports) \in ports
    BY <1>2, PortFacts
  <2>2. /\ pc' = [pc EXCEPT ![p] = "checking"]
        /\ task' = [task EXCEPT ![p] = FirstOf(ports)] /\ UNCHANGED outbox
    BY <1>2 DEF GoOn
  <2> QED BY <1>2, <2>1, <2>2 DEF TypeOK, Steps
<1> QED BY <1>1, <1>2

(* Whatever brought a replica to the next of its ports: what it leaves     *)
(* behind is recorded.                                                     *)
LEMMA GoOnPreserves ==
    ASSUME IndInv, NEW p \in Processors, NEW e \in Events, topic[e] # Null,
           NEW ports \in SUBSET Ports, GoOn(p, e, ports),
           current' = [current EXCEPT ![p] = e], pending[p] = {},
           UNCHANGED << topic, pending, history, faults >>,
           pc[p] \in {"idle", "checking", "recording"},
           pc[p] = "recording" =>
              current[p] = e /\ << topic[e], task[p] >> \in processed',
           \/ processed' = processed
           \/ /\ pc[p] = "recording"
              /\ processed' = processed \cup {<< topic[e], task[p] >>},
           ports \subseteq PortsOf(topic[e][2]),
           "notifications" \in ports => ports = PortsOf(topic[e][2]),
           \A port \in PortsOf(topic[e][2]) \ ports :
              << topic[e], port >> \in processed'
    PROVE  IndInv'
<1>1. TypeOK /\ StoredFirst
  BY DEF IndInv
<1>2. /\ pc' \in [Processors -> Steps]
      /\ task' \in [Processors -> Ports \cup {Null}]
      /\ \A q \in Processors \ {p} : pc'[q] = pc[q] /\ task'[q] = task[q]
      /\ \/ /\ ports # {} /\ pc'[p] = "checking"
            /\ task'[p] = FirstOf(ports) /\ task'[p] \in ports
            /\ UNCHANGED outbox
         \/ /\ ports = {} /\ pc'[p] = "acknowledging" /\ task'[p] = Null
            /\ UNCHANGED << state, failures, lostAck, late >>
            /\ deliveries' \in [Events -> 0 .. 2]
            /\ \A f \in Events \ {e} : deliveries'[f] = deliveries[f]
  BY <1>1, GoOnEffects
<1>3. /\ current' \in [Processors -> Events \cup {Null}] /\ current'[p] = e
      /\ \A q \in Processors \ {p} : current'[q] = current[q]
      /\ topic[e] \in Topics /\ e # Null
  BY <1>1, PortFacts DEF TypeOK
<1>4. UNCHANGED << topic, pending, reached, refused, sent, cut, overlapped, faults >>
  BY DEF history
<1>5. processed' \in SUBSET (Topics \X Ports) /\ processed \subseteq processed'
  BY <1>1, <1>3 DEF TypeOK
<1>6. TypeOK'
  <2>1. /\ state' \in [Events -> {"none", "open", "done", "dead", "unsure"}]
        /\ deliveries' \in [Events -> 0 .. 2]
        /\ failures' \in [Events -> 0 .. MaxRetries]
        /\ lostAck' \in [Events -> BOOLEAN] /\ late' \in [Events -> BOOLEAN]
        /\ state' = state
    BY <1>1, <1>2 DEF TypeOK, outbox
  <2>2. \A q \in Processors :
           /\ pc'[q] = "idle" <=> current'[q] = Null
           /\ pc'[q] \in {"idle", "acknowledging"} <=> task'[q] = Null
           /\ pc'[q] = "sending" <=> pending'[q] # {}
    BY <1>1, <1>2, <1>3, <1>4, PortFacts DEF TypeOK
  <2> QED BY <1>1, <1>2, <1>3, <1>4, <1>5, <2>1, <2>2 DEF TypeOK
<1>7. StoredFirst'
  <2>1. \A f \in Events : state'[f] = "none" => deliveries'[f] = 0 /\ ~late'[f]
    BY <1>1, <1>2 DEF TypeOK, StoredFirst, outbox
  <2> QED BY <1>1, <1>2, <1>3, <1>4, <2>1 DEF StoredFirst
<1>8. HandlersProgress'
  <2> SUFFICES ASSUME NEW q \in Processors, task'[q] # Null
               PROVE  HandlersProgress!(q)!2'
    BY DEF HandlersProgress
  <2>1. CASE q = p
    <3>1. \A port \in PortsOf(topic[e][2]) \ ({task'[p]} \cup Others(p)') :
             port \notin ports
      <4>1. task'[p] = FirstOf(ports) /\ task'[p] # Null
        BY <1>2, <2>1
      <4>2. CASE "notifications" \in ports
        <5>1. Others(p)' = PortsOf(topic[e][2]) \ {"notifications"}
          BY <1>3, <1>4, <4>1, <4>2 DEF FirstOf, Others
        <5> QED BY <4>1, <4>2, <5>1 DEF FirstOf
      <4>3. CASE "notifications" \notin ports
        BY <4>1, <4>3, PortFacts DEF FirstOf
      <4> QED BY <4>2, <4>3
    <3> QED BY <1>2, <1>3, <1>4, <2>1, <3>1
  <2>2. CASE q # p
    <3>1. HandlersProgress!(q)!2
      BY <1>2, <2>2 DEF IndInv, HandlersProgress
    <3> QED BY <1>2, <1>3, <1>4, <1>5, <2>2, <3>1 DEF Others
  <2> QED BY <2>1, <2>2
<1>9. TasksRunOnce'
  <2> SUFFICES ASSUME NEW k \in Topics, NEW port \in Ports,
                      << k, port >> \notin cut \cup overlapped
               PROVE  TasksRunOnce!(k, port)!2'
    BY <1>4 DEF TasksRunOnce
  <2>1. TasksRunOnce!(k, port)!2
    BY DEF IndInv, TasksRunOnce
  <2>2. WorkingOn(k, port)' = WorkingOn(k, port) \ {p}
    BY <1>2, <1>3, <1>4 DEF WorkingOn
  <2>3. CASE p \in WorkingOn(k, port)
    <3>1. << k, port >> \in processed'
      BY <2>3 DEF WorkingOn
    <3> QED BY <1>4, <2>1, <2>2, <2>3, <3>1
  <2>4. CASE p \notin WorkingOn(k, port)
    <3>1. << k, port >> \in processed' <=> << k, port >> \in processed
      BY <2>4 DEF WorkingOn
    <3> QED BY <1>4, <2>1, <2>2, <2>4, <3>1
  <2> QED BY <2>3, <2>4
<1>10. RecordedWasReached'
  <2> SUFFICES ASSUME NEW k \in Topics, NEW port \in Ports,
                      << k, port >> \in processed'
               PROVE  RecordedWasReached!(k, port)!2
    BY <1>4 DEF RecordedWasReached
  <2>1. CASE << k, port >> \in processed
    BY <2>1 DEF IndInv, RecordsAreTrue, RecordedWasReached
  <2>2. CASE << k, port >> \notin processed
    <3>1. pc[p] = "recording" /\ k = topic[e] /\ port = task[p] /\ current[p] = e
      BY <2>2
    <3>2. \A r \in ReachedBy(port) : r \in reached[e] \/ << k, r >> \in refused
      BY <3>1, PortFacts DEF IndInv, HandlersProgress
    <3> QED BY <3>1, <3>2
  <2> QED BY <2>1, <2>2
<1>11. ResolvedIsRecorded'
  <2> SUFFICES ASSUME NEW f \in Events, topic[f] # Null,
                      deliveries'[f] > 0 \/ state'[f] = "done",
                      NEW port \in PortsOf(topic[f][2])
               PROVE  << topic[f], port >> \in processed'
    BY <1>4 DEF ResolvedIsRecorded
  <2>1. CASE deliveries[f] > 0 \/ state[f] = "done"
    BY <1>5, <2>1 DEF IndInv, RecordsAreTrue, ResolvedIsRecorded
  <2>2. CASE ~(deliveries[f] > 0 \/ state[f] = "done")
    BY <1>2, <2>2 DEF outbox
  <2> QED BY <2>1, <2>2
<1> QED BY <1>6, <1>7, <1>8, <1>9, <1>10, <1>11 DEF IndInv, RecordsAreTrue

-----------------------------------------------------------------------------
(* The steps of a replica *)

(* bus.publish begins at the first port. *)
LEMMA PublishPreserves ==
    ASSUME IndInv, NEW p \in Processors, NEW e \in Events, Publish(p, e)
    PROVE  IndInv'
<1>1. pc[p] = "idle" /\ topic[e] # Null /\ pending[p] = {}
  BY DEF IndInv, TypeOK, Publish
<1>2. PortsOf(topic[e][2]) \in SUBSET Ports
  BY PortFacts
<1> QED BY <1>1, <1>2, GoOnPreserves DEF Publish, history

(* The ports before the task of a replica are recorded, and those after    *)
(* it do not include the first.                                            *)
LEMMA OthersFacts ==
    ASSUME IndInv, NEW p \in Processors, task[p] # Null
    PROVE  /\ current[p] \in Events /\ topic[current[p]] \in Topics
           /\ task[p] \in Ports /\ pc[p] # "idle"
           /\ task[p] \in PortsOf(topic[current[p]][2])
           /\ Others(p) \in SUBSET Ports
           /\ Others(p) \subseteq PortsOf(topic[current[p]][2])
           /\ "notifications" \notin Others(p) /\ task[p] \notin Others(p)
           /\ \A port \in PortsOf(topic[current[p]][2]) \ Others(p) :
                 \/ port = task[p]
                 \/ << topic[current[p]], port >> \in processed
<1>1. TypeOK /\ StoredFirst
  BY DEF IndInv
<1>2. /\ pc[p] # "idle" /\ current[p] \in Events
      /\ topic[current[p]] \in Topics /\ task[p] \in Ports
  BY <1>1 DEF TypeOK, StoredFirst
<1>3. /\ task[p] \in PortsOf(topic[current[p]][2])
      /\ \A port \in PortsOf(topic[current[p]][2]) \ ({task[p]} \cup Others(p)) :
            << topic[current[p]], port >> \in processed
  BY DEF IndInv, HandlersProgress
<1>4. /\ Others(p) \in SUBSET Ports
      /\ Others(p) \subseteq PortsOf(topic[current[p]][2])
      /\ "notifications" \notin Others(p) /\ task[p] \notin Others(p)
  BY PortFacts DEF Others
<1> QED BY <1>2, <1>3, <1>4

(* A port that is recorded, or is now, is left behind. *)
LEMMA RecordPreserves ==
    ASSUME IndInv, NEW p \in Processors, Record(p)
    PROVE  IndInv'
<1>1. pc[p] = "recording" /\ task[p] # Null /\ pending[p] = {}
  BY DEF IndInv, TypeOK, Record
<1>2. current' = [current EXCEPT ![p] = current[p]]
  BY DEF IndInv, TypeOK, Record
<1>3. /\ processed' = processed \cup {<< topic[current[p]], task[p] >>}
      /\ GoOn(p, current[p], Others(p))
      /\ UNCHANGED << topic, pending, history, faults >>
  BY DEF Record, Key
<1>4. \A port \in PortsOf(topic[current[p]][2]) \ Others(p) :
         << topic[current[p]], port >> \in processed'
  BY <1>1, <1>3, OthersFacts
<1>5. /\ current[p] \in Events /\ topic[current[p]] # Null
      /\ Others(p) \in SUBSET Ports
      /\ Others(p) \subseteq PortsOf(topic[current[p]][2])
      /\ "notifications" \notin Others(p)
  BY <1>1, OthersFacts, PortFacts
<1> QED BY <1>1, <1>2, <1>3, <1>4, <1>5, GoOnPreserves

LEMMA SkipPreserves ==
    ASSUME IndInv, NEW p \in Processors, Check(p),
           Key(current[p], task[p]) \in processed
    PROVE  IndInv'
<1>1. pc[p] = "checking" /\ task[p] # Null /\ pending[p] = {}
  BY DEF IndInv, TypeOK, Check
<1>2. current' = [current EXCEPT ![p] = current[p]]
  BY DEF IndInv, TypeOK, Check
<1>3. /\ GoOn(p, current[p], Others(p)) /\ processed' = processed
      /\ << topic[current[p]], task[p] >> \in processed
      /\ UNCHANGED << topic, pending, history, faults >>
  BY DEF Check, Key, history
<1>4. \A port \in PortsOf(topic[current[p]][2]) \ Others(p) :
         << topic[current[p]], port >> \in processed'
  BY <1>1, <1>3, OthersFacts
<1>5. /\ current[p] \in Events /\ topic[current[p]] # Null
      /\ Others(p) \in SUBSET Ports
      /\ Others(p) \subseteq PortsOf(topic[current[p]][2])
      /\ "notifications" \notin Others(p)
  BY <1>1, OthersFacts, PortFacts
<1> QED BY <1>1, <1>2, <1>3, <1>4, <1>5, GoOnPreserves


(* A task that begins is the only one, or marked as overlapping; of those  *)
(* that are neither, none has reached anybody.                             *)
LEMMA BeginPreserves ==
    ASSUME IndInv, NEW p \in Processors, Check(p),
           Key(current[p], task[p]) \notin processed
    PROVE  IndInv'
<1> DEFINE e == current[p]
           port == task[p]
<1>1. TypeOK /\ StoredFirst
  BY DEF IndInv
<1>2. /\ pc[p] = "checking" /\ port # Null
      /\ pc' = [pc EXCEPT ![p] = "sending"]
      /\ pending' = [pending EXCEPT ![p] = ReachedBy(port)]
      /\ overlapped' = IF WorkingOn(topic[e], port) = {} THEN overlapped
                       ELSE overlapped \cup {<< topic[e], port >>}
      /\ << topic[e], port >> \notin processed
      /\ UNCHANGED << outbox, topic, processed, current, task, reached,
                      refused, sent, cut, faults >>
  BY <1>1 DEF Check, Key, Working, WorkingOn, TypeOK
<1>3. /\ e \in Events /\ topic[e] \in Topics /\ port \in Ports
      /\ port \in PortsOf(topic[e][2])
      /\ ReachedBy(port) \subseteq Recipients /\ ReachedBy(port) # {}
  BY <1>2, OthersFacts, PortFacts
<1> HIDE DEF e, port
<1>4. OutboxKeeps
  BY <1>1, <1>2, OutboxIdle
<1>5. /\ pc' \in [Processors -> Steps] /\ pc'[p] = "sending"
      /\ pending' \in [Processors -> SUBSET Recipients]
      /\ pending'[p] = ReachedBy(port)
      /\ \A q \in Processors \ {p} : pc'[q] = pc[q] /\ pending'[q] = pending[q]
  BY <1>1, <1>2, <1>3 DEF TypeOK, Steps
<1>6. overlapped' \in SUBSET (Topics \X Ports) /\ overlapped \subseteq overlapped'
  BY <1>1, <1>2, <1>3 DEF TypeOK
<1>7. TypeOK'
  <2>1. \A q \in Processors :
           /\ pc'[q] = "idle" <=> current'[q] = Null
           /\ pc'[q] \in {"idle", "acknowledging"} <=> task'[q] = Null
           /\ pc'[q] = "sending" <=> pending'[q] # {}
    <3>1. /\ current'[p] # Null /\ task'[p] # Null
      BY <1>2, <1>3, PortFacts DEF e, port
    <3> QED BY <1>1, <1>2, <1>3, <1>5, <3>1 DEF TypeOK
  <2> QED BY <1>1, <1>2, <1>5, <1>6, <2>1 DEF TypeOK, outbox
<1>8. StoredFirst'
  <2>1. topic[current[p]] # Null
    BY <1>3, PortFacts DEF e
  <2> QED BY <1>1, <1>2, <1>5, <2>1 DEF StoredFirst, outbox
<1>9. HandlersProgress'
  <2> SUFFICES ASSUME NEW q \in Processors, task'[q] # Null
               PROVE  HandlersProgress!(q)!2'
    BY DEF HandlersProgress
  <2>1. HandlersProgress!(q)!2
    BY <1>2 DEF IndInv, HandlersProgress
  <2>2. UNCHANGED << current, task, topic, processed, reached, refused >>
    BY <1>2
  <2>3. Others(q)' = Others(q)
    BY <2>2 DEF Others
  <2>4. CASE q = p
    BY <1>5, <2>1, <2>2, <2>3, <2>4 DEF port
  <2>5. CASE q # p
    BY <1>5, <2>1, <2>2, <2>3, <2>5
  <2> QED BY <2>4, <2>5
<1>10. TasksRunOnce'
  <2> SUFFICES ASSUME NEW k \in Topics, NEW o \in Ports,
                      << k, o >> \notin cut \cup overlapped'
               PROVE  TasksRunOnce!(k, o)!2'
    BY <1>2 DEF TasksRunOnce
  <2>1. TasksRunOnce!(k, o)!2
    BY <1>6 DEF IndInv, TasksRunOnce
  <2>2. p \notin WorkingOn(k, o)
    BY <1>2 DEF WorkingOn
  <2>3. CASE k = topic[e] /\ o = port
    <3>1. WorkingOn(k, o) = {}
      BY <1>2, <2>3
    <3>2. WorkingOn(k, o)' = {p}
      BY <1>2, <1>5, <2>3, <3>1 DEF WorkingOn, e, port
    <3>3. \A r \in ReachedBy(o) : ~(sent[k][r] > 0)
      BY <1>2, <2>1, <2>3, <3>1
    <3> QED BY <1>2, <2>1, <2>3, <3>2, <3>3
  <2>4. CASE ~(k = topic[e] /\ o = port)
    <3>1. WorkingOn(k, o)' = WorkingOn(k, o)
      BY <1>2, <1>5, <2>2, <2>4 DEF WorkingOn, e, port
    <3>2. \A q \in WorkingOn(k, o) : pending'[q] = pending[q]
      BY <1>5, <2>2 DEF WorkingOn
    <3> QED BY <1>2, <2>1, <3>1, <3>2
  <2> QED BY <2>3, <2>4
<1>11. RecordsAreTrue'
  BY <1>1, <1>2, <1>4, ResolvedStays, ReachedStays DEF IndInv, RecordsAreTrue
<1> QED BY <1>7, <1>8, <1>9, <1>10, <1>11 DEF IndInv

(* One call of a task: its recipient is taken off the list and has been    *)
(* reached, or has refused.  Only this task reaches it about this topic.   *)
LEMMA CallPreserves ==
    ASSUME IndInv, NEW p \in Processors, NEW r \in Recipients, Call(p, r),
           reached' \in [Events -> SUBSET Recipients],
           \A e \in Events : reached[e] \subseteq reached'[e],
           refused' \in SUBSET (Topics \X Recipients), refused \subseteq refused',
           \/ r \in reached'[current[p]]
           \/ << topic[current[p]], r >> \in refused',
           \/ sent' = sent
           \/ sent' = [sent EXCEPT ![topic[current[p]]][r] =
                          IF @ = 0 THEN 1 ELSE 2],
           faults' \in 0 .. MaxFaults
    PROVE  IndInv'
<1> DEFINE e == current[p]
           port == task[p]
<1>1. TypeOK /\ StoredFirst
  BY DEF IndInv
<1>2. /\ pc[p] = "sending" /\ port # Null
      /\ pending[p] # {} /\ r = NextOf(pending[p])
      /\ pending' = [pending EXCEPT ![p] = pending[p] \ {r}]
      /\ pc' = [pc EXCEPT ![p] = IF pending[p] = {r} THEN "recording" ELSE pc[p]]
      /\ UNCHANGED << outbox, topic, processed, current, task, cut, overlapped >>
  BY <1>1 DEF Call, TypeOK
<1>3. r \in pending[p]
  BY <1>2 DEF NextOf
<1>4. /\ e \in Events /\ topic[e] \in Topics /\ port \in Ports
      /\ pending[p] \subseteq ReachedBy(port)
  BY <1>2, OthersFacts DEF IndInv, HandlersProgress
<1> HIDE DEF e, port
<1>5. OutboxKeeps
  BY <1>1, <1>2, OutboxIdle
<1>6. /\ pc' \in [Processors -> Steps] /\ pc'[p] \in {"sending", "recording"}
      /\ pending' \in [Processors -> SUBSET Recipients]
      /\ pending'[p] = pending[p] \ {r}
      /\ pc'[p] = "sending" <=> pending'[p] # {}
      /\ \A q \in Processors \ {p} : pc'[q] = pc[q] /\ pending'[q] = pending[q]
  BY <1>1, <1>2, <1>3 DEF TypeOK, Steps
<1>7. /\ sent' \in [Topics -> [Recipients -> 0 .. 2]]
      /\ \A k \in Topics, s \in Recipients :
            \/ sent'[k][s] = sent[k][s]
            \/ /\ k = topic[e] /\ s = r
               /\ sent'[k][s] = IF sent[k][s] = 0 THEN 1 ELSE 2
  <2>1. CASE sent' = sent
    BY <1>1, <2>1 DEF TypeOK
  <2>2. CASE sent' = [sent EXCEPT ![topic[e]][r] = IF @ = 0 THEN 1 ELSE 2]
    <3> DEFINE n == IF sent[topic[e]][r] = 0 THEN 1 ELSE 2
    <3>1. sent' = [sent EXCEPT ![topic[e]] = [sent[topic[e]] EXCEPT ![r] = n]]
      BY <2>2
    <3>2. n \in 0 .. 2 /\ n = IF sent[topic[e]][r] = 0 THEN 1 ELSE 2
      OBVIOUS
    <3> HIDE DEF n
    <3>3. sent \in [Topics -> [Recipients -> 0 .. 2]]
      BY <1>1 DEF TypeOK
    <3>4. [sent[topic[e]] EXCEPT ![r] = n] \in [Recipients -> 0 .. 2]
      BY <1>4, <3>2, <3>3
    <3> QED BY <1>4, <3>1, <3>2, <3>3, <3>4
  <2> QED BY <2>1, <2>2 DEF e
<1>8. TypeOK'
  <2>1. \A q \in Processors :
           /\ pc'[q] = "idle" <=> current'[q] = Null
           /\ pc'[q] \in {"idle", "acknowledging"} <=> task'[q] = Null
           /\ pc'[q] = "sending" <=> pending'[q] # {}
    BY <1>1, <1>2, <1>6 DEF TypeOK
  <2> QED BY <1>1, <1>2, <1>6, <1>7, <2>1 DEF TypeOK, outbox
<1>9. StoredFirst'
  BY <1>1, <1>2, <1>6 DEF StoredFirst, outbox
<1>10. HandlersProgress'
  <2> SUFFICES ASSUME NEW q \in Processors, task'[q] # Null
               PROVE  HandlersProgress!(q)!2'
    BY DEF HandlersProgress
  <2>1. HandlersProgress!(q)!2
    BY <1>2 DEF IndInv, HandlersProgress
  <2>2. UNCHANGED << current, task, topic, processed >>
    BY <1>2
  <2>3. Others(q)' = Others(q)
    BY <2>2 DEF Others
  <2>4. current[q] \in Events
    BY <1>2, OthersFacts
  <2>5. CASE q = p
    BY <1>2, <1>6, <2>1, <2>2, <2>3, <2>4, <2>5 DEF e
  <2>6. CASE q # p
    BY <1>6, <2>1, <2>2, <2>3, <2>4, <2>6
  <2> QED BY <2>5, <2>6
<1>11. TasksRunOnce'
  <2> SUFFICES ASSUME NEW k \in Topics, NEW o \in Ports,
                      << k, o >> \notin cut \cup overlapped
               PROVE  TasksRunOnce!(k, o)!2'
    BY <1>2 DEF TasksRunOnce
  <2>1. TasksRunOnce!(k, o)!2
    BY DEF IndInv, TasksRunOnce
  <2>2. WorkingOn(k, o)' = WorkingOn(k, o)
    BY <1>2, <1>6 DEF WorkingOn
  <2>3. ASSUME NEW s \in ReachedBy(o)
        PROVE  /\ sent'[k][s] <= 1
               /\ sent'[k][s] > 0 =>
                     \/ << k, o >> \in processed
                     \/ \E q \in WorkingOn(k, o) : s \notin pending'[q]
    <3>1. s \in Recipients
      BY <2>3, PortFacts
    <3>2. CASE k = topic[e] /\ s = r
      <4>1. o = port
        BY <1>3, <1>4, <3>2, PortFacts
      <4>2. p \in WorkingOn(k, o)
        BY <1>2, <3>2, <4>1 DEF WorkingOn, e, port
      <4>3. sent[k][s] = 0
        <5>1. ~(sent[k][s] > 0)
          BY <1>3, <2>1, <3>2, <4>2
        <5>2. sent[k][s] \in 0 .. 2
          BY <1>1, <3>1 DEF TypeOK
        <5> QED BY <5>1, <5>2
      <4> QED BY <1>6, <1>7, <3>1, <3>2, <4>2, <4>3
    <3>3. CASE ~(k = topic[e] /\ s = r)
      <4>1. sent'[k][s] = sent[k][s]
        BY <1>7, <3>1, <3>3
      <4>2. \A q \in Processors : pending'[q] \subseteq pending[q]
        BY <1>6
      <4> QED BY <2>1, <4>1, <4>2 DEF WorkingOn
    <3> QED BY <3>2, <3>3
  <2> QED BY <1>2, <2>1, <2>2, <2>3
<1>12. RecordsAreTrue'
  BY <1>1, <1>2, <1>5, ResolvedStays, ReachedStays DEF IndInv, RecordsAreTrue
<1> QED BY <1>8, <1>9, <1>10, <1>11, <1>12 DEF IndInv


LEMMA ReachPreserves ==
    ASSUME IndInv, NEW p \in Processors, NEW r \in Recipients, Reach(p, r)
    PROVE  IndInv'
<1>1. /\ Call(p, r) /\ UNCHANGED << refused, faults >>
      /\ reached' = [reached EXCEPT ![current[p]] = @ \cup {r}]
      /\ sent' = [sent EXCEPT ![topic[current[p]]][r] = IF @ = 0 THEN 1 ELSE 2]
  BY DEF Reach
<1>2. TypeOK /\ current[p] \in Events
  BY OthersFacts DEF IndInv, TypeOK, Reach, Call
<1>3. /\ reached' \in [Events -> SUBSET Recipients]
      /\ \A e \in Events : reached[e] \subseteq reached'[e]
      /\ r \in reached'[current[p]]
  BY <1>1, <1>2 DEF TypeOK
<1>4. refused' \in SUBSET (Topics \X Recipients) /\ faults' \in 0 .. MaxFaults
  BY <1>1, <1>2 DEF TypeOK
<1> QED BY <1>1, <1>3, <1>4, CallPreserves

LEMMA RefusePreserves ==
    ASSUME IndInv, NEW p \in Processors, NEW r \in Recipients, Refuse(p, r)
    PROVE  IndInv'
<1>1. /\ Call(p, r) /\ UNCHANGED << reached, sent >>
      /\ refused' = refused \cup {<< topic[current[p]], r >>} /\ Fault
  BY DEF Refuse
<1>2. /\ TypeOK /\ current[p] \in Events /\ topic[current[p]] \in Topics
  BY OthersFacts DEF IndInv, TypeOK, Refuse, Call
<1>3. faults' \in 0 .. MaxFaults
  BY <1>1, <1>2 DEF TypeOK, Fault
<1>4. /\ reached' \in [Events -> SUBSET Recipients]
      /\ refused' \in SUBSET (Topics \X Recipients)
  BY <1>1, <1>2 DEF TypeOK
<1> QED BY <1>1, <1>3, <1>4, CallPreserves

(* A task that finds its key recorded while it works on it overlapped. *)
LEMMA RecordThrowsPreserves ==
    ASSUME IndInv, NEW p \in Processors, RecordThrows(p)
    PROVE  IndInv'
<1>1. /\ pc[p] = "recording" /\ << topic[current[p]], task[p] >> \in processed
      /\ Rest(p) /\ Promise!FailAttempt(current[p])
      /\ UNCHANGED << topic, processed, history, faults >>
  BY DEF RecordThrows, Throw, Key
<1>2. TypeOK /\ StoredFirst /\ task[p] # Null
  BY <1>1 DEF IndInv, TypeOK
<1>3. /\ current[p] \in Events /\ topic[current[p]] \in Topics /\ task[p] \in Ports
  BY <1>2, OthersFacts
<1>4. p \in WorkingOn(topic[current[p]], task[p])
  BY <1>1 DEF WorkingOn
<1>5. << topic[current[p]], task[p] >> \in cut \cup overlapped
  BY <1>1, <1>3, <1>4 DEF IndInv, TasksRunOnce
<1>6. OutboxKeeps
  BY <1>1, <1>2, <1>3, FailKeeps
<1>7. /\ UNCHANGED << topic, processed, reached, refused, sent, overlapped, cut, faults >>
      /\ cut \in SUBSET (Topics \X Ports) /\ faults \in 0 .. MaxFaults
  BY <1>1, <1>2 DEF TypeOK, history
<1> QED BY <1>1, <1>5, <1>6, <1>7, LetGoPreserves

(* CutShort marks the task of a replica unless it had reached nobody. *)
LEMMA CutShortFacts ==
    ASSUME IndInv, NEW p \in Processors, pc[p] # "idle", Fault,
           cut' = cut \cup CutShort(p)
    PROVE  /\ cut \subseteq cut' /\ cut' \in SUBSET (Topics \X Ports)
           /\ faults' \in 0 .. MaxFaults
           /\ current[p] \in Events
           /\ pc[p] \in {"sending", "recording"} =>
                 \/ << topic[current[p]], task[p] >> \in cut' \cup overlapped
                 \/ pc[p] = "sending" /\ pending[p] = ReachedBy(task[p])
<1>1. TypeOK
  BY DEF IndInv
<1>2. faults' \in 0 .. MaxFaults /\ current[p] \in Events
  BY <1>1 DEF TypeOK, Fault
<1>3. CASE pc[p] \in {"sending", "recording"}
  <2>1. task[p] # Null
    BY <1>1, <1>3 DEF TypeOK
  <2>2. topic[current[p]] \in Topics /\ task[p] \in Ports
    BY <2>1, OthersFacts
  <2> QED BY <1>1, <1>2, <1>3, <2>2 DEF TypeOK, CutShort
<1>4. CASE pc[p] \notin {"sending", "recording"}
  <2>1. cut' = cut
    BY <1>4 DEF CutShort
  <2> QED BY <1>1, <1>2, <1>4, <2>1 DEF TypeOK
<1> QED BY <1>3, <1>4

LEMMA HandlerFailsPreserves ==
    ASSUME IndInv, NEW p \in Processors, HandlerFails(p)
    PROVE  IndInv'
<1>1. /\ pc[p] # "idle" /\ Fault /\ cut' = cut \cup CutShort(p)
      /\ Promise!FailAttempt(current[p]) /\ Rest(p)
      /\ UNCHANGED << topic, processed, reached, refused, sent, overlapped >>
  BY DEF HandlerFails, Throw
<1>2. TypeOK /\ StoredFirst /\ current[p] \in Events
  BY <1>1, CutShortFacts DEF IndInv
<1>3. OutboxKeeps
  BY <1>1, <1>2, FailKeeps
<1> QED BY <1>1, <1>3, CutShortFacts, LetGoPreserves

LEMMA CrashPreserves ==
    ASSUME IndInv, NEW p \in Processors, Crash(p)
    PROVE  IndInv'
<1>1. /\ pc[p] # "idle" /\ Fault /\ cut' = cut \cup CutShort(p)
      /\ Promise!LoseAck(current[p]) \/ UNCHANGED outbox
      /\ Rest(p)
      /\ UNCHANGED << topic, processed, reached, refused, sent, overlapped >>
  BY DEF Crash
<1>2. TypeOK /\ StoredFirst /\ current[p] \in Events
  BY <1>1, CutShortFacts DEF IndInv
<1>3. OutboxKeeps
  BY <1>1, <1>2, OutcomeKeeps, OutboxIdle
<1> QED BY <1>1, <1>3, CutShortFacts, LetGoPreserves

LEMMA AcknowledgePreserves ==
    ASSUME IndInv, NEW p \in Processors,
           Acknowledge(p) \/ AcknowledgeFails(p)
    PROVE  IndInv'
<1>1. /\ pc[p] = "acknowledging" /\ Rest(p) 
      /\ UNCHANGED << topic, processed, history >>
      /\ UNCHANGED faults \/ Fault
      /\ \/ Promise!Complete(current[p])
         \/ Promise!FailAttempt(current[p])
         \/ Promise!LoseReply(current[p])
  BY DEF Acknowledge, AcknowledgeFails
<1>2. TypeOK /\ StoredFirst /\ current[p] \in Events
  BY <1>1 DEF IndInv, TypeOK
<1>3. OutboxKeeps
  BY <1>1, <1>2, OutcomeKeeps, FailKeeps
<1>4. /\ UNCHANGED << topic, processed, reached, refused, sent, overlapped, cut >>
      /\ cut \in SUBSET (Topics \X Ports) /\ faults' \in 0 .. MaxFaults
  BY <1>1, <1>2 DEF TypeOK, history, Fault
<1> QED BY <1>1, <1>3, <1>4, LetGoPreserves

LEMMA IdlePreserves == IndInv /\ UNCHANGED vars => IndInv'
<1> SUFFICES ASSUME IndInv, UNCHANGED vars PROVE IndInv'
  OBVIOUS
<1> USE DEF vars, outbox, memory, history
<1>1. TypeOK' /\ StoredFirst'
  BY DEF IndInv, TypeOK, StoredFirst
<1>2. HandlersProgress' /\ TasksRunOnce'
  BY DEF IndInv, HandlersProgress, TasksRunOnce, WorkingOn, Others
<1>3. RecordsAreTrue'
  BY DEF IndInv, RecordsAreTrue, RecordedWasReached, ResolvedIsRecorded
<1> QED BY <1>1, <1>2, <1>3 DEF IndInv

LEMMA StepPreserves == IndInv /\ [Next]_vars => IndInv'
<1> SUFFICES ASSUME IndInv, [Next]_vars PROVE IndInv'
  OBVIOUS
<1>1. CASE \E e \in Events, k \in Topics : Store(e, k)
  BY <1>1, StorePreserves
<1>2. CASE OutboxStep
  BY <1>2, OutboxStepPreserves
<1>3. ASSUME NEW p \in Processors,
             \/ \E e \in Events : Publish(p, e)
             \/ \E r \in Recipients : Reach(p, r) \/ Refuse(p, r)
      PROVE  IndInv'
  BY <1>3, PublishPreserves, ReachPreserves, RefusePreserves
<1>4. ASSUME NEW p \in Processors, Check(p) \/ Record(p) \/ RecordThrows(p)
      PROVE  IndInv'
  BY <1>4, SkipPreserves, BeginPreserves, RecordPreserves,
     RecordThrowsPreserves
<1>5. ASSUME NEW p \in Processors,
             HandlerFails(p) \/ Crash(p) \/ Acknowledge(p) \/ AcknowledgeFails(p)
      PROVE  IndInv'
  BY <1>5, HandlerFailsPreserves, CrashPreserves, AcknowledgePreserves
<1>6. CASE UNCHANGED vars
  BY <1>6, IdlePreserves
<1> QED BY <1>1, <1>2, <1>3, <1>4, <1>5, <1>6 DEF Next

-----------------------------------------------------------------------------
(* Results *)

(* IndInv holds in every reachable state: how far each handler is, who     *)
(* works on what, and what the records say (IdempotencyService.processOnce *)
(* 101-121, ContractEventHandlers 70-258).                                 *)
THEOREM Inductive == Spec => []IndInv
  BY InitEstablishes, StepPreserves, PTL DEF Spec

(* Every variable has its type and a replica's memory fits its step        *)
(* (idempotency.service.ts 101-121).                                       *)
THEOREM TypeCorrect == Spec => []TypeOK
<1>1. IndInv => TypeOK
  BY DEF IndInv
<1> QED BY <1>1, Inductive, PTL

(* Whatever the replicas do at a time, and whatever fails: a record is     *)
(* there only if its recipients were reached or refused, and a publish     *)
(* that resolved has left all its records (contract.event-handlers.ts      *)
(* 70-258, idempotency.service.ts 101-121).                                *)
THEOREM RecordsCorrect == Spec => []RecordsAreTrue
<1>1. IndInv => RecordsAreTrue
  BY DEF IndInv
<1> QED BY <1>1, Inductive, PTL

(* A recipient is reached again about a topic only after a task that ended *)
(* between its first call and its record, or with two replicas at work     *)
(* (idempotency.service.ts 101-121).                                       *)
THEOREM RepeatsCorrect == Spec => []RepeatsAreExplained
<1>1. IndInv => RepeatsAreExplained
  <2> SUFFICES ASSUME IndInv, NEW k \in Topics, NEW port \in Ports,
                      NEW r \in ReachedBy(port), sent[k][r] > 1,
                      << k, port >> \notin cut \cup overlapped
               PROVE  FALSE
    BY DEF RepeatsAreExplained
  <2>1. sent[k][r] <= 1
    BY DEF IndInv, TasksRunOnce
  <2>2. r \in Recipients /\ sent[k][r] \in 0 .. 2
    BY PortFacts DEF IndInv, TypeOK
  <2> QED BY <2>1, <2>2
<1> QED BY <1>1, Inductive, PTL


-----------------------------------------------------------------------------
(* The promise *)

(* Publishing does to an event of the outbox what the promise lets a       *)
(* worker do, or nothing.                                                  *)
LEMMA PublishingIsPromised ==
    ASSUME TypeOK, NEW p \in Processors,
           \/ \E e \in Events : Publish(p, e)
           \/ Check(p) \/ Record(p) \/ RecordThrows(p)
           \/ \E r \in Recipients : Reach(p, r) \/ Refuse(p, r)
           \/ HandlerFails(p) \/ Acknowledge(p) \/ AcknowledgeFails(p)
           \/ Crash(p)
    PROVE  Promise!Next \/ UNCHANGED outbox
<1>1. pc[p] # "idle" => current[p] \in Events
  BY DEF TypeOK
<1>2. ASSUME NEW e \in Events, NEW ports, GoOn(p, e, ports)
      PROVE  Promise!Deliver(e) \/ UNCHANGED outbox
  BY <1>2 DEF GoOn
<1>3. ASSUME NEW e \in Events, Publish(p, e)
      PROVE  Promise!Deliver(e) \/ UNCHANGED outbox
  BY <1>2, <1>3 DEF Publish
<1>4. CASE Check(p)
  BY <1>1, <1>2, <1>4 DEF Check, Promise!Next
<1>5. CASE Record(p)
  BY <1>1, <1>2, <1>5 DEF Record, Promise!Next
<1>6. CASE RecordThrows(p) \/ HandlerFails(p) \/ AcknowledgeFails(p)
  <2>1. /\ current[p] \in Events
        /\ \/ Promise!FailAttempt(current[p])
           \/ Promise!LoseReply(current[p])
    BY <1>1, <1>6 DEF RecordThrows, HandlerFails, AcknowledgeFails, Throw
  <2> QED BY <2>1 DEF Promise!Next
<1>7. ASSUME NEW r \in Recipients, Reach(p, r) \/ Refuse(p, r)
      PROVE  UNCHANGED outbox
  BY <1>7 DEF Reach, Refuse, Call
<1>8. CASE Acknowledge(p)
  <2>1. current[p] \in Events /\ Promise!Complete(current[p])
    BY <1>1, <1>8 DEF Acknowledge
  <2> QED BY <2>1 DEF Promise!Next
<1>9. CASE Crash(p)
  <2>1. current[p] \in Events
    BY <1>1, <1>9 DEF Crash
  <2>2. Promise!LoseAck(current[p]) \/ UNCHANGED outbox
    BY <1>9 DEF Crash
  <2> QED BY <2>1, <2>2 DEF Promise!Next
<1> QED BY <1>3, <1>4, <1>5, <1>6, <1>7, <1>8, <1>9 DEF Promise!Next

(* The bus and its handlers ask of the outbox no more than it promises:    *)
(* whatever they and the replicas do, what happens to the events is what   *)
(* AtLeastOnce allows (outbox.processor.ts 195-262, which Outbox shows to  *)
(* keep the promise).                                                      *)
THEOREM PromiseUsed == Spec => Promise!Spec
<1>1. Init => Promise!Init
  BY DEF Init
<1>2. TypeOK /\ [Next]_vars => [Promise!Next]_(Promise!vars)
  <2> SUFFICES ASSUME TypeOK, [Next]_vars
               PROVE  Promise!Next \/ UNCHANGED outbox
    BY DEF outbox, Promise!vars
  <2>1. ASSUME NEW e \in Events, NEW k \in Topics, Store(e, k)
        PROVE  Promise!Next
    BY <2>1 DEF Store, Promise!Next
  <2>2. CASE OutboxStep
    BY <2>2 DEF OutboxStep, Promise!Next
  <2>3. CASE UNCHANGED vars
    BY <2>3 DEF vars
  <2> QED BY <2>1, <2>2, <2>3, PublishingIsPromised DEF Next
<1> QED BY <1>1, <1>2, TypeCorrect, PTL DEF Spec, Promise!Spec
=============================================================================
