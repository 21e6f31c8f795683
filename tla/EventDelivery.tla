--------------------------- MODULE EventDelivery ---------------------------
(***************************************************************************)
(* From the outbox to the outside: a replica publishes an event on its     *)
(* in-memory bus, the one handler of ContractEventHandlers runs, and each  *)
(* of its tasks is guarded by IdempotencyService.processOnce: look for a   *)
(* record, reach the recipients, insert the record, three statements with  *)
(* nothing that ties them together.  The outbox is represented by its      *)
(* promise, AtLeastOnce, so an event may come again after a failure, a     *)
(* crash or an overrun of the lock timeout, even while it is being         *)
(* handled.                                                                *)
(***************************************************************************)
EXTENDS Naturals

CONSTANTS
    Events, MaxRetries,   \* as in AtLeastOnce
    Contracts,
    Processors,           \* replicas; each publishes one event at a time
    Ports,                \* the optional ports that have a provider
    Null,
    MaxFaults             \* bound: crashes and failed calls

Types      == {"created", "paused", "resumed", "terminated"}
Topics     == Contracts \X Types
Recipients == {"client", "catering", "tracker"}

ASSUME DeliveryAssumption ==
    /\ Ports \subseteq {"notifications", "analytics"}
    /\ Null \notin Topics \cup Events \cup Ports
    /\ MaxRetries \in Nat \ {0}
    /\ MaxFaults \in Nat

VARIABLES
    state, deliveries, failures, lostAck, late,   \* of AtLeastOnce
    topic,       \* contract and type of a stored event
    processed,   \* processed_events: topics and ports recorded as done
    (* Each replica's memory *)
    pc,
    current,     \* the event being published
    task,        \* the port whose processOnce runs
    pending,     \* recipients it has still to reach
    (* What happened so far, for the properties; no action reads it *)
    reached,     \* recipients reached on behalf of an event itself
    refused,     \* topics and recipients with a notification not accepted
    sent,        \* times a recipient was reached about a topic, up to 2
    cut,         \* topics and ports with a task that ended unrecorded
    overlapped,  \* topics and ports that two replicas worked on at a time
    faults

outbox  == << state, deliveries, failures, lostAck, late >>
memory  == << pc, current, task, pending >>
history == << reached, refused, sent, cut, overlapped >>
vars    == << outbox, topic, processed, memory, history, faults >>

Promise == INSTANCE AtLeastOnce

Steps == {"idle", "checking", "sending", "recording", "acknowledging"}

(* The ports that the handler of a type uses, in its order, and whom a     *)
(* task reaches.                                                           *)
PortsOf(type) ==
    Ports \cap (IF type \in {"created", "terminated"}
                THEN {"notifications", "analytics"}
                ELSE {"analytics"})

FirstOf(ports) ==
    IF "notifications" \in ports THEN "notifications" ELSE "analytics"

ReachedBy(port) ==
    IF port = "notifications" THEN {"client", "catering"} ELSE {"tracker"}

RecipientsOf(type) == UNION {ReachedBy(port) : port \in PortsOf(type)}

(* What a record names: the event's aggregate, since the published copy    *)
(* of an outbox row has lost its id, and the handler's name, which         *)
(* contains the type.                                                      *)
Key(e, port) == << topic[e], port >>

Init ==
    /\ Promise!Init
    /\ topic      = [e \in Events |-> Null]
    /\ processed  = {}
    /\ pc         = [p \in Processors |-> "idle"]
    /\ current    = [p \in Processors |-> Null]
    /\ task       = [p \in Processors |-> Null]
    /\ pending    = [p \in Processors |-> {}]
    /\ reached    = [e \in Events |-> {}]
    /\ refused    = {}
    /\ sent       = [k \in Topics |-> [r \in Recipients |-> 0]]
    /\ cut        = {}
    /\ overlapped = {}
    /\ faults     = 0

-----------------------------------------------------------------------------
(* The outbox around the handlers *)

(* Contracts that an event was stored for *)
Heard == {topic[f][1] : f \in {g \in Events : topic[g] # Null}}

(* An event is stored with the change of its contract; a contract is       *)
(* created once, before anything else happens to it.                       *)
Store(e, k) ==
    /\ Promise!Accept(e)
    /\ k[2] = "created" => k[1] \notin Heard
    /\ topic' = [topic EXCEPT ![e] = k]
    /\ UNCHANGED << processed, memory, history, faults >>

Publishers(e) == {p \in Processors : current[p] = e}

(* The steps of the promise that are not a replica's handling of an event: *)
(* giving up on it, requeueing dead ones, overrunning the lock timeout     *)
(* while publishing, what a replica overwrites that is late or took its    *)
(* own mark for failed, and the end of such a replica before it does.      *)
OutboxStep ==
    /\ \/ \E e \in Events :
             \/ Promise!GiveUp(e)
             \/ Promise!Reopen(e)
             \/ state[e] = "unsure" /\ Promise!Complete(e)
       \/ \E S \in SUBSET Events :
             S # {} /\ (Promise!Requeue(S) \/ Promise!Overrun(S))
    /\ UNCHANGED << topic, processed, memory, history, faults >>

-----------------------------------------------------------------------------
(* Publishing *)

(* The publish is over for the replica: its local variables are gone. *)
Rest(p) ==
    /\ pc'      = [pc EXCEPT ![p] = "idle"]
    /\ current' = [current EXCEPT ![p] = Null]
    /\ task'    = [task EXCEPT ![p] = Null]
    /\ pending' = [pending EXCEPT ![p] = {}]

(* The handler goes on with one of the given ports, or has none left and   *)
(* its promise resolves, and with it the publish.                          *)
GoOn(p, e, ports) ==
    IF ports = {}
    THEN /\ pc' = [pc EXCEPT ![p] = "acknowledging"]
         /\ task' = [task EXCEPT ![p] = Null]
         /\ Promise!Deliver(e)
    ELSE /\ pc' = [pc EXCEPT ![p] = "checking"]
         /\ task' = [task EXCEPT ![p] = FirstOf(ports)]
         /\ UNCHANGED outbox

(* bus.publish of a claimed event.  Outbox shows that a replica has a      *)
(* stored event to itself unless it is late, and when it comes again.      *)
Publish(p, e) ==
    /\ pc[p] = "idle"
    /\ topic[e] # Null
    /\ Promise!InHand(e)
    /\ deliveries[e] = 0 \/ lostAck[e] \/ late[e]
    /\ Publishers(e) = {} \/ late[e]
    /\ current' = [current EXCEPT ![p] = e]
    /\ GoOn(p, e, PortsOf(topic[e][2]))
    /\ UNCHANGED << topic, processed, pending, history, faults >>

(* The ports after the present one. *)
Others(p) ==
    IF task[p] = "notifications"
    THEN PortsOf(topic[current[p]][2]) \ {"notifications"}
    ELSE {}

Working(e, port) ==
    {q \in Processors : /\ pc[q] \in {"sending", "recording"}
                        /\ task[q] = port
                        /\ topic[current[q]] = topic[e]}

(* Mutant: the answer of isProcessed is not used *)
BeginAnyway(p) ==
    /\ pc[p] = "checking"
    /\ pc' = [pc EXCEPT ![p] = "sending"]
    /\ pending' = [pending EXCEPT ![p] = ReachedBy(task[p])]
    /\ UNCHANGED << outbox, topic, processed, current, task, history, faults >>

(* isProcessed: skip the task or begin it. *)
Check(p) ==
    LET e == current[p]
    IN  /\ pc[p] = "checking"
        /\ IF Key(e, task[p]) \in processed
           THEN GoOn(p, e, Others(p)) /\ UNCHANGED << pending, overlapped >>
           ELSE /\ pc' = [pc EXCEPT ![p] = "sending"]
                /\ pending' = [pending EXCEPT ![p] = ReachedBy(task[p])]
                /\ overlapped' =
                      IF Working(e, task[p]) = {}
                      THEN overlapped
                      ELSE overlapped \cup {<< topic[e], task[p] >>}
                /\ UNCHANGED << outbox, task >>
        /\ UNCHANGED << topic, processed, current, reached, refused, sent, cut,
                        faults >>

(* The client is told before the catering company. *)
NextOf(recipients) ==
    IF "client" \in recipients THEN "client"
                               ELSE CHOOSE r \in recipients : TRUE

Fault == faults < MaxFaults /\ faults' = faults + 1

(* One send or track of the task. *)
Call(p, r) ==
    /\ pc[p] = "sending"
    /\ r = NextOf(pending[p])
    /\ pending' = [pending EXCEPT ![p] = @ \ {r}]
    /\ pc' = [pc EXCEPT ![p] = IF pending[p] = {r} THEN "recording" ELSE @]
    /\ UNCHANGED << outbox, topic, processed, current, task, cut, overlapped >>

Reach(p, r) ==
    /\ Call(p, r)
    /\ reached' = [reached EXCEPT ![current[p]] = @ \cup {r}]
    /\ sent' = [sent EXCEPT ![topic[current[p]]][r] = IF @ = 0 THEN 1 ELSE 2]
    /\ UNCHANGED << refused, faults >>

(* send resolves with success = false, which the handler does not look at. *)
Refuse(p, r) ==
    /\ Call(p, r)
    /\ task[p] = "notifications"
    /\ Fault
    /\ refused' = refused \cup {<< topic[current[p]], r >>}
    /\ UNCHANGED << reached, sent >>

(* Mutant: the record is never inserted *)
RecordNothing(p) ==
    /\ pc[p] = "recording"
    /\ GoOn(p, current[p], Others(p))
    /\ UNCHANGED << topic, processed, current, pending, history, faults >>

(* markProcessed inserts, or finds the record of another replica there and *)
(* recognises the unique violation.                                        *)
Record(p) ==
    /\ pc[p] = "recording"
    /\ processed' = processed \cup {Key(current[p], task[p])}
    /\ GoOn(p, current[p], Others(p))
    /\ UNCHANGED << topic, current, pending, history, faults >>

(* Publishing throws: processEvent counts a failed attempt. *)
Throw(p) ==
    /\ Promise!FailAttempt(current[p])
    /\ UNCHANGED lostAck
    /\ Rest(p)

(* The driver's error comes wrapped and markProcessed throws it on. *)
RecordThrows(p) ==
    /\ pc[p] = "recording"
    /\ Key(current[p], task[p]) \in processed
    /\ Throw(p)
    /\ UNCHANGED << topic, processed, history, faults >>

(* A task that reached someone ends without its record. *)
CutShort(p) ==
    IF \/ pc[p] = "recording"
       \/ pc[p] = "sending" /\ pending[p] # ReachedBy(task[p])
    THEN {<< topic[current[p]], task[p] >>}
    ELSE {}

(* Mutant: what a task throws is logged and the task recorded *)
FailureSwallowed(p) ==
    /\ pc[p] = "sending"
    /\ Fault
    /\ pc' = [pc EXCEPT ![p] = "recording"]
    /\ pending' = [pending EXCEPT ![p] = {}]
    /\ UNCHANGED << outbox, topic, processed, current, task, history >>

(* A statement or a call of a port throws. *)
HandlerFails(p) ==
    /\ pc[p] \in {"checking", "sending", "recording"}
    /\ Fault
    /\ cut' = cut \cup CutShort(p)
    /\ Throw(p)
    /\ UNCHANGED << topic, processed, reached, refused, sent, overlapped >>

(* The outbox row is marked PROCESSED. *)
Acknowledge(p) ==
    /\ pc[p] = "acknowledging"
    /\ Promise!Complete(current[p])
    /\ Rest(p)
    /\ UNCHANGED << topic, processed, history, faults >>

(* The UPDATE to PROCESSED throws: it was not applied, or only its answer  *)
(* is lost.  Either way processEvent counts a failed attempt.              *)
AcknowledgeFails(p) ==
    /\ pc[p] = "acknowledging"
    /\ Fault
    /\ \/ /\ Promise!FailAttempt(current[p])
          /\ lostAck' = [lostAck EXCEPT ![current[p]] = TRUE]
       \/ /\ Promise!LoseReply(current[p])
          /\ failures' = Promise!OneMoreFailure(current[p])
    /\ Rest(p)
    /\ UNCHANGED << topic, processed, history >>

(* The replica is gone.  Its event is found again by its stale lock. *)
Crash(p) ==
    /\ pc[p] # "idle"
    /\ Fault
    /\ cut' = cut \cup CutShort(p)
    /\ IF pc[p] = "acknowledging"
       THEN Promise!LoseAck(current[p])
       ELSE UNCHANGED outbox
    /\ Rest(p)
    /\ UNCHANGED << topic, processed, reached, refused, sent, overlapped >>

Next ==
    \/ \E e \in Events, k \in Topics : Store(e, k)
    \/ OutboxStep
    \/ \E p \in Processors :
          \/ \E e \in Events : Publish(p, e)
          \/ Check(p)
          \/ \E r \in Recipients : Reach(p, r) \/ Refuse(p, r)
          \/ Record(p)
          \/ RecordThrows(p)
          \/ HandlerFails(p)
          \/ Acknowledge(p)
          \/ AcknowledgeFails(p)
          \/ Crash(p)

Spec == Init /\ [][Next]_vars

-----------------------------------------------------------------------------
(* Properties *)

(* Every variable has its type, and a replica's memory fits its step. *)
TypeOK ==
    /\ state \in [Events -> {"none", "open", "done", "dead", "unsure"}]
    /\ deliveries \in [Events -> 0 .. 2]
    /\ failures \in [Events -> 0 .. MaxRetries]
    /\ lostAck \in [Events -> BOOLEAN] /\ late \in [Events -> BOOLEAN]
    /\ topic \in [Events -> Topics \cup {Null}]
    /\ processed \in SUBSET (Topics \X Ports)
    /\ pc \in [Processors -> Steps]
    /\ current \in [Processors -> Events \cup {Null}]
    /\ task \in [Processors -> Ports \cup {Null}]
    /\ pending \in [Processors -> SUBSET Recipients]
    /\ reached \in [Events -> SUBSET Recipients]
    /\ refused \in SUBSET (Topics \X Recipients)
    /\ sent \in [Topics -> [Recipients -> 0 .. 2]]
    /\ cut \in SUBSET (Topics \X Ports)
    /\ overlapped \in SUBSET (Topics \X Ports)
    /\ faults \in 0 .. MaxFaults
    /\ \A e \in Events : state[e] = "none" <=> topic[e] = Null
    /\ \A p \in Processors :
          /\ pc[p] = "idle" <=> current[p] = Null
          /\ pc[p] \in {"idle", "acknowledging"} <=> task[p] = Null
          /\ pc[p] = "sending" <=> pending[p] # {}

(* A record is there only if every recipient of its task was reached about *)
(* that topic or refused it: no exception in the middle of a task is taken *)
(* for success, but a refusal is.                                          *)
RecordedWasReached ==
    \A k \in Topics, port \in Ports :
       << k, port >> \in processed =>
          \E e \in Events :
             /\ topic[e] = k
             /\ \A r \in ReachedBy(port) :
                   r \in reached[e] \/ << k, r >> \in refused

(* A publish that resolved leaves a record of every task of its handler,   *)
(* its own or an earlier one, and so does an event that is done.           *)
ResolvedIsRecorded ==
    \A e \in Events :
       topic[e] # Null /\ (deliveries[e] > 0 \/ state[e] = "done") =>
          \A port \in PortsOf(topic[e][2]) : << topic[e], port >> \in processed

(* The records of processed_events are true of what happened (Idempotency- *)
(* Service.processOnce 101-121).                                           *)
RecordsAreTrue == RecordedWasReached /\ ResolvedIsRecorded

(* A recipient is reached twice about a topic only if a task ended between *)
(* its first call and its record, or two replicas had it at a time.  These *)
(* two cases are against contract.event-handlers.ts 26-27 ("side effects   *)
(* like emails are only executed once") and 71 ("sent exactly once, even   *)
(* if the event is processed multiple times"): the calls come before the   *)
(* record (73-98, idempotency.service.ts 101-121), so a task that ends in  *)
(* between runs again, and the check does not keep another replica out.    *)
RepeatsAreExplained ==
    \A k \in Topics, port \in Ports :
       (\E r \in ReachedBy(port) : sent[k][r] > 1) =>
          << k, port >> \in cut \cup overlapped

(* Nothing has become yet of an event that is not stored, and a replica    *)
(* publishes stored ones.                                                  *)
StoredFirst ==
    /\ \A e \in Events : state[e] = "none" => deliveries[e] = 0 /\ ~late[e]
    /\ \A p \in Processors : pc[p] # "idle" => topic[current[p]] # Null

(* How far a replica is in the handler: the ports before its task are      *)
(* recorded, and whom its task need not reach any more has been reached,   *)
(* or refused it.                                                          *)
HandlersProgress ==
    \A p \in Processors : task[p] # Null =>
        LET e     == current[p]
            ports == PortsOf(topic[e][2])
        IN  /\ task[p] \in ports
            /\ pending[p] \subseteq ReachedBy(task[p])
            /\ \A port \in ports \ ({task[p]} \cup Others(p)) :
                  << topic[e], port >> \in processed
            /\ pc[p] # "checking" =>
                  \A r \in ReachedBy(task[p]) \ pending[p] :
                     r \in reached[e] \/ << topic[e], r >> \in refused

WorkingOn(k, port) ==
    {p \in Processors : /\ pc[p] \in {"sending", "recording"}
                        /\ task[p] = port
                        /\ topic[current[p]] = k}

(* Unless it was cut or overlapped, the task of a port for a topic is in   *)
(* the hands of one replica at most, and of none once recorded; it has     *)
(* reached each recipient once at most, and before its record only those   *)
(* that the replica at work need not reach any more.                       *)
TasksRunOnce ==
    \A k \in Topics, port \in Ports : << k, port >> \notin cut \cup overlapped =>
        /\ \A p, q \in WorkingOn(k, port) : p = q
        /\ << k, port >> \in processed => WorkingOn(k, port) = {}
        /\ \A r \in ReachedBy(port) :
              /\ sent[k][r] <= 1
              /\ sent[k][r] > 0 =>
                    \/ << k, port >> \in processed
                    \/ \E p \in WorkingOn(k, port) : r \notin pending[p]

(* The invariants of this module, with what they rest on.                  *)
IndInv ==
    /\ TypeOK /\ StoredFirst /\ HandlersProgress /\ TasksRunOnce
    /\ RecordsAreTrue

(* "Guaranteed event delivery": README.md, line 223. *)
DoneReachedAll ==
    \A e \in Events :
       state[e] = "done" => RecipientsOf(topic[e][2]) \subseteq reached[e]
=============================================================================
