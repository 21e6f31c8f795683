---------------------------- MODULE AtLeastOnce ----------------------------
(***************************************************************************)
(* What the outbox promises of an event, without rows, replicas, locks or  *)
(* time.  An accepted event is never forgotten: it stays open until a      *)
(* delivery of it succeeded (done) or MaxRetries attempts on it failed     *)
(* (dead).  It is delivered once, and done is final, unless a worker was   *)
(* late with it or does not know that it recorded the delivery (unsure);   *)
(* only then may it be delivered again, or leave done.  Outbox implements  *)
(* this specification.                                                     *)
(***************************************************************************)
EXTENDS Naturals

CONSTANTS Events, MaxRetries

VARIABLES
    state,        \* "none", "open", "done", "dead", or "unsure": recorded as
                  \* done, but the worker that recorded it takes it for failed
    deliveries,   \* successful deliveries, counted up to 2
    failures,     \* failed attempts, counted up to MaxRetries
    lostAck,      \* a successful delivery has a worker that knows no record
    late          \* some worker held the event beyond its lease

vars == << state, deliveries, failures, lostAck, late >>

Init ==
    /\ state      = [e \in Events |-> "none"]
    /\ deliveries = [e \in Events |-> 0]
    /\ failures   = [e \in Events |-> 0]
    /\ lostAck    = [e \in Events |-> FALSE]
    /\ late       = [e \in Events |-> FALSE]

(* Work on an event goes on while it is open, or behind its back if late. *)
InHand(e) == state[e] = "open" \/ late[e]

(* Some worker may still write the outcome. *)
Unsettled(e) == InHand(e) \/ state[e] = "unsure"

OneMoreFailure(e) ==
    [failures EXCEPT ![e] = IF @ < MaxRetries THEN @ + 1 ELSE @]

Accept(e) ==
    /\ state[e] = "none"
    /\ state' = [state EXCEPT ![e] = "open"]
    /\ UNCHANGED << deliveries, failures, lostAck, late >>

Deliver(e) ==
    /\ InHand(e)
    /\ deliveries[e] = 0 \/ lostAck[e] \/ late[e]
    /\ deliveries' =
          [deliveries EXCEPT ![e] = IF @ = 0 THEN 1 ELSE 2]
    /\ UNCHANGED << state, failures, lostAck, late >>

(* The record of a delivery, or the end of a worker that was unsure. *)
Complete(e) ==
    /\ Unsettled(e)
    /\ deliveries[e] > 0
    /\ state' = [state EXCEPT ![e] = "done"]
    /\ UNCHANGED << deliveries, failures, lostAck, late >>

(* An attempt fails, perhaps one whose delivery had succeeded. *)
FailAttempt(e) ==
    /\ InHand(e)
    /\ failures' = OneMoreFailure(e)
    /\ lostAck' \in {lostAck, [lostAck EXCEPT ![e] = deliveries[e] > 0]}
    /\ UNCHANGED << state, deliveries, late >>

(* The worker is gone before it could record a successful delivery. *)
LoseAck(e) ==
    /\ InHand(e)
    /\ deliveries[e] > 0
    /\ lostAck' = [lostAck EXCEPT ![e] = TRUE]
    /\ UNCHANGED << state, deliveries, failures, late >>

(* The delivery is recorded, but the answer is lost, and the worker takes  *)
(* it for a failed attempt.                                                *)
LoseReply(e) ==
    /\ InHand(e)
    /\ deliveries[e] > 0
    /\ state' = [state EXCEPT ![e] = "unsure"]
    /\ lostAck' = [lostAck EXCEPT ![e] = TRUE]
    /\ failures' \in {failures, OneMoreFailure(e)}
    /\ UNCHANGED << deliveries, late >>

GiveUp(e) ==
    /\ Unsettled(e)
    /\ failures[e] = MaxRetries
    /\ state' = [state EXCEPT ![e] = "dead"]
    /\ UNCHANGED << deliveries, failures, lostAck, late >>

Requeue(S) ==
    /\ \A e \in S : state[e] = "dead"
    /\ state' = [e \in Events |-> IF e \in S THEN "open" ELSE state[e]]
    /\ UNCHANGED << deliveries, failures, lostAck, late >>

(* A late worker overwrites the outcome that another has recorded, or an   *)
(* unsure one what it has recorded itself.                                 *)
Reopen(e) ==
    /\ \/ late[e] /\ state[e] \in {"done", "dead"}
       \/ state[e] = "unsure"
    /\ state' = [state EXCEPT ![e] = "open"]
    /\ UNCHANGED << deliveries, failures, lostAck, late >>

Overrun(S) ==
    /\ \A e \in S : Unsettled(e)
    /\ late' = [e \in Events |-> late[e] \/ e \in S]
    /\ UNCHANGED << state, deliveries, failures, lostAck >>

Next ==
    \/ \E e \in Events :
          \/ Accept(e)
          \/ Deliver(e)
          \/ Complete(e)
          \/ FailAttempt(e)
          \/ LoseAck(e)
          \/ LoseReply(e)
          \/ GiveUp(e)
          \/ Reopen(e)
    \/ \E S \in SUBSET Events : Requeue(S) \/ Overrun(S)

Spec == Init /\ [][Next]_vars
=============================================================================
