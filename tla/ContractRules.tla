--------------------------- MODULE ContractRules ---------------------------
(***************************************************************************)
(* The life of a contract as the domain rules state it                     *)
(* (src/src/modules/contract/domain/contract.rules.ts): which action is    *)
(* allowed in which status and where it leads.  Nothing here knows of      *)
(* requests or of the database.  The service never calls these rules.      *)
(* ContractLifecycle implements them but for two actions that are here     *)
(* because of the service, not of the rules: Overwrite and TerminateAgain. *)
(***************************************************************************)
EXTENDS Naturals

CONSTANT Contracts

VARIABLES
    status,   \* "NONE" until the contract exists
    raced,    \* a write to the contract overtook another's read and write
    ended     \* terminations that were told of, counted up to 2

vars == << status, raced, ended >>

ContractStatus == {"ACTIVE", "PAUSED", "TERMINATED"}
ContractAction == {"pause", "resume", "terminate"}

VALID_TRANSITIONS ==
    [s \in ContractStatus |->
        CASE s = "ACTIVE"     -> {"pause", "terminate"}
          [] s = "PAUSED"     -> {"resume", "terminate"}
          [] s = "TERMINATED" -> {}]

canTransition(currentStatus, action) ==
    action \in VALID_TRANSITIONS[currentStatus]

(* The status an allowed action leads to. *)
NextStatus(action) ==
    CASE action = "pause"     -> "PAUSED"
      [] action = "resume"    -> "ACTIVE"
      [] action = "terminate" -> "TERMINATED"

Init ==
    /\ status = [c \in Contracts |-> "NONE"]
    /\ raced  = [c \in Contracts |-> FALSE]
    /\ ended  = [c \in Contracts |-> 0]

(* The contract takes a status; a termination is told of. *)
Become(c, s) ==
    /\ status' = [status EXCEPT ![c] = s]
    /\ ended' = [ended EXCEPT ![c] =
           IF s = "TERMINATED" /\ @ < 2 THEN @ + 1 ELSE @]

Create(c) ==
    /\ status[c] = "NONE"
    /\ Become(c, "ACTIVE")
    /\ UNCHANGED raced

Act(c, action) ==
    /\ status[c] # "NONE"
    /\ canTransition(status[c], action)
    /\ Become(c, NextStatus(action))
    /\ UNCHANGED raced

(* Against the rules: a write that was decided on a status that another    *)
(* has replaced since.  The contract takes whatever status it brings.      *)
Overwrite(c) ==
    /\ status[c] # "NONE"
    /\ raced' = [raced EXCEPT ![c] = TRUE]
    /\ \E s \in ContractStatus : Become(c, s)

(* Against the rules: a terminated contract is terminated once more. *)
TerminateAgain(c) ==
    /\ status[c] = "TERMINATED"
    /\ Become(c, "TERMINATED")
    /\ UNCHANGED raced

Next ==
    \E c \in Contracts :
       \/ Create(c)
       \/ \E action \in ContractAction : Act(c, action)
       \/ Overwrite(c)
       \/ TerminateAgain(c)

Spec == Init /\ [][Next]_vars
=============================================================================
