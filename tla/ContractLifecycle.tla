------------------------- MODULE ContractLifecycle -------------------------
(***************************************************************************)
(* ContractService: creating, pausing, resuming and terminating contracts  *)
(* (src/src/modules/contract/application/contract.service.ts), and the     *)
(* company updates that its checks depend on.  A request is a sequence of  *)
(* awaited statements.  It decides on committed rows it has read and       *)
(* writes later, by id, without checking that they are still the same;     *)
(* other requests run in between.  The write is a transaction of its own:  *)
(* the row, then the domain event in the outbox, then COMMIT, and it may   *)
(* fail at each.  What keeps two transactions apart is the lock on the     *)
(* row and the partial unique index ux_contract_active_pair.               *)
(***************************************************************************)
EXTENDS Naturals

CONSTANTS
    Caterings,   \* companies of type CATERING
    Clients,     \* companies of type CLIENT
    Contracts,   \* contract ids
    Requests,    \* requests that can be in flight at a time
    Null

Companies      == Caterings \cup Clients
Pairs          == Caterings \X Clients
CompanyStatus  == {"ACTIVE", "INACTIVE"}
ContractStatus == {"ACTIVE", "PAUSED", "TERMINATED"}
ContractAction == {"pause", "resume", "terminate"}

ASSUME NullAssumption ==
    Null \notin Pairs \cup Contracts \cup ContractStatus
                \cup ContractAction \cup {"create"}

(* An event's previousStatus, if it has one, and the status it tells of *)
ContractEvents ==
    [previousStatus : ContractStatus \cup {Null},
     newStatus      : ContractStatus \cup {"NONE"}]

NoEvent == [previousStatus |-> Null, newStatus |-> "NONE"]

VARIABLES
    companyStatus,
    (* The contracts table, as far as it is committed *)
    status,        \* "NONE" until the row is there
    pair,          \* << cateringCompanyId, clientCompanyId >>
    (* The outbox, as far as it is committed and concerns a contract *)
    event,         \* the last event stored for it
    (* Each request's memory *)
    pc,
    parties,       \* the companies of its contract
    target,        \* its contract
    action,
    seen,          \* the target's status when it was read
    (* Each request's transaction, which nobody sees before COMMIT *)
    row,           \* the status it has written to its target
    stored,        \* the event it has stored
    (* What happened so far, for the properties; no action reads it *)
    flipped,       \* companies updated since the request began
    overtaken,     \* the target was written by another since it was read
    raced,         \* contracts written by a request that was overtaken
    ended          \* terminations of a contract, counted up to 2

tables      == << companyStatus, status, pair, event >>
memory      == << pc, parties, target, action, seen >>
transaction == << row, stored >>
history     == << flipped, overtaken, raced, ended >>
vars        == << tables, memory, transaction, history >>

Written == {"storing", "committing"}
Steps   == {"idle", "checkingClient", "checkingExisting", "inserting",
            "writing"} \cup Written

Init ==
    /\ companyStatus = [o \in Companies |-> "ACTIVE"]
    /\ status        = [c \in Contracts |-> "NONE"]
    /\ pair          = [c \in Contracts |-> Null]
    /\ event         = [c \in Contracts |-> NoEvent]
    /\ pc            = [r \in Requests |-> "idle"]
    /\ parties       = [r \in Requests |-> Null]
    /\ target        = [r \in Requests |-> Null]
    /\ action        = [r \in Requests |-> Null]
    /\ seen          = [r \in Requests |-> Null]
    /\ row           = [r \in Requests |-> Null]
    /\ stored        = [r \in Requests |-> NoEvent]
    /\ flipped       = [r \in Requests |-> {}]
    /\ overtaken     = [r \in Requests |-> FALSE]
    /\ raced         = [c \in Contracts |-> FALSE]
    /\ ended         = [c \in Contracts |-> 0]

-----------------------------------------------------------------------------
(* The request answers, or throws: its local variables are gone, and of    *)
(* its transaction what was not committed.                                 *)
EndRequest(r) ==
    /\ pc'      = [pc EXCEPT ![r] = "idle"]
    /\ parties' = [parties EXCEPT ![r] = Null]
    /\ target'  = [target EXCEPT ![r] = Null]
    /\ action'  = [action EXCEPT ![r] = Null]
    /\ seen'    = [seen EXCEPT ![r] = Null]
    /\ row'     = [row EXCEPT ![r] = Null]
    /\ stored'  = [stored EXCEPT ![r] = NoEvent]
    /\ flipped' = [flipped EXCEPT ![r] = {}]

(* A request that a check turns away, or whose statement throws: a         *)
(* transaction that had begun is rolled back.                              *)
Reject(r) ==
    /\ EndRequest(r)
    /\ overtaken' = [overtaken EXCEPT ![r] = FALSE]
    /\ UNCHANGED << tables, raced, ended >>

Proceed(r, step) ==
    /\ pc' = [pc EXCEPT ![r] = step]
    /\ UNCHANGED << tables, parties, target, action, seen, transaction,
                    history >>

-----------------------------------------------------------------------------
(* The row lock and the index *)

(* The transactions that have written a row and not ended. *)
Holders(c) == {r \in Requests : row[r] # Null /\ target[r] = c}

(* Transactions of whose end it depends whether the pair has an ACTIVE     *)
(* contract.                                                               *)
Undecided(p) ==
    {r \in Requests : /\ row[r] # Null
                      /\ parties[r] = p
                      /\ "ACTIVE" \in {row[r], status[target[r]]}}

(* ux_contract_active_pair: one ACTIVE contract per pair of companies *)
ActiveFor(p) == {c \in Contracts : status[c] = "ACTIVE" /\ pair[c] = p}

(* Mutant: the index is not looked at *)
IgnoreIndex(c, p) == TRUE

IndexAllows(c, p) == ActiveFor(p) \subseteq {c}

(* The row of r's contract is written, for r's transaction alone.  The     *)
(* statement waits, that is, the step cannot be taken, while another       *)
(* transaction has the row, or has left the index open for the pair; the   *)
(* index then lets an ACTIVE row in or makes the statement throw.          *)
WriteRow(r, c, s) ==
    /\ Holders(c) = {}
    /\ s = "ACTIVE" => Undecided(parties[r]) = {}
    /\ IF s = "ACTIVE" => IndexAllows(c, parties[r])
       THEN /\ pc' = [pc EXCEPT ![r] = "storing"]
            /\ target' = [target EXCEPT ![r] = c]
            /\ row' = [row EXCEPT ![r] = s]
            /\ UNCHANGED << tables, parties, action, seen, stored, history >>
       ELSE Reject(r)

-----------------------------------------------------------------------------
(* create *)

(* The catering company exists, is of its type and is active. *)
CheckCatering(r, p) ==
    /\ pc[r] = "idle"
    /\ companyStatus[p[1]] = "ACTIVE"
    /\ pc' = [pc EXCEPT ![r] = "checkingClient"]
    /\ parties' = [parties EXCEPT ![r] = p]
    /\ action' = [action EXCEPT ![r] = "create"]
    /\ UNCHANGED << tables, target, seen, transaction, history >>

(* Mutant: the client is not looked up *)
AssumeClient(r) ==
    /\ pc[r] = "checkingClient"
    /\ Proceed(r, "checkingExisting")

CheckClient(r) ==
    /\ pc[r] = "checkingClient"
    /\ IF companyStatus[parties[r][2]] = "ACTIVE"
       THEN Proceed(r, "checkingExisting")
       ELSE Reject(r)

CheckExisting(r) ==
    /\ pc[r] = "checkingExisting"
    /\ IF ActiveFor(parties[r]) = {}
       THEN Proceed(r, "inserting")
       ELSE Reject(r)

(* BEGIN, the new row and its service days. *)
InsertContract(r, c) ==
    /\ pc[r] = "inserting"
    /\ status[c] = "NONE"
    /\ WriteRow(r, c, "ACTIVE")

-----------------------------------------------------------------------------
(* pause, resume, terminate *)

(* Mutant: resume checks only that the contract is not already active *)
AcceptsUnlessThere(a, s) ==
    \/ a = "pause"     /\ s = "ACTIVE"
    \/ a = "resume"    /\ s # "ACTIVE"
    \/ a = "terminate"

(* The service's own checks.  terminate has none. *)
Accepts(a, s) ==
    \/ a = "pause"     /\ s \notin {"TERMINATED", "PAUSED"}
    \/ a = "resume"    /\ s \notin {"TERMINATED", "ACTIVE"}
    \/ a = "terminate"

NewStatus(a) ==
    CASE a = "pause"                -> "PAUSED"
      [] a \in {"resume", "create"} -> "ACTIVE"
      [] a = "terminate"            -> "TERMINATED"

(* Mutant: none of the checks on the row is made *)
ReadAnyContract(r, c, a) ==
    /\ pc[r] = "idle"
    /\ pc'      = [pc EXCEPT ![r] = "writing"]
    /\ parties' = [parties EXCEPT ![r] = pair[c]]
    /\ target'  = [target EXCEPT ![r] = c]
    /\ action'  = [action EXCEPT ![r] = a]
    /\ seen'    = [seen EXCEPT ![r] = status[c]]
    /\ UNCHANGED << tables, transaction, history >>

(* findOne and the checks on what it returned.  The controller has read    *)
(* the row once before, for its companies, which never change.             *)
ReadContract(r, c, a) ==
    /\ pc[r] = "idle"
    /\ status[c] # "NONE"
    /\ Accepts(a, status[c])
    /\ pc'      = [pc EXCEPT ![r] = "writing"]
    /\ parties' = [parties EXCEPT ![r] = pair[c]]
    /\ target'  = [target EXCEPT ![r] = c]
    /\ action'  = [action EXCEPT ![r] = a]
    /\ seen'    = [seen EXCEPT ![r] = status[c]]
    /\ UNCHANGED << tables, transaction, history >>

(* BEGIN and UPDATE ... WHERE id. *)
UpdateContract(r) ==
    /\ pc[r] = "writing"
    /\ WriteRow(r, target[r], NewStatus(action[r]))

-----------------------------------------------------------------------------
(* The event and the end of the transaction *)

(* What the request tells of its contract: created and terminated have no  *)
(* previousStatus, paused and resumed the one that was read.               *)
EventOf(r) ==
    [previousStatus |->
         IF action[r] \in {"pause", "resume"} THEN seen[r] ELSE Null,
     newStatus |-> NewStatus(action[r])]

(* Mutant: the event is stored through a connection of its own *)
StoreEventAtOnce(r) ==
    /\ pc[r] = "storing"
    /\ event' = [event EXCEPT ![target[r]] = EventOf(r)]
    /\ stored' = [stored EXCEPT ![r] = EventOf(r)]
    /\ pc' = [pc EXCEPT ![r] = "committing"]
    /\ UNCHANGED << companyStatus, status, pair, parties, target, action,
                    seen, row, history >>

(* OutboxRepository.storeEvent in the same transaction *)
StoreEvent(r) ==
    /\ pc[r] = "storing"
    /\ stored' = [stored EXCEPT ![r] = EventOf(r)]
    /\ pc' = [pc EXCEPT ![r] = "committing"]
    /\ UNCHANGED << tables, parties, target, action, seen, row, history >>

(* COMMIT: row and event are there for everybody.  Whether the request     *)
(* hears of it makes no difference to what it leaves.                      *)
Commit(r) ==
    LET c == target[r]
    IN  /\ pc[r] = "committing"
        /\ status' = [status EXCEPT ![c] = row[r]]
        /\ pair' = [pair EXCEPT ![c] = parties[r]]
        /\ event' = [event EXCEPT ![c] = stored[r]]
        /\ EndRequest(r)
        /\ overtaken' = [q \in Requests |->
               q # r /\ (overtaken[q] \/ target[q] = c)]
        /\ raced' = [raced EXCEPT ![c] = @ \/ overtaken[r]]
        /\ ended' = [ended EXCEPT ![c] =
               IF row[r] = "TERMINATED" /\ @ < 2 THEN @ + 1 ELSE @]
        /\ UNCHANGED companyStatus

(* A statement throws, or the process is gone. *)
Fail(r) == pc[r] # "idle" /\ Reject(r)

-----------------------------------------------------------------------------
(* update and softDelete of ClientService and of CateringService; an       *)
(* update may bring a company back.                                        *)
SetCompanyStatus(o, s) ==
    /\ companyStatus[o] # s
    /\ companyStatus' = [companyStatus EXCEPT ![o] = s]
    /\ flipped' = [r \in Requests |->
           IF pc[r] = "idle" THEN {} ELSE flipped[r] \cup {o}]
    /\ UNCHANGED << status, pair, event, memory, transaction, overtaken,
                    raced, ended >>

RequestStep(r) ==
    \/ \E p \in Pairs : CheckCatering(r, p)
    \/ CheckClient(r)
    \/ CheckExisting(r)
    \/ \E c \in Contracts : InsertContract(r, c)
    \/ \E c \in Contracts, a \in ContractAction : ReadContract(r, c, a)
    \/ UpdateContract(r)
    \/ StoreEvent(r)
    \/ Commit(r)
    \/ Fail(r)

Next ==
    \/ \E r \in Requests : RequestStep(r)
    \/ \E o \in Companies, s \in CompanyStatus : SetCompanyStatus(o, s)

Spec == Init /\ [][Next]_vars

-----------------------------------------------------------------------------
(* Properties *)

TablesTypeOK ==
    /\ companyStatus \in [Companies -> CompanyStatus]
    /\ status \in [Contracts -> ContractStatus \cup {"NONE"}]
    /\ pair \in [Contracts -> Pairs \cup {Null}]
    /\ event \in [Contracts -> ContractEvents]

MemoryTypeOK ==
    /\ pc \in [Requests -> Steps]
    /\ parties \in [Requests -> Pairs \cup {Null}]
    /\ target \in [Requests -> Contracts \cup {Null}]
    /\ action \in [Requests -> ContractAction \cup {"create", Null}]
    /\ seen \in [Requests -> ContractStatus \cup {Null}]
    /\ row \in [Requests -> ContractStatus \cup {Null}]
    /\ stored \in [Requests -> ContractEvents]

HistoryTypeOK ==
    /\ flipped \in [Requests -> SUBSET Companies]
    /\ overtaken \in [Requests -> BOOLEAN]
    /\ raced \in [Contracts -> BOOLEAN]
    /\ ended \in [Contracts -> 0 .. 2]

(* A request holds what its step needs and nothing else. *)
ControlOK ==
    /\ \A c \in Contracts : status[c] = "NONE" <=> pair[c] = Null
    /\ \A r \in Requests :
          /\ pc[r] = "idle" <=> parties[r] = Null
          /\ pc[r] = "idle" <=> action[r] = Null
          /\ pc[r] \in {"writing"} \cup Written <=> target[r] # Null
          /\ pc[r] \in Written <=> row[r] # Null
          /\ pc[r] = "writing" => action[r] # "create"
          /\ seen[r] = Null => ~overtaken[r]
          /\ IF target[r] # Null /\ action[r] # "create"
             THEN pair[target[r]] = parties[r] /\ seen[r] # Null
             ELSE seen[r] = Null /\ action[r] \in {"create", Null}

(* Every variable has its type, and a request's memory fits its step. *)
TypeOK == TablesTypeOK /\ MemoryTypeOK /\ HistoryTypeOK /\ ControlOK

(* Two companies have at most one ACTIVE contract, although both create    *)
(* and resume decide on what they read earlier.                            *)
OneActivePerPair ==
    \A c, d \in Contracts :
       /\ status[c] = "ACTIVE"
       /\ status[d] = "ACTIVE"
       /\ pair[c] = pair[d]
       => c = d

(* The events tell the life of a contract without a gap: whenever its row  *)
(* or its last event changes for the others, the event tells of the status *)
(* that the row then has, and as previousStatus, if it names one, of the   *)
(* status that the row had.  Only a request that was overtaken between its *)
(* read and its write tells of a previousStatus that was another's past.   *)
EventsTellStatus ==
    [][\A c \in Contracts :
          event'[c] # event[c] \/ status'[c] # status[c] =>
             /\ event'[c].newStatus = status'[c]
             /\ \/ event'[c].previousStatus \in {status[c], Null}
                \/ \E r \in Requests :
                      target[r] = c /\ overtaken[r] /\ pc'[r] = "idle"]_vars

(* A contract comes to exist for an inactive company only if the company   *)
(* was updated while the request that creates it was under way.            *)
CreatedForActiveCompanies ==
    [][\A r \in Requests, c \in Contracts :
          /\ action[r] = "create" /\ pc'[r] = "idle"
          /\ status[c] = "NONE" /\ status'[c] # "NONE"
          => \A o \in {pair'[c][1], pair'[c][2]} :
                companyStatus[o] = "ACTIVE" \/ o \in flipped[r]]_vars

(* A request that was not overtaken still has the status it decided on. *)
SeenIsCurrent ==
    \A r \in Requests :
       seen[r] # Null =>
          /\ Accepts(action[r], seen[r])
          /\ ~overtaken[r] => seen[r] = status[target[r]]

(* A company that create has checked is active, unless it was updated      *)
(* since the request began.                                                *)
Vouched(r, o) == companyStatus[o] = "ACTIVE" \/ o \in flipped[r]

CheckedAreActive ==
    \A r \in Requests :
       action[r] = "create" =>
          /\ Vouched(r, parties[r][1])
          /\ pc[r] # "checkingClient" => Vouched(r, parties[r][2])

(* An open transaction has its row to itself, and the pair's place in the  *)
(* index if the row is ACTIVE; what it is about to commit is what its      *)
(* request wants, and a row that it creates is not there yet.              *)
TransactionsAlone ==
    \A r \in Requests :
       /\ row[r] # Null =>
             /\ row[r] = NewStatus(action[r])
             /\ Holders(target[r]) = {r}
             /\ action[r] = "create" => status[target[r]] = "NONE"
       /\ row[r] = "ACTIVE" =>
             /\ \A q \in Requests :
                   row[q] = "ACTIVE" /\ parties[q] = parties[r] => q = r
             /\ ActiveFor(parties[r]) \subseteq {target[r]}
       /\ pc[r] = "committing" => stored[r] = EventOf(r)

(* What the properties and the implementation of the rules rest on. *)
IndInv ==
    /\ TypeOK
    /\ OneActivePerPair
    /\ SeenIsCurrent
    /\ CheckedAreActive
    /\ TransactionsAlone
    /\ \A c \in Contracts : event[c].newStatus = status[c]

Rules == INSTANCE ContractRules

(* Every change of a contract is one that canTransition allows, to the     *)
(* status that getNextStatus gives, and tells of one termination, but for  *)
(* two: what a request writes that was overtaken, and a second termination *)
(* of a contract that is TERMINATED (contract.service.ts 307-308), which   *)
(* the rules forbid.                                                       *)
ImplementsContractRules == Rules!Spec
=============================================================================
