----------------------------- MODULE Companies -----------------------------
(***************************************************************************)
(* Client and catering companies are created, updated and deactivated      *)
(* (src/src/modules/client, src/src/modules/catering).  An update is a     *)
(* transaction of up to four statements in PostgreSQL's READ COMMITTED: a  *)
(* statement sees what was committed when it began, waits for the rows     *)
(* another transaction has written, and passes over those it finds gone    *)
(* when the wait is over.                                                  *)
(*                                                                         *)
(* A company stands for its e-mail address too, which is unique and never  *)
(* updated.  The values written are left out: what matters is which        *)
(* request wrote a row.  A request is one call and is not used again.      *)
(*                                                                         *)
(* The foreign key of client_office_days makes nobody wait.  Its check     *)
(* locks the company's row FOR KEY SHARE, which meets an UPDATE only if    *)
(* that changes a column of a unique index that a foreign key may refer    *)
(* to: id and e-mail are such columns and no update sets them.  The index  *)
(* on tax_id is partial (schema.ts 60-62) and thus not one of these, so a  *)
(* new tax_id takes a FOR NO KEY UPDATE lock, which lets the check pass.   *)
(***************************************************************************)
EXTENDS Naturals, Sequences, FiniteSets

CONSTANTS
    Clients, Caterings,
    Requests,
    Dows,           \* days of the week
    Creation, Nobody,
    MaxFaults       \* bound: transactions that fail of themselves

Companies == Clients \cup Caterings
Writers   == Requests \cup {Creation}

ASSUME CompaniesAssumption ==
    /\ Creation \notin Requests /\ Nobody \notin Writers \cup Companies
    /\ Clients \cap Caterings = {}
    /\ MaxFaults \in Nat

(* The two rows every company has: companies, and its profile *)
Shared == {"company", "profile"}
Fields == Shared \cup {"days"}

(* client_office_days: a row deleted and inserted again is another row *)
DayRow == [dow : Dows, by : Writers]

VARIABLES
    created,    \* companies that are there
    wrote,      \* who wrote each shared row last
    days,       \* committed rows of client_office_days
    req,
    history,    \* history: the committed updates of each company, in order
    faults

vars == << created, wrote, days, req, history, faults >>

Statements == Shared \cup {"delete", "locks", "insert", "commit"}

(* sets are the parts the DTO has fields of; held are the shared rows the  *)
(* transaction has written, target the day rows its DELETE has seen, gone  *)
(* those it has deleted, new those it has inserted.                        *)
request ==
    [company : Companies \cup {Nobody}, sets : SUBSET Fields,
     days : SUBSET Dows, todo : Seq(Statements),
     held : SUBSET Shared, target : SUBSET DayRow, gone : SUBSET DayRow,
     new : SUBSET DayRow]

Unused == [company |-> Nobody, sets |-> {}, days |-> {}, todo |-> << >>,
           held |-> {}, target |-> {}, gone |-> {}, new |-> {}]

Init ==
    /\ created = {}
    /\ wrote   = [c \in Companies |-> [k \in Shared |-> Nobody]]
    /\ days    = [c \in Companies |-> {}]
    /\ req     = [r \in Requests |-> Unused]
    /\ history = [c \in Companies |-> << >>]
    /\ faults  = 0

-----------------------------------------------------------------------------
At(r, s)     == req[r].todo # << >> /\ Head(req[r].todo) = s
Running(r)   == req[r].todo # << >>
Others(r)    == { q \in Requests \ {r} : Running(q)
                                         /\ req[q].company = req[r].company }

(* The rows of an ended transaction are let go *)
Ended(r)     == [req[r] EXCEPT !.todo = << >>, !.held = {}, !.target = {},
                               !.gone = {}, !.new = {}]

(* create: company, profile and office days appear together, or the unique *)
(* index on the address refuses the company.                               *)
Create(c, D) ==
    /\ c \notin created
    /\ created' = created \cup {c}
    /\ wrote' = [wrote EXCEPT ![c] = [k \in Shared |-> Creation]]
    /\ days' = [days EXCEPT ![c] = [dow : D, by : {Creation}]]
    /\ UNCHANGED << req, history, faults >>

CreateClient(c, D) == c \in Clients /\ Create(c, D)
CreateCatering(c)  == c \in Caterings /\ Create(c, {})

(* Mutant: the office days come before the company's row *)
ScriptDaysFirst(sets, D) ==
    (IF "days" \notin sets THEN << >>
     ELSE << "delete", "locks" >>
          \o (IF D = {} THEN << >> ELSE << "insert" >>))
    \o (IF "company" \in sets THEN << "company" >> ELSE << >>)
    \o (IF "profile" \in sets THEN << "profile" >> ELSE << >>)
    \o << "commit" >>

(* Mutant: with office days given, the profile's row comes first *)
ScriptProfileFirst(sets, D) ==
    LET company == IF "company" \in sets THEN << "company" >> ELSE << >>
        profile == IF "profile" \in sets THEN << "profile" >> ELSE << >>
    IN IF "days" \notin sets
       THEN company \o profile \o << "commit" >>
       ELSE profile \o company \o << "delete", "locks" >>
            \o (IF D = {} THEN << >> ELSE << "insert" >>) \o << "commit" >>

(* The statements of an update.  A row is written only if the DTO has one  *)
(* of its fields; the office days are deleted and inserted anew.           *)
Script(sets, D) ==
    (IF "company" \in sets THEN << "company" >> ELSE << >>)
    \o (IF "profile" \in sets THEN << "profile" >> ELSE << >>)
    \o (IF "days" \notin sets THEN << >>
        ELSE << "delete", "locks" >>
             \o (IF D = {} THEN << >> ELSE << "insert" >>))
    \o << "commit" >>

(* findOne throws unless the company and its profile are there.            *)
Found(c) == c \in created

Begin(r, c, sets, D) ==
    /\ req[r] = Unused
    /\ Found(c)
    /\ req' = [req EXCEPT ![r] = [Unused EXCEPT !.company = c, !.sets = sets,
                                                !.days = D,
                                                !.todo = Script(sets, D)]]
    /\ UNCHANGED << created, wrote, days, history, faults >>

UpdateClient(r, c, sets, D) ==
    /\ c \in Clients
    /\ "days" \notin sets => D = {}
    /\ Begin(r, c, sets, D)

UpdateCatering(r, c, sets) ==
    c \in Caterings /\ sets \subseteq Shared /\ Begin(r, c, sets, {})

(* softDelete of both services sets the status, and nothing else.          *)
SoftDelete(r, c) == Begin(r, c, {"company"}, {})

(* UPDATE of a shared row, which the transaction then has to itself        *)
WriteRow(r, k) ==
    /\ At(r, k)
    /\ \A q \in Others(r) : k \notin req[q].held
    /\ req' = [req EXCEPT ![r].held = @ \cup {k}, ![r].todo = Tail(@)]
    /\ UNCHANGED << created, wrote, days, history, faults >>

(* DELETE begins: it is after the rows that are committed now.             *)
DeleteDays(r) ==
    /\ At(r, "delete")
    /\ req' = [req EXCEPT ![r].target = days[req[r].company],
                          ![r].todo = Tail(@)]
    /\ UNCHANGED << created, wrote, days, history, faults >>

(* Mutant: only the days that are given again are deleted *)
DeletedSome(r) == { d \in req[r].target \cap days[req[r].company] :
                      d.dow \in req[r].days }

Deleted(r) == req[r].target \cap days[req[r].company]

(* DELETE ends, when nobody else is deleting one of these rows: it deletes *)
(* those that are still there.                                             *)
LockDays(r) ==
    /\ At(r, "locks")
    /\ \A q \in Others(r) : req[q].gone \cap req[r].target = {}
    /\ req' = [req EXCEPT ![r].gone = Deleted(r), ![r].todo = Tail(@)]
    /\ UNCHANGED << created, wrote, days, history, faults >>

DowsOf(rows) == { d.dow : d \in rows }

(* The primary key (client, dow) refuses a day that is there already.      *)
Taken(r) ==
    DowsOf(days[req[r].company] \ req[r].gone) \cap req[r].days # {}

(* INSERT waits for a transaction that has the same key deleted or         *)
(* inserted; refused, it takes the whole transaction back.                 *)
InsertDays(r) ==
    /\ At(r, "insert")
    /\ \A q \in Others(r) :
         DowsOf(req[q].gone \cup req[q].new) \cap req[r].days = {}
    /\ req' = [req EXCEPT ![r] =
         IF Taken(r) THEN Ended(r)
         ELSE [req[r] EXCEPT !.new = [dow : req[r].days, by : {r}],
                             !.todo = Tail(req[r].todo)]]
    /\ UNCHANGED << created, wrote, days, history, faults >>

(* Mutant: what is inserted is deleted again *)
CommittedEmpty(r) == (days[req[r].company] \cup req[r].new)
                     \ { d \in DayRow : "days" \in req[r].sets }

Committed(r) == (days[req[r].company] \ req[r].gone) \cup req[r].new

Commit(r) ==
    LET c == req[r].company IN
    /\ At(r, "commit")
    /\ wrote' = [wrote EXCEPT ![c] =
         [k \in Shared |-> IF k \in req[r].held THEN r ELSE @[k]]]
    /\ days' = [days EXCEPT ![c] = Committed(r)]
    /\ history' = [history EXCEPT ![c] = Append(@, r)]
    /\ req' = [req EXCEPT ![r] = Ended(r)]
    /\ UNCHANGED << created, faults >>

(* A statement fails, the connection is lost, or PostgreSQL breaks up a    *)
(* deadlock of two multi-row INSERTs: nothing of the transaction stays.    *)
Fail(r) ==
    /\ Running(r) /\ faults < MaxFaults
    /\ faults' = faults + 1
    /\ req' = [req EXCEPT ![r] = Ended(r)]
    /\ UNCHANGED << created, wrote, days, history >>

Step(r) ==
    \/ \E k \in Shared : WriteRow(r, k)
    \/ DeleteDays(r) \/ LockDays(r) \/ InsertDays(r) \/ Commit(r)

Next ==
    \/ \E c \in Companies :
         CreateCatering(c) \/ \E D \in SUBSET Dows : CreateClient(c, D)
    \/ \E r \in Requests, c \in Companies :
         \/ SoftDelete(r, c)
         \/ \E sets \in SUBSET Fields :
              \/ UpdateCatering(r, c, sets)
              \/ \E D \in SUBSET Dows : UpdateClient(r, c, sets, D)
    \/ \E r \in Requests : Step(r) \/ Fail(r)

Spec == Init /\ [][Next]_vars

(* PostgreSQL wakes a transaction when the one it waits for has ended.     *)
FairSpec == Spec /\ \A r \in Requests : WF_vars(Step(r))

-----------------------------------------------------------------------------
RowsBy(c, w) == { d \in days[c] : d.by = w }
Later(c, i)  == { history[c][j] : j \in (i + 1)..Len(history[c]) }

(* Every variable has its type, and a company has each of its office days  *)
(* once.                                                                   *)
TypeOK ==
    /\ created \subseteq Companies
    /\ wrote \in [Companies -> [Shared -> Writers \cup {Nobody}]]
    /\ days \in [Companies -> SUBSET DayRow]
    /\ req \in [Requests -> request]
    /\ history \in [Companies -> Seq(Requests)]
    /\ faults \in 0..MaxFaults
    /\ \A c \in Companies : \A d, e \in days[c] : d.dow = e.dow => d = e

(* Office days of two updates stand side by side only if the two wrote no  *)
(* row in common before: a name, tax id or status in both (or a work mode  *)
(* in both) makes the second wait before its DELETE, which otherwise does  *)
(* not see what the first inserts (client.service.ts 160-197).             *)
MixedDaysShareNoRow ==
    \A c \in Clients : \A d, e \in days[c] :
        d.by # e.by => /\ {d.by, e.by} \subseteq Requests
                       /\ req[d.by].sets \cap req[e.by].sets = {"days"}

(* No update is lost or half there: the update that wrote a shared row     *)
(* last is its last writer, and the office days of the last update that    *)
(* gave any are all there (client.service.ts 154-201).                     *)
WordStays(c, i) ==
    LET r == history[c][i]
    IN /\ \A k \in req[r].sets \cap Shared :
            (\A q \in Later(c, i) : k \notin req[q].sets) => wrote[c][k] = r
       /\ ("days" \in req[r].sets
             /\ (\A q \in Later(c, i) : "days" \notin req[q].sets))
            => DowsOf(RowsBy(c, r)) = req[r].days

LastWordStays ==
    \A c \in Companies : \A i \in DOMAIN history[c] : WordStays(c, i)

(* Nothing is known of a company that is not there, and only one that is   *)
(* is updated.                                                             *)
CreatedFirst ==
    /\ \A c \in Companies \ created : days[c] = {} /\ history[c] = << >>
    /\ \A r \in Requests : Running(r) => req[r].company \in created

(* An office day was there from the start or is of an update that ended,   *)
(* of that company, and so is every update of the history.                 *)
EndedFor(r, c) == ~Running(r) /\ req[r].company = c

CommittedHasEnded ==
    \A c \in Companies :
        /\ \A i \in DOMAIN history[c] : EndedFor(history[c][i], c)
        /\ \A d \in days[c] : d.by # Creation =>
              EndedFor(d.by, c) /\ "days" \in req[d.by].sets

(* What an update has left to do after its DELETE *)
Inserts(D) == IF D = {} THEN << "commit" >> ELSE << "insert", "commit" >>

(* An update whose DELETE of the office days has begun *)
Replacing(r) ==
    "days" \in req[r].sets /\ \E s \in {"locks", "insert", "commit"} : At(r, s)

(* The statements run in the order of the script, and an update has in its *)
(* hands what those that ran gave it.                                      *)
StatementsInOrder(r) ==
    LET q == req[r] IN
    /\ q.held \subseteq q.sets
    /\ ~Running(r) => q.held \cup q.target \cup q.gone \cup q.new = {}
    /\ Running(r) =>
          \/ /\ q.todo = Script(q.sets \ q.held, q.days)
             /\ q.target \cup q.gone \cup q.new = {}
          \/ /\ "days" \in q.sets /\ q.held = q.sets \cap Shared
             /\ \/ /\ q.todo = << "locks" >> \o Inserts(q.days)
                   /\ q.gone \cup q.new = {}
                \/ /\ q.todo = << "insert", "commit" >>
                   /\ q.days # {} /\ q.new = {}
                \/ /\ q.todo = << "commit" >>
                   /\ q.new = [dow : q.days, by : {r}]

InOrder == \A r \in Requests : StatementsInOrder(r)

(* Of two updates of a company, the rows that one has written, deleted or  *)
(* inserted are not also the other's.                                      *)
Apart(r, q) ==
    /\ req[r].held \cap req[q].held = {}
    /\ req[r].gone \cap req[q].gone = {}
    /\ DowsOf(req[r].new) \cap DowsOf(req[q].new) = {}

RowsAreLocked ==
    \A r \in Requests : Running(r) => \A q \in Others(r) : Apart(r, q)

(* What an update that replaces the office days will find at its commit:   *)
(* - the rows its DELETE saw were committed, and those still there it has  *)
(*   deleted;                                                              *)
(* - its DELETE saw all or none of the rows of each other update;          *)
(* - the rows it did not see are of updates it did not have to wait for;   *)
(* - its new rows take no day that would stay.                             *)
FindsItsRows(r) ==
    LET there  == days[req[r].company]
        unseen == there \ req[r].target
    IN /\ \A d \in req[r].target :
             d.by # Creation => EndedFor(d.by, req[r].company)
       /\ ~At(r, "locks") => there \cap req[r].target = req[r].gone
       /\ \A d \in unseen, e \in there : d.by = e.by => e \in unseen
       /\ \A d \in unseen :
             d.by # Creation /\ req[d.by].sets \cap req[r].sets = {"days"}
       /\ DowsOf(there \ req[r].gone) \cap DowsOf(req[r].new) = {}

Replacement == \A r \in Requests : Replacing(r) => FindsItsRows(r)

(* The invariants of this module, with what they rest on.                  *)
IndInv ==
    /\ TypeOK /\ CreatedFirst /\ CommittedHasEnded /\ InOrder
    /\ RowsAreLocked /\ Replacement
    /\ MixedDaysShareNoRow /\ LastWordStays

(* Days that were given together are replaced together: no reader finds a  *)
(* part of an earlier request's office days.                               *)
DaysMoveTogether ==
    [][\A c \in Companies, w \in Writers :
          RowsBy(c, w) # {} => RowsBy(c, w)' \in {{}, RowsBy(c, w)}]_vars

(* No two updates wait for each other for ever: all write the shared rows  *)
(* in one order, and the office days after them.                           *)
UpdatesEnd == \A r \in Requests : Running(r) ~> ~Running(r)
=============================================================================
