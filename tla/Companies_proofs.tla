--------------------------- MODULE Companies_proofs ---------------------------
(***************************************************************************)
(* Proofs about Companies, for any companies, requests and days of the     *)
(* week and any number of faults: no committed update is lost or half      *)
(* there, office days given together are replaced together, and those of   *)
(* two updates are mixed only if the two wrote no row in common before.    *)
(***************************************************************************)
EXTENDS Companies, TLAPS

USE CompaniesAssumption

-----------------------------------------------------------------------------
(* The script of an update *)

LEMMA StatementSeqs ==
    /\ << >> \in Seq(Statements) /\ << "company" >> \in Seq(Statements)
    /\ << "profile" >> \in Seq(Statements) /\ << "insert" >> \in Seq(Statements)
    /\ << "delete", "locks" >> \in Seq(Statements)
    /\ << "locks" >> \in Seq(Statements) /\ << "commit" >> \in Seq(Statements)
    /\ << "insert", "commit" >> \in Seq(Statements)
<1>1. /\ "company" \in Statements /\ "profile" \in Statements
      /\ "delete" \in Statements /\ "locks" \in Statements
      /\ "insert" \in Statements /\ "commit" \in Statements
  BY DEF Statements, Shared
<1> QED BY <1>1

(* What the script of an update begins with and what it leaves, by the     *)
(* parts that the update has still to write.                               *)
LEMMA ScriptType ==
    ASSUME NEW S, NEW D
    PROVE  Script(S, D) \in Seq(Statements) /\ Script(S, D) # << >>
<1> DEFINE A == IF "company" \in S THEN << "company" >> ELSE << >>
           B == IF "profile" \in S THEN << "profile" >> ELSE << >>
           C == IF "days" \notin S THEN << >>
                ELSE << "delete", "locks" >>
                     \o (IF D = {} THEN << >> ELSE << "insert" >>)
<1>1. A \in Seq(Statements) /\ B \in Seq(Statements)
  BY StatementSeqs
<1>2. C \in Seq(Statements)
  BY StatementSeqs
<1>3. << "commit" >> \in Seq(Statements) /\ Len(<< "commit" >>) = 1
  BY StatementSeqs
<1>4. Script(S, D) = A \o B \o C \o << "commit" >>
  BY DEF Script
<1> HIDE DEF A, B, C
<1>5. A \o B \o C \in Seq(Statements)
  BY <1>1, <1>2
<1>6. Script(S, D) \in Seq(Statements) /\ Len(Script(S, D)) >= 1
  BY <1>3, <1>4, <1>5
<1> QED BY <1>6

LEMMA CompanyFirst ==
    ASSUME NEW S, NEW D, "company" \in S
    PROVE  /\ Head(Script(S, D)) = "company"
           /\ Tail(Script(S, D)) = Script(S \ {"company"}, D)
  BY ScriptType DEF Script

LEMMA ProfileNext ==
    ASSUME NEW S, NEW D, "company" \notin S, "profile" \in S
    PROVE  /\ Head(Script(S, D)) = "profile"
           /\ Tail(Script(S, D)) = Script(S \ {"profile"}, D)
  BY ScriptType DEF Script

LEMMA DaysLast ==
    ASSUME NEW D
    PROVE  /\ Head(Script({"days"}, D)) = "delete"
           /\ Tail(Script({"days"}, D)) = << "locks" >> \o Inserts(D)
  BY ScriptType DEF Script, Inserts

LEMMA ThenCommit == ASSUME NEW D PROVE Script({}, D) = << "commit" >>
  BY DEF Script

LEMMA InsertsSteps ==
    ASSUME NEW D
    PROVE  /\ << "locks" >> \o Inserts(D) \in Seq(Statements)
           /\ << "locks" >> \o Inserts(D) # << >>
           /\ Head(<< "locks" >> \o Inserts(D)) = "locks"
           /\ Tail(<< "locks" >> \o Inserts(D)) = Inserts(D)
           /\ Inserts(D) \in Seq(Statements) /\ Inserts(D) # << >>
           /\ D = {} => Inserts(D) = << "commit" >>
           /\ D # {} => Inserts(D) = << "insert", "commit" >>
<1>1. Inserts(D) \in Seq(Statements) /\ Inserts(D) # << >>
  <2>1. CASE D = {}
    BY <2>1, StatementSeqs DEF Inserts
  <2>2. CASE D # {}
    BY <2>2, StatementSeqs DEF Inserts
  <2> QED BY <2>1, <2>2
<1>2. << "locks" >> \in Seq(Statements) /\ Len(<< "locks" >>) = 1
      /\ << "locks" >>[1] = "locks"
  BY StatementSeqs
<1>3. /\ << "locks" >> \o Inserts(D) \in Seq(Statements)
      /\ << "locks" >> \o Inserts(D) # << >>
      /\ Head(<< "locks" >> \o Inserts(D)) = "locks"
      /\ Tail(<< "locks" >> \o Inserts(D)) = Inserts(D)
  BY <1>1, <1>2
<1> QED BY <1>1, <1>3 DEF Inserts

(* Where an update stands: the statement it is at tells which alternative  *)
(* of InOrder holds for it.                                                *)
LEMMA AtFacts ==
    ASSUME TypeOK, InOrder, NEW r \in Requests, Running(r)
    PROVE  LET q == req[r]
           IN  /\ q.sets \in SUBSET Fields /\ q.held \subseteq q.sets \cap Shared
               /\ At(r, "company") =>
                     "company" \in q.sets \ q.held /\ ~Replacing(r)
               /\ At(r, "profile") =>
                     /\ "profile" \in q.sets \ q.held /\ ~Replacing(r)
                     /\ "company" \notin q.sets \ q.held
               /\ At(r, "delete") =>
                     q.sets \ q.held = {"days"} /\ ~Replacing(r)
               /\ At(r, "locks") =>
                     /\ q.todo = << "locks" >> \o Inserts(q.days)
                     /\ Replacing(r) /\ q.gone \cup q.new = {}
               /\ At(r, "insert") =>
                     /\ q.todo = << "insert", "commit" >>
                     /\ Replacing(r) /\ q.days # {} /\ q.new = {}
               /\ At(r, "commit") =>
                     /\ q.todo = << "commit" >> /\ q.held = q.sets \cap Shared
                     /\ "days" \in q.sets =>
                           Replacing(r) /\ q.new = [dow : q.days, by : {r}]
                     /\ "days" \notin q.sets => ~Replacing(r)
               /\ Replacing(r) => "days" \in q.sets /\ q.held = q.sets \cap Shared
               /\ ~Replacing(r) =>
                     /\ q.todo = Script(q.sets \ q.held, q.days)
                     /\ q.target \cup q.gone \cup q.new = {}
<1> DEFINE q == req[r]
<1>1. /\ q.sets \in SUBSET Fields /\ q.held \in SUBSET Shared
      /\ q.held \subseteq q.sets
  BY DEF TypeOK, request, InOrder, StatementsInOrder
<1>2. CASE /\ q.todo = Script(q.sets \ q.held, q.days)
           /\ q.target \cup q.gone \cup q.new = {}
  <2> PICK S \in SUBSET Fields : S = q.sets \ q.held
    BY <1>1
  <2>1. q.todo = Script(S, q.days)
    BY <1>2
  <2>2. \/ "company" \in S
        \/ "company" \notin S /\ "profile" \in S
        \/ S = {"days"} \/ S = {}
    <3>1. \A x \in S : x = "company" \/ x = "profile" \/ x = "days"
      BY DEF Fields, Shared
    <3> QED BY <3>1
  <2>3. CASE S = {}
    <3>1. q.todo = << "commit" >>
      BY <2>1, <2>3, ThenCommit
    <3>2. q.held = q.sets /\ "days" \notin q.sets
      BY <1>1, <2>3 DEF Shared
    <3> QED BY <1>1, <1>2, <3>1, <3>2 DEF At, Replacing
  <2>4. CASE S = {"days"}
    <3>1. Head(q.todo) = "delete"
      BY <2>1, <2>4, DaysLast
    <3> QED BY <1>1, <1>2, <2>4, <3>1 DEF At, Replacing
  <2>5. CASE "company" \in S
    <3>1. Head(q.todo) = "company"
      BY <2>1, <2>5, CompanyFirst
    <3> QED BY <1>1, <1>2, <2>5, <3>1 DEF At, Replacing
  <2>6. CASE "company" \notin S /\ "profile" \in S
    <3>1. Head(q.todo) = "profile"
      BY <2>1, <2>6, ProfileNext
    <3> QED BY <1>1, <1>2, <2>6, <3>1 DEF At, Replacing
  <2> QED BY <2>2, <2>3, <2>4, <2>5, <2>6
<1>3. CASE /\ "days" \in q.sets /\ q.held = q.sets \cap Shared
           /\ q.todo = << "locks" >> \o Inserts(q.days)
           /\ q.gone \cup q.new = {}
  <2>1. Head(q.todo) = "locks"
    BY <1>3, InsertsSteps
  <2> QED BY <1>1, <1>3, <2>1 DEF At, Running, Replacing
<1>4. CASE /\ "days" \in q.sets /\ q.held = q.sets \cap Shared
           /\ q.todo = << "insert", "commit" >>
           /\ q.days # {} /\ q.new = {}
  <2>1. Head(q.todo) = "insert"
    BY <1>4
  <2> QED BY <1>1, <1>4, <2>1 DEF At, Running, Replacing
<1>5. CASE /\ "days" \in q.sets /\ q.held = q.sets \cap Shared
           /\ q.todo = << "commit" >> /\ q.new = [dow : q.days, by : {r}]
  <2>1. Head(q.todo) = "commit"
    BY <1>5
  <2> QED BY <1>1, <1>5, <2>1 DEF At, Running, Replacing
<1> QED BY <1>2, <1>3, <1>4, <1>5 DEF InOrder, StatementsInOrder


-----------------------------------------------------------------------------
(* Initially no company is there and no request has begun. *)
LEMMA InitEstablishes == Init => IndInv
<1> SUFFICES ASSUME Init PROVE IndInv
  OBVIOUS
<1>1. Unused \in request
  BY DEF Unused, request, Shared, Fields
<1>2. \A r \in Requests : ~Running(r) /\ ~Replacing(r)
  BY DEF Init, Unused, Running, Replacing, At
<1>3. TypeOK
  <2>1. /\ wrote \in [Companies -> [Shared -> Writers \cup {Nobody}]]
        /\ days \in [Companies -> SUBSET DayRow]
        /\ req \in [Requests -> request]
    BY <1>1 DEF Init
  <2>2. history \in [Companies -> Seq(Requests)]
    BY DEF Init
  <2> QED BY <2>1, <2>2 DEF Init, TypeOK
<1>4. CreatedFirst /\ RowsAreLocked /\ Replacement
  BY <1>2 DEF Init, CreatedFirst, RowsAreLocked, Replacement
<1>5. InOrder
  BY <1>2 DEF Init, InOrder, StatementsInOrder, Unused
<1>6. CommittedHasEnded /\ MixedDaysShareNoRow /\ LastWordStays
  BY DEF Init, CommittedHasEnded, MixedDaysShareNoRow, LastWordStays, Companies
<1> QED BY <1>3, <1>4, <1>5, <1>6 DEF IndInv

(* The fields of a request, and of a row. *)
LEMMA RequestFields ==
    ASSUME TypeOK, NEW r \in Requests
    PROVE  /\ req[r] \in request
           /\ req[r].company \in Companies \cup {Nobody}
           /\ req[r].sets \in SUBSET Fields /\ req[r].days \in SUBSET Dows
           /\ req[r].todo \in Seq(Statements)
           /\ req[r].held \in SUBSET Shared /\ req[r].target \in SUBSET DayRow
           /\ req[r].gone \in SUBSET DayRow /\ req[r].new \in SUBSET DayRow
           /\ Running(r) /\ CreatedFirst => req[r].company \in Companies
  BY DEF TypeOK, request, CreatedFirst

(* What an update that is committed was given does not change: a request   *)
(* is not used again.                                                      *)
LEMMA CommittedStays ==
    ASSUME TypeOK, CommittedHasEnded, NEW r \in Requests,
           Running(r) \/ req[r] = Unused
    PROVE  \A c \in Companies :
              /\ \A i \in DOMAIN history[c] : history[c][i] \in Requests \ {r}
              /\ \A d \in days[c] :
                    d.by # Creation => d.by \in Requests \ {r}
<1>1. r \in Requests /\ (~Running(r) => req[r].company = Nobody)
  BY DEF Unused
<1> SUFFICES ASSUME NEW c \in Companies
             PROVE  /\ \A i \in DOMAIN history[c] : history[c][i] \in Requests \ {r}
                    /\ \A d \in days[c] :
                          d.by # Creation => d.by \in Requests \ {r}
  OBVIOUS
<1>2. c # Nobody
  OBVIOUS
<1>3. ASSUME NEW i \in DOMAIN history[c] PROVE history[c][i] \in Requests \ {r}
  <2>1. history[c] \in Seq(Requests)
    BY DEF TypeOK
  <2>2. history[c][i] \in Requests
    BY <2>1
  <2> QED BY <1>1, <1>2, <2>2 DEF CommittedHasEnded, EndedFor
<1>4. ASSUME NEW d \in days[c], d.by # Creation PROVE d.by \in Requests \ {r}
  <2>1. d.by \in Writers
    BY DEF TypeOK, DayRow
  <2> QED BY <1>1, <1>2, <1>4, <2>1 DEF CommittedHasEnded, EndedFor, Writers
<1> QED BY <1>3, <1>4

(* A step that is about one request and no table keeps the invariant if    *)
(* what the request then has is in order and not also another's.           *)
LEMMA RequestPreserves ==
    ASSUME IndInv, NEW r \in Requests, Running(r) \/ req[r] = Unused,
           NEW R \in request, req' = [req EXCEPT ![r] = R],
           UNCHANGED << created, wrote, days, history >>,
           faults' \in 0 .. MaxFaults,
           Running(r)' => R.company \in created,
           StatementsInOrder(r)',
           Running(r)' => \A q \in Others(r)' : Apart(r, q)',
           Replacing(r)' => FindsItsRows(r)'
    PROVE  IndInv'
<1>1. TypeOK /\ CreatedFirst /\ CommittedHasEnded
  BY DEF IndInv
<1>2. /\ req' \in [Requests -> request] /\ req'[r] = R
      /\ \A q \in Requests \ {r} :
            /\ req'[q] = req[q] /\ Running(q)' = Running(q)
            /\ Replacing(q)' = Replacing(q)
  BY <1>1 DEF TypeOK, Running, Replacing, At
<1>3. TypeOK'
  BY <1>1, <1>2 DEF TypeOK
<1>4. CreatedFirst'
  BY <1>1, <1>2 DEF CreatedFirst
<1>5. \A c \in Companies :
         /\ \A i \in DOMAIN history[c] : history[c][i] \in Requests \ {r}
         /\ \A d \in days[c] : d.by # Creation => d.by \in Requests \ {r}
  BY <1>1, CommittedStays
<1>6. CommittedHasEnded'
  BY <1>1, <1>2, <1>5 DEF CommittedHasEnded, EndedFor
<1>7. InOrder'
  <2> SUFFICES ASSUME NEW q \in Requests PROVE StatementsInOrder(q)'
    BY DEF InOrder
  <2>1. CASE q = r
    BY <2>1
  <2>2. CASE q # r
    BY <1>2, <2>2 DEF IndInv, InOrder, StatementsInOrder
  <2> QED BY <2>1, <2>2
<1>8. RowsAreLocked'
  <2> SUFFICES ASSUME NEW q \in Requests, Running(q)', NEW o \in Others(q)'
               PROVE  Apart(q, o)'
    BY DEF RowsAreLocked
  <2>1. CASE q # r /\ o # r
    BY <1>2, <2>1 DEF IndInv, RowsAreLocked, Others, Apart
  <2>2. CASE q = r
    BY <2>2
  <2>3. CASE o = r
    <3>1. Running(r)' /\ q \in Others(r)'
      BY <2>3 DEF Others
    <3> QED BY <2>3, <3>1 DEF Apart
  <2> QED BY <2>1, <2>2, <2>3
<1>9. Replacement'
  <2> SUFFICES ASSUME NEW q \in Requests, Replacing(q)'
               PROVE  FindsItsRows(q)'
    BY DEF Replacement
  <2>1. CASE q = r
    BY <2>1
  <2>2. CASE q # r
    <3>1. Replacing(q) /\ req'[q] = req[q] /\ At(q, "locks")' = At(q, "locks")
      BY <1>2, <2>2 DEF At
    <3>2. FindsItsRows(q)
      BY <3>1 DEF IndInv, Replacement
    <3>3. req[q].company \in Companies
      BY <1>1, <3>1, RequestFields DEF Replacing, Running, At
    <3>4. \A d \in req[q].target :
             d.by # Creation => d.by \in Requests \ {r}
      <4> SUFFICES ASSUME NEW d \in req[q].target, d.by # Creation
                   PROVE  d.by \in Requests \ {r}
        OBVIOUS
      <4>1. d.by \in Requests
        BY <1>1, RequestFields DEF DayRow, Writers
      <4> QED BY <3>2, <3>3, <4>1 DEF Unused, FindsItsRows, EndedFor
    <3>5. \A d \in days[req[q].company] :
             d.by # Creation => d.by \in Requests \ {r}
      BY <1>5, <3>3
    <3>6. \A d \in req[q].target :
             d.by # Creation => EndedFor(d.by, req[q].company)'
      BY <1>2, <3>1, <3>2, <3>4 DEF FindsItsRows, EndedFor
    <3>7. \A d \in days[req[q].company] \ req[q].target :
             /\ d.by # Creation
             /\ req'[d.by].sets \cap req[q].sets = {"days"}
      BY <1>2, <3>2, <3>5 DEF FindsItsRows
    <3> QED BY <3>1, <3>2, <3>6, <3>7 DEF FindsItsRows
  <2> QED BY <2>1, <2>2
<1>10. MixedDaysShareNoRow'
  BY <1>2, <1>5 DEF IndInv, MixedDaysShareNoRow, Companies
<1>11. LastWordStays'
  <2> SUFFICES ASSUME NEW c \in Companies, NEW i \in DOMAIN history[c]
               PROVE  WordStays(c, i)'
    BY DEF LastWordStays
  <2>1. history[c] \in Seq(Requests) /\ history[c][i] \in Requests \ {r}
    BY <1>1, <1>5 DEF TypeOK
  <2>2. \A j \in (i + 1)..Len(history[c]) : j \in DOMAIN history[c]
    BY <2>1
  <2>3. Later(c, i) \subseteq Requests \ {r}
    BY <1>5, <2>2 DEF Later
  <2>4. Later(c, i)' = Later(c, i) /\ \A w : RowsBy(c, w)' = RowsBy(c, w)
    BY DEF Later, RowsBy
  <2>5. WordStays(c, i)
    BY DEF IndInv, LastWordStays
  <2> QED BY <1>2, <2>1, <2>3, <2>4, <2>5 DEF WordStays
<1> QED BY <1>3, <1>4, <1>6, <1>7, <1>8, <1>9, <1>10, <1>11 DEF IndInv


(* The same for a request that goes on. *)
LEMMA AdvancePreserves ==
    ASSUME IndInv, NEW r \in Requests, Running(r),
           NEW R \in request, req' = [req EXCEPT ![r] = R],
           R.company = req[r].company,
           UNCHANGED << created, wrote, days, history, faults >>,
           StatementsInOrder(r)',
           \A q \in Others(r) : Apart(r, q)',
           Replacing(r)' => FindsItsRows(r)'
    PROVE  IndInv'
<1>1. TypeOK /\ CreatedFirst
  BY DEF IndInv
<1>2. R.company \in created /\ faults' \in 0 .. MaxFaults
  BY <1>1 DEF TypeOK, CreatedFirst
<1>3. req'[r] = R /\ \A q \in Requests \ {r} : req'[q] = req[q]
  BY <1>1 DEF TypeOK
<1>4. Others(r)' = Others(r)
  BY <1>3 DEF Others, Running
<1>5. \A q \in Others(r)' : Apart(r, q)'
  BY <1>4
<1>6. Running(r)' => R.company \in created
  BY <1>2
<1> QED BY <1>2, <1>5, <1>6, RequestPreserves

(* An update that ended has no rows any more. *)
LEMMA EndedFields ==
    ASSUME TypeOK, NEW r \in Requests
    PROVE  /\ Ended(r) \in request /\ Ended(r).todo = << >>
           /\ Ended(r).held = {} /\ Ended(r).target = {} /\ Ended(r).gone = {}
           /\ Ended(r).new = {}
           /\ Ended(r).company = req[r].company /\ Ended(r).sets = req[r].sets
           /\ Ended(r).days = req[r].days
<1>1. req[r] \in request
  BY DEF TypeOK
<1>2. Ended(r) \in request
  <2> DEFINE A == [req[r] EXCEPT !.todo = << >>, !.held = {}]
             B == [A EXCEPT !.target = {}, !.gone = {}]
  <2>1. << >> \in Seq(Statements)
    OBVIOUS
  <2>2. A \in request
    BY <1>1, <2>1 DEF request
  <2>3. B \in request
    BY <2>2 DEF request
  <2>4. [B EXCEPT !.new = {}] \in request
    BY <2>3 DEF request
  <2>5. Ended(r) = [B EXCEPT !.new = {}]
    BY <1>1 DEF Ended, request
  <2> QED BY <2>4, <2>5
<1> QED BY <1>1, <1>2 DEF Ended, request

LEMMA EndPreserves ==
    ASSUME IndInv, NEW r \in Requests, Running(r),
           req' = [req EXCEPT ![r] = Ended(r)],
           UNCHANGED << created, wrote, days, history >>,
           faults' \in 0 .. MaxFaults
    PROVE  IndInv'
<1>1. TypeOK
  BY DEF IndInv
<1>2. req'[r] = Ended(r)
  BY <1>1 DEF TypeOK
<1>3. ~Running(r)' /\ ~Replacing(r)'
  BY <1>1, <1>2, EndedFields DEF Running, Replacing, At
<1>4. StatementsInOrder(r)'
  BY <1>1, <1>2, <1>3, EndedFields DEF StatementsInOrder
<1> HIDE DEF Ended
<1>5. Ended(r) \in request
  BY <1>1, EndedFields
<1> QED BY <1>2, <1>3, <1>4, <1>5, RequestPreserves

LEMMA FailPreserves ==
    ASSUME IndInv, NEW r \in Requests, Fail(r)
    PROVE  IndInv'
<1>1. faults' \in 0 .. MaxFaults
  BY DEF IndInv, TypeOK, Fail
<1> QED BY <1>1, EndPreserves DEF Fail

-----------------------------------------------------------------------------
(* The statements *)

(* While office days are still to come, a script is not at their rows.     *)
LEMMA ScriptHead ==
    ASSUME NEW S \in SUBSET Fields, NEW D, "days" \in S
    PROVE  Head(Script(S, D)) \in {"company", "profile", "delete"}
<1>1. CASE "company" \in S
  BY <1>1, CompanyFirst
<1>2. CASE "company" \notin S /\ "profile" \in S
  BY <1>2, ProfileNext
<1>3. CASE "company" \notin S /\ "profile" \notin S
  <2>1. S = {"days"}
    <3>1. \A x \in S : x = "days"
      BY <1>3 DEF Fields, Shared
    <3> QED BY <3>1
  <2> QED BY <2>1, DaysLast
<1> QED BY <1>1, <1>2, <1>3

(* An update begins with its whole script and nothing in its hands. *)
LEMMA BeginPreserves ==
    ASSUME IndInv, NEW r \in Requests, NEW c \in Companies,
           NEW sets \in SUBSET Fields, NEW D \in SUBSET Dows,
           Begin(r, c, sets, D)
    PROVE  IndInv'
<1> DEFINE R == [Unused EXCEPT !.company = c, !.sets = sets, !.days = D,
                               !.todo = Script(sets, D)]
<1>1. TypeOK
  BY DEF IndInv
<1>2. /\ req[r] = Unused /\ c \in created /\ req' = [req EXCEPT ![r] = R]
      /\ UNCHANGED << created, wrote, days, history, faults >>
  BY DEF Begin, Found
<1>3. /\ R.company = c /\ R.sets = sets /\ R.days = D
      /\ R.todo = Script(sets, D) /\ R.held = {} /\ R.target = {}
      /\ R.gone = {} /\ R.new = {}
  BY DEF Unused
<1>4. R \in request
  <2>1. Script(sets, D) \in Seq(Statements)
    BY ScriptType
  <2> QED BY <2>1 DEF Unused, request
<1> HIDE DEF R
<1>5. req'[r] = R
  BY <1>1, <1>2 DEF TypeOK
<1>6. ~Replacing(r)'
  BY <1>3, <1>5, ScriptHead DEF Replacing, At
<1>7. StatementsInOrder(r)'
  <2>1. sets \ {} = sets
    OBVIOUS
  <2>2. Script(sets, D) # << >>
    BY ScriptType
  <2>3. Running(r)'
    BY <1>3, <1>5, <2>2 DEF Running
  <2> QED BY <1>3, <1>5, <2>1, <2>3 DEF StatementsInOrder
<1>8. faults' \in 0 .. MaxFaults
  BY <1>1, <1>2 DEF TypeOK
<1>9. \A q \in Others(r)' : Apart(r, q)'
  BY <1>3, <1>5 DEF Apart, DowsOf
<1>10. Running(r)' => R.company \in created
  BY <1>2, <1>3
<1> QED BY <1>2, <1>4, <1>6, <1>7, <1>8, <1>9, <1>10, RequestPreserves


(* UPDATE of a shared row: nobody else has it, and it is off the list. *)
LEMMA WriteRowPreserves ==
    ASSUME IndInv, NEW r \in Requests, NEW k \in Shared, WriteRow(r, k)
    PROVE  IndInv'
<1> DEFINE R == [req[r] EXCEPT !.held = req[r].held \cup {k},
                               !.todo = Tail(req[r].todo)]
           S == req[r].sets \ req[r].held
<1>1. TypeOK /\ InOrder /\ Running(r) /\ At(r, k)
  BY DEF IndInv, WriteRow, At, Running
<1>2. /\ req[r] \in request /\ req[r].sets \in SUBSET Fields
      /\ req[r].todo \in Seq(Statements) /\ req[r].todo # << >>
      /\ req[r].held \in SUBSET Shared
  BY <1>1, RequestFields DEF Running
<1>3. /\ k \in S /\ ~Replacing(r) /\ (k = "profile" => "company" \notin S)
      /\ req[r].todo = Script(S, req[r].days)
      /\ req[r].target \cup req[r].gone \cup req[r].new = {}
      /\ req[r].held \subseteq req[r].sets
  BY <1>1, AtFacts DEF Shared
<1>4. Tail(req[r].todo) = Script(S \ {k}, req[r].days)
  <2>1. CASE k = "company"
    BY <1>3, <2>1, CompanyFirst
  <2>2. CASE k = "profile"
    BY <1>3, <2>2, ProfileNext
  <2> QED BY <2>1, <2>2 DEF Shared
<1>5. /\ R \in request /\ R.company = req[r].company /\ R.sets = req[r].sets
      /\ R.days = req[r].days /\ R.held = req[r].held \cup {k}
      /\ R.todo = Tail(req[r].todo) /\ R.target = req[r].target
      /\ R.gone = req[r].gone /\ R.new = req[r].new
  <2>1. Tail(req[r].todo) \in Seq(Statements)
    BY <1>2
  <2>2. req[r].held \cup {k} \in SUBSET Shared
    BY <1>2
  <2> HIDE DEF S
  <2> QED BY <1>2, <2>1, <2>2 DEF request
<1>6. /\ req' = [req EXCEPT ![r] = R]
      /\ UNCHANGED << created, wrote, days, history, faults >>
      /\ \A q \in Others(r) : k \notin req[q].held
  BY DEF WriteRow
<1> HIDE DEF R
<1>7. req'[r] = R /\ \A q \in Requests \ {r} : req'[q] = req[q]
  BY <1>1, <1>6 DEF TypeOK
<1>8. S \ {k} = R.sets \ R.held /\ S \ {k} \in SUBSET Fields
  BY <1>2, <1>5
<1>9. StatementsInOrder(r)'
  <2>1. R.todo = Script(R.sets \ R.held, R.days)
    BY <1>4, <1>5, <1>8
  <2>2. R.todo # << >> /\ R.held \subseteq R.sets
    BY <1>3, <1>5, <2>1, ScriptType
  <2> QED BY <1>3, <1>5, <1>7, <2>1, <2>2 DEF StatementsInOrder, Running
<1>10. ~Replacing(r)'
  <2> SUFFICES ASSUME "days" \in R.sets
               PROVE  Head(R.todo) \in {"company", "profile", "delete"}
    BY <1>7 DEF Replacing, At
  <2>1. "days" \in S \ {k}
    BY <1>2, <1>5 DEF Shared
  <2>2. Head(Script(S \ {k}, req[r].days)) \in {"company", "profile", "delete"}
    BY <1>8, <2>1, ScriptHead
  <2> QED BY <1>4, <1>5, <2>2
<1>11. \A q \in Others(r) : Apart(r, q)'
  <2> SUFFICES ASSUME NEW q \in Others(r) PROVE Apart(r, q)'
    OBVIOUS
  <2>1. Apart(r, q) /\ q \in Requests \ {r}
    BY <1>1 DEF IndInv, RowsAreLocked, Others
  <2> QED BY <1>5, <1>6, <1>7, <2>1 DEF Apart
<1> QED BY <1>1, <1>5, <1>6, <1>9, <1>10, <1>11, AdvancePreserves

(* DELETE begins: it is after all the office days there are. *)
LEMMA DeleteDaysPreserves ==
    ASSUME IndInv, NEW r \in Requests, DeleteDays(r)
    PROVE  IndInv'
<1> DEFINE c == req[r].company
           R == [req[r] EXCEPT !.target = days[c],
                               !.todo = Tail(req[r].todo)]
<1>1. TypeOK /\ InOrder /\ CreatedFirst /\ Running(r) /\ At(r, "delete")
  BY DEF IndInv, DeleteDays, At, Running
<1>2. /\ req[r] \in request /\ c \in Companies
      /\ req[r].held \in SUBSET Shared /\ req[r].sets \in SUBSET Fields
  BY <1>1, RequestFields
<1>3. /\ req[r].sets \ req[r].held = {"days"} /\ ~Replacing(r)
      /\ req[r].todo = Script({"days"}, req[r].days)
      /\ req[r].target \cup req[r].gone \cup req[r].new = {}
      /\ req[r].held \subseteq req[r].sets
  BY <1>1, AtFacts
<1>4. Tail(req[r].todo) = << "locks" >> \o Inserts(req[r].days)
  BY <1>3, DaysLast
<1>5. /\ R \in request /\ R.company = c /\ R.sets = req[r].sets
      /\ R.days = req[r].days /\ R.held = req[r].held
      /\ R.todo = << "locks" >> \o Inserts(req[r].days)
      /\ R.target = days[c]
      /\ R.gone = req[r].gone /\ R.new = req[r].new
  <2>1. Tail(req[r].todo) \in Seq(Statements)
    BY <1>4, InsertsSteps
  <2>2. days[c] \in SUBSET DayRow
    BY <1>1, <1>2 DEF TypeOK
  <2> QED BY <1>2, <1>4, <2>1, <2>2 DEF request
<1>6. /\ req' = [req EXCEPT ![r] = R]
      /\ UNCHANGED << created, wrote, days, history, faults >>
  BY DEF DeleteDays
<1> HIDE DEF R
<1>7. req'[r] = R /\ \A q \in Requests \ {r} : req'[q] = req[q]
  BY <1>1, <1>6 DEF TypeOK
<1>8. R.todo # << >> /\ Head(R.todo) = "locks"
  BY <1>5, InsertsSteps
<1>9. StatementsInOrder(r)'
  <2>1. "days" \in R.sets /\ R.held = R.sets \cap Shared
    BY <1>2, <1>3, <1>5 DEF Shared
  <2>2. Running(r)' /\ req'[r].todo = << "locks" >> \o Inserts(req'[r].days)
    BY <1>5, <1>7, <1>8 DEF Running
  <2>3. R.gone \cup R.new = {} /\ R.held \subseteq R.sets
    BY <1>3, <1>5
  <2> QED BY <1>7, <2>1, <2>2, <2>3 DEF StatementsInOrder
<1>10. \A q \in Others(r) : Apart(r, q)'
  <2> SUFFICES ASSUME NEW q \in Others(r) PROVE Apart(r, q)'
    OBVIOUS
  <2>1. Apart(r, q) /\ q \in Requests \ {r}
    BY <1>1 DEF IndInv, RowsAreLocked, Others
  <2> QED BY <1>5, <1>7, <2>1 DEF Apart
<1>11. FindsItsRows(r)'
  <2>1. \A d \in days[c] : d.by # Creation =>
           ~Running(d.by)' /\ req'[d.by].company = c
    <3> SUFFICES ASSUME NEW d \in days[c], d.by # Creation
                 PROVE  ~Running(d.by)' /\ req'[d.by].company = c
      OBVIOUS
    <3>1. d.by \in Requests \ {r}
      BY <1>1, <1>2, CommittedStays DEF IndInv
    <3>2. ~Running(d.by) /\ req[d.by].company = c
      BY <1>2 DEF IndInv, CommittedHasEnded, EndedFor
    <3> QED BY <1>7, <3>1, <3>2 DEF Running
  <2>2. At(r, "locks")'
    BY <1>7, <1>8 DEF At
  <2>3. DowsOf(R.new) = {}
    BY <1>3, <1>5 DEF DowsOf
  <2> QED BY <1>5, <1>6, <1>7, <2>1, <2>2, <2>3 DEF FindsItsRows, EndedFor
<1> QED BY <1>1, <1>5, <1>6, <1>9, <1>10, <1>11, AdvancePreserves


(* What the DELETE of an update saw, and what it did not see, stays as it  *)
(* was while the update goes on.                                           *)
LEMMA SeenStays ==
    ASSUME IndInv, NEW r \in Requests, Replacing(r),
           NEW R, req' = [req EXCEPT ![r] = R], UNCHANGED days,
           R.company = req[r].company, R.sets = req[r].sets,
           R.target = req[r].target,
           days[req[r].company] \cap R.target = R.gone,
           DowsOf(days[req[r].company] \ R.gone) \cap DowsOf(R.new) = {}
    PROVE  FindsItsRows(r)'
<1> DEFINE c == req[r].company
<1>1. TypeOK /\ Running(r) /\ CreatedFirst /\ CommittedHasEnded
  BY DEF IndInv, Replacing, At, Running
<1>2. c \in Companies /\ req[r].target \in SUBSET DayRow
  BY <1>1, RequestFields
<1>3. req'[r] = R /\ \A q \in Requests \ {r} : req'[q] = req[q]
  BY <1>1 DEF TypeOK
<1>4. FindsItsRows(r)
  BY DEF IndInv, Replacement
<1>5. \A d \in req[r].target : d.by # Creation => EndedFor(d.by, R.company)'
  <2> SUFFICES ASSUME NEW d \in req[r].target, d.by # Creation
               PROVE  ~Running(d.by)' /\ req'[d.by].company = c
    BY DEF EndedFor
  <2>1. ~Running(d.by) /\ req[d.by].company = c
    BY <1>4 DEF FindsItsRows, EndedFor
  <2>2. d.by \in Requests \ {r}
    BY <1>1, <1>2, <2>1 DEF DayRow, Writers
  <2> QED BY <1>3, <2>1, <2>2 DEF Running
<1>6. \A d \in days[c] \ req[r].target :
         d.by # Creation /\ req'[d.by].sets \cap req[r].sets = {"days"}
  <2> SUFFICES ASSUME NEW d \in days[c] \ req[r].target
               PROVE  /\ d.by # Creation
                      /\ req'[d.by].sets \cap req[r].sets = {"days"}
    OBVIOUS
  <2>1. d.by # Creation /\ req[d.by].sets \cap req[r].sets = {"days"}
    BY <1>4 DEF FindsItsRows
  <2>2. d.by \in Requests \ {r}
    BY <1>1, <1>2, <2>1, CommittedStays
  <2> QED BY <1>3, <2>1, <2>2
<1>7. \A d \in days[c] \ req[r].target, e \in days[c] :
         d.by = e.by => e \in days[c] \ req[r].target
  BY <1>4 DEF FindsItsRows
<1> QED BY <1>3, <1>5, <1>6, <1>7 DEF FindsItsRows

(* DELETE ends: what of its rows is still there is deleted, and nobody     *)
(* else has them.                                                          *)
LEMMA LockDaysPreserves ==
    ASSUME IndInv, NEW r \in Requests, LockDays(r)
    PROVE  IndInv'
<1> DEFINE c == req[r].company
           R == [req[r] EXCEPT !.gone = Deleted(r), !.todo = Tail(req[r].todo)]
<1>1. TypeOK /\ InOrder /\ CreatedFirst /\ Running(r) /\ At(r, "locks")
  BY DEF IndInv, LockDays, At, Running
<1>2. /\ req[r] \in request /\ c \in Companies
      /\ req[r].held \in SUBSET Shared /\ req[r].sets \in SUBSET Fields
      /\ req[r].target \in SUBSET DayRow
  BY <1>1, RequestFields
<1>3. /\ "days" \in req[r].sets /\ Replacing(r)
      /\ req[r].held = req[r].sets \cap Shared
      /\ req[r].todo = << "locks" >> \o Inserts(req[r].days)
      /\ req[r].gone \cup req[r].new = {}
  BY <1>1, AtFacts
<1>4. Deleted(r) = req[r].target \cap days[c] /\ Deleted(r) \in SUBSET DayRow
  BY <1>2 DEF Deleted
<1>5. /\ R \in request /\ R.company = c /\ R.sets = req[r].sets
      /\ R.days = req[r].days /\ R.held = req[r].held
      /\ R.todo = Inserts(req[r].days) /\ R.target = req[r].target
      /\ R.gone = Deleted(r) /\ R.new = {}
  <2>1. /\ Tail(req[r].todo) = Inserts(req[r].days)
        /\ Tail(req[r].todo) \in Seq(Statements)
    BY <1>3, InsertsSteps
  <2>2. req[r].new = {}
    BY <1>3
  <2> QED BY <1>2, <1>4, <2>1, <2>2 DEF request
<1>6. /\ req' = [req EXCEPT ![r] = R]
      /\ UNCHANGED << created, wrote, days, history, faults >>
      /\ \A q \in Others(r) : req[q].gone \cap req[r].target = {}
  BY DEF LockDays
<1> HIDE DEF R
<1>7. req'[r] = R /\ \A q \in Requests \ {r} : req'[q] = req[q]
  BY <1>1, <1>6 DEF TypeOK
<1>8. StatementsInOrder(r)'
  <2>1. CASE R.days = {}
    <3>1. R.todo = << "commit" >> /\ R.new = [dow : R.days, by : {r}]
      BY <1>5, <2>1 DEF Inserts
    <3> QED BY <1>3, <1>5, <1>7, <3>1 DEF StatementsInOrder, Running
  <2>2. CASE R.days # {}
    <3>1. R.todo = << "insert", "commit" >>
      BY <1>5, <2>2 DEF Inserts
    <3> QED BY <1>3, <1>5, <1>7, <2>2, <3>1 DEF StatementsInOrder, Running
  <2> QED BY <2>1, <2>2
<1>9. \A q \in Others(r) : Apart(r, q)'
  <2> SUFFICES ASSUME NEW q \in Others(r) PROVE Apart(r, q)'
    OBVIOUS
  <2>1. Apart(r, q) /\ q \in Requests \ {r}
    BY <1>1 DEF IndInv, RowsAreLocked, Others
  <2>2. R.gone \cap req[q].gone = {}
    BY <1>4, <1>5, <1>6
  <2> QED BY <1>5, <1>7, <2>1, <2>2 DEF Apart, DowsOf
<1>10. FindsItsRows(r)'
  <2>1. DowsOf(R.new) = {} /\ days[c] \cap R.target = R.gone
    BY <1>4, <1>5 DEF DowsOf
  <2> QED BY <1>3, <1>5, <1>6, <2>1, SeenStays
<1> QED BY <1>1, <1>5, <1>6, <1>8, <1>9, <1>10, AdvancePreserves

(* INSERT: refused, everything is taken back; else the new rows are on     *)
(* days that nobody else has and that no row which stays is on.            *)
LEMMA InsertDaysPreserves ==
    ASSUME IndInv, NEW r \in Requests, InsertDays(r)
    PROVE  IndInv'
<1> DEFINE c == req[r].company
           R == [req[r] EXCEPT !.new = [dow : req[r].days, by : {r}],
                               !.todo = Tail(req[r].todo)]
<1>1. TypeOK /\ InOrder /\ CreatedFirst /\ Running(r) /\ At(r, "insert")
  BY DEF IndInv, InsertDays, At, Running
<1>2. /\ req[r] \in request /\ c \in Companies
      /\ req[r].held \in SUBSET Shared /\ req[r].sets \in SUBSET Fields
      /\ req[r].target \in SUBSET DayRow /\ req[r].days \in SUBSET Dows
  BY <1>1, RequestFields
<1>3. /\ "days" \in req[r].sets /\ Replacing(r)
      /\ req[r].held = req[r].sets \cap Shared
      /\ req[r].todo = << "insert", "commit" >> /\ ~At(r, "locks")
  BY <1>1, AtFacts DEF At
<1>4. /\ UNCHANGED << created, wrote, days, history, faults >>
      /\ \A q \in Others(r) :
            DowsOf(req[q].gone \cup req[q].new) \cap req[r].days = {}
  BY DEF InsertDays
<1>5. CASE Taken(r)
  <2>1. req' = [req EXCEPT ![r] = Ended(r)] /\ faults' \in 0 .. MaxFaults
    BY <1>1, <1>4, <1>5 DEF InsertDays, TypeOK
  <2> QED BY <1>1, <1>4, <2>1, EndPreserves
<1>6. CASE ~Taken(r)
  <2>1. req' = [req EXCEPT ![r] = R]
    BY <1>6 DEF InsertDays
  <2>2. /\ R \in request /\ R.company = c /\ R.sets = req[r].sets
        /\ R.days = req[r].days /\ R.held = req[r].held
        /\ R.todo = << "commit" >> /\ R.target = req[r].target
        /\ R.gone = req[r].gone /\ R.new = [dow : req[r].days, by : {r}]
    <3>1. Tail(req[r].todo) = << "commit" >>
      BY <1>3
    <3>2. [dow : req[r].days, by : {r}] \in SUBSET DayRow
      BY <1>2 DEF DayRow, Writers
    <3> QED BY <1>2, <3>1, <3>2, StatementSeqs DEF request
  <2> HIDE DEF R
  <2>3. req'[r] = R /\ \A q \in Requests \ {r} : req'[q] = req[q]
    BY <1>1, <2>1 DEF TypeOK
  <2>4. DowsOf(R.new) \subseteq req[r].days
    BY <2>2 DEF DowsOf
  <2>5. StatementsInOrder(r)'
    BY <1>3, <2>2, <2>3 DEF StatementsInOrder, Running
  <2>6. \A q \in Others(r) : Apart(r, q)'
    <3> SUFFICES ASSUME NEW q \in Others(r) PROVE Apart(r, q)'
      OBVIOUS
    <3>1. Apart(r, q) /\ q \in Requests \ {r}
      BY <1>1 DEF IndInv, RowsAreLocked, Others
    <3>2. DowsOf(R.new) \cap DowsOf(req[q].new) = {}
      BY <1>4, <2>4 DEF DowsOf
    <3> QED BY <2>2, <2>3, <3>1, <3>2 DEF Apart
  <2>7. FindsItsRows(r)'
    <3>1. FindsItsRows(r)
      BY <1>3 DEF IndInv, Replacement
    <3>2. days[c] \cap R.target = R.gone
      BY <1>3, <2>2, <3>1 DEF FindsItsRows
    <3>3. DowsOf(days[c] \ R.gone) \cap DowsOf(R.new) = {}
      BY <1>6, <2>2, <2>4 DEF Taken
    <3> QED BY <1>3, <1>4, <2>1, <2>2, <3>2, <3>3, SeenStays
  <2> QED BY <1>1, <1>4, <2>1, <2>2, <2>5, <2>6, <2>7, AdvancePreserves
<1> QED BY <1>5, <1>6


-----------------------------------------------------------------------------
(* Companies appear, and updates are committed *)

LEMMA CreatePreserves ==
    ASSUME IndInv, NEW c \in Companies, NEW D \in SUBSET Dows, Create(c, D)
    PROVE  IndInv'
<1> DEFINE N == [dow : D, by : {Creation}]
<1>1. TypeOK /\ CreatedFirst
  BY DEF IndInv
<1>2. /\ c \notin created /\ created' = created \cup {c}
      /\ wrote' = [wrote EXCEPT ![c] = [k \in Shared |-> Creation]]
      /\ days' = [days EXCEPT ![c] = N]
      /\ UNCHANGED << req, history, faults >>
  BY DEF Create
<1>3. N \in SUBSET DayRow /\ \A d \in N : d.by = Creation
  BY DEF DayRow, Writers
<1>4. \A d, e \in N : d.dow = e.dow => d = e
  OBVIOUS
<1> HIDE DEF N
<1>5. /\ days' \in [Companies -> SUBSET DayRow] /\ days'[c] = N
      /\ \A b \in Companies \ {c} : days'[b] = days[b] /\ wrote'[b] = wrote[b]
      /\ history[c] = << >>
  BY <1>1, <1>2, <1>3 DEF TypeOK, CreatedFirst
<1>6. wrote' \in [Companies -> [Shared -> Writers \cup {Nobody}]]
  BY <1>1, <1>2 DEF TypeOK, Writers
<1>7. TypeOK'
  BY <1>1, <1>2, <1>4, <1>5, <1>6 DEF TypeOK
<1>8. CreatedFirst'
  BY <1>1, <1>2, <1>5 DEF CreatedFirst, Running
<1>9. CommittedHasEnded'
  BY <1>2, <1>3, <1>5 DEF IndInv, CommittedHasEnded, EndedFor, Running
<1>10. InOrder' /\ RowsAreLocked'
  BY <1>2 DEF IndInv, InOrder, StatementsInOrder, RowsAreLocked, Apart, Others,
              Running
<1>11. Replacement'
  <2> SUFFICES ASSUME NEW r \in Requests, Replacing(r)
               PROVE  FindsItsRows(r)'
    BY <1>2 DEF Replacement, Replacing, At
  <2>1. req[r].company \in Companies \ {c}
    <3>1. Running(r)
      BY DEF Replacing, At, Running
    <3> QED BY <1>1, <1>2, <3>1 DEF CreatedFirst, TypeOK
  <2>2. FindsItsRows(r)
    BY DEF IndInv, Replacement
  <2> QED BY <1>2, <1>5, <2>1, <2>2 DEF FindsItsRows, EndedFor, Running, At
<1>12. MixedDaysShareNoRow'
  <2> SUFFICES ASSUME NEW b \in Clients, NEW d \in days'[b], NEW e \in days'[b],
                      d.by # e.by
               PROVE  MixedDaysShareNoRow!(b)!(d, e)!2
    BY <1>2 DEF MixedDaysShareNoRow
  <2>1. b # c /\ b \in Companies
    BY <1>3, <1>5 DEF Companies
  <2> QED BY <1>5, <2>1 DEF IndInv, MixedDaysShareNoRow
<1>13. LastWordStays'
  <2> SUFFICES ASSUME NEW b \in Companies, NEW i \in DOMAIN history[b]
               PROVE  WordStays(b, i)'
    BY <1>2 DEF LastWordStays
  <2>1. b # c
    BY <1>5
  <2>2. Later(b, i)' = Later(b, i) /\ \A w : RowsBy(b, w)' = RowsBy(b, w)
    BY <1>2, <1>5, <2>1 DEF Later, RowsBy
  <2>3. WordStays(b, i)
    BY DEF IndInv, LastWordStays
  <2> QED BY <1>2, <1>5, <2>1, <2>2, <2>3 DEF WordStays
<1> QED BY <1>7, <1>8, <1>9, <1>10, <1>11, <1>12, <1>13 DEF IndInv

(* The office days that a commit leaves: what stays of the old ones, and   *)
(* what the update inserted.                                               *)
LEMMA CommittedRows ==
    ASSUME IndInv, NEW r \in Requests, At(r, "commit")
    PROVE  LET c == req[r].company
           IN  /\ Running(r) /\ c \in Companies /\ c \in created
               /\ req[r].held = req[r].sets \cap Shared
               /\ req[r].new \subseteq [dow : req[r].days, by : {r}]
               /\ "days" \in req[r].sets =>
                     /\ req[r].new = [dow : req[r].days, by : {r}]
                     /\ days[c] \cap req[r].target = req[r].gone
                     /\ DowsOf(days[c] \ req[r].gone) \cap DowsOf(req[r].new) = {}
                     /\ \A d \in days[c] \ req[r].gone :
                           /\ d.by # Creation
                           /\ req[d.by].sets \cap req[r].sets = {"days"}
               /\ "days" \notin req[r].sets =>
                     req[r].gone = {} /\ req[r].new = {}
               /\ \A d \in days[c] : d.by # r
<1> DEFINE c == req[r].company
<1>1. TypeOK /\ InOrder /\ CreatedFirst /\ CommittedHasEnded /\ Running(r)
  BY DEF IndInv, At, Running
<1>2. c \in Companies /\ c \in created
  BY <1>1, RequestFields DEF CreatedFirst
<1>3. /\ req[r].held = req[r].sets \cap Shared
      /\ "days" \in req[r].sets =>
            Replacing(r) /\ req[r].new = [dow : req[r].days, by : {r}]
      /\ "days" \notin req[r].sets =>
            req[r].target \cup req[r].gone \cup req[r].new = {}
  BY <1>1, AtFacts
<1>4. \A d \in days[c] : d.by # r
  BY <1>1, <1>2, CommittedStays
<1>5. CASE "days" \in req[r].sets
  <2>1. FindsItsRows(r) /\ ~At(r, "locks")
    BY <1>3, <1>5 DEF IndInv, Replacement, At
  <2>2. days[c] \cap req[r].target = req[r].gone
    BY <2>1 DEF FindsItsRows
  <2>3. DowsOf(days[c] \ req[r].gone) \cap DowsOf(req[r].new) = {}
    BY <2>1 DEF FindsItsRows
  <2>4. \A d \in days[c] \ req[r].target :
           d.by # Creation /\ req[d.by].sets \cap req[r].sets = {"days"}
    BY <2>1 DEF FindsItsRows
  <2> QED BY <1>1, <1>2, <1>3, <1>4, <1>5, <2>2, <2>3, <2>4
<1>6. CASE "days" \notin req[r].sets
  BY <1>1, <1>2, <1>3, <1>4, <1>6
<1> QED BY <1>5, <1>6


(* A commit: the update ends, and what it had in its hands is there. *)
LEMMA CommitPreserves ==
    ASSUME IndInv, NEW r \in Requests, Commit(r)
    PROVE  IndInv'
<1> DEFINE c == req[r].company
           N == (days[c] \ req[r].gone) \cup req[r].new
           W == [k \in Shared |-> IF k \in req[r].held THEN r ELSE wrote[c][k]]
<1>1. TypeOK /\ InOrder /\ CreatedFirst /\ CommittedHasEnded
  BY DEF IndInv
<1>2. /\ At(r, "commit") /\ wrote' = [wrote EXCEPT ![c] = W]
      /\ days' = [days EXCEPT ![c] = N]
      /\ history' = [history EXCEPT ![c] = Append(history[c], r)]
      /\ req' = [req EXCEPT ![r] = Ended(r)]
      /\ UNCHANGED << created, faults >>
  BY <1>1, CommittedRows DEF Commit, Committed, TypeOK
<1>3. /\ Running(r) /\ c \in Companies /\ c \in created
      /\ req[r].held = req[r].sets \cap Shared
      /\ req[r].new \subseteq [dow : req[r].days, by : {r}]
      /\ "days" \in req[r].sets =>
            /\ req[r].new = [dow : req[r].days, by : {r}]
            /\ days[c] \cap req[r].target = req[r].gone
            /\ DowsOf(days[c] \ req[r].gone) \cap DowsOf(req[r].new) = {}
            /\ \A d \in days[c] \ req[r].gone :
                  d.by # Creation /\ req[d.by].sets \cap req[r].sets = {"days"}
      /\ "days" \notin req[r].sets => req[r].gone = {} /\ req[r].new = {}
      /\ \A d \in days[c] : d.by # r
  BY <1>2, CommittedRows
<1>4. /\ Ended(r) \in request /\ Ended(r).company = c
      /\ Ended(r).sets = req[r].sets /\ Ended(r).days = req[r].days
      /\ Ended(r).todo = << >> /\ Ended(r).held = {} /\ Ended(r).target = {}
      /\ Ended(r).gone = {} /\ Ended(r).new = {}
  BY <1>1, EndedFields
<1> HIDE DEF N, W
<1>5. /\ req' \in [Requests -> request] /\ req'[r] = Ended(r)
      /\ \A q \in Requests \ {r} : req'[q] = req[q]
      /\ \A q \in Requests : req'[q].company = req[q].company
                             /\ req'[q].sets = req[q].sets
                             /\ req'[q].days = req[q].days
      /\ ~Running(r)'
  BY <1>1, <1>2, <1>4 DEF TypeOK, Running
<1>6. \A q \in Requests : Running(q)' => Running(q) /\ q # r
  BY <1>5 DEF Running
<1>7. N \in SUBSET DayRow /\ \A d, e \in N : d.dow = e.dow => d = e
  <2>1. req[r].new \in SUBSET DayRow /\ days[c] \in SUBSET DayRow
    BY <1>1, <1>3, RequestFields DEF TypeOK
  <2>2. \A d, e \in req[r].new : d.dow = e.dow => d = e
    BY <1>3
  <2>3. \A d, e \in days[c] : d.dow = e.dow => d = e
    BY <1>1, <1>3 DEF TypeOK
  <2>4. \A d \in days[c] \ req[r].gone, e \in req[r].new : d.dow # e.dow
    BY <1>3 DEF DowsOf
  <2> QED BY <2>1, <2>2, <2>3, <2>4 DEF N
<1>8. /\ days' \in [Companies -> SUBSET DayRow] /\ days'[c] = N
      /\ history' \in [Companies -> Seq(Requests)]
      /\ history'[c] = Append(history[c], r)
      /\ wrote' \in [Companies -> [Shared -> Writers \cup {Nobody}]]
      /\ wrote'[c] = W
      /\ \A b \in Companies \ {c} :
            days'[b] = days[b] /\ history'[b] = history[b] /\ wrote'[b] = wrote[b]
  <2>1. W \in [Shared -> Writers \cup {Nobody}]
    BY <1>1, <1>3 DEF W, TypeOK, Writers
  <2>2. Append(history[c], r) \in Seq(Requests)
    BY <1>1, <1>3 DEF TypeOK
  <2> QED BY <1>1, <1>2, <1>3, <1>7, <2>1, <2>2 DEF TypeOK
<1>9. TypeOK'
  <2>1. \A b \in Companies : \A d, e \in days'[b] : d.dow = e.dow => d = e
    BY <1>1, <1>7, <1>8 DEF TypeOK
  <2> QED BY <1>1, <1>2, <1>5, <1>8, <2>1 DEF TypeOK
<1>10. CreatedFirst'
  BY <1>1, <1>2, <1>3, <1>5, <1>6, <1>8 DEF CreatedFirst
<1>11. \A b \in Companies :
          /\ \A i \in DOMAIN history[b] : history[b][i] \in Requests \ {r}
          /\ \A d \in days[b] : d.by # Creation => d.by \in Requests \ {r}
  BY <1>1, <1>3, CommittedStays
<1>12. CommittedHasEnded'
  <2>1. ASSUME NEW b \in Companies, NEW i \in DOMAIN history'[b],
               NEW w, w = history'[b][i]
        PROVE  EndedFor(w, b)'
    <3>1. history[b] \in Seq(Requests)
      BY <1>1 DEF TypeOK
    <3>2. \/ i \in DOMAIN history[b] /\ w = history[b][i]
          \/ b = c /\ w = r
      <4>1. CASE b = c
        <5>1. PICK s \in Seq(Requests) : s = history[b]
          BY <3>1
        <5>2. i \in DOMAIN Append(s, r) /\ w = Append(s, r)[i]
          BY <1>8, <2>1, <4>1, <5>1
        <5>3. DOMAIN Append(s, r) = 1 .. (Len(s) + 1) /\ DOMAIN s = 1 .. Len(s)
          BY <1>3
        <5>4. CASE i = Len(s) + 1
          BY <4>1, <5>2, <5>4
        <5>5. CASE i # Len(s) + 1
          <6>1. i \in 1 .. Len(s)
            BY <5>2, <5>3, <5>5
          <6> QED BY <5>1, <5>2, <5>3, <6>1
        <5> QED BY <5>4, <5>5
      <4>2. CASE b # c
        BY <1>8, <2>1, <4>2
      <4> QED BY <4>1, <4>2
    <3>3. CASE i \in DOMAIN history[b] /\ w = history[b][i]
      <4>1. EndedFor(w, b) /\ w \in Requests \ {r}
        BY <1>1, <1>11, <3>3 DEF CommittedHasEnded
      <4> QED BY <1>5, <4>1 DEF EndedFor, Running
    <3>4. CASE b = c /\ w = r
      BY <1>4, <1>5, <3>4 DEF EndedFor
    <3> QED BY <3>2, <3>3, <3>4
  <2>2. ASSUME NEW b \in Companies, NEW d \in days'[b], d.by # Creation
        PROVE  EndedFor(d.by, b)' /\ "days" \in req'[d.by].sets
    <3>1. CASE d \in days[b]
      BY <1>1, <1>5, <1>11, <2>2, <3>1 DEF CommittedHasEnded, EndedFor, Running
    <3>2. CASE d \notin days[b]
      <4>1. b = c /\ d \in req[r].new
        BY <1>8, <3>2 DEF N
      <4>2. d.by = r /\ "days" \in req[r].sets
        BY <1>3, <4>1
      <4> QED BY <1>4, <1>5, <4>1, <4>2 DEF EndedFor
    <3> QED BY <3>1, <3>2
  <2>3. \A b \in Companies : \A i \in DOMAIN history'[b] :
           \E w : w = history'[b][i] /\ EndedFor(w, b)'
    BY <2>1
  <2> QED BY <2>2, <2>3 DEF CommittedHasEnded, EndedFor, Running
<1>13. InOrder'
  <2> SUFFICES ASSUME NEW q \in Requests PROVE StatementsInOrder(q)'
    BY DEF InOrder
  <2>1. CASE q = r
    BY <1>4, <1>5, <2>1 DEF StatementsInOrder
  <2>2. CASE q # r
    BY <1>1, <1>5, <2>2 DEF InOrder, StatementsInOrder, Running
  <2> QED BY <2>1, <2>2
<1>14. RowsAreLocked'
  <2> SUFFICES ASSUME NEW q \in Requests, Running(q)', NEW o \in Others(q)'
               PROVE  Apart(q, o)'
    BY DEF RowsAreLocked
  <2>1. Running(q) /\ q # r /\ o \in Others(q) /\ o # r /\ o \in Requests
    BY <1>5, <1>6 DEF Others
  <2>2. Apart(q, o)
    BY <2>1 DEF IndInv, RowsAreLocked
  <2> QED BY <1>5, <2>1, <2>2 DEF Apart
<1>15. Replacement'
  <2> SUFFICES ASSUME NEW q \in Requests, Replacing(q)'
               PROVE  FindsItsRows(q)'
    BY DEF Replacement
  <2>1. Running(q)'
    BY DEF Replacing, At, Running
  <2>2. q # r /\ Running(q) /\ req'[q] = req[q]
    BY <1>5, <1>6, <2>1
  <2>3. Replacing(q) /\ At(q, "locks")' = At(q, "locks")
    BY <2>2 DEF Replacing, At
  <2>4. FindsItsRows(q)
    BY <2>3 DEF IndInv, Replacement
  <2>5. \A d \in req[q].target :
           d.by # Creation => EndedFor(d.by, req[q].company)'
    <3> SUFFICES ASSUME NEW d \in req[q].target, d.by # Creation
                 PROVE  EndedFor(d.by, req[q].company)'
      OBVIOUS
    <3>1. EndedFor(d.by, req[q].company)
      BY <2>4 DEF FindsItsRows
    <3>2. d.by \in Requests
      BY <1>1, RequestFields DEF DayRow, Writers
    <3> QED BY <1>5, <1>6, <2>2, <3>1, <3>2 DEF EndedFor
  <2>6. req[q].company \in Companies
    BY <1>1, <2>2, RequestFields
  <2>7. CASE req[q].company # c
    <3>1. days'[req[q].company] = days[req[q].company]
      BY <1>8, <2>6, <2>7
    <3>2. \A d \in days[req[q].company] \ req[q].target :
             /\ d.by # Creation
             /\ req'[d.by].sets \cap req[q].sets = {"days"}
      BY <1>5, <1>11, <2>4, <2>6 DEF FindsItsRows
    <3> QED BY <2>2, <2>3, <2>4, <2>5, <3>1, <3>2 DEF FindsItsRows
  <2>8. CASE req[q].company = c
    <3>1. Apart(r, q)
      BY <1>1, <1>3, <2>2, <2>8 DEF IndInv, RowsAreLocked, Others
    <3>2. \A d \in req[r].new : d.by = r /\ d \notin req[q].target
      BY <1>3, <2>4 DEF FindsItsRows, EndedFor
    <3>3. ~At(q, "locks") => N \cap req[q].target = req[q].gone
      <4> SUFFICES ASSUME ~At(q, "locks")
                   PROVE  N \cap req[q].target = req[q].gone
        OBVIOUS
      <4>1. days[c] \cap req[q].target = req[q].gone
        BY <2>4, <2>8 DEF FindsItsRows
      <4> QED BY <3>1, <3>2, <4>1 DEF N, Apart
    <3>4. \A d \in N \ req[q].target, e \in N :
             d.by = e.by => e \in N \ req[q].target
      <4> SUFFICES ASSUME NEW d \in N \ req[q].target, NEW e \in N,
                          d.by = e.by, e \in req[q].target
                   PROVE  FALSE
        OBVIOUS
      <4>1. e \in days[c] /\ e.by # r
        BY <1>3, <3>2 DEF N
      <4>2. d \in days[c]
        BY <3>2, <4>1 DEF N
      <4> QED BY <2>4, <2>8, <4>1, <4>2 DEF FindsItsRows
    <3>5. \A d \in N \ req[q].target :
             /\ d.by # Creation
             /\ req'[d.by].sets \cap req[q].sets = {"days"}
      <4> SUFFICES ASSUME NEW d \in N \ req[q].target
                   PROVE  /\ d.by # Creation
                          /\ req'[d.by].sets \cap req[q].sets = {"days"}
        OBVIOUS
      <4>1. CASE d \in days[c]
        <5>1. /\ d.by # Creation
              /\ req[d.by].sets \cap req[q].sets = {"days"}
          BY <2>4, <2>8, <4>1 DEF FindsItsRows
        <5> QED BY <1>3, <1>5, <1>11, <4>1, <5>1
      <4>2. CASE d \in req[r].new
        <5>1. d.by = r /\ "days" \in req[r].sets
          BY <1>3, <4>2
        <5>2. "days" \in req[q].sets /\ req[q].held = req[q].sets \cap Shared
          BY <1>1, <2>2, <2>3, AtFacts
        <5>3. req[r].held \cap req[q].held = {}
          BY <3>1 DEF Apart
        <5>4. req[r].sets \in SUBSET Fields
          BY <1>1, RequestFields
        <5>5. req[r].sets \cap req[q].sets = {"days"}
          BY <1>3, <5>1, <5>2, <5>3, <5>4 DEF Fields
        <5> QED BY <1>5, <5>1, <5>5
      <4> QED BY <4>1, <4>2 DEF N
    <3>6. DowsOf(N \ req[q].gone) \cap DowsOf(req[q].new) = {}
      <4>1. DowsOf(days[c] \ req[q].gone) \cap DowsOf(req[q].new) = {}
        BY <2>4, <2>8 DEF FindsItsRows
      <4> QED BY <3>1, <4>1 DEF N, Apart, DowsOf
    <3> QED BY <1>8, <2>2, <2>3, <2>5, <2>8, <3>3, <3>4, <3>5, <3>6
        DEF FindsItsRows
  <2> QED BY <2>7, <2>8
<1>16. MixedDaysShareNoRow'
  <2> SUFFICES ASSUME NEW b \in Clients, NEW d \in days'[b], NEW e \in days'[b],
                      d.by # e.by
               PROVE  /\ {d.by, e.by} \subseteq Requests
                      /\ req'[d.by].sets \cap req'[e.by].sets = {"days"}
    BY DEF MixedDaysShareNoRow
  <2>1. b \in Companies
    BY DEF Companies
  <2>2. CASE d \in days[b] /\ e \in days[b]
    BY <1>5, <2>2 DEF IndInv, MixedDaysShareNoRow
  <2>3. ASSUME NEW x \in req[r].new, NEW y \in N, x.by # y.by
        PROVE  /\ x.by \in Requests /\ y.by \in Requests
               /\ req'[x.by].sets \cap req'[y.by].sets = {"days"}
               /\ req'[y.by].sets \cap req'[x.by].sets = {"days"}
    <3>1. x.by = r /\ "days" \in req[r].sets
      BY <1>3
    <3>2. y \in days[c] \ req[r].gone
      BY <1>3, <2>3, <3>1 DEF N
    <3>3. y.by # Creation /\ req[y.by].sets \cap req[r].sets = {"days"}
      BY <1>3, <3>1, <3>2
    <3>4. y.by \in Requests
      BY <1>3, <1>11, <3>2, <3>3
    <3> QED BY <1>5, <3>1, <3>3, <3>4
  <2>4. CASE d \notin days[b]
    <3>1. d \in req[r].new /\ e \in N
      BY <1>8, <2>1, <2>4 DEF N
    <3> QED BY <2>3, <3>1
  <2>5. CASE e \notin days[b]
    <3>1. e \in req[r].new /\ d \in N
      BY <1>8, <2>1, <2>5 DEF N
    <3> QED BY <2>3, <3>1
  <2> QED BY <2>2, <2>4, <2>5
<1>17. LastWordStays'
  <2> SUFFICES ASSUME NEW b \in Companies, NEW i \in DOMAIN history'[b]
               PROVE  WordStays(b, i)'
    BY DEF LastWordStays
  <2>1. history[b] \in Seq(Requests)
    BY <1>1 DEF TypeOK
  <2>2. CASE b # c
    <3>1. i \in DOMAIN history[b] /\ history'[b] = history[b]
      BY <1>8, <2>2
    <3>2. Later(b, i)' = Later(b, i) /\ \A w : RowsBy(b, w)' = RowsBy(b, w)
      BY <1>8, <2>2 DEF Later, RowsBy
    <3>3. WordStays(b, i)
      BY <3>1 DEF IndInv, LastWordStays
    <3>4. \A j \in (i + 1)..Len(history[b]) : j \in DOMAIN history[b]
      BY <2>1, <3>1
    <3>5. Later(b, i) \subseteq Requests
      BY <1>11, <3>4 DEF Later
    <3>6. history[b][i] \in Requests /\ wrote'[b] = wrote[b]
      BY <1>8, <1>11, <2>2, <3>1
    <3> QED BY <1>5, <3>1, <3>2, <3>3, <3>5, <3>6 DEF WordStays
  <2>3. CASE b = c
    <3> PICK s \in Seq(Requests) : s = history[b]
      BY <2>1
    <3> PICK n \in Nat : n = Len(s)
      OBVIOUS
    <3>1. /\ DOMAIN s = 1 .. n /\ history'[b] = Append(s, r)
          /\ Len(history'[b]) = n + 1 /\ DOMAIN history'[b] = 1 .. (n + 1)
          /\ \A j \in 1 .. n : history'[b][j] = s[j] /\ s[j] \in Requests
          /\ history'[b][n + 1] = r
      BY <1>3, <1>8, <2>3
    <3>2. CASE i \in 1 .. n
      <4> PICK w \in Requests : w = s[i]
        BY <3>1, <3>2
      <4>1. history'[b][i] = w /\ w # r
        BY <1>11, <3>1, <3>2
      <4>2. Later(b, i)' = Later(b, i) \cup {r}
        <5>1. Later(b, i)' = {history'[b][j] : j \in (i + 1) .. (n + 1)}
          BY <3>1 DEF Later
        <5>2. Later(b, i) = {s[j] : j \in (i + 1) .. n}
          BY DEF Later
        <5>3. \A j \in (i + 1) .. (n + 1) : j \in (i + 1) .. n \/ j = n + 1
          BY <3>2
        <5>4. \A j \in (i + 1) .. n : /\ j \in (i + 1) .. (n + 1)
                                     /\ history'[b][j] = s[j]
          BY <3>1, <3>2
        <5>5. n + 1 \in (i + 1) .. (n + 1)
          BY <3>2
        <5>6. ASSUME NEW x \in Later(b, i)' PROVE x \in Later(b, i) \cup {r}
          BY <3>1, <5>1, <5>2, <5>3, <5>4
        <5>7. ASSUME NEW x \in Later(b, i) \cup {r} PROVE x \in Later(b, i)'
          BY <3>1, <5>1, <5>2, <5>4, <5>5
        <5> QED BY <5>6, <5>7
      <4>3. Later(b, i) \subseteq Requests
        BY <3>1, <3>2 DEF Later
      <4>4. /\ \A k \in req[w].sets \cap Shared :
                  (\A q \in Later(b, i) : k \notin req[q].sets)
                     => wrote[b][k] = w
            /\ ("days" \in req[w].sets
                  /\ (\A q \in Later(b, i) : "days" \notin req[q].sets))
                 => DowsOf(RowsBy(b, w)) = req[w].days
        <5>1. WordStays(b, i)
          BY <3>1, <3>2 DEF IndInv, LastWordStays
        <5>2. history[b][i] = w
          OBVIOUS
        <5> QED BY <5>1, <5>2 DEF WordStays
      <4>5. \A k \in Shared : k \notin req[r].sets => wrote'[b][k] = wrote[b][k]
        BY <1>3, <1>8, <2>3 DEF W
      <4>6. "days" \notin req[r].sets => RowsBy(b, w)' = RowsBy(b, w)
        <5>1. "days" \notin req[r].sets => days'[b] = days[b]
          BY <1>3, <1>8, <2>3 DEF N
        <5> QED BY <5>1 DEF RowsBy
      <4>7. ASSUME NEW k \in req[w].sets \cap Shared,
                   \A q \in Later(b, i)' : k \notin req'[q].sets
            PROVE  wrote'[b][k] = w
        <5>1. \A q \in Later(b, i) : k \notin req[q].sets
          BY <1>5, <4>2, <4>3, <4>7
        <5>2. k \notin req[r].sets
          BY <1>5, <4>2, <4>7
        <5> QED BY <4>4, <4>5, <5>1, <5>2
      <4>8. ASSUME "days" \in req[w].sets,
                   \A q \in Later(b, i)' : "days" \notin req'[q].sets
            PROVE  DowsOf(RowsBy(b, w))' = req[w].days
        <5>1. \A q \in Later(b, i) : "days" \notin req[q].sets
          BY <1>5, <4>2, <4>3, <4>8
        <5>2. "days" \notin req[r].sets
          BY <1>5, <4>2, <4>8
        <5> QED BY <4>4, <4>6, <4>8, <5>1, <5>2 DEF DowsOf
      <4>9. req'[w].sets = req[w].sets /\ req'[w].days = req[w].days
        BY <1>5
      <4> QED BY <4>1, <4>7, <4>8, <4>9 DEF WordStays
    <3>3. CASE i = n + 1
      <4>1. history'[b][i] = r
        BY <3>1, <3>3
      <4>2. \A k \in req[r].sets \cap Shared : wrote'[b][k] = r
        BY <1>3, <1>8, <2>3 DEF W
      <4>3. "days" \in req[r].sets => DowsOf(RowsBy(b, r))' = req[r].days
        <5> SUFFICES ASSUME "days" \in req[r].sets
                     PROVE  DowsOf(RowsBy(b, r))' = req[r].days
          OBVIOUS
        <5>1. RowsBy(b, r)' = req[r].new
          BY <1>3, <1>8, <2>3 DEF RowsBy, N
        <5>2. req[r].new = [dow : req[r].days, by : {r}]
          BY <1>3
        <5>3. {d.dow : d \in [dow : req[r].days, by : {r}]} = req[r].days
          <6>1. ASSUME NEW x \in req[r].days
                PROVE  \E d \in [dow : req[r].days, by : {r}] : d.dow = x
            <7>1. /\ [dow |-> x, by |-> r] \in [dow : req[r].days, by : {r}]
                  /\ [dow |-> x, by |-> r].dow = x
              OBVIOUS
            <7> QED BY <7>1
          <6>2. \A d \in [dow : req[r].days, by : {r}] : d.dow \in req[r].days
            OBVIOUS
          <6> QED BY <6>1, <6>2
        <5> QED BY <5>1, <5>2, <5>3 DEF DowsOf
      <4> QED BY <1>3, <1>5, <4>1, <4>2, <4>3 DEF WordStays
    <3> QED BY <3>1, <3>2, <3>3
  <2> QED BY <2>2, <2>3
<1> QED BY <1>9, <1>10, <1>12, <1>13, <1>14, <1>15, <1>16, <1>17 DEF IndInv


-----------------------------------------------------------------------------
(* Every step *)

(* Only a new company and a commit change the tables. *)
LEMMA NextCases ==
    ASSUME Next
    PROVE  \/ \E c \in Companies, D \in SUBSET Dows : Create(c, D)
           \/ \E r \in Requests, c \in Companies, sets \in SUBSET Fields,
                 D \in SUBSET Dows : Begin(r, c, sets, D)
           \/ \E r \in Requests : (\E k \in Shared : WriteRow(r, k))
                                  \/ DeleteDays(r) \/ LockDays(r)
                                  \/ InsertDays(r) \/ Fail(r)
           \/ \E r \in Requests : Commit(r)
<1>1. CASE \E c \in Companies : CreateCatering(c)
                                \/ \E D \in SUBSET Dows : CreateClient(c, D)
  BY <1>1 DEF CreateCatering, CreateClient
<1>2. CASE \E r \in Requests, c \in Companies :
              \/ SoftDelete(r, c)
              \/ \E sets \in SUBSET Fields :
                    \/ UpdateCatering(r, c, sets)
                    \/ \E D \in SUBSET Dows : UpdateClient(r, c, sets, D)
  <2>1. {"company"} \in SUBSET Fields /\ {} \in SUBSET Dows
    BY DEF Fields, Shared
  <2> QED BY <1>2, <2>1 DEF SoftDelete, UpdateCatering, UpdateClient
<1>3. CASE \E r \in Requests : Step(r) \/ Fail(r)
  BY <1>3 DEF Step
<1> QED BY <1>1, <1>2, <1>3 DEF Next

LEMMA IdlePreserves == IndInv /\ UNCHANGED vars => IndInv'
<1> SUFFICES ASSUME IndInv, UNCHANGED vars PROVE IndInv'
  OBVIOUS
<1> USE DEF vars
<1>1. TypeOK' /\ CreatedFirst' /\ CommittedHasEnded'
  BY DEF IndInv, TypeOK, CreatedFirst, CommittedHasEnded, EndedFor, Running
<1>2. InOrder' /\ RowsAreLocked'
  BY DEF IndInv, InOrder, StatementsInOrder, RowsAreLocked, Apart, Others, Running
<1>3. Replacement'
  BY DEF IndInv, Replacement, Replacing, FindsItsRows, EndedFor, At, Running
<1>4. MixedDaysShareNoRow'
  BY DEF IndInv, MixedDaysShareNoRow
<1>5. LastWordStays'
  <2> SUFFICES ASSUME NEW c \in Companies, NEW i \in DOMAIN history[c]
               PROVE  WordStays(c, i)'
    BY DEF LastWordStays
  <2>1. Later(c, i)' = Later(c, i) /\ \A w : RowsBy(c, w)' = RowsBy(c, w)
    BY DEF Later, RowsBy
  <2>2. WordStays(c, i)
    BY DEF IndInv, LastWordStays
  <2> QED BY <2>1, <2>2 DEF WordStays
<1> QED BY <1>1, <1>2, <1>3, <1>4, <1>5 DEF IndInv

LEMMA StepPreserves == IndInv /\ [Next]_vars => IndInv'
  BY NextCases, CreatePreserves, BeginPreserves, WriteRowPreserves,
     DeleteDaysPreserves, LockDaysPreserves, InsertDaysPreserves,
     CommitPreserves, FailPreserves, IdlePreserves

(* All the office days that an update gave go, or none of them.            *)
LEMMA StepMovesTogether ==
    ASSUME IndInv, [Next]_vars, NEW c \in Companies, NEW w \in Writers
    PROVE  RowsBy(c, w) # {} => RowsBy(c, w)' \in {{}, RowsBy(c, w)}
<1>1. TypeOK /\ CreatedFirst
  BY DEF IndInv
<1>2. CASE UNCHANGED days
  BY <1>2 DEF RowsBy
<1>3. ASSUME NEW b \in Companies, NEW D \in SUBSET Dows, Create(b, D)
      PROVE  RowsBy(c, w) # {} => RowsBy(c, w)' \in {{}, RowsBy(c, w)}
  <2>1. CASE b = c
    <3>1. days[c] = {}
      BY <1>1, <1>3, <2>1 DEF Create, CreatedFirst
    <3> QED BY <3>1 DEF RowsBy
  <2>2. CASE b # c
    <3>1. days'[c] = days[c]
      BY <1>1, <1>3, <2>2 DEF Create, TypeOK
    <3> QED BY <3>1 DEF RowsBy
  <2> QED BY <2>1, <2>2
<1>4. ASSUME NEW r \in Requests, Commit(r)
      PROVE  RowsBy(c, w) # {} => RowsBy(c, w)' \in {{}, RowsBy(c, w)}
  <2>1. At(r, "commit")
    BY <1>4 DEF Commit
  <2>2. CASE c # req[r].company
    <3>1. days'[c] = days[c]
      BY <1>1, <1>4, <2>2 DEF Commit, TypeOK
    <3> QED BY <3>1 DEF RowsBy
  <2>3. CASE c = req[r].company
    <3>1. days'[c] = (days[c] \ req[r].gone) \cup req[r].new
      BY <1>1, <1>4, <2>3 DEF Commit, Committed, TypeOK
    <3>2. /\ \A d \in req[r].new : d.by = r
          /\ \A d \in days[c] : d.by # r
          /\ "days" \notin req[r].sets => req[r].gone = {}
          /\ "days" \in req[r].sets =>
                days[c] \cap req[r].target = req[r].gone
      <4>1. /\ req[r].new \subseteq [dow : req[r].days, by : {r}]
            /\ \A d \in days[c] : d.by # r
            /\ "days" \notin req[r].sets => req[r].gone = {}
            /\ "days" \in req[r].sets =>
                  days[c] \cap req[r].target = req[r].gone
        BY <2>1, <2>3, CommittedRows
      <4> QED BY <4>1
    <3> SUFFICES ASSUME RowsBy(c, w) # {}
                 PROVE  RowsBy(c, w)' \in {{}, RowsBy(c, w)}
      OBVIOUS
    <3>3. w # r
      BY <3>2 DEF RowsBy
    <3>4. RowsBy(c, w)' = RowsBy(c, w) \ req[r].gone
      BY <3>1, <3>2, <3>3 DEF RowsBy
    <3>5. CASE "days" \in req[r].sets
      <4>1. Replacing(r)
        BY <2>1, <3>5 DEF Replacing
      <4>2. \A d \in days[c] \ req[r].target, e \in days[c] :
               d.by = e.by => e \in days[c] \ req[r].target
        BY <2>3, <4>1 DEF IndInv, Replacement, FindsItsRows
      <4>3. \/ RowsBy(c, w) \subseteq req[r].gone
            \/ RowsBy(c, w) \cap req[r].gone = {}
        BY <3>2, <3>5, <4>2 DEF RowsBy
      <4> QED BY <3>4, <4>3
    <3>6. CASE "days" \notin req[r].sets
      BY <3>2, <3>4, <3>6
    <3> QED BY <3>5, <3>6
  <2> QED BY <2>2, <2>3
<1>5. ASSUME NEW r \in Requests,
             \/ \E k \in Shared : WriteRow(r, k)
             \/ DeleteDays(r) \/ LockDays(r) \/ InsertDays(r) \/ Fail(r)
             \/ \E b \in Companies, sets \in SUBSET Fields, D \in SUBSET Dows :
                   Begin(r, b, sets, D)
      PROVE  UNCHANGED days
  BY <1>5 DEF WriteRow, DeleteDays, LockDays, InsertDays, Fail, Begin
<1> QED BY <1>2, <1>3, <1>4, <1>5, NextCases DEF vars

-----------------------------------------------------------------------------
(* Results *)

(* IndInv holds in every reachable state: what each update has in its      *)
(* hands, whose rows those are, and what it will leave (client.service.ts  *)
(* 154-201).                                                               *)
THEOREM Inductive == Spec => []IndInv
  BY InitEstablishes, StepPreserves, PTL DEF Spec

(* Every variable has its type, and no company has an office day twice     *)
(* (client.service.ts 154-201).                                            *)
THEOREM TypeCorrect == Spec => []TypeOK
<1>1. IndInv => TypeOK
  BY DEF IndInv
<1> QED BY <1>1, Inductive, PTL

(* However many updates of a company overlap, none is lost or half there   *)
(* (client.service.ts 154-201).                                            *)
THEOREM UpdatesCorrect == Spec => []LastWordStays
<1>1. IndInv => LastWordStays
  BY DEF IndInv
<1> QED BY <1>1, Inductive, PTL

(* Office days of two updates are mixed only if these wrote no row in      *)
(* common before (client.service.ts 160-197).                              *)
THEOREM MixedDaysCorrect == Spec => []MixedDaysShareNoRow
<1>1. IndInv => MixedDaysShareNoRow
  BY DEF IndInv
<1> QED BY <1>1, Inductive, PTL

(* Office days given together are replaced together (client.service.ts     *)
(* 185-197).                                                               *)
THEOREM DaysReplaced == Spec => DaysMoveTogether
<1>1. IndInv /\ [Next]_vars =>
         [\A c \in Companies, w \in Writers :
             RowsBy(c, w) # {} => RowsBy(c, w)' \in {{}, RowsBy(c, w)}]_vars
  BY StepMovesTogether
<1> QED BY <1>1, Inductive, PTL DEF Spec, DaysMoveTogether
=============================================================================
