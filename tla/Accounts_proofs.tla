---------------------------- MODULE Accounts_proofs ----------------------------
(***************************************************************************)
(* Proofs about Accounts, for any companies, requests, sessions and links  *)
(* and any bound on passwords and failures: what a change of a password    *)
(* ends, and that a reset link changes a password once.                    *)
(***************************************************************************)
EXTENDS Accounts, TLAPS

USE AccountsAssumption

(* Initially nobody asks for anything and no row is there. *)
LEMMA InitEstablishes == Init => IndInv
<1> SUFFICES ASSUME Init PROVE IndInv
  OBVIOUS
<1>1. TypeOK
  BY DEF Init, TypeOK, session, link, request, Idle, InStep, Passwords, Steps
<1>2. SessionInv
  BY DEF Init, SessionInv, SessionsBelong, RequestsKnowSessions,
         SessionsEndWithPassword, RevocationsHaveReasons, SweepsHaveReasons,
         Live, Sweeping, InStep, Idle
<1>3. LinkInv
  BY DEF Init, LinkInv, LinksBelong, RequestsKnowLinks,
         UnsharedLinksAreHeldOnce, LinksChangeOnce, SecondChangeWasShared,
         ChangedLinkIsSpent, SpentLinkChanged, Holding, InStep, Idle
<1> QED BY <1>1, <1>2, <1>3 DEF IndInv

-----------------------------------------------------------------------------
(* What a step of one request leaves alone *)

(* Only request r has taken a step, and is now e. *)
Becomes(r, e) ==
    /\ req' = [req EXCEPT ![r] = e]
    /\ e \in request
    /\ e.at # "idle" => e.company \in Companies

(* What that means for each of the requests. *)
LEMMA Moved ==
    ASSUME TypeOK, NEW r \in Requests, NEW e, Becomes(r, e)
    PROVE  /\ req'[r] = e /\ \A q \in Requests \ {r} : req'[q] = req[q]
           /\ req' \in [Requests -> request]
           /\ \A q \in Requests :
                 ~InStep(q, "idle")' => req'[q].company \in Companies
  BY DEF TypeOK, Becomes, InStep

(* The sessions have to do with steps of login, logout and sweep only.     *)
LEMMA SessionsUndisturbed ==
    ASSUME TypeOK, SessionInv, NEW r \in Requests, NEW e, Becomes(r, e),
           UNCHANGED << password, sessions, unswept >>,
           req[r].at # "sweep", e.at \notin {"sweep", "login"},
           e.at = "logout" => e.token \in Sessions /\ sessions[e.token].there
    PROVE  SessionInv'
<1> USE DEF SessionInv, InStep
<1>1. req'[r] = e /\ \A q \in Requests \ {r} : req'[q] = req[q]
  BY Moved
<1>2. SessionsBelong' /\ RevocationsHaveReasons'
  BY DEF SessionsBelong, RevocationsHaveReasons, LeftByAnother
<1>3. RequestsKnowSessions'
  BY <1>1 DEF RequestsKnowSessions
<1>4. SessionsEndWithPassword'
  BY <1>1 DEF SessionsEndWithPassword, Live, Sweeping
<1>5. SweepsHaveReasons'
  BY <1>1 DEF SweepsHaveReasons, Sweeping
<1> QED BY <1>2, <1>3, <1>4, <1>5

(* The links have to do with steps of a reset only, and a request that     *)
(* gives up a link leaves it better off, unless it was about to set.       *)
LEMMA LinksUndisturbed ==
    ASSUME TypeOK, LinkInv, NEW r \in Requests, NEW e, Becomes(r, e),
           UNCHANGED links,
           req[r].at # "set", e.at \notin {"mail", "reset", "mark", "set"}
    PROVE  LinkInv'
<1> USE DEF LinkInv, InStep
<1>1. req'[r] = e /\ \A q \in Requests \ {r} : req'[q] = req[q]
  BY Moved
<1>2. LinksBelong'
  BY DEF LinksBelong
<1>3. RequestsKnowLinks'
  BY <1>1 DEF RequestsKnowLinks, Usable
<1>4. UnsharedLinksAreHeldOnce'
  BY <1>1 DEF UnsharedLinksAreHeldOnce, Holding
<1>5. LinksChangeOnce'
  BY <1>1 DEF LinksChangeOnce, SecondChangeWasShared, ChangedLinkIsSpent,
         SpentLinkChanged, Holding, Usable
<1> QED BY <1>2, <1>3, <1>4, <1>5

(* A step of no request leaves what it does not write. *)
LEMMA SessionsStand ==
    ASSUME SessionInv, UNCHANGED << password, sessions, unswept, req >>
    PROVE  SessionInv'
  BY DEF SessionInv, SessionsBelong, RequestsKnowSessions, InStep, Live,
         SessionsEndWithPassword, SweepsHaveReasons, RevocationsHaveReasons,
         LeftByAnother, Sweeping

LEMMA LinksStand ==
    ASSUME LinkInv, UNCHANGED << links, req >>
    PROVE  LinkInv'
  BY DEF LinkInv, LinksBelong, RequestsKnowLinks, UnsharedLinksAreHeldOnce,
         LinksChangeOnce, SecondChangeWasShared, ChangedLinkIsSpent, InStep,
         SpentLinkChanged, Holding, Usable

(* The records that requests become. *)
LEMMA IdleIsRequest == Idle \in request /\ Idle.at = "idle"
  BY DEF Idle, request, Steps, Passwords

LEMMA BegunIsRequest ==
    ASSUME NEW a \in {"authorised", "refresh"}, NEW c \in Companies
    PROVE  LET e == [Idle EXCEPT !.at = a, !.company = c] IN
           e \in request /\ e.at = a /\ e.company = c
  BY IdleIsRequest DEF request, Steps

(* A request that answers becomes Idle. *)
LEMMA Answered ==
    ASSUME NEW r \in Requests, Answer(r)
    PROVE  Becomes(r, Idle) /\ Idle.at = "idle"
  BY IdleIsRequest DEF Answer, Becomes

(* A request that goes on keeps what it has. *)
LEMMA Gone ==
    ASSUME TypeOK, NEW r \in Requests, NEW a \in Steps, Go(r, a),
           ~InStep(r, "idle")
    PROVE  LET e == [req[r] EXCEPT !.at = a] IN
           /\ Becomes(r, e)
           /\ e.at = a /\ e.company = req[r].company /\ e.company \in Companies
           /\ e.token = req[r].token
  BY DEF Go, Becomes, TypeOK, request

-----------------------------------------------------------------------------
(* Reads, expiry and the companies' status *)

(* A request that moves outside the chains that write disturbs nothing.    *)
LEMMA QuietStep ==
    ASSUME IndInv, NEW r \in Requests, NEW e, Becomes(r, e),
           req[r].at \notin {"sweep", "set"},
           e.at \in {"idle", "authorised", "refresh", "logout", "change"},
           e.at = "logout" => e.token \in Sessions /\ sessions[e.token].there,
           access' \subseteq Companies, faults' \in 0..MaxFaults,
           UNCHANGED << status, password, sessions, links, unswept >>
    PROVE  IndInv'
<1>1. TypeOK'
  BY Moved DEF IndInv, TypeOK
<1>2. SessionInv'
  BY SessionsUndisturbed DEF IndInv
<1>3. LinkInv'
  BY LinksUndisturbed DEF IndInv
<1> QED BY <1>1, <1>2, <1>3 DEF IndInv

(* The reads of refresh, bearer check, logout and change. *)
LEMMA ReadsPreserve ==
    ASSUME IndInv, NEW r \in Requests,
           \/ \E c \in Companies : Authorise(r, c)
           \/ \E s \in Sessions : RefreshValidate(r, s) \/ LogoutFind(r, s)
           \/ RefreshAnswer(r) \/ Refused(r) \/ ChangeVerify(r)
    PROVE  IndInv'
<1>0. TypeOK /\ faults \in 0..MaxFaults /\ access \subseteq Companies
  BY DEF IndInv, TypeOK
<1> USE DEF stored, InStep
<1>1. ASSUME NEW c \in Companies, Authorise(r, c) PROVE IndInv'
  <2> DEFINE e == [Idle EXCEPT !.at = "authorised", !.company = c]
  <2>1. e \in request /\ e.at = "authorised" /\ e.company = c
    BY BegunIsRequest
  <2>2. req' = [req EXCEPT ![r] = e] /\ req[r].at = "idle"
    BY <1>1 DEF Authorise
  <2> HIDE DEF e
  <2> QED BY <1>0, <1>1, <2>1, <2>2, QuietStep DEF Authorise, Becomes
<1>2. ASSUME NEW s \in Sessions, RefreshValidate(r, s) PROVE IndInv'
  <2> DEFINE e == [Idle EXCEPT !.at = "refresh",
                               !.company = sessions[s].company]
  <2>1. sessions[s].company \in Companies
    BY <1>2 DEF RefreshValidate, Live, IndInv, SessionInv, SessionsBelong
  <2>2. /\ e \in request /\ e.at = "refresh"
        /\ e.company = sessions[s].company
    BY <2>1, BegunIsRequest
  <2>3. req' = [req EXCEPT ![r] = e] /\ req[r].at = "idle"
    BY <1>2 DEF RefreshValidate
  <2> HIDE DEF e
  <2> QED BY <1>0, <1>2, <2>1, <2>2, <2>3, QuietStep DEF RefreshValidate, Becomes
<1>3. ASSUME NEW s \in Sessions, LogoutFind(r, s) PROVE IndInv'
  <2> DEFINE e == [req[r] EXCEPT !.at = "logout", !.token = s]
  <2>1. /\ e \in request /\ e.at = "logout" /\ e.token = s
        /\ e.company = req[r].company /\ e.company \in Companies
    BY <1>0, <1>3 DEF LogoutFind, TypeOK, request, Steps
  <2>2. req' = [req EXCEPT ![r] = e] /\ req[r].at = "authorised"
    BY <1>0, <1>3 DEF LogoutFind, TypeOK, request
  <2> HIDE DEF e
  <2> QED BY <1>0, <1>3, <2>1, <2>2, QuietStep DEF LogoutFind, Becomes
<1>4. CASE RefreshAnswer(r)
  <2>1. access' \subseteq Companies
    BY <1>0, <1>4 DEF RefreshAnswer, TypeOK
  <2> QED BY <1>0, <1>4, <2>1, Answered, QuietStep DEF RefreshAnswer
<1>5. CASE Refused(r)
  BY <1>0, <1>5, Answered, QuietStep DEF Refused
<1>6. CASE ChangeVerify(r)
  <2> DEFINE e == [req[r] EXCEPT !.at = "change"]
  <2>1. Becomes(r, e) /\ e.at = "change" /\ req[r].at = "authorised"
    BY <1>0, <1>6, Gone DEF ChangeVerify, Steps
  <2> HIDE DEF e
  <2> QED BY <1>0, <1>6, <2>1, QuietStep DEF ChangeVerify
<1> QED BY <1>1, <1>2, <1>3, <1>4, <1>5, <1>6

(* What happens to a company's status and access tokens is no part of it.  *)
LEMMA CompaniesPreserve ==
    ASSUME IndInv, NEW c \in Companies,
           AccessExpires(c) \/ \E s \in {"ACTIVE", "INACTIVE"} : SetStatus(c, s)
    PROVE  IndInv'
<1>1. TypeOK' /\ UNCHANGED << password, sessions, links, req, unswept >>
  BY DEF IndInv, TypeOK, AccessExpires, SetStatus, InStep
<1> QED BY <1>1, SessionsStand, LinksStand DEF IndInv

(* One row of a table is written, and the others stay. *)
LEMMA SessionRow ==
    ASSUME TypeOK, NEW s \in Sessions, NEW new \in session,
           sessions' = [sessions EXCEPT ![s] = new]
    PROVE  /\ sessions' \in [Sessions -> session]
           /\ sessions'[s] = new
           /\ \A t \in Sessions \ {s} : sessions'[t] = sessions[t]
  BY DEF TypeOK

LEMMA LinkRow ==
    ASSUME TypeOK, NEW l \in Links, NEW new \in link,
           links' = [links EXCEPT ![l] = new]
    PROVE  /\ links' \in [Links -> link]
           /\ links'[l] = new
           /\ \A m \in Links \ {l} : links'[m] = links[m]
  BY DEF TypeOK

(* A session that expires is no longer live. *)
LEMMA SessionExpiresPreserves ==
    ASSUME IndInv, NEW s \in Sessions, SessionExpires(s)
    PROVE  IndInv'
<1> USE DEF IndInv
<1>1. /\ sessions' \in [Sessions -> session]
      /\ \A t \in Sessions :
            /\ sessions'[t].there = sessions[t].there
            /\ sessions'[t].company = sessions[t].company
            /\ sessions'[t].revoked = sessions[t].revoked
            /\ sessions'[t].began = sessions[t].began
            /\ sessions'[t].late = sessions[t].late
            /\ sessions'[t].amid = sessions[t].amid
            /\ sessions'[t].left = sessions[t].left
            /\ sessions'[t].expelled = sessions[t].expelled
            /\ Live(t)' => Live(t)
      /\ UNCHANGED << status, password, access, links, req, faults, unswept >>
  <2> DEFINE new == [sessions[s] EXCEPT !.expired = TRUE]
  <2>1. sessions[s] \in session
    BY DEF TypeOK
  <2>2. /\ new \in session /\ new.expired
        /\ new.there = sessions[s].there /\ new.company = sessions[s].company
        /\ new.revoked = sessions[s].revoked /\ new.began = sessions[s].began
        /\ new.late = sessions[s].late /\ new.amid = sessions[s].amid
        /\ new.left = sessions[s].left
        /\ new.expelled = sessions[s].expelled
    BY <2>1 DEF session
  <2>3. sessions' = [sessions EXCEPT ![s] = new]
    BY DEF SessionExpires
  <2> HIDE DEF new
  <2>4. /\ sessions' \in [Sessions -> session] /\ sessions'[s] = new
        /\ \A t \in Sessions \ {s} : sessions'[t] = sessions[t]
    BY <2>2, <2>3, SessionRow
  <2> QED BY <2>2, <2>4 DEF SessionExpires, Live
<1>2. TypeOK'
  BY <1>1 DEF TypeOK, InStep
<1>3. SessionInv'
  BY <1>1
     DEF SessionInv, SessionsBelong, RequestsKnowSessions, InStep, Sweeping,
         SessionsEndWithPassword, SweepsHaveReasons, RevocationsHaveReasons,
         LeftByAnother
<1> QED BY <1>1, <1>2, <1>3, LinksStand

(* A link that expires is no longer usable. *)
LEMMA LinkExpiresPreserves ==
    ASSUME IndInv, NEW l \in Links, LinkExpires(l)
    PROVE  IndInv'
<1> USE DEF IndInv
<1>1. /\ links' \in [Links -> link]
      /\ \A m \in Links :
            /\ links'[m].there = links[m].there
            /\ links'[m].company = links[m].company
            /\ links'[m].used = links[m].used
            /\ links'[m].changes = links[m].changes
            /\ links'[m].shared = links[m].shared
            /\ links'[m].cut = links[m].cut
            /\ Usable(m)' => Usable(m)
      /\ UNCHANGED << status, password, access, sessions, req, faults, unswept >>
  <2> DEFINE new == [links[l] EXCEPT !.expired = TRUE]
  <2>1. links[l] \in link
    BY DEF TypeOK
  <2>2. /\ new \in link /\ new.expired
        /\ new.there = links[l].there /\ new.company = links[l].company
        /\ new.used = links[l].used /\ new.changes = links[l].changes
        /\ new.shared = links[l].shared /\ new.cut = links[l].cut
    BY <2>1 DEF link
  <2>3. links' = [links EXCEPT ![l] = new]
    BY DEF LinkExpires
  <2> HIDE DEF new
  <2>4. /\ links' \in [Links -> link] /\ links'[l] = new
        /\ \A m \in Links \ {l} : links'[m] = links[m]
    BY <2>2, <2>3, LinkRow
  <2> QED BY <2>2, <2>4 DEF LinkExpires, Usable
<1>2. TypeOK'
  BY <1>1 DEF TypeOK, InStep
<1>3. LinkInv'
  BY <1>1
     DEF LinkInv, LinksBelong, RequestsKnowLinks, UnsharedLinksAreHeldOnce,
         LinksChangeOnce, SecondChangeWasShared, ChangedLinkIsSpent, InStep,
         SpentLinkChanged, Holding
<1> QED BY <1>1, <1>2, <1>3, SessionsStand

-----------------------------------------------------------------------------
(* Login and logout *)

(* A login that begins knows the password as it is, and whether a          *)
(* revokeAll is to come.                                                   *)
LEMMA LoginCheckPreserves ==
    ASSUME IndInv, NEW r \in Requests, NEW c \in Companies, LoginCheck(r, c)
    PROVE  IndInv'
<1> DEFINE e == [Idle EXCEPT !.at = "login", !.company = c,
                             !.seen = password[c], !.amid = Sweeping(c) # {}]
<1>1. TypeOK
  BY DEF IndInv
<1>2. password[c] \in Passwords /\ (Sweeping(c) # {}) \in BOOLEAN
  BY <1>1 DEF TypeOK
<1>3. /\ e \in request
      /\ e.at = "login" /\ e.company = c /\ e.seen = password[c]
      /\ e.amid <=> Sweeping(c) # {}
  BY <1>2, IdleIsRequest DEF request, Steps
<1>4. Becomes(r, e) /\ req[r].at = "idle" /\ UNCHANGED << stored, faults, unswept >>
  BY <1>3 DEF LoginCheck, Becomes, InStep
<1> HIDE DEF e
<1>5. /\ req'[r] = e /\ \A q \in Requests \ {r} : req'[q] = req[q]
      /\ \A d \in Companies : Sweeping(d)' = Sweeping(d)
  BY <1>1, <1>3, <1>4, Moved DEF Sweeping, InStep
<1>6. TypeOK'
  BY <1>1, <1>4, Moved DEF TypeOK, stored
<1>7. SessionInv'
  <2> USE <1>3, <1>4, <1>5 DEF stored, IndInv, SessionInv, InStep
  <2>1. SessionsBelong' /\ RevocationsHaveReasons'
    BY DEF SessionsBelong, RevocationsHaveReasons, LeftByAnother
  <2>2. RequestsKnowSessions'
    BY <1>2 DEF RequestsKnowSessions, Passwords
  <2>3. SessionsEndWithPassword'
    BY DEF SessionsEndWithPassword, SessionsBelong, Live
  <2>4. SweepsHaveReasons'
    BY DEF SweepsHaveReasons
  <2> QED BY <2>1, <2>2, <2>3, <2>4
<1>8. LinkInv'
  BY <1>1, <1>3, <1>4, LinksUndisturbed DEF IndInv, stored
<1> QED BY <1>6, <1>7, <1>8 DEF IndInv

(* The session of a login is under the password that was checked: late if  *)
(* that is no longer the company's.                                        *)
LEMMA LoginStorePreserves ==
    ASSUME IndInv, NEW r \in Requests, NEW s \in Sessions, LoginStore(r, s)
    PROVE  IndInv'
<1> DEFINE c == req[r].company
<1>1. TypeOK /\ SessionInv /\ LinkInv
  BY DEF IndInv
<1>2. /\ Becomes(r, Idle) /\ Idle.at = "idle"
      /\ req[r].at = "login" /\ c \in Companies /\ ~sessions[s].there
      /\ req[r].seen \in Passwords /\ req[r].amid \in BOOLEAN
      /\ UNCHANGED << status, password, links, faults, unswept >>
  BY <1>1, Answered DEF LoginStore, TypeOK, InStep, request
<1>3. /\ sessions' \in [Sessions -> session]
      /\ \A t \in Sessions \ {s} : sessions'[t] = sessions[t]
      /\ sessions'[s].there /\ sessions'[s].company = c
      /\ sessions'[s].revoked = sessions[s].revoked
      /\ sessions'[s].began = req[r].seen
      /\ req[r].seen # password[c] => sessions'[s].late
      /\ req[r].amid => sessions'[s].amid
      /\ access' \subseteq Companies
  <2> DEFINE new == [sessions[s] EXCEPT
                         !.there = TRUE, !.company = c, !.began = req[r].seen,
                         !.late = req[r].seen # password[c],
                         !.amid = req[r].amid]
  <2>1. /\ sessions' = [sessions EXCEPT ![s] = new]
        /\ access' = access \cup {c}
    BY DEF LoginStore
  <2>2. /\ sessions \in [Sessions -> session]
        /\ access \subseteq Companies
    BY <1>1 DEF TypeOK
  <2>3. sessions[s] \in session
    BY <2>2
  <2>4. /\ new \in session /\ new.there /\ new.company = c
        /\ new.revoked = sessions[s].revoked
        /\ new.began = req[r].seen
        /\ req[r].seen # password[c] => new.late
        /\ req[r].amid => new.amid
    BY <1>2, <2>3 DEF session
  <2> HIDE DEF new
  <2>5. sessions'[s] = new
    BY <2>1, <2>2
  <2>6. sessions' \in [Sessions -> session]
    BY <2>1, <2>2, <2>4
  <2>7. \A t \in Sessions \ {s} : sessions'[t] = sessions[t]
    BY <2>1, <2>2
  <2>8. access' \subseteq Companies
    BY <1>2, <2>1, <2>2
  <2> QED BY <2>4, <2>5, <2>6, <2>7, <2>8
<1>4. /\ req'[r] = Idle /\ \A q \in Requests \ {r} : req'[q] = req[q]
      /\ \A d \in Companies : Sweeping(d)' = Sweeping(d)
  BY <1>1, <1>2, Moved DEF Sweeping, InStep
<1>5. TypeOK'
  BY <1>1, <1>2, <1>3, Moved DEF TypeOK
<1>6. SessionInv'
  <2> USE <1>1, <1>2, <1>3, <1>4 DEF SessionInv, InStep
  <2>1. ~sessions[s].revoked /\ req[r].seen <= password[c]
    BY DEF SessionsBelong, RequestsKnowSessions
  <2>2. SessionsBelong' /\ RevocationsHaveReasons'
    BY <2>1 DEF SessionsBelong, RevocationsHaveReasons, LeftByAnother
  <2>3. RequestsKnowSessions'
    BY DEF RequestsKnowSessions
  <2>4. SessionsEndWithPassword'
    <3>1. password[c] \in Nat /\ req[r].seen \in Nat
      BY DEF TypeOK, Passwords
    <3>2. sessions'[s].began < password[c] => sessions'[s].late
      BY <3>1
    <3> QED BY <3>2 DEF SessionsEndWithPassword, SessionsBelong, Live
  <2>5. SweepsHaveReasons'
    BY DEF SweepsHaveReasons
  <2> QED BY <2>2, <2>3, <2>4, <2>5
<1>7. LinkInv'
  BY <1>1, <1>2, LinksUndisturbed
<1> QED BY <1>5, <1>6, <1>7 DEF IndInv

(* A logout leaves its session a reason. *)
LEMMA LogoutRevokePreserves ==
    ASSUME IndInv, NEW r \in Requests, LogoutRevoke(r)
    PROVE  IndInv'
<1> DEFINE s == req[r].token
<1>1. TypeOK /\ SessionInv /\ LinkInv
  BY DEF IndInv
<1>2. /\ Becomes(r, Idle) /\ Idle.at = "idle" /\ req[r].at = "logout"
      /\ s \in Sessions /\ sessions[s].there
      /\ UNCHANGED << status, password, access, links, faults, unswept >>
  BY <1>1, Answered
     DEF LogoutRevoke, InStep, SessionInv, RequestsKnowSessions
<1>3. /\ sessions' \in [Sessions -> session]
      /\ \A t \in Sessions \ {s} : sessions'[t] = sessions[t]
      /\ sessions'[s].there /\ sessions'[s].revoked
      /\ sessions'[s].left \/ sessions'[s].expelled
      /\ sessions'[s].company = sessions[s].company
      /\ sessions'[s].began = sessions[s].began
      /\ sessions'[s].amid = sessions[s].amid
  <2> DEFINE own == [sessions[s] EXCEPT !.revoked = TRUE, !.left = TRUE]
             other == [sessions[s] EXCEPT !.revoked = TRUE, !.expelled = TRUE]
             new == IF sessions[s].company = req[r].company THEN own ELSE other
  <2>1. sessions[s] \in session
    BY <1>1, <1>2 DEF TypeOK
  <2>2. /\ new \in session /\ new.revoked
        /\ new.left \/ new.expelled
        /\ new.there = sessions[s].there /\ new.company = sessions[s].company
        /\ new.began = sessions[s].began /\ new.amid = sessions[s].amid
    <3>1. /\ own \in session /\ own.revoked /\ own.left
          /\ own.there = sessions[s].there /\ own.company = sessions[s].company
          /\ own.began = sessions[s].began /\ own.amid = sessions[s].amid
      BY <2>1 DEF session
    <3>2. /\ other \in session /\ other.revoked /\ other.expelled
          /\ other.there = sessions[s].there
          /\ other.company = sessions[s].company
          /\ other.began = sessions[s].began /\ other.amid = sessions[s].amid
      BY <2>1 DEF session
    <3> QED BY <3>1, <3>2
  <2>3. sessions' = [sessions EXCEPT ![s] = new]
    BY <1>1, <1>2 DEF LogoutRevoke, TypeOK, session
  <2> HIDE DEF own, other, new
  <2>4. /\ sessions' \in [Sessions -> session] /\ sessions'[s] = new
        /\ \A t \in Sessions \ {s} : sessions'[t] = sessions[t]
    BY <1>1, <1>2, <2>2, <2>3, SessionRow
  <2> QED BY <1>2, <2>2, <2>4
<1>4. /\ req'[r] = Idle /\ \A q \in Requests \ {r} : req'[q] = req[q]
      /\ \A d \in Companies : Sweeping(d)' = Sweeping(d)
  BY <1>1, <1>2, Moved DEF Sweeping, InStep
<1>5. TypeOK'
  BY <1>1, <1>2, <1>3, Moved DEF TypeOK
<1>6. SessionInv'
  <2> USE <1>1, <1>2, <1>3, <1>4 DEF SessionInv, InStep
  <2>1. SessionsBelong' /\ RevocationsHaveReasons'
    BY DEF SessionsBelong, RevocationsHaveReasons, LeftByAnother
  <2>2. RequestsKnowSessions'
    BY DEF RequestsKnowSessions
  <2>3. SessionsEndWithPassword'
    BY DEF SessionsEndWithPassword, SessionsBelong, Live
  <2>4. SweepsHaveReasons'
    BY DEF SweepsHaveReasons
  <2> QED BY <2>1, <2>2, <2>3, <2>4
<1>7. LinkInv'
  BY <1>1, <1>2, LinksUndisturbed
<1> QED BY <1>5, <1>6, <1>7 DEF IndInv

-----------------------------------------------------------------------------
(* Changes of a password, and the revocations after them *)

(* A new password makes all sessions and logins of its company begin       *)
(* before it, and its request go on to revoke them.                        *)
LEMMA SessionsOutlived ==
    ASSUME TypeOK, SessionInv, NEW r \in Requests, NEW e, Becomes(r, e),
           req[r].at \in {"change", "set"}, e.at = "sweep",
           e.company = req[r].company, NewPassword(req[r].company),
           UNCHANGED << sessions, unswept >>
    PROVE  SessionInv' /\ password' \in [Companies -> Passwords]
<1> DEFINE c == req[r].company
<1>1. c \in Companies
  BY DEF TypeOK, InStep
<1>2. /\ password' \in [Companies -> Passwords]
      /\ password[c] \in Nat /\ password'[c] = password[c] + 1
      /\ \A d \in Companies \ {c} : password'[d] = password[d]
  BY <1>1 DEF NewPassword, TypeOK, Passwords
<1>3. req'[r] = e /\ \A q \in Requests \ {r} : req'[q] = req[q]
  BY Moved
<1>4. /\ Sweeping(c)' # {}
      /\ \A d \in Companies \ {c} : Sweeping(d)' = Sweeping(d)
  BY <1>3 DEF Sweeping, InStep
<1>5. /\ \A s \in Sessions : sessions[s].began \in Nat
      /\ \A q \in Requests : req[q].seen \in Nat
  BY DEF TypeOK, session, request, Passwords
<1> USE <1>1, <1>2, <1>3, <1>4, <1>5 DEF SessionInv, InStep
<1>6. SessionsBelong'
  BY DEF SessionsBelong
<1>7. RequestsKnowSessions'
  BY DEF RequestsKnowSessions, TypeOK
<1>8. SessionsEndWithPassword'
  BY DEF SessionsEndWithPassword, SessionsBelong, Live
<1>9. SweepsHaveReasons'
  BY DEF SweepsHaveReasons, SessionsBelong, RequestsKnowSessions
<1>10. RevocationsHaveReasons'
  BY DEF RevocationsHaveReasons, SessionsBelong, LeftByAnother
<1> QED BY <1>6, <1>7, <1>8, <1>9, <1>10

LEMMA ChangePasswordPreserves ==
    ASSUME IndInv, NEW r \in Requests, ChangePassword(r)
    PROVE  IndInv'
<1> DEFINE e == [req[r] EXCEPT !.at = "sweep"]
<1>1. TypeOK /\ SessionInv /\ LinkInv
  BY DEF IndInv
<1>2. /\ Becomes(r, e) /\ e.at = "sweep" /\ e.company = req[r].company
      /\ req[r].at = "change"
  BY <1>1, Gone DEF ChangePassword, InStep, Steps
<1> HIDE DEF e
<1>3. SessionInv' /\ password' \in [Companies -> Passwords]
  BY <1>1, <1>2, SessionsOutlived DEF ChangePassword
<1>4. LinkInv'
  BY <1>1, <1>2, LinksUndisturbed DEF ChangePassword
<1>5. TypeOK'
  BY <1>1, <1>2, <1>3, Moved DEF ChangePassword, TypeOK
<1> QED BY <1>3, <1>4, <1>5 DEF IndInv

(* What revokeAll revokes had a reason, and it leaves no session of its    *)
(* company live.                                                           *)
LEMMA RevokeAllPreserves ==
    ASSUME IndInv, NEW r \in Requests, RevokeAll(r)
    PROVE  IndInv'
<1> DEFINE c == req[r].company
<1>1. TypeOK /\ SessionInv /\ LinkInv
  BY DEF IndInv
<1>2. /\ Becomes(r, Idle) /\ Idle.at = "idle" /\ req[r].at = "sweep"
      /\ c \in Companies /\ r \in Sweeping(c)
      /\ UNCHANGED << status, password, access, links, faults >>
  BY <1>1, Answered DEF RevokeAll, TypeOK, InStep, Sweeping
<1>3. /\ sessions' \in [Sessions -> session]
      /\ \A s \in Sessions :
            /\ sessions'[s].there = sessions[s].there
            /\ sessions'[s].company = sessions[s].company
            /\ sessions'[s].began = sessions[s].began
            /\ sessions'[s].late = sessions[s].late
            /\ sessions'[s].amid = sessions[s].amid
            /\ sessions'[s].left = sessions[s].left
            /\ sessions'[s].expelled = sessions[s].expelled
            /\ Live(s)' => Live(s) /\ sessions[s].company # c
            /\ sessions[s].revoked => sessions'[s].revoked
            /\ sessions'[s].revoked =>
                  \/ sessions[s].revoked
                  \/ sessions[s].there /\ sessions[s].company = c
      /\ unswept' = unswept \ {c}
  <2>1. /\ sessions' = [s \in Sessions |->
               IF s \in RowsOf(c) THEN [sessions[s] EXCEPT !.revoked = TRUE]
                                  ELSE sessions[s]]
        /\ unswept' = unswept \ {c}
    BY DEF RevokeAll
  <2>2. ASSUME NEW s \in Sessions
        PROVE  /\ [sessions[s] EXCEPT !.revoked = TRUE] \in session
               /\ sessions[s] \in session
    <3>1. sessions[s] \in session
      BY <1>1 DEF TypeOK
    <3> QED BY <3>1 DEF session
  <2>3. sessions' \in [Sessions -> session]
    BY <2>1, <2>2
  <2>4. ASSUME NEW s \in RowsOf(c)
        PROVE  /\ sessions[s].there /\ sessions[s].company = c
               /\ sessions'[s].there = sessions[s].there
               /\ sessions'[s].company = sessions[s].company
               /\ sessions'[s].began = sessions[s].began
               /\ sessions'[s].late = sessions[s].late
               /\ sessions'[s].amid = sessions[s].amid
               /\ sessions'[s].left = sessions[s].left
               /\ sessions'[s].expelled = sessions[s].expelled
               /\ sessions'[s].revoked
    BY <2>1, <2>2 DEF RowsOf, session
  <2>5. \A s \in Sessions \ RowsOf(c) : sessions'[s] = sessions[s]
    BY <2>1
  <2>6. \A s \in Sessions \ RowsOf(c) : Live(s) => sessions[s].company # c
    BY DEF RowsOf, Live
  <2> QED BY <2>1, <2>3, <2>4, <2>5, <2>6 DEF Live
<1>4. /\ req'[r] = Idle /\ \A q \in Requests \ {r} : req'[q] = req[q]
      /\ \A d \in Companies \ {c} : Sweeping(d)' = Sweeping(d)
      /\ \A d \in Companies : Sweeping(d)' # {} => Sweeping(d) # {}
  BY <1>1, <1>2, Moved DEF Sweeping, InStep
<1>5. TypeOK'
  BY <1>1, <1>2, <1>3, Moved DEF TypeOK
<1>6. SessionInv'
  <2> USE <1>1, <1>2, <1>3, <1>4 DEF SessionInv, InStep
  <2>1. SessionsBelong'
    BY DEF SessionsBelong
  <2>2. RequestsKnowSessions'
    BY DEF RequestsKnowSessions
  <2>3. SessionsEndWithPassword'
    BY DEF SessionsEndWithPassword, SessionsBelong, Live
  <2>4. SweepsHaveReasons'
    BY DEF SweepsHaveReasons
  <2>5. RevocationsHaveReasons'
    BY DEF RevocationsHaveReasons, SweepsHaveReasons, LeftByAnother
  <2> QED BY <2>1, <2>2, <2>3, <2>4, <2>5
<1>7. LinkInv'
  BY <1>1, <1>2, LinksUndisturbed
<1> QED BY <1>5, <1>6, <1>7 DEF IndInv

-----------------------------------------------------------------------------
(* Reset links *)

(* Whoever is about to set a password explains his spent link on. *)
LEMMA SettersStay ==
    ASSUME SpentLinkChanged, NEW r \in Requests,
           \A q \in Requests \ {r} : req'[q] = req[q],
           NEW S \in SUBSET Links,
           req[r].at = "set" => \A m \in S : r \notin Holding(m),
           \A m \in S : /\ links'[m].used => links[m].used
                        /\ links[m].changes > 0 => links'[m].changes > 0
                        /\ links[m].cut => links'[m].cut
    PROVE  \A m \in S : links'[m].used =>
              \/ links'[m].changes > 0 \/ links'[m].cut
              \/ \E q \in Holding(m)' : req'[q].at = "set"
<1> SUFFICES ASSUME NEW m \in S, links'[m].used,
                    ~(links'[m].changes > 0), ~links'[m].cut
             PROVE  \E q \in Holding(m)' : req'[q].at = "set"
  OBVIOUS
<1>1. PICK q \in Holding(m) : req[q].at = "set"
  BY DEF SpentLinkChanged, InStep
<1>2. q \in Requests \ {r} /\ req'[q] = req[q]
  BY <1>1 DEF Holding
<1>3. q \in Holding(m)' /\ req'[q].at = "set"
  BY <1>1, <1>2 DEF Holding
<1> QED BY <1>3

(* A link that nobody has is written for a company. *)
LEMMA RequestResetPreserves ==
    ASSUME IndInv, NEW r \in Requests, NEW c \in Companies, NEW l \in Links,
           RequestReset(r, c, l)
    PROVE  IndInv'
<1> DEFINE e == [Idle EXCEPT !.at = "mail", !.company = c, !.token = l]
<1>1. TypeOK /\ SessionInv /\ LinkInv
  BY DEF IndInv
<1>2. e \in request /\ e.at = "mail" /\ e.company = c /\ e.token = l
  BY IdleIsRequest DEF request, Steps
<1>3. /\ Becomes(r, e) /\ req[r].at = "idle" /\ ~links[l].there
      /\ UNCHANGED << status, password, access, sessions, faults, unswept >>
  BY <1>2 DEF RequestReset, Becomes, InStep
<1> HIDE DEF e
<1>4. /\ links' \in [Links -> link]
      /\ \A m \in Links \ {l} : links'[m] = links[m]
      /\ links'[l].there /\ links'[l].company = c
      /\ links'[l].used = links[l].used
      /\ links'[l].changes = links[l].changes
      /\ links'[l].shared = links[l].shared /\ links'[l].cut = links[l].cut
  <2> DEFINE new == [links[l] EXCEPT !.there = TRUE, !.company = c]
  <2>1. links[l] \in link
    BY <1>1 DEF TypeOK
  <2>2. /\ new \in link /\ new.there /\ new.company = c
        /\ new.used = links[l].used /\ new.changes = links[l].changes
        /\ new.shared = links[l].shared /\ new.cut = links[l].cut
    BY <2>1 DEF link
  <2>3. links' = [links EXCEPT ![l] = new]
    BY <1>1 DEF RequestReset, TypeOK
  <2> HIDE DEF new
  <2>4. /\ links' \in [Links -> link] /\ links'[l] = new
        /\ \A m \in Links \ {l} : links'[m] = links[m]
    BY <1>1, <2>2, <2>3, LinkRow
  <2> QED BY <2>2, <2>4
<1>5. /\ req'[r] = e /\ \A q \in Requests \ {r} : req'[q] = req[q]
      /\ \A m \in Links : Holding(m)' = Holding(m)
  BY <1>1, <1>2, <1>3, Moved DEF Holding
<1>6. TypeOK'
  BY <1>1, <1>2, <1>3, <1>4, Moved DEF TypeOK
<1>7. LinkInv'
  <2> USE <1>1, <1>2, <1>3, <1>4, <1>5 DEF LinkInv, InStep
  <2>1. ~links[l].used /\ links[l].changes = 0
    BY DEF LinksBelong, TypeOK, link
  <2>2. LinksBelong'
    BY DEF LinksBelong
  <2>3. RequestsKnowLinks'
    BY DEF RequestsKnowLinks, Usable
  <2>4. UnsharedLinksAreHeldOnce'
    BY DEF UnsharedLinksAreHeldOnce
  <2>5. LinksChangeOnce'
    BY <2>1 DEF LinksChangeOnce, SecondChangeWasShared, ChangedLinkIsSpent,
           SpentLinkChanged, Holding, Usable
  <2> QED BY <2>2, <2>3, <2>4, <2>5
<1>8. SessionInv'
  BY <1>1, <1>2, <1>3, SessionsUndisturbed
<1> QED BY <1>6, <1>7, <1>8 DEF IndInv

(* Whether the mail is sent is of no consequence for the link. *)
LEMMA SendMailPreserves ==
    ASSUME IndInv, NEW r \in Requests, SendMail(r)
    PROVE  IndInv'
<1> DEFINE l == req[r].token
<1>1. TypeOK /\ SessionInv /\ LinkInv
  BY DEF IndInv
<1>2. /\ Becomes(r, Idle) /\ Idle.at = "idle" /\ req[r].at = "mail"
      /\ l \in Links
      /\ UNCHANGED << status, password, access, sessions, faults, unswept >>
  BY <1>1, Answered DEF SendMail, InStep, LinkInv, RequestsKnowLinks
<1>3. /\ links' \in [Links -> link]
      /\ \A m \in Links :
            /\ links'[m].there = links[m].there
            /\ links'[m].company = links[m].company
            /\ links'[m].used = links[m].used
            /\ links'[m].changes = links[m].changes
            /\ links'[m].shared = links[m].shared
            /\ links'[m].cut = links[m].cut
            /\ Usable(m)' = Usable(m)
  BY <1>1, <1>2 DEF SendMail, TypeOK, link, Usable
<1>4. /\ req'[r] = Idle /\ \A q \in Requests \ {r} : req'[q] = req[q]
      /\ \A m \in Links : Holding(m)' = Holding(m)
  BY <1>1, <1>2, Moved DEF Holding
<1>5. TypeOK'
  BY <1>1, <1>2, <1>3, Moved DEF TypeOK
<1>6. LinkInv'
  BY <1>1, <1>2, <1>3, <1>4
     DEF LinkInv, LinksBelong, RequestsKnowLinks, UnsharedLinksAreHeldOnce,
         LinksChangeOnce, SecondChangeWasShared, ChangedLinkIsSpent,
         SpentLinkChanged, Holding, InStep
<1>7. SessionInv'
  BY <1>1, <1>2, SessionsUndisturbed
<1> QED BY <1>5, <1>6, <1>7 DEF IndInv

(* A link that lets a request in has changed nothing yet, and is shared    *)
(* from now on if somebody else has it.                                    *)
LEMMA ResetValidatePreserves ==
    ASSUME IndInv, NEW r \in Requests, NEW l \in Links, ResetValidate(r, l)
    PROVE  IndInv'
<1> DEFINE e == [Idle EXCEPT !.at = "reset", !.token = l,
                             !.company = links[l].company]
<1>1. TypeOK /\ SessionInv /\ LinkInv
  BY DEF IndInv
<1>2. links[l].there /\ Usable(l) /\ links[l].company \in Companies
  BY <1>1 DEF ResetValidate, Usable, LinkInv, LinksBelong
<1>3. e \in request /\ e.at = "reset" /\ e.company \in Companies /\ e.token = l
  BY <1>2, IdleIsRequest DEF request, Steps
<1>4. /\ Becomes(r, e) /\ req[r].at = "idle"
      /\ UNCHANGED << status, password, access, sessions, faults, unswept >>
  BY <1>3 DEF ResetValidate, Becomes, InStep
<1> HIDE DEF e
<1>5. /\ links' \in [Links -> link]
      /\ \A m \in Links :
            /\ links'[m].there = links[m].there
            /\ links'[m].company = links[m].company
            /\ links'[m].used = links[m].used
            /\ links'[m].changes = links[m].changes
            /\ links'[m].cut = links[m].cut
            /\ Usable(m)' = Usable(m)
            /\ links[m].shared => links'[m].shared
      /\ ~links'[l].shared => Holding(l) = {}
  BY <1>1 DEF ResetValidate, TypeOK, link, Usable
<1>6. /\ req'[r] = e /\ \A q \in Requests \ {r} : req'[q] = req[q]
      /\ Holding(l)' = Holding(l) \cup {r}
      /\ \A m \in Links \ {l} : Holding(m)' = Holding(m)
  BY <1>1, <1>3, <1>4, Moved DEF Holding
<1>7. TypeOK'
  BY <1>1, <1>3, <1>4, <1>5, Moved DEF TypeOK
<1>8. LinkInv'
  <2> USE <1>1, <1>2, <1>3, <1>4, <1>5, <1>6 DEF LinkInv, InStep
  <2>1. links[l].changes = 0
    BY DEF LinksChangeOnce, ChangedLinkIsSpent, TypeOK, link
  <2>2. LinksBelong'
    BY DEF LinksBelong
  <2>3. RequestsKnowLinks'
    BY DEF RequestsKnowLinks
  <2>4. UnsharedLinksAreHeldOnce'
    BY <2>1 DEF UnsharedLinksAreHeldOnce
  <2>5. SecondChangeWasShared' /\ ChangedLinkIsSpent'
    BY <2>1 DEF LinksChangeOnce, SecondChangeWasShared, ChangedLinkIsSpent
  <2>6. SpentLinkChanged'
    BY SettersStay DEF LinksChangeOnce, SpentLinkChanged
  <2> QED BY <2>2, <2>3, <2>4, <2>5, <2>6 DEF LinksChangeOnce
<1>9. SessionInv'
  BY <1>1, <1>3, <1>4, SessionsUndisturbed
<1> QED BY <1>7, <1>8, <1>9 DEF IndInv

(* A request that is about to set a password knows its link to be spent.   *)
LEMMA ResetSelectPreserves ==
    ASSUME IndInv, NEW r \in Requests, ResetSelect(r)
    PROVE  IndInv'
<1> DEFINE l == req[r].token
           a == IF Usable(l) THEN "mark" ELSE "set"
           e == [req[r] EXCEPT !.at = a]
<1>1. TypeOK /\ SessionInv /\ LinkInv
  BY DEF IndInv
<1>2. /\ Becomes(r, e) /\ e.company \in Companies /\ e.token = l /\ e.at = a
      /\ req[r].at = "reset" /\ UNCHANGED << stored, faults, unswept >>
  <2>1. a \in Steps /\ Go(r, a) /\ req[r].at = "reset"
    BY DEF ResetSelect, Steps, InStep
  <2> HIDE DEF a
  <2> QED BY <1>1, <2>1, Gone DEF ResetSelect, InStep
<1> HIDE DEF e
<1>3. /\ req'[r] = e /\ \A q \in Requests \ {r} : req'[q] = req[q]
      /\ \A m \in Links : Holding(m)' = Holding(m)
  BY <1>1, <1>2, Moved DEF Holding
<1>4. TypeOK'
  BY <1>1, <1>2, Moved DEF TypeOK, stored
<1>5. LinkInv'
  <2> USE <1>1, <1>2, <1>3 DEF LinkInv, InStep, stored
  <2>1. LinksBelong' /\ UnsharedLinksAreHeldOnce'
    BY DEF LinksBelong, UnsharedLinksAreHeldOnce
  <2>2. RequestsKnowLinks'
    BY DEF RequestsKnowLinks, Usable
  <2>3. SecondChangeWasShared' /\ ChangedLinkIsSpent'
    BY DEF LinksChangeOnce, SecondChangeWasShared, ChangedLinkIsSpent, Usable
  <2>4. SpentLinkChanged'
    BY SettersStay DEF LinksChangeOnce, SpentLinkChanged
  <2> QED BY <2>1, <2>2, <2>3, <2>4 DEF LinksChangeOnce
<1>6. SessionInv'
  BY <1>1, <1>2, SessionsUndisturbed DEF stored
<1> QED BY <1>4, <1>5, <1>6 DEF IndInv

LEMMA ResetMarkPreserves ==
    ASSUME IndInv, NEW r \in Requests, ResetMark(r)
    PROVE  IndInv'
<1> DEFINE l == req[r].token
           e == [req[r] EXCEPT !.at = "set"]
<1>1. TypeOK /\ SessionInv /\ LinkInv
  BY DEF IndInv
<1>2. /\ Becomes(r, e) /\ e.company \in Companies /\ e.token = l
      /\ e.at = "set" /\ req[r].at = "mark"
      /\ l \in Links /\ links[l].there
      /\ UNCHANGED << status, password, access, sessions, faults, unswept >>
  BY <1>1, Gone DEF ResetMark, InStep, Steps, LinkInv, RequestsKnowLinks
<1> HIDE DEF e
<1>3. /\ links' \in [Links -> link]
      /\ \A m \in Links \ {l} : links'[m] = links[m]
      /\ links'[l].there /\ links'[l].used
      /\ links'[l].company = links[l].company
      /\ links'[l].changes = links[l].changes
      /\ links'[l].shared = links[l].shared /\ links'[l].cut = links[l].cut
  <2> DEFINE new == [links[l] EXCEPT !.used = TRUE]
  <2>1. links[l] \in link
    BY <1>1, <1>2 DEF TypeOK
  <2>2. /\ new \in link /\ new.used
        /\ new.there = links[l].there /\ new.company = links[l].company
        /\ new.changes = links[l].changes
        /\ new.shared = links[l].shared /\ new.cut = links[l].cut
    BY <2>1 DEF link
  <2>3. links' = [links EXCEPT ![l] = new]
    BY DEF ResetMark
  <2> HIDE DEF new
  <2>4. /\ links' \in [Links -> link] /\ links'[l] = new
        /\ \A m \in Links \ {l} : links'[m] = links[m]
    BY <1>1, <1>2, <2>2, <2>3, LinkRow
  <2> QED BY <1>2, <2>2, <2>4
<1>4. /\ req'[r] = e /\ \A q \in Requests \ {r} : req'[q] = req[q]
      /\ \A m \in Links : Holding(m)' = Holding(m)
      /\ r \in Holding(l)
  BY <1>1, <1>2, Moved DEF Holding
<1>5. TypeOK'
  BY <1>1, <1>2, <1>3, Moved DEF TypeOK
<1>6. LinkInv'
  <2> USE <1>1, <1>2, <1>3, <1>4 DEF LinkInv, InStep
  <2>1. LinksBelong' /\ UnsharedLinksAreHeldOnce'
    BY DEF LinksBelong, UnsharedLinksAreHeldOnce
  <2>2. RequestsKnowLinks'
    BY DEF RequestsKnowLinks, Usable
  <2>3. SecondChangeWasShared' /\ ChangedLinkIsSpent'
    BY DEF LinksChangeOnce, SecondChangeWasShared, ChangedLinkIsSpent, Usable
  <2>4. SpentLinkChanged'
    <3>1. /\ Links \ {l} \in SUBSET Links
          /\ req[r].at = "set" => \A m \in Links \ {l} : r \notin Holding(m)
          /\ \A m \in Links \ {l} :
                /\ links'[m].used => links[m].used
                /\ links[m].changes > 0 => links'[m].changes > 0
                /\ links[m].cut => links'[m].cut
          /\ SpentLinkChanged
      BY DEF LinksChangeOnce
    <3>2. \A m \in Links \ {l} : links'[m].used =>
             \/ links'[m].changes > 0 \/ links'[m].cut
             \/ \E q \in Holding(m)' : req'[q].at = "set"
      BY <3>1, SettersStay
    <3>3. r \in Holding(l)' /\ req'[r].at = "set"
      OBVIOUS
    <3> QED BY <3>2, <3>3 DEF SpentLinkChanged
  <2> QED BY <2>1, <2>2, <2>3, <2>4 DEF LinksChangeOnce
<1>7. SessionInv'
  BY <1>1, <1>2, SessionsUndisturbed
<1> QED BY <1>5, <1>6, <1>7 DEF IndInv

(* A link that nobody shared has nobody left once it has set a password.   *)
LEMMA ResetPasswordPreserves ==
    ASSUME IndInv, NEW r \in Requests, ResetPassword(r)
    PROVE  IndInv'
<1> DEFINE e == [req[r] EXCEPT !.at = "sweep"]
<1>1. TypeOK /\ SessionInv /\ LinkInv
  BY DEF IndInv
<1>0. PICK l \in Links : l = req[r].token
  BY DEF IndInv, LinkInv, RequestsKnowLinks, ResetPassword, InStep
<1>2. /\ Becomes(r, e) /\ e.company = req[r].company
      /\ e.at = "sweep" /\ req[r].at = "set"
      /\ links[l].there /\ ~Usable(l) /\ links[l].changes \in Nat
      /\ NewPassword(req[r].company)
      /\ UNCHANGED << status, access, sessions, faults, unswept >>
  <2>1. Becomes(r, e) /\ e.company = req[r].company /\ e.at = "sweep"
    BY <1>1, Gone DEF ResetPassword, InStep, Steps
  <2>2. req[r].at = "set" /\ links[l].there /\ ~Usable(l)
    BY <1>0, <1>1 DEF ResetPassword, InStep, LinkInv, RequestsKnowLinks
  <2>3. links[l].changes \in Nat
    BY <1>1 DEF TypeOK, link
  <2> QED BY <2>1, <2>2, <2>3 DEF ResetPassword
<1> HIDE DEF e
<1>3. /\ links' \in [Links -> link]
      /\ \A m \in Links \ {l} : links'[m] = links[m]
      /\ links'[l].there /\ links'[l].used = links[l].used
      /\ links'[l].company = links[l].company
      /\ links'[l].changes = links[l].changes + 1
      /\ links'[l].shared = links[l].shared /\ ~Usable(l)'
  <2>1. /\ links \in [Links -> link] /\ links[l].changes + 1 \in Nat
        /\ links' = [links EXCEPT ![l] =
                        [links[l] EXCEPT !.changes = links[l].changes + 1]]
    BY <1>0, <1>1, <1>2 DEF ResetPassword, TypeOK
  <2>2. links' \in [Links -> link]
    BY <2>1 DEF link
  <2>3. /\ links'[l].there = links[l].there /\ links'[l].used = links[l].used
        /\ links'[l].company = links[l].company
        /\ links'[l].changes = links[l].changes + 1
        /\ links'[l].shared = links[l].shared
        /\ links'[l].expired = links[l].expired
    BY <2>1 DEF link
  <2>4. \A m \in Links \ {l} : links'[m] = links[m]
    BY <2>1
  <2> QED BY <1>2, <2>2, <2>3, <2>4 DEF Usable
<1>4. /\ req'[r] = e /\ \A q \in Requests \ {r} : req'[q] = req[q]
      /\ \A m \in Links \ {l} : Holding(m)' = Holding(m)
      /\ r \in Holding(l) /\ Holding(l)' = Holding(l) \ {r}
  <2>1. /\ req'[r] = e /\ \A q \in Requests \ {r} : req'[q] = req[q]
        /\ req[r].token = l /\ req[r].at = "set" /\ e.at = "sweep"
    BY <1>0, <1>1, <1>2, Moved
  <2> QED BY <2>1 DEF Holding
<1>5. SessionInv' /\ password' \in [Companies -> Passwords]
  BY <1>1, <1>2, SessionsOutlived
<1>6. TypeOK'
  BY <1>1, <1>2, <1>3, <1>5, Moved DEF TypeOK
<1>7. LinkInv'
  <2> USE <1>0, <1>1, <1>2, <1>3, <1>4 DEF LinkInv, InStep
  <2>1. ~links[l].shared => Holding(l)' = {} /\ links'[l].changes = 1
    BY DEF UnsharedLinksAreHeldOnce
  <2>2. LinksBelong'
    BY DEF LinksBelong
  <2>3. UnsharedLinksAreHeldOnce'
    BY <2>1 DEF UnsharedLinksAreHeldOnce
  <2>4. RequestsKnowLinks'
    BY DEF RequestsKnowLinks, Usable
  <2>5. SecondChangeWasShared' /\ ChangedLinkIsSpent'
    BY <2>1 DEF LinksChangeOnce, SecondChangeWasShared, ChangedLinkIsSpent,
           Usable
  <2>6. SpentLinkChanged'
    <3>1. /\ Links \ {l} \in SUBSET Links
          /\ req[r].at = "set" => \A m \in Links \ {l} : r \notin Holding(m)
          /\ \A m \in Links \ {l} :
                /\ links'[m].used => links[m].used
                /\ links[m].changes > 0 => links'[m].changes > 0
                /\ links[m].cut => links'[m].cut
          /\ SpentLinkChanged
      BY DEF LinksChangeOnce, Holding
    <3>2. \A m \in Links \ {l} : links'[m].used =>
             \/ links'[m].changes > 0 \/ links'[m].cut
             \/ \E q \in Holding(m)' : req'[q].at = "set"
      BY <3>1, SettersStay
    <3>3. links'[l].changes > 0
      OBVIOUS
    <3> QED BY <3>2, <3>3 DEF SpentLinkChanged
  <2> QED BY <2>2, <2>3, <2>4, <2>5, <2>6 DEF LinksChangeOnce
<1> QED BY <1>5, <1>6, <1>7 DEF IndInv

-----------------------------------------------------------------------------
(* Failures *)

(* A request that dies is an exception to what it was about to do, and to  *)
(* nothing else: a sweep that is lost, or a link that is cut.              *)
LEMMA FailPreserves ==
    ASSUME IndInv, NEW r \in Requests, Fail(r)
    PROVE  IndInv'
<1>1. TypeOK /\ SessionInv /\ LinkInv
  BY DEF IndInv
<1>2. /\ Becomes(r, Idle) /\ Idle.at = "idle" /\ req[r].company \in Companies
      /\ faults' \in 0..MaxFaults
      /\ UNCHANGED << status, password, access, sessions >>
  BY <1>1, Answered DEF Fail, TypeOK, InStep
<1>3. req'[r] = Idle /\ \A q \in Requests \ {r} : req'[q] = req[q]
  BY <1>1, <1>2, Moved
<1>4. CASE req[r].at \notin {"sweep", "set"}
  <2>1. UNCHANGED << links, unswept >> /\ access \subseteq Companies
    BY <1>1, <1>4 DEF Fail, InStep, TypeOK
  <2> QED BY <1>2, <1>4, <2>1, QuietStep
<1>5. CASE req[r].at = "sweep"
  <2> DEFINE c == req[r].company
  <2>1. UNCHANGED links /\ unswept' = unswept \cup {c}
    BY <1>5 DEF Fail, InStep
  <2>2. /\ \A d \in Companies \ {c} : Sweeping(d)' = Sweeping(d)
        /\ \A d \in Companies : Sweeping(d)' # {} => Sweeping(d) # {}
    BY <1>2, <1>3, <1>5 DEF Sweeping, InStep
  <2>3. TypeOK'
    BY <1>1, <1>2, <2>1, Moved DEF TypeOK
  <2>4. LinkInv'
    BY <1>1, <1>2, <1>5, <2>1, LinksUndisturbed
  <2>5. SessionInv'
    <3> USE <1>1, <1>2, <1>3, <1>5, <2>1, <2>2 DEF SessionInv, InStep
    <3>1. SessionsBelong' /\ RevocationsHaveReasons'
      BY DEF SessionsBelong, RevocationsHaveReasons, LeftByAnother
    <3>2. RequestsKnowSessions'
      BY DEF RequestsKnowSessions
    <3>3. SessionsEndWithPassword'
      BY DEF SessionsEndWithPassword, SessionsBelong, Live
    <3>4. SweepsHaveReasons'
      BY DEF SweepsHaveReasons
    <3> QED BY <3>1, <3>2, <3>3, <3>4
  <2> QED BY <2>3, <2>4, <2>5 DEF IndInv
<1>6. CASE req[r].at = "set"
  <2>1. PICK l \in Links : l = req[r].token
    BY <1>1, <1>6 DEF LinkInv, RequestsKnowLinks
  <2>2. /\ links' \in [Links -> link] /\ UNCHANGED unswept
        /\ \A m \in Links \ {l} : links'[m] = links[m]
        /\ links'[l].cut /\ links'[l].there = links[l].there
        /\ links'[l].company = links[l].company
        /\ links'[l].used = links[l].used
        /\ links'[l].changes = links[l].changes
        /\ links'[l].shared = links[l].shared
        /\ Usable(l)' = Usable(l)
    <3>1. /\ links \in [Links -> link] /\ UNCHANGED unswept
          /\ links' = [links EXCEPT ![l].cut = TRUE]
      BY <1>1, <1>6, <2>1 DEF Fail, InStep, TypeOK
    <3>2. links' \in [Links -> link] /\ links'[l].cut
      BY <3>1 DEF link
    <3> QED BY <3>1, <3>2 DEF link, Usable
  <2>3. /\ \A m \in Links \ {l} : r \notin Holding(m)
        /\ \A m \in Links : Holding(m)' \subseteq Holding(m)
    BY <1>2, <1>3, <2>1 DEF Holding
  <2>4. TypeOK'
    BY <1>1, <1>2, <2>2, Moved DEF TypeOK
  <2>5. SessionInv'
    BY <1>1, <1>2, <1>6, <2>2, SessionsUndisturbed
  <2>6. LinkInv'
    <3> USE <1>1, <1>2, <1>3, <2>2, <2>3 DEF LinkInv, InStep
    <3>1. LinksBelong' /\ UnsharedLinksAreHeldOnce'
      BY DEF LinksBelong, UnsharedLinksAreHeldOnce
    <3>2. RequestsKnowLinks'
      BY DEF RequestsKnowLinks, Usable
    <3>3. SecondChangeWasShared' /\ ChangedLinkIsSpent'
      BY DEF LinksChangeOnce, SecondChangeWasShared, ChangedLinkIsSpent, Usable
    <3>4. SpentLinkChanged'
      <4>1. /\ Links \ {l} \in SUBSET Links
            /\ req[r].at = "set" => \A m \in Links \ {l} : r \notin Holding(m)
            /\ \A m \in Links \ {l} :
                  /\ links'[m].used => links[m].used
                  /\ links[m].changes > 0 => links'[m].changes > 0
                  /\ links[m].cut => links'[m].cut
            /\ SpentLinkChanged
        BY DEF LinksChangeOnce
      <4>2. \A m \in Links \ {l} : links'[m].used =>
               \/ links'[m].changes > 0 \/ links'[m].cut
               \/ \E q \in Holding(m)' : req'[q].at = "set"
        BY <4>1, SettersStay
      <4> QED BY <4>2 DEF SpentLinkChanged
    <3> QED BY <3>1, <3>2, <3>3, <3>4 DEF LinksChangeOnce
  <2> QED BY <2>4, <2>5, <2>6 DEF IndInv
<1> QED BY <1>4, <1>5, <1>6

-----------------------------------------------------------------------------
(* Every step preserves the invariant. *)
LEMMA StepPreserves == IndInv /\ [Next]_vars => IndInv'
<1> SUFFICES ASSUME IndInv, [Next]_vars PROVE IndInv'
  OBVIOUS
<1>1. ASSUME NEW r \in Requests, Request(r) PROVE IndInv'
  BY <1>1, ReadsPreserve, LoginCheckPreserves, LoginStorePreserves,
     LogoutRevokePreserves, ChangePasswordPreserves, RevokeAllPreserves,
     RequestResetPreserves, SendMailPreserves, ResetValidatePreserves,
     ResetSelectPreserves, ResetMarkPreserves, ResetPasswordPreserves
     DEF Request
<1>2. CASE UNCHANGED vars
  <2>1. TypeOK'
    BY <1>2 DEF IndInv, TypeOK, InStep, vars, stored
  <2> QED BY <1>2, <2>1, SessionsStand, LinksStand DEF IndInv, vars, stored
<1> QED
  BY <1>1, <1>2, FailPreserves, CompaniesPreserve, SessionExpiresPreserves,
     LinkExpiresPreserves DEF Next

(* All invariants of the module together, with what they rest on, for any  *)
(* number of companies, requests, sessions, links, passwords and failures. *)
THEOREM Inductive == Spec => []IndInv
<1> QED BY InitEstablishes, StepPreserves, PTL DEF Spec

(* Every row and every request has its type. *)
THEOREM TypeCorrect == Spec => []TypeOK
<1>1. IndInv => TypeOK
  BY DEF IndInv
<1> QED BY <1>1, Inductive, PTL

(* A session that outlives its password has its revokeAll to come, lost it *)
(* to a failure, or was stored by a login that the change overtook         *)
(* (AuthService.changePassword and resetPassword).                         *)
THEOREM SessionsEnd == Spec => []SessionsEndWithPassword
<1>1. IndInv => SessionsEndWithPassword
  BY DEF IndInv, SessionInv
<1> QED BY <1>1, Inductive, PTL

(* No session is revoked but by a logout or by a change of the password it *)
(* began under, or began while one had its revokeAll to come               *)
(* (RefreshTokenService.revokeAllTokensForCompany).                        *)
THEOREM RevocationsCorrect == Spec => []RevocationsHaveReasons
<1>1. IndInv => RevocationsHaveReasons
  BY DEF IndInv, SessionInv
<1> QED BY <1>1, Inductive, PTL

(* A reset link changes a password once unless two requests were let in    *)
(* together, lets nobody in after it did, and is not spent for nothing     *)
(* unless its request died (PasswordResetService.resetPassword).           *)
THEOREM LinksCorrect == Spec => []LinksChangeOnce
<1>1. IndInv => LinksChangeOnce
  BY DEF IndInv, LinkInv
<1> QED BY <1>1, Inductive, PTL
=============================================================================
