------------------------------ MODULE Accounts ------------------------------
(***************************************************************************)
(* Companies log in, keep a session through a refresh token, and change a  *)
(* password (src/src/modules/auth/application).  No operation here is a    *)
(* transaction: each is a chain of statements, with a bcrypt comparison or *)
(* hash between any two, so that requests interleave at every await and    *)
(* may die there.                                                          *)
(*                                                                         *)
(* A password is known by its place in the order of the UPDATEs that set   *)
(* it; a token is the row that holds its hash.  A request that is refused  *)
(* before it has written anything is not a step, unless it had got past an *)
(* earlier step.                                                           *)
(***************************************************************************)
EXTENDS Naturals

CONSTANTS
    Companies, Requests,
    Sessions,       \* rows of refresh_tokens, in the order nobody chooses
    Links,          \* rows of password_reset_tokens
    NoCompany, NoToken,
    Bearers,        \* companies with an access token of an earlier login
    MaxPasswords,   \* bound: UPDATEs of password_hash, for each company
    MaxFaults       \* bound: requests that die between two statements

ASSUME AccountsAssumption ==
    /\ Bearers \subseteq Companies
    /\ MaxPasswords \in [Companies -> Nat] /\ MaxFaults \in Nat
    /\ NoCompany \notin Companies /\ NoToken \notin Sessions \cup Links

VARIABLES
    status,     \* companies.status
    password,   \* companies.password_hash, counted
    access,     \* companies somebody has an unexpired access token of
    sessions, links, req,
    faults,
    unswept     \* history: companies whose last revokeAll never ran

stored == << status, password, access, sessions, links >>
vars   == << stored, req, faults, unswept >>

Passwords == Nat

(* Beside the columns, what became of the row: began is the password its   *)
(* login was checked against, late a password that had already been        *)
(* replaced when it was stored, amid a revokeAll that was still to come    *)
(* when its login read the company, left a logout by a bearer of its       *)
(* company, expelled one by a bearer of another.                           *)
session ==
    [there : BOOLEAN, company : Companies \cup {NoCompany}, revoked : BOOLEAN,
     expired : BOOLEAN, began : Passwords, late : BOOLEAN, amid : BOOLEAN,
     left : BOOLEAN, expelled : BOOLEAN]

(* changes counts the passwords set through the link, shared that a second *)
(* request was let in before the first was through, cut that one died      *)
(* after it had marked the row.                                            *)
link ==
    [there : BOOLEAN, company : Companies \cup {NoCompany}, mailed : BOOLEAN,
     used : BOOLEAN, expired : BOOLEAN, changes : Nat, shared : BOOLEAN,
     cut : BOOLEAN]

Steps ==
    {"idle", "authorised", "login", "refresh", "logout", "change", "mail",
     "reset", "mark", "set", "sweep"}

request ==
    [at : Steps, company : Companies \cup {NoCompany},
     token : Sessions \cup Links \cup {NoToken}, seen : Passwords,
     amid : BOOLEAN]

Idle == [at |-> "idle", company |-> NoCompany, token |-> NoToken, seen |-> 0,
         amid |-> FALSE]

(* The sessions of earlier logins are over, but an access token outlives   *)
(* the row of its refresh token.                                           *)
Init ==
    /\ status   = [c \in Companies |-> "ACTIVE"]
    /\ password = [c \in Companies |-> 0]
    /\ access   = Bearers
    /\ sessions = [s \in Sessions |->
         [there |-> FALSE, company |-> NoCompany, revoked |-> FALSE,
          expired |-> FALSE, began |-> 0, late |-> FALSE, amid |-> FALSE,
          left |-> FALSE, expelled |-> FALSE]]
    /\ links    = [l \in Links |->
         [there |-> FALSE, company |-> NoCompany, mailed |-> FALSE,
          used |-> FALSE, expired |-> FALSE, changes |-> 0, shared |-> FALSE,
          cut |-> FALSE]]
    /\ req      = [r \in Requests |-> Idle]
    /\ faults   = 0
    /\ unswept  = {}

-----------------------------------------------------------------------------
InStep(r, at) == req[r].at = at
Sweeping(c)   == { r \in Requests : InStep(r, "sweep") /\ req[r].company = c }

(* Requests that were let in with link l and have not set a password yet *)
Holding(l)    == { r \in Requests : req[r].token = l
                                    /\ req[r].at \in {"reset", "mark", "set"} }

Live(s)       == sessions[s].there /\ ~sessions[s].revoked
                                        /\ ~sessions[s].expired
Usable(l)     == links[l].there /\ ~links[l].used /\ ~links[l].expired

Go(r, at)     == req' = [req EXCEPT ![r].at = at]
Answer(r)     == req' = [req EXCEPT ![r] = Idle]

-----------------------------------------------------------------------------
(* login: the row is read once; password and status are those of that row. *)
LoginCheck(r, c) ==
    /\ InStep(r, "idle") /\ status[c] = "ACTIVE"
    /\ req' = [req EXCEPT ![r] = [Idle EXCEPT !.at = "login", !.company = c,
                                              !.seen = password[c],
                                              !.amid = Sweeping(c) # {}]]
    /\ UNCHANGED << stored, faults, unswept >>

LoginStore(r, s) ==
    LET c == req[r].company IN
    /\ InStep(r, "login") /\ ~sessions[s].there
    /\ sessions' = [sessions EXCEPT ![s] =
         [@ EXCEPT !.there = TRUE, !.company = c, !.began = req[r].seen,
                   !.late = req[r].seen # password[c], !.amid = req[r].amid]]
    /\ access' = access \cup {c}
    /\ Answer(r)
    /\ UNCHANGED << status, password, links, faults, unswept >>

(* refreshAccessToken: the token's row first, the company's row afterwards.*)
(* The refresh token stays what it was.                                    *)
RefreshValidate(r, s) ==
    /\ InStep(r, "idle") /\ Live(s)
    /\ req' = [req EXCEPT ![r] = [Idle EXCEPT !.at = "refresh",
                                              !.company = sessions[s].company]]
    /\ UNCHANGED << stored, faults, unswept >>

RefreshAnswer(r) ==
    LET c == req[r].company IN
    /\ InStep(r, "refresh")
    /\ access' = IF status[c] = "ACTIVE" THEN access \cup {c} ELSE access
    /\ Answer(r)
    /\ UNCHANGED << status, password, sessions, links, faults, unswept >>

(* validateCompany reads the company that the token names.                 *)
Validated(c) == c \in access /\ status[c] = "ACTIVE"

(* JwtAuthGuard lets the bearer in.                                        *)
Authorise(r, c) ==
    /\ InStep(r, "idle") /\ Validated(c)
    /\ req' = [req EXCEPT ![r] = [Idle EXCEPT !.at = "authorised",
                                              !.company = c]]
    /\ UNCHANGED << stored, faults, unswept >>

(* A wrong old password, or a token no unrevoked row has the hash of *)
Refused(r) ==
    /\ InStep(r, "authorised")
    /\ Answer(r)
    /\ UNCHANGED << stored, faults, unswept >>

-----------------------------------------------------------------------------
(* logout: the token may be of any company, and expired.                   *)
LogoutFind(r, s) ==
    /\ InStep(r, "authorised")
    /\ sessions[s].there /\ ~sessions[s].revoked
    /\ req' = [req EXCEPT ![r].at = "logout", ![r].token = s]
    /\ UNCHANGED << stored, faults, unswept >>

LogoutRevoke(r) ==
    LET s == req[r].token IN
    /\ InStep(r, "logout")
    /\ sessions' = IF sessions[s].company = req[r].company
          THEN [sessions EXCEPT ![s].revoked = TRUE, ![s].left = TRUE]
          ELSE [sessions EXCEPT ![s].revoked = TRUE, ![s].expelled = TRUE]
    /\ Answer(r)
    /\ UNCHANGED << status, password, access, links, faults, unswept >>

(* changePassword reads the company again and compares the old password.   *)
ChangeVerify(r) ==
    /\ InStep(r, "authorised")
    /\ Go(r, "change")
    /\ UNCHANGED << stored, faults, unswept >>

NewPassword(c) ==
    /\ password[c] < MaxPasswords[c]
    /\ password' = [password EXCEPT ![c] = @ + 1]

(* The UPDATE does not ask for the password that was verified.             *)
ChangePassword(r) ==
    /\ InStep(r, "change")
    /\ NewPassword(req[r].company)
    /\ Go(r, "sweep")
    /\ UNCHANGED << status, access, sessions, links, faults, unswept >>

(* Mutant: the company is left out of the WHERE *)
RowsOfAll(c) == { s \in Sessions : sessions[s].there /\ ~sessions[s].revoked }

(* Mutant: revoked_at IS NOT NULL *)
RowsRevoked(c) == { s \in Sessions : sessions[s].there
                                     /\ sessions[s].company = c
                                     /\ sessions[s].revoked }

(* The rows of revokeAllTokensForCompany *)
RowsOf(c) == { s \in Sessions : sessions[s].there
                                /\ sessions[s].company = c
                                /\ ~sessions[s].revoked }

RevokeAll(r) ==
    LET c == req[r].company IN
    /\ InStep(r, "sweep")
    /\ sessions' = [s \in Sessions |->
         IF s \in RowsOf(c) THEN [sessions[s] EXCEPT !.revoked = TRUE]
                            ELSE sessions[s]]
    /\ unswept' = unswept \ {c}
    /\ Answer(r)
    /\ UNCHANGED << status, password, access, links, faults >>

-----------------------------------------------------------------------------
(* requestPasswordReset: whatever the company's status.                    *)
RequestReset(r, c, l) ==
    /\ InStep(r, "idle") /\ ~links[l].there
    /\ links' = [links EXCEPT ![l].there = TRUE, ![l].company = c]
    /\ req' = [req EXCEPT ![r] = [Idle EXCEPT !.at = "mail", !.company = c,
                                              !.token = l]]
    /\ UNCHANGED << status, password, access, sessions, faults, unswept >>

(* sendEmail says nothing when it has no transporter to send with.         *)
SendMail(r) ==
    /\ InStep(r, "mail")
    /\ \E sent \in BOOLEAN :
         links' = [links EXCEPT ![req[r].token].mailed = sent]
    /\ Answer(r)
    /\ UNCHANGED << status, password, access, sessions, faults, unswept >>

(* validateResetToken; the new password is hashed before the next step.    *)
ResetValidate(r, l) ==
    /\ InStep(r, "idle") /\ links[l].mailed /\ Usable(l)
    /\ req' = [req EXCEPT ![r] = [Idle EXCEPT !.at = "reset", !.token = l,
                                              !.company = links[l].company]]
    /\ links' = [links EXCEPT ![l].shared = @ \/ Holding(l) # {}]
    /\ UNCHANGED << status, password, access, sessions, faults, unswept >>

(* Mutant: the row found is not marked *)
SelectUnmarked(r) ==
    /\ InStep(r, "reset")
    /\ Go(r, "set")
    /\ UNCHANGED << stored, faults, unswept >>

(* The second SELECT.  When the row is no longer among its rows nothing is *)
(* marked, and the password is set all the same.                           *)
ResetSelect(r) ==
    /\ InStep(r, "reset")
    /\ Go(r, IF Usable(req[r].token) THEN "mark" ELSE "set")
    /\ UNCHANGED << stored, faults, unswept >>

(* Mutant: the handler returns once it has marked the row *)
MarkAndAnswer(r) ==
    /\ InStep(r, "mark")
    /\ links' = [links EXCEPT ![req[r].token].used = TRUE]
    /\ Answer(r)
    /\ UNCHANGED << status, password, access, sessions, faults, unswept >>

(* Mutant: the UPDATE of used_at matches no row *)
MarkLost(r) ==
    /\ InStep(r, "mark")
    /\ Go(r, "set")
    /\ UNCHANGED << stored, faults, unswept >>

ResetMark(r) ==
    /\ InStep(r, "mark")
    /\ links' = [links EXCEPT ![req[r].token].used = TRUE]
    /\ Go(r, "set")
    /\ UNCHANGED << status, password, access, sessions, faults, unswept >>

(* Mutant: a reset leaves the sessions alone *)
ResetAndAnswer(r) ==
    /\ InStep(r, "set")
    /\ NewPassword(req[r].company)
    /\ links' = [links EXCEPT ![req[r].token].changes = @ + 1]
    /\ Answer(r)
    /\ UNCHANGED << status, access, sessions, faults, unswept >>

ResetPassword(r) ==
    /\ InStep(r, "set")
    /\ NewPassword(req[r].company)
    /\ links' = [links EXCEPT ![req[r].token].changes = @ + 1]
    /\ Go(r, "sweep")
    /\ UNCHANGED << status, access, sessions, faults, unswept >>

-----------------------------------------------------------------------------
(* update and softDelete of ClientService and CateringService *)
SetStatus(c, s) ==
    /\ status[c] # s
    /\ status' = [status EXCEPT ![c] = s]
    /\ UNCHANGED << password, access, sessions, links, req, faults, unswept >>

SessionExpires(s) ==
    /\ sessions[s].there /\ ~sessions[s].expired
    /\ sessions' = [sessions EXCEPT ![s].expired = TRUE]
    /\ UNCHANGED << status, password, access, links, req, faults, unswept >>

LinkExpires(l) ==
    /\ links[l].there /\ ~links[l].expired
    /\ links' = [links EXCEPT ![l].expired = TRUE]
    /\ UNCHANGED << status, password, access, sessions, req, faults, unswept >>

AccessExpires(c) ==
    /\ c \in access
    /\ access' = access \ {c}
    /\ UNCHANGED << status, password, sessions, links, req, faults, unswept >>

(* A statement throws, or the process dies: the rest of the chain never    *)
(* runs, and what it has written stays.                                    *)
Fail(r) ==
    LET c == req[r].company
        l == req[r].token IN
    /\ ~InStep(r, "idle") /\ faults < MaxFaults
    /\ faults' = faults + 1
    /\ unswept' = IF InStep(r, "sweep") THEN unswept \cup {c} ELSE unswept
    /\ links' = IF InStep(r, "set") THEN [links EXCEPT ![l].cut = TRUE]
                                    ELSE links
    /\ Answer(r)
    /\ UNCHANGED << status, password, access, sessions >>

-----------------------------------------------------------------------------
Request(r) ==
    \/ \E c \in Companies : LoginCheck(r, c) \/ Authorise(r, c)
    \/ \E s \in Sessions : LoginStore(r, s) \/ RefreshValidate(r, s)
                                            \/ LogoutFind(r, s)
    \/ RefreshAnswer(r) \/ Refused(r) \/ LogoutRevoke(r)
    \/ ChangeVerify(r) \/ ChangePassword(r) \/ RevokeAll(r)
    \/ \E l \in Links : ResetValidate(r, l)
    \/ \E c \in Companies, l \in Links : RequestReset(r, c, l)
    \/ SendMail(r) \/ ResetSelect(r) \/ ResetMark(r) \/ ResetPassword(r)

Next ==
    \/ \E r \in Requests : Request(r) \/ Fail(r)
    \/ \E c \in Companies : \/ AccessExpires(c)
                           \/ \E s \in {"ACTIVE", "INACTIVE"} : SetStatus(c, s)
    \/ \E s \in Sessions : SessionExpires(s)
    \/ \E l \in Links : LinkExpires(l)

Spec == Init /\ [][Next]_vars

(* A chain that has begun goes on: an await is always resumed.             *)
FairSpec == Spec /\ \A r \in Requests : WF_vars(RevokeAll(r))

-----------------------------------------------------------------------------
(* The rows have their types, and a request that goes on has a company.    *)
TypeOK ==
    /\ status \in [Companies -> {"ACTIVE", "INACTIVE"}]
    /\ password \in [Companies -> Passwords]
    /\ access \subseteq Companies /\ unswept \subseteq Companies
    /\ sessions \in [Sessions -> session]
    /\ links \in [Links -> link]
    /\ req \in [Requests -> request]
    /\ faults \in 0..MaxFaults
    /\ \A r \in Requests : ~InStep(r, "idle") => req[r].company \in Companies

(* A password change ends the sessions begun under an earlier password     *)
(* (auth.service.ts 225-227, 248-251).  A session that is still live under *)
(* a replaced one has its revokeAll to come, lost it to a failure, or was  *)
(* stored by a login that had been overtaken by the change.                *)
SessionsEndWithPassword ==
    \A s \in Sessions :
        LET c == sessions[s].company IN
        Live(s) /\ sessions[s].began < password[c]
            => Sweeping(c) # {} \/ c \in unswept \/ sessions[s].late

(* Logouts that the repository's words exclude: SECURITY.md 738-747 has    *)
(* the UPDATE of a logout ask for the company of the bearer, while         *)
(* revokeToken (refresh-token.service.ts 93-121) asks for the token alone. *)
LeftByAnother(s) == sessions[s].expelled

(* Nobody is logged out without a reason: a revoked session was left by a  *)
(* logout of its company, or of another one (see above), began under a     *)
(* password that is no longer the company's, or began while an earlier     *)
(* change had its revokeAll still to come, which makes no difference       *)
(* between the sessions before and after it.  Nor between the session of   *)
(* the caller and others, against auth.controller.ts 77 ("All other        *)
(* refresh tokens will be revoked"): the caller's own is revoked too.      *)
RevocationsHaveReasons ==
    \A s \in Sessions :
        sessions[s].revoked
            => \/ sessions[s].left \/ LeftByAnother(s) \/ sessions[s].amid
               \/ sessions[s].began < password[sessions[s].company]

(* A link sets a second password only for a request that was let in while  *)
(* the first had not finished: validating, hashing, marking and setting    *)
(* are four statements (password-reset.service.ts 104-142).                *)
SecondChangeWasShared ==
    \A l \in Links : links[l].changes > 1 => links[l].shared

(* A link that has set a password lets no later request in, also when the  *)
(* second SELECT did not find it and so nothing was marked.                *)
ChangedLinkIsSpent ==
    \A l \in Links : links[l].changes > 0 => ~Usable(l)

(* A spent link has set a password, is about to, or its request died       *)
(* between the two UPDATEs, which no transaction holds together (126-142). *)
SpentLinkChanged ==
    \A l \in Links :
        links[l].used
            => \/ links[l].changes > 0 \/ links[l].cut
               \/ \E r \in Holding(l) : InStep(r, "set")

(* A reset link changes a password once, and is spent by it: what the      *)
(* exceptions above leave of validating and marking (password-reset.ser-   *)
(* vice.ts 73-145).                                                        *)
LinksChangeOnce ==
    SecondChangeWasShared /\ ChangedLinkIsSpent /\ SpentLinkChanged

(* A session that is there belongs to a company and began under no later   *)
(* password than it has.                                                   *)
SessionsBelong ==
    \A s \in Sessions :
        /\ sessions[s].there => /\ sessions[s].company \in Companies
                               /\ sessions[s].began
                                     <= password[sessions[s].company]
        /\ sessions[s].revoked => sessions[s].there

(* A link that is there belongs to a company; of the others nothing has    *)
(* become yet.                                                             *)
LinksBelong ==
    \A l \in Links :
        /\ links[l].there => links[l].company \in Companies
        /\ links[l].used \/ links[l].changes > 0 => links[l].there

(* What a request has read is still so: passwords only move on, rows are   *)
(* never deleted, and a link that is spent stays spent.                    *)
RequestsKnowSessions ==
    \A r \in Requests :
        /\ InStep(r, "login") => req[r].seen <= password[req[r].company]
        /\ InStep(r, "logout") => /\ req[r].token \in Sessions
                                  /\ sessions[req[r].token].there

RequestsKnowLinks ==
    \A r \in Requests :
        /\ req[r].at \in {"mail", "reset", "mark", "set"}
              => req[r].token \in Links /\ links[req[r].token].there
        /\ InStep(r, "set") => ~Usable(req[r].token)

(* While a revokeAll is to come, each session it may meet, also one that   *)
(* a login is still to store, began before its change or while it was on.  *)
SweepsHaveReasons ==
    \A c \in Companies : Sweeping(c) # {} =>
        /\ \A s \in Sessions :
              sessions[s].there /\ sessions[s].company = c
                  => sessions[s].amid \/ sessions[s].began < password[c]
        /\ \A r \in Requests :
              InStep(r, "login") /\ req[r].company = c
                  => req[r].amid \/ req[r].seen < password[c]

(* A link nobody shared has let in one request at most, and after that     *)
(* one's change none: why counting its changes comes to one.               *)
UnsharedLinksAreHeldOnce ==
    \A l \in Links : ~links[l].shared =>
        /\ \A q, r \in Holding(l) : q = r
        /\ Holding(l) # {} => links[l].changes = 0

(* The invariants of this module, with what they rest on.                  *)
SessionInv ==
    /\ SessionsBelong /\ RequestsKnowSessions
    /\ SessionsEndWithPassword /\ SweepsHaveReasons /\ RevocationsHaveReasons

LinkInv ==
    /\ LinksBelong /\ RequestsKnowLinks
    /\ UnsharedLinksAreHeldOnce /\ LinksChangeOnce

IndInv == TypeOK /\ SessionInv /\ LinkInv

(* A session under a replaced password does end, unless its revokeAll was  *)
(* lost or its login overtaken by the change.                              *)
StaleSessionsEnd ==
    \A s \in Sessions :
        (Live(s) /\ sessions[s].began < password[sessions[s].company])
            ~> (~Live(s) \/ sessions[s].late
                         \/ sessions[s].company \in unswept)
=============================================================================
