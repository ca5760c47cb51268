------------------------------ MODULE Accounts ------------------------------
(***************************************************************************)
(* Accounts, and who a request acts as.  A web sign-in leaves a session,   *)
(* which keeps what its account was then; a Zitadel bearer is mapped to    *)
(* its account anew by every request, which may create it on the way; a    *)
(* wg-vpng token belongs to no account.  One step per statement.           *)
(***************************************************************************)
EXTENDS Naturals, FiniteSets

CONSTANTS
  Slots,        \* the requests that may run at once
  Emails,
  AdminEmails,  \* those the configuration lists as admins
  Claims,       \* group claims an identity provider may send
  TokenKind,    \* wg-vpng's tokens: "admin" or "api"
  AutoCreate,   \* whether a bearer without an account gets one
  MaxAccounts,  \* bound on the accounts made for one email
  MaxEvents     \* bound on the requests made and the deadlines passed

ASSUME AccountsAssumption ==
  /\ AdminEmails \subseteq Emails
  /\ AutoCreate \in BOOLEAN
  /\ MaxAccounts \in Nat
  /\ MaxEvents \in Nat

VARIABLES
  users,      \* the rows of users, their claims with them
  spent,      \* the user ids given out so far
  sessions,   \* what web sessions know of their user
  job,        \* the request in each slot and its local variables
  events      \* requests made and deadlines passed so far

\* A user id is random and never used again; here it shows whose it is.
Ids == [email : Emails, nth : 1..MaxAccounts]

\* live_until is infinity until a login sets it, and passes.
Users ==
  [id : Ids, admin : BOOLEAN, banned : BOOLEAN, live : {"forever", "renewed", "lapsed"},
   claims : SUBSET Claims]

Account(email) == {u \in users : u.id.email = email}
Row(ids) == {u \in users : u.id \in ids}

\* The principal: email and id are {} for what is not known or not there.
Nobody == [door |-> "none", email |-> {}, id |-> {}, admin |-> FALSE]

NoJob ==
  [pc |-> "idle", who |-> Nobody, op |-> "none", device |-> {}, rows |-> {},
   claims |-> {}, group |-> {}, left |-> {}, owner |-> {}]

At(s, pc) == job[s].pc = pc

\* The request goes on as j; a request that has done what it was to do is NoJob.
Becomes(s, j) == job' = [job EXCEPT ![s] = j] /\ UNCHANGED events

Comes(s, pc, who) ==
  /\ At(s, "idle")
  /\ events < MaxEvents
  /\ events' = events + 1
  /\ job' = [job EXCEPT ![s] = [NoJob EXCEPT !.pc = pc, !.who = who]]

---------------------------------------------------------------------------
\* Statements.

NewRow(email, admin) ==
  [id |-> [email |-> email, nth |-> 1 + Cardinality({i \in spent : i.email = email})],
   admin |-> admin, banned |-> FALSE, live |-> "forever", claims |-> {}]

\* INSERT INTO users: the columns left out have their defaults.
Inserts(row) ==
  /\ row.id.nth <= MaxAccounts
  /\ users' = users \cup {row}
  /\ spent' = spent \cup {row.id}

\* UPDATE users ... WHERE id, which touches no row when the account is gone.
Updates(old, new) ==
  /\ users' = (users \ old) \cup new
  /\ UNCHANGED spent

\* The upsert of resolve_user, which never takes admin away.
SignInRow(email, u) == [u EXCEPT !.admin = @ \/ email \in AdminEmails]

\* Mutant: INSERT without ON CONFLICT, had the email no unique index.
UpsertsBlind(email, admin) == Inserts(NewRow(email, admin))

\* current_user_id's and upsert_user_by_email's: an account that is there stays as it is.
Upserts(email, admin) ==
  IF Account(email) = {} THEN Inserts(NewRow(email, admin)) ELSE UNCHANGED <<users, spent>>

\* The id such an upsert returns.
UpsertedId(email) ==
  IF Account(email) = {} THEN {NewRow(email, FALSE).id} ELSE {u.id : u \in Account(email)}

---------------------------------------------------------------------------
\* Requests come.

\* An OIDC login the provider's rules allow.
Login(s) ==
  /\ \E email \in Emails :
       Comes(s, "sign up", [Nobody EXCEPT !.door = "login", !.email = {email}])
  /\ UNCHANGED <<users, spent, sessions>>

\* A server function call of the web UI.
SessionCall(s) ==
  /\ \E x \in sessions :
       Comes(s, "routed",
             [Nobody EXCEPT !.door = "session", !.email = {x.email}, !.admin = x.admin])
  /\ UNCHANGED <<users, spent, sessions>>

\* An API call with a token of ours.  One that was revoked in the database or has
\* expired is refused; no code here does either.
TokenCall(s) ==
  /\ \E t \in DOMAIN TokenKind :
       Comes(s, "routed", [Nobody EXCEPT !.door = "token", !.admin = TokenKind[t] = "admin"])
  /\ UNCHANGED <<users, spent, sessions>>

\* An API call with any other bearer: the identity Zitadel makes of it, unless its
\* email is known not to be verified, and the account with that email, if any.
BearerCall(s) ==
  /\ \E email \in Emails, verified \in {"yes", "unknown"} :
       /\ \A u \in Account(email) : ~u.banned
       /\ Account(email) = {} => AutoCreate /\ verified = "yes"
       /\ Comes(s, IF Account(email) = {} THEN "sign up" ELSE "renew",
                [Nobody EXCEPT !.door = "bearer", !.email = {email},
                               !.id = {u.id : u \in Account(email)}])
  /\ UNCHANGED <<users, spent, sessions>>

---------------------------------------------------------------------------
\* The sign-in, of a login or of a bearer without an account.

\* Mutant: the ban is looked at in the first look-up only.
SignUpUnchecked(s) ==
  /\ At(s, "sign up")
  /\ \E email \in job[s].who.email :
       LET old == Account(email)
           new == IF old = {} THEN {NewRow(email, email \in AdminEmails)}
                  ELSE {SignInRow(email, u) : u \in old}
       IN \E u \in new :
            /\ IF old = {} THEN Inserts(u) ELSE Updates(old, new)
            /\ Becomes(s, [job[s] EXCEPT !.pc = "claims", !.who.id = {u.id}, !.who.admin = u.admin])
  /\ UNCHANGED sessions

\* resolve_user: the account is made or its admin flag raised, then a banned one is
\* turned away.
SignUp(s) ==
  /\ At(s, "sign up")
  /\ \E email \in job[s].who.email :
       LET old == Account(email)
           new == IF old = {} THEN {NewRow(email, email \in AdminEmails)}
                  ELSE {SignInRow(email, u) : u \in old}
       IN \E u \in new :
            /\ IF old = {} THEN Inserts(u) ELSE Updates(old, new)
            /\ Becomes(s, IF u.banned THEN NoJob
                          ELSE [job[s] EXCEPT !.pc = "claims", !.who.id = {u.id},
                                              !.who.admin = u.admin])
  /\ UNCHANGED sessions

\* The claims of this login replace those of the one before.
GrantClaims(s) ==
  /\ At(s, "claims")
  /\ Row(job[s].who.id) # {}
  /\ \E claims \in SUBSET Claims :
       Updates(Row(job[s].who.id), {[u EXCEPT !.claims = claims] : u \in Row(job[s].who.id)})
  /\ Becomes(s, [job[s] EXCEPT !.pc = "renew"])
  /\ UNCHANGED sessions

\* record_login, the end of a login and part of every bearer's request.
RecordLogin(s) ==
  /\ At(s, "renew")
  /\ Updates(Row(job[s].who.id), {[u EXCEPT !.live = "renewed"] : u \in Row(job[s].who.id)})
  /\ IF job[s].who.door = "login"
     THEN /\ sessions' = sessions \cup {[email |-> e, admin |-> job[s].who.admin] : e \in job[s].who.email}
          /\ Becomes(s, NoJob)
     ELSE /\ Becomes(s, [job[s] EXCEPT !.pc = "load"])
          /\ UNCHANGED sessions

\* The bearer's principal, from the row as it is now.
Load(s) ==
  /\ At(s, "load")
  /\ \E u \in Row(job[s].who.id) :
       Becomes(s, [job[s] EXCEPT !.pc = "routed", !.who.admin = u.admin])
  /\ UNCHANGED <<users, spent, sessions>>

---------------------------------------------------------------------------
\* Time passes.

Lapse ==
  /\ events < MaxEvents
  /\ events' = events + 1
  /\ \E u \in users :
       /\ u.live = "renewed"
       /\ Updates({u}, {[u EXCEPT !.live = "lapsed"]})
  /\ UNCHANGED <<sessions, job>>

\* A refused request changes nothing more, nor does one whose statement fails or
\* whose client goes away.
Ends(s) ==
  /\ ~At(s, "idle")
  /\ Becomes(s, NoJob)
  /\ UNCHANGED <<users, spent, sessions>>

AccountStep(s) ==
  \/ Login(s) \/ SessionCall(s) \/ TokenCall(s) \/ BearerCall(s)
  \/ SignUp(s) \/ GrantClaims(s) \/ RecordLogin(s) \/ Load(s) \/ Ends(s)
=============================================================================
