--------------------------- MODULE Requests_proofs ---------------------------
(***************************************************************************)
(* Who may see and change what, for any emails, devices, tokens and number *)
(* of requests at once.  The tables and each request have an invariant of  *)
(* their own; the tables change only in ways that keep those of the other  *)
(* requests (Evolves), so that interleaving is argued once.                *)
(***************************************************************************)
EXTENDS Requests, FiniteSetTheorems, TLAPS

Principals ==
  [door : {"none", "login", "session", "token", "bearer"},
   email : SUBSET Emails, id : SUBSET Ids, admin : BOOLEAN]

Pcs ==
  {"idle", "sign up", "claims", "renew", "load", "routed", "ensure", "live", "claim groups",
   "group", "insert", "list", "status", "answers", "edit", "provision"} \cup DeviceOps

Ops == {"none", "create", "list", "status", "interfaces"} \cup DeviceOps

Jobs ==
  [pc : Pcs, who : Principals, op : Ops, device : SUBSET Devices,
   rows : SUBSET Devices, claims : SUBSET Claims, group : SUBSET Groups,
   left : SUBSET {"emails", "claims"}, owner : SUBSET Ids]

Shapes ==
  /\ users \subseteq Users
  /\ IsFiniteSet(spent)
  /\ spent \subseteq Ids
  /\ sessions \subseteq [email : Emails, admin : BOOLEAN]
  /\ devices \subseteq Devices
  /\ made \in 0..MaxDevices
  /\ keys \in 0..MaxKeys
  /\ group \in Groups
  /\ events \in 0..MaxEvents

UsersInv ==
  /\ \A u, v \in users : u.id.email = v.id.email => u = v
  /\ \A u \in users : u.id \in spent
  /\ \A u \in users : u.admin => u.id.email \in AdminEmails
  /\ \A x \in sessions : x.admin => x.email \in AdminEmails

DevicesInv ==
  /\ \A d \in devices : d.id <= made /\ d.key <= keys
  /\ \A d, e \in devices : d.id = e.id \/ (d.key = e.key /\ d.key # 0) => d = e
  /\ \A d \in devices : \A id \in d.owner : \E u \in users : u.id = id

TablesInv == Shapes /\ UsersInv /\ DevicesInv

\* Made with an admin's token, or for somebody configured as admin: Trusted.
Believed(j) ==
  IF j.who.door = "token" THEN j.who.admin ELSE j.who.email \cap AdminEmails # {}

HisOf(j, d) == d.owner # {} /\ \A id \in d.owner : id.email \in j.who.email

\* A request knows one email and one account, with that email; it counts as an
\* admin's only where that is so; and from where it needs an account it has one.
WhoInv(j, ids) ==
  /\ \A x, y \in j.who.email : x = y
  /\ \A x, y \in j.who.id : x = y
  /\ \A id \in j.who.id : id \in ids /\ id.email \in j.who.email
  /\ j.who.admin => Believed(j)
  /\ j.who.door = "token" => j.who.email = {}
  /\ j.pc = "routed" /\ j.who.door \notin {"session", "token"} => j.who.id # {}
  /\ j.pc \in {"live", "claim groups", "group", "list", "status", "insert"} => j.who.id # {}
  /\ j.pc \in {"edit", "provision"} => j.who.admin

\* The device a request read and the one with its id now have the same owner; a
\* request about to change it may.
DeviceInv(j, rows, n) ==
  /\ \A d, e \in j.device : d = e
  /\ \A d \in j.device :
       /\ d.id <= n
       /\ \A e \in rows : e.id = d.id => e.owner = d.owner /\ e.own = d.own
  /\ j.pc \in {"regenerate", "rename", "delete"} /\ ~Believed(j) =>
       \A d \in j.device : HisOf(j, d) /\ (j.pc = "rename" => d.own)

\* So have, by key, the rows it looks up in what the backend reports; what it
\* answers is his.
RowsInv(j, rows, n) ==
  /\ j.pc = "status" =>
       \A r \in j.rows :
         /\ r.key <= n
         /\ \A e \in rows : e.key = r.key /\ r.key # 0 => e.owner = r.owner
  /\ j.pc = "status" \/ (j.pc = "answers" /\ j.who.door # "token" /\ ~Believed(j)) =>
       \A r \in j.rows : HisOf(j, r)

JobInv(j, ids, rows, n, m) ==
  /\ j.pc = "idle" => j = NoJob
  /\ WhoInv(j, ids)
  /\ DeviceInv(j, rows, n)
  /\ RowsInv(j, rows, m)

Sinces == [shut : SUBSET AllReasons, edited : BOOLEAN]

\* What a request has read says what has not kept its user out ever since.
SinceInv(j, h, g) ==
  /\ j.pc = "sign up" => j.claims = {} /\ j.group = {}
  /\ j.who.door \in {"login", "bearer"} /\ j.pc # "sign up" => "banned" \notin h.shut
  /\ j.pc \in {"claim groups", "group", "insert"} => "lapsed" \notin h.shut
  /\ j.claims # {} => "no claim" \notin h.shut
  /\ \A r \in j.group :
       /\ j.who.email \cap r.emails # {} => h.shut \cap {"no claim", "no value"} = {}
       /\ r.claims # {} => "no value" \notin h.shut
  /\ j.pc = "insert" => h.shut \subseteq {"banned"}
  /\ j.pc = "edit" /\ ~h.edited => \A r \in j.group : r = g

InOrder ==
  /\ TablesInv
  /\ job \in [Slots -> Jobs]
  /\ \A s \in Slots : JobInv(job[s], spent, devices, made, keys)

IInv ==
  /\ InOrder
  /\ since \in [Slots -> Sinces]
  /\ \A s \in Slots : SinceInv(job[s], since[s], group)

---------------------------------------------------------------------------
\* How the tables may change: ids and keys are never used again, and a device
\* keeps its owner and, unless it gets a new one, its key.
Evolves ==
  /\ made <= made' /\ keys <= keys' /\ spent \subseteq spent'
  /\ \A e \in devices' :
       \/ e.id > made /\ (e.key = 0 \/ e.key > keys)
       \/ \E d \in devices : /\ d.id = e.id /\ d.owner = e.owner /\ d.own = e.own
                             /\ e.key = d.key \/ e.key > keys

\* A slot without a request is in order.
LEMMA NoJobInOrder ==
  ASSUME NEW ids, NEW rows, NEW n, NEW m, NEW h, NEW g
  PROVE  NoJob \in Jobs /\ JobInv(NoJob, ids, rows, n, m) /\ SinceInv(NoJob, h, g)
<1>1. NoJob \in Jobs
  BY DEF NoJob, Nobody, Jobs, Principals, Pcs, Ops
<1>2. JobInv(NoJob, ids, rows, n, m)
  BY DEF NoJob, Nobody, JobInv, WhoInv, DeviceInv, RowsInv
<1>3. SinceInv(NoJob, h, g)
  BY DEF NoJob, Nobody, SinceInv
<1> QED BY <1>1, <1>2, <1>3

\* A request that stays as it is stays in order while the tables evolve.
LEMMA OtherJobs ==
  ASSUME TablesInv, Shapes', Evolves, NEW j \in Jobs,
         JobInv(j, spent, devices, made, keys)
  PROVE  JobInv(j, spent', devices', made', keys')
<1>1. j.device \subseteq Devices /\ j.rows \subseteq Devices
  BY DEF Jobs
<1>2. made \in Nat /\ keys \in Nat /\ made' \in Nat /\ keys' \in Nat
  BY AccountsAssumption, StartAssumption DEF TablesInv, Shapes
<1>3. \A e \in devices \cup devices' \cup j.device \cup j.rows : e.id \in Nat /\ e.key \in Nat
  BY <1>1 DEF TablesInv, Shapes, Devices
<1>4. WhoInv(j, spent')
  BY DEF JobInv, WhoInv, Evolves
<1>5. DeviceInv(j, devices', made')
  <2>1. ASSUME NEW d \in j.device, NEW e \in devices', e.id = d.id
        PROVE  e.owner = d.owner /\ e.own = d.own
    BY <1>2, <1>3, <2>1 DEF JobInv, DeviceInv, Evolves
  <2>2. \A d \in j.device : d.id <= made'
    BY <1>2, <1>3 DEF JobInv, DeviceInv, Evolves
  <2> QED BY <2>1, <2>2 DEF JobInv, DeviceInv
<1>6. RowsInv(j, devices', keys')
  <2>1. ASSUME j.pc = "status", NEW r \in j.rows, NEW e \in devices', e.key = r.key, r.key # 0
        PROVE  e.owner = r.owner
    BY <1>2, <1>3, <2>1 DEF JobInv, RowsInv, Evolves
  <2>2. ASSUME j.pc = "status", NEW r \in j.rows
        PROVE  r.key <= keys'
    BY <1>2, <1>3, <2>2 DEF JobInv, RowsInv, Evolves
  <2> QED BY <2>1, <2>2 DEF JobInv, RowsInv
<1> QED BY <1>4, <1>5, <1>6 DEF JobInv

---------------------------------------------------------------------------
\* The statements keep the tables in order.

\* A statement that only reads.
LEMMA ReadsKeep ==
  ASSUME TablesInv, UNCHANGED <<users, spent, sessions, requestVars>>, events' \in 0..MaxEvents
  PROVE  TablesInv' /\ Evolves
<1>1. made <= made' /\ keys <= keys'
  BY StartAssumption DEF TablesInv, Shapes, requestVars
<1>2. TablesInv'
  BY DEF TablesInv, Shapes, UsersInv, DevicesInv, requestVars
<1> QED BY <1>1, <1>2 DEF Evolves, requestVars

\* The accounts change, none goes: the rest of the tables stays in order.
LEMMA AccountsKeep ==
  ASSUME TablesInv, UNCHANGED requestVars, events' \in 0..MaxEvents,
         users' \subseteq Users, IsFiniteSet(spent'), spent \subseteq spent', spent' \subseteq Ids,
         sessions' \subseteq [email : Emails, admin : BOOLEAN], UsersInv',
         \A u \in users : \E v \in users' : v.id = u.id
  PROVE  TablesInv' /\ Evolves
<1>1. made <= made' /\ keys <= keys'
  BY StartAssumption DEF TablesInv, Shapes, requestVars
<1>2. Shapes'
  BY DEF TablesInv, Shapes, requestVars
<1>3. DevicesInv'
  BY DEF TablesInv, DevicesInv, requestVars
<1> QED BY <1>1, <1>2, <1>3 DEF Evolves, requestVars, TablesInv

\* An id is given out with a number.
LEMMA NewIds ==
  ASSUME TablesInv, NEW email \in Emails, NEW admin, NewRow(email, admin).id.nth <= MaxAccounts
  PROVE  NewRow(email, admin).id \in Ids
<1> DEFINE old == {i \in spent : i.email = email}
<1>1. IsFiniteSet(old)
  BY FS_Subset DEF TablesInv, Shapes
<1>2. Cardinality(old) \in Nat
  BY <1>1, FS_CardinalityType
<1>3. NewRow(email, admin).id = [email |-> email, nth |-> 1 + Cardinality(old)]
  BY DEF NewRow
<1> HIDE DEF old
<1>4. 1 + Cardinality(old) \in 1..MaxAccounts
  BY <1>2, <1>3, AccountsAssumption
<1> QED BY <1>3, <1>4 DEF Ids

\* An account made for an email that has none.
LEMMA InsertsKeep ==
  ASSUME TablesInv, NEW email \in Emails, NEW row \in Users, row.id.email = email,
         row.admin => email \in AdminEmails,
         Account(email) = {}, Inserts(row), UNCHANGED <<sessions, requestVars, events>>
  PROVE  TablesInv' /\ Evolves
<1>2. users' = users \cup {row} /\ spent' = spent \cup {row.id}
  BY DEF Inserts
<1>3. \A u \in users : u.id.email # email
  BY DEF Account
<1>4. IsFiniteSet(spent') /\ spent' \subseteq Ids /\ users' \subseteq Users
  BY <1>2, FS_AddElement DEF TablesInv, Shapes, Users
<1>5. UsersInv'
  BY <1>2, <1>3 DEF TablesInv, UsersInv
<1>6. sessions' \subseteq [email : Emails, admin : BOOLEAN] /\ events' \in 0..MaxEvents
  BY DEF TablesInv, Shapes
<1> QED BY <1>2, <1>4, <1>5, <1>6, AccountsKeep

\* An account's row is written.
LEMMA UpdatesKeep ==
  ASSUME TablesInv, NEW u \in users, NEW v \in Users, v.id = u.id,
         v.admin => v.id.email \in AdminEmails,
         Updates({u}, {v}),
         UNCHANGED requestVars, events' \in 0..MaxEvents,
         sessions' \subseteq [email : Emails, admin : BOOLEAN],
         \A x \in sessions' : x.admin => x.email \in AdminEmails
  PROVE  TablesInv' /\ Evolves
<1>1. users' = (users \ {u}) \cup {v} /\ spent' = spent
  BY DEF Updates
<1>2. users' \subseteq Users
  BY <1>1 DEF TablesInv, Shapes
<1>3. UsersInv'
  BY <1>1 DEF TablesInv, UsersInv
<1>4. \A w \in users : \E x \in users' : x.id = w.id
  BY <1>1
<1>5. IsFiniteSet(spent') /\ spent' \subseteq Ids
  BY <1>1 DEF TablesInv, Shapes
<1> QED BY <1>1, <1>2, <1>3, <1>4, <1>5, AccountsKeep

---------------------------------------------------------------------------
\* Steps of a request keep everything in order.

\* It goes on as j.
LEMMA GoesOn ==
  ASSUME InOrder, NEW s \in Slots, NEW j \in Jobs, job' = [job EXCEPT ![s] = j],
         TablesInv', Evolves, JobInv(j, spent', devices', made', keys')
  PROVE  InOrder'
<1>1. ASSUME NEW t \in Slots
      PROVE  JobInv(job'[t], spent', devices', made', keys')
  <2>1. CASE t = s
    BY <2>1 DEF InOrder
  <2>2. CASE t # s
    <3>1. job'[t] = job[t] /\ job[t] \in Jobs
      BY <2>2 DEF InOrder
    <3> QED BY <3>1, OtherJobs DEF InOrder, TablesInv
  <2> QED BY <2>1, <2>2
<1> QED BY <1>1 DEF InOrder

\* It is done.
LEMMA IsDone ==
  ASSUME InOrder, NEW s \in Slots, Becomes(s, NoJob), TablesInv', Evolves
  PROVE  InOrder'
BY NoJobInOrder, GoesOn DEF Becomes

\* It reads.
LEMMA ReadsOn ==
  ASSUME InOrder, NEW s \in Slots, NEW j \in Jobs, Becomes(s, j),
         UNCHANGED <<users, spent, sessions, requestVars>>,
         JobInv(j, spent, devices, made, keys)
  PROVE  InOrder'
<1>1. TablesInv' /\ Evolves
  BY ReadsKeep DEF InOrder, TablesInv, Shapes, Becomes
<1>2. JobInv(j, spent', devices', made', keys')
  BY DEF requestVars
<1> QED BY <1>1, <1>2, GoesOn DEF Becomes

LEMMA ComesInOrder ==
  ASSUME InOrder, NEW s \in Slots, NEW pc \in Pcs, NEW who \in Principals,
         Comes(s, pc, who), UNCHANGED <<users, spent, sessions, requestVars>>,
         pc # "idle", WhoInv([NoJob EXCEPT !.pc = pc, !.who = who], spent)
  PROVE  InOrder'
<1> DEFINE j == [NoJob EXCEPT !.pc = pc, !.who = who]
<1>1. j \in Jobs
  BY NoJobInOrder DEF Jobs
<1>2. j.pc = pc /\ j.device = {} /\ j.rows = {}
  BY DEF NoJob
<1>3. events' \in 0..MaxEvents
  BY AccountsAssumption DEF InOrder, TablesInv, Shapes, Comes
<1>4. TablesInv' /\ Evolves
  BY <1>3, ReadsKeep DEF InOrder
<1>5. job' = [job EXCEPT ![s] = j]
  BY DEF Comes
<1> HIDE DEF j
<1>6. JobInv(j, spent', devices', made', keys')
  BY <1>2 DEF JobInv, DeviceInv, RowsInv, j
<1> QED BY <1>1, <1>4, <1>5, <1>6, GoesOn

LEMMA LoginInOrder ==
  ASSUME InOrder, NEW s \in Slots, Login(s), UNCHANGED requestVars
  PROVE  InOrder'
<1>1. PICK email \in Emails :
        Comes(s, "sign up", [Nobody EXCEPT !.door = "login", !.email = {email}])
  BY DEF Login
<1> DEFINE who == [Nobody EXCEPT !.door = "login", !.email = {email}]
<1>2. who \in Principals
  BY DEF Principals, Nobody
<1>3. WhoInv([NoJob EXCEPT !.pc = "sign up", !.who = who], spent)
  BY DEF WhoInv, NoJob, Nobody
<1> QED BY <1>1, <1>2, <1>3, ComesInOrder DEF Login, Pcs

LEMMA SessionCallInOrder ==
  ASSUME InOrder, NEW s \in Slots, SessionCall(s), UNCHANGED requestVars
  PROVE  InOrder'
<1>1. PICK x \in sessions :
        Comes(s, "routed",
              [Nobody EXCEPT !.door = "session", !.email = {x.email}, !.admin = x.admin])
  BY DEF SessionCall
<1> DEFINE who == [Nobody EXCEPT !.door = "session", !.email = {x.email}, !.admin = x.admin]
<1>2. x.email \in Emails /\ x.admin \in BOOLEAN /\ (x.admin => x.email \in AdminEmails)
  BY DEF InOrder, TablesInv, Shapes, UsersInv
<1>3. who \in Principals
  BY <1>2 DEF Principals, Nobody
<1>4. WhoInv([NoJob EXCEPT !.pc = "routed", !.who = who], spent)
  BY <1>2 DEF WhoInv, NoJob, Nobody, Believed
<1> QED BY <1>1, <1>3, <1>4, ComesInOrder DEF SessionCall, Pcs

LEMMA TokenCallInOrder ==
  ASSUME InOrder, NEW s \in Slots, TokenCall(s), UNCHANGED requestVars
  PROVE  InOrder'
<1>1. PICK t \in DOMAIN TokenKind :
        Comes(s, "routed", [Nobody EXCEPT !.door = "token", !.admin = TokenKind[t] = "admin"])
  BY DEF TokenCall
<1> DEFINE who == [Nobody EXCEPT !.door = "token", !.admin = TokenKind[t] = "admin"]
<1>2. who \in Principals
  BY DEF Principals, Nobody
<1>3. WhoInv([NoJob EXCEPT !.pc = "routed", !.who = who], spent)
  BY DEF WhoInv, NoJob, Nobody, Believed
<1> QED BY <1>1, <1>2, <1>3, ComesInOrder DEF TokenCall, Pcs

LEMMA BearerCallInOrder ==
  ASSUME InOrder, NEW s \in Slots, BearerCall(s), UNCHANGED requestVars
  PROVE  InOrder'
<1>1. PICK email \in Emails :
        Comes(s, IF Account(email) = {} THEN "sign up" ELSE "renew",
              [Nobody EXCEPT !.door = "bearer", !.email = {email},
                             !.id = {u.id : u \in Account(email)}])
  BY DEF BearerCall
<1> DEFINE pc == IF Account(email) = {} THEN "sign up" ELSE "renew"
           ids == {u.id : u \in Account(email)}
           who == [Nobody EXCEPT !.door = "bearer", !.email = {email}, !.id = ids]
<1>2. /\ \A x, y \in ids : x = y
      /\ \A id \in ids : id \in spent /\ id.email = email
      /\ ids \in SUBSET Ids
  BY DEF InOrder, TablesInv, Shapes, UsersInv, Account
<1> HIDE DEF ids
<1>3. who \in Principals
  BY <1>2 DEF Principals, Nobody
<1>4. WhoInv([NoJob EXCEPT !.pc = pc, !.who = who], spent)
  BY <1>2 DEF WhoInv, NoJob, Nobody
<1>5. pc \in Pcs /\ pc # "idle"
  BY DEF Pcs
<1>6. Comes(s, pc, who)
  BY <1>1 DEF ids
<1> HIDE DEF pc, who
<1> QED BY <1>3, <1>4, <1>5, <1>6, ComesInOrder DEF BearerCall

---------------------------------------------------------------------------
\* The sign-in.

\* A request has at most one account.
LEMMA OneRow ==
  ASSUME InOrder, NEW s \in Slots, NEW u \in Row(job[s].who.id)
  PROVE  /\ u \in users /\ Row(job[s].who.id) = {u}
         /\ u.id.email \in job[s].who.email /\ job[s].who.id = {u.id}
<1>1. u \in users /\ u.id \in job[s].who.id
  BY DEF Row
<1>2. WhoInv(job[s], spent)
  BY DEF InOrder, JobInv
<1>3. u.id.email \in job[s].who.email /\ job[s].who.id = {u.id}
  BY <1>1, <1>2 DEF WhoInv
<1>4. \A v \in Row(job[s].who.id) : v = u
  BY <1>1, <1>3 DEF Row, InOrder, TablesInv, UsersInv
<1> QED BY <1>1, <1>3, <1>4

LEMMA SignUpInOrder ==
  ASSUME InOrder, NEW s \in Slots, SignUp(s), UNCHANGED requestVars
  PROVE  InOrder'
<1> DEFINE old(email) == Account(email)
           new(email) == IF old(email) = {} THEN {NewRow(email, email \in AdminEmails)}
                         ELSE {SignInRow(email, u) : u \in old(email)}
           Signs(email, v) ==
             /\ IF old(email) = {} THEN Inserts(v) ELSE Updates(old(email), new(email))
             /\ Becomes(s, IF v.banned THEN NoJob
                           ELSE [job[s] EXCEPT !.pc = "claims", !.who.id = {v.id},
                                               !.who.admin = v.admin])
<1>0. PICK email \in job[s].who.email : \E v \in new(email) : Signs(email, v)
  BY DEF SignUp
<1>1. PICK v \in new(email) : Signs(email, v)
  BY <1>0
<1>2. email \in Emails /\ job[s] \in Jobs /\ UNCHANGED <<sessions, events>>
  BY <1>1 DEF InOrder, Jobs, Principals, SignUp, Becomes
<1>3. /\ TablesInv' /\ Evolves
      /\ v.id \in Ids /\ v.id \in spent' /\ v.id.email = email
      /\ v.admin \in BOOLEAN /\ (v.admin => email \in AdminEmails)
  <2>1. CASE old(email) = {}
    <3>1. v = NewRow(email, email \in AdminEmails) /\ Inserts(v)
      BY <1>1, <2>1
    <3>2. v.id \in Ids
      BY <1>2, <3>1, NewIds DEF Inserts, InOrder
    <3>3. v.id.email = email /\ v.admin = (email \in AdminEmails)
      BY <3>1 DEF NewRow
    <3>4. v \in Users
      BY <3>1, <3>2 DEF NewRow, Users
    <3>5. TablesInv' /\ Evolves
      BY <1>2, <2>1, <3>1, <3>3, <3>4, InsertsKeep DEF InOrder
    <3>6. v.admin \in BOOLEAN
      BY <3>4 DEF Users
    <3>7. v.admin => email \in AdminEmails
      BY <3>3
    <3>8. v.id \in spent'
      BY <3>1 DEF Inserts
    <3> QED BY <3>2, <3>3, <3>5, <3>6, <3>7, <3>8
  <2>2. CASE old(email) # {}
    <3>1. PICK u \in old(email) : v = SignInRow(email, u)
      BY <1>1, <2>2
    <3>2. u \in users /\ u \in Users /\ u.id.email = email /\ old(email) = {u}
      BY <3>1 DEF Account, InOrder, TablesInv, Shapes, UsersInv
    <3>3. new(email) = {v}
      BY <3>1, <3>2
    <3>4. v \in Users /\ v.id = u.id /\ (v.admin => email \in AdminEmails)
      BY <3>1, <3>2 DEF SignInRow, Users, InOrder, TablesInv, UsersInv
    <3>5. Updates({u}, {v})
      BY <1>1, <2>2, <3>2, <3>3
    <3>6. TablesInv' /\ Evolves
      BY <1>2, <3>2, <3>4, <3>5, UpdatesKeep DEF InOrder, TablesInv, Shapes, UsersInv
    <3>7. v.id \in spent'
      BY <3>2, <3>4, <3>5 DEF Updates, InOrder, TablesInv, UsersInv
    <3> QED BY <3>2, <3>4, <3>6, <3>7 DEF Users
  <2> QED BY <2>1, <2>2
<1> DEFINE j == [job[s] EXCEPT !.pc = "claims", !.who.id = {v.id}, !.who.admin = v.admin]
<1>4. j \in Jobs
  BY <1>2, <1>3 DEF Jobs, Principals, Pcs
<1>5. JobInv(job[s], spent', devices', made', keys')
  BY <1>2, <1>3, OtherJobs DEF InOrder, TablesInv
<1>6. /\ j.pc = "claims" /\ j.who.id = {v.id} /\ j.who.admin = v.admin
      /\ j.who.email = job[s].who.email /\ j.who.door = job[s].who.door
      /\ j.device = job[s].device /\ j.rows = job[s].rows
  BY <1>2 DEF Jobs, Principals
<1>7. j.who.door # "token"
  BY <1>1, <1>5, <1>6 DEF JobInv, WhoInv
<1> HIDE DEF j
<1>8. WhoInv(j, spent')
  BY <1>1, <1>3, <1>5, <1>6, <1>7 DEF JobInv, WhoInv, Believed
<1>9. JobInv(j, spent', devices', made', keys')
  BY <1>5, <1>6, <1>8 DEF JobInv, DeviceInv, RowsInv
<1>10. CASE v.banned
  BY <1>1, <1>3, <1>10, IsDone
<1>11. CASE ~v.banned
  BY <1>1, <1>3, <1>4, <1>9, <1>11, GoesOn DEF Becomes, j
<1> QED BY <1>10, <1>11

LEMMA GrantClaimsInOrder ==
  ASSUME InOrder, NEW s \in Slots, GrantClaims(s), UNCHANGED requestVars
  PROVE  InOrder'
<1>1. PICK u \in Row(job[s].who.id) : TRUE
  BY DEF GrantClaims
<1>2. Row(job[s].who.id) = {u} /\ u \in users /\ u \in Users
  BY OneRow DEF InOrder, TablesInv, Shapes
<1>3. PICK claims \in SUBSET Claims : Updates({u}, {[u EXCEPT !.claims = claims]})
  BY <1>2 DEF GrantClaims
<1> DEFINE v == [u EXCEPT !.claims = claims]
           j == [job[s] EXCEPT !.pc = "renew"]
<1>4. v \in Users /\ v.id = u.id /\ (v.admin => v.id.email \in AdminEmails)
  BY <1>2 DEF Users, InOrder, TablesInv, UsersInv
<1>5. TablesInv' /\ Evolves
  BY <1>2, <1>3, <1>4, UpdatesKeep
     DEF InOrder, TablesInv, Shapes, UsersInv, GrantClaims, Becomes
<1>6. job[s] \in Jobs
  BY DEF InOrder
<1>7. /\ j \in Jobs /\ j.pc = "renew" /\ j.who = job[s].who
      /\ j.device = job[s].device /\ j.rows = job[s].rows
  BY <1>6 DEF Jobs, Pcs
<1>8. JobInv(job[s], spent', devices', made', keys')
  BY <1>5, <1>6, OtherJobs DEF InOrder, TablesInv
<1>9. job' = [job EXCEPT ![s] = j]
  BY DEF GrantClaims, Becomes
<1> HIDE DEF j
<1>10. JobInv(j, spent', devices', made', keys')
  BY <1>7, <1>8 DEF JobInv, WhoInv, DeviceInv, RowsInv, Believed, HisOf
<1> QED BY <1>5, <1>7, <1>9, <1>10, GoesOn

LEMMA RecordLoginInOrder ==
  ASSUME InOrder, NEW s \in Slots, RecordLogin(s), UNCHANGED requestVars
  PROVE  InOrder'
<1> DEFINE rows == Row(job[s].who.id)
           j == [job[s] EXCEPT !.pc = "load"]
<1>1. job[s] \in Jobs /\ JobInv(job[s], spent, devices, made, keys)
  BY DEF InOrder
<1>2. /\ sessions' \subseteq [email : Emails, admin : BOOLEAN]
      /\ \A x \in sessions' : x.admin => x.email \in AdminEmails
  <2>1. CASE job[s].who.door = "login"
    <3>1. sessions' = sessions \cup
            {[email |-> e, admin |-> job[s].who.admin] : e \in job[s].who.email}
      BY <2>1 DEF RecordLogin
    <3>2. job[s].who.admin \in BOOLEAN /\ job[s].who.email \subseteq Emails
      BY <1>1 DEF Jobs, Principals
    <3>3. job[s].who.admin => job[s].who.email \subseteq AdminEmails
      BY <1>1, <2>1 DEF JobInv, WhoInv, Believed
    <3> QED BY <3>1, <3>2, <3>3 DEF InOrder, TablesInv, Shapes, UsersInv
  <2>2. CASE job[s].who.door # "login"
    BY <2>2 DEF RecordLogin, InOrder, TablesInv, Shapes, UsersInv
  <2> QED BY <2>1, <2>2
<1>3. events' \in 0..MaxEvents
  BY DEF RecordLogin, Becomes, InOrder, TablesInv, Shapes
<1>4. TablesInv' /\ Evolves
  <2>1. CASE rows = {}
    <3>1. users' = users /\ spent' = spent
      BY <2>1 DEF RecordLogin, Updates
    <3>2. UsersInv'
      BY <1>2, <3>1 DEF InOrder, TablesInv, UsersInv
    <3> QED BY <1>2, <1>3, <3>1, <3>2, AccountsKeep DEF InOrder, TablesInv, Shapes
  <2>2. ASSUME NEW u \in rows
        PROVE  TablesInv' /\ Evolves
    <3>1. rows = {u} /\ u \in users /\ u \in Users
      BY OneRow DEF InOrder, TablesInv, Shapes
    <3> DEFINE v == [u EXCEPT !.live = "renewed"]
    <3>2. v \in Users /\ v.id = u.id /\ (v.admin => v.id.email \in AdminEmails)
      BY <3>1 DEF Users, InOrder, TablesInv, UsersInv
    <3>3. Updates({u}, {v})
      BY <3>1 DEF RecordLogin
    <3> QED BY <1>2, <1>3, <3>1, <3>2, <3>3, UpdatesKeep DEF InOrder
  <2> QED BY <2>1, <2>2
<1>5. JobInv(job[s], spent', devices', made', keys')
  BY <1>1, <1>4, OtherJobs DEF InOrder, TablesInv
<1>6. /\ j \in Jobs /\ j.pc = "load" /\ j.who = job[s].who
      /\ j.device = job[s].device /\ j.rows = job[s].rows
  BY <1>1 DEF Jobs, Pcs
<1>7. Becomes(s, NoJob) \/ Becomes(s, j)
  BY DEF RecordLogin
<1> HIDE DEF j
<1>8. JobInv(j, spent', devices', made', keys')
  BY <1>5, <1>6 DEF JobInv, WhoInv, DeviceInv, RowsInv, Believed, HisOf
<1> QED BY <1>4, <1>6, <1>7, <1>8, GoesOn, IsDone DEF Becomes

LEMMA LoadInOrder ==
  ASSUME InOrder, NEW s \in Slots, Load(s), UNCHANGED requestVars
  PROVE  InOrder'
<1>1. PICK u \in Row(job[s].who.id) :
        Becomes(s, [job[s] EXCEPT !.pc = "routed", !.who.admin = u.admin])
  BY DEF Load
<1> DEFINE j == [job[s] EXCEPT !.pc = "routed", !.who.admin = u.admin]
<1>2. job[s] \in Jobs /\ JobInv(job[s], spent, devices, made, keys)
  BY DEF InOrder
<1>3. u.id.email \in job[s].who.email /\ job[s].who.id = {u.id}
  BY OneRow
<1>4. u.admin \in BOOLEAN /\ (u.admin => u.id.email \in AdminEmails)
  BY OneRow DEF InOrder, TablesInv, Shapes, UsersInv, Users
<1>5. /\ j \in Jobs /\ j.pc = "routed" /\ j.who.admin = u.admin
      /\ j.who.id = job[s].who.id /\ j.who.email = job[s].who.email
      /\ j.who.door = job[s].who.door /\ j.device = job[s].device /\ j.rows = job[s].rows
  BY <1>2, <1>4 DEF Jobs, Principals, Pcs
<1>6. Becomes(s, j)
  BY <1>1
<1> HIDE DEF j
<1>7. JobInv(j, spent, devices, made, keys)
  BY <1>2, <1>3, <1>4, <1>5 DEF JobInv, WhoInv, DeviceInv, RowsInv, Believed, HisOf
<1> QED BY <1>5, <1>6, <1>7, ReadsOn DEF Load

LEMMA EndsInOrder ==
  ASSUME InOrder, NEW s \in Slots, Ends(s), UNCHANGED requestVars
  PROVE  InOrder'
BY NoJobInOrder, ReadsOn DEF Ends

LEMMA LapseInOrder ==
  ASSUME InOrder, Lapse, UNCHANGED requestVars
  PROVE  InOrder'
<1>1. PICK u \in users : Updates({u}, {[u EXCEPT !.live = "lapsed"]})
  BY DEF Lapse
<1>2. events' \in 0..MaxEvents /\ UNCHANGED <<sessions, job>>
  BY AccountsAssumption DEF InOrder, TablesInv, Shapes, Lapse
<1> DEFINE v == [u EXCEPT !.live = "lapsed"]
<1>3. v \in Users /\ v.id = u.id /\ (v.admin => v.id.email \in AdminEmails)
  BY DEF Users, InOrder, TablesInv, Shapes, UsersInv
<1>4. TablesInv' /\ Evolves
  BY <1>1, <1>2, <1>3, UpdatesKeep DEF InOrder, TablesInv, Shapes, UsersInv
<1>5. ASSUME NEW s \in Slots
      PROVE  JobInv(job[s], spent', devices', made', keys')
  BY <1>4, OtherJobs DEF InOrder, TablesInv
<1> QED BY <1>2, <1>4, <1>5 DEF InOrder

---------------------------------------------------------------------------
\* The steps that only read the devices, the accounts and the group.

LEMMA Here ==
  ASSUME InOrder, NEW s \in Slots
  PROVE  /\ job[s] \in Jobs
         /\ WhoInv(job[s], spent) /\ DeviceInv(job[s], devices, made)
         /\ RowsInv(job[s], devices, keys)
BY DEF InOrder, JobInv

\* Towards a decision or a list, with an account.
LEMMA PassesOn ==
  ASSUME InOrder, NEW s \in Slots, NEW j \in Jobs, Becomes(s, j),
         UNCHANGED <<users, spent, sessions, requestVars>>,
         j.who = job[s].who, j.device = job[s].device,
         j.pc \in {"ensure", "live", "claim groups", "group", "insert", "list"},
         j.pc # "ensure" => j.who.id # {}
  PROVE  InOrder'
<1>1. WhoInv(job[s], spent) /\ DeviceInv(job[s], devices, made)
  BY Here
<1>2. WhoInv(j, spent)
  BY <1>1 DEF WhoInv, Believed
<1>3. DeviceInv(j, devices, made)
  BY <1>1 DEF DeviceInv
<1>4. RowsInv(j, devices, keys)
  BY DEF RowsInv
<1>5. JobInv(j, spent, devices, made, keys)
  BY <1>2, <1>3, <1>4 DEF JobInv
<1> QED BY <1>5, ReadsOn

\* Whoever is not the web's and acts for somebody has an account.
LEMMA ActsFor ==
  ASSUME InOrder, NEW s \in Slots, At(s, "routed"), job[s].who.door # "session"
  PROVE  /\ Acting(job[s].who) => job[s].who.id # {}
         /\ job[s].who.door # "token" /\ ~job[s].who.admin => Acting(job[s].who)
<1>1. WhoInv(job[s], spent)
  BY Here
<1> QED BY <1>1 DEF WhoInv, At, Acting

LEMMA MineInOrder ==
  ASSUME InOrder, NEW s \in Slots, Mine(s)
  PROVE  InOrder'
<1>1. PICK op \in {"create", "list", "status", "interfaces"} :
        LET w == job[s].who IN
          /\ w.door = "session" \/ Acting(w)
          /\ w.door = "session" => op # "status"
          /\ Becomes(s, [job[s] EXCEPT !.op = op,
                                       !.pc = IF w.door = "session" THEN "ensure"
                                              ELSE IF op = "list" THEN "list" ELSE "live"])
  BY DEF Mine
<1> DEFINE pc == IF job[s].who.door = "session" THEN "ensure"
                 ELSE IF op = "list" THEN "list" ELSE "live"
           j == [job[s] EXCEPT !.op = op, !.pc = pc]
<1>2. j \in Jobs /\ j.pc = pc /\ j.who = job[s].who /\ j.device = job[s].device
  BY Here DEF Jobs, Pcs, Ops
<1>3. j.pc # "ensure" => j.who.id # {}
  BY <1>1, <1>2, ActsFor DEF Mine
<1>4. Becomes(s, j)
  BY <1>1
<1> HIDE DEF j
<1> QED BY <1>2, <1>3, <1>4, PassesOn DEF Mine

\* What the caller of a request about a device must be.
May(j, op, d) == ~Believed(j) => HisOf(j, d) /\ AllowedOn(op, d)

LEMMA ProceedsInOrder ==
  ASSUME InOrder, NEW s \in Slots, TablesInv', Evolves,
         NEW j \in Jobs, j.op \in DeviceOps,
         WhoInv(j, spent'), DeviceInv([j EXCEPT !.pc = "ensure"], devices', made'),
         j.who.email = job[s].who.email, j.who.door = job[s].who.door,
         j.who.admin = job[s].who.admin, At(s, "routed") \/ At(s, "ensure"),
         (j.op = "show" /\ j.who.door = "token") \/ \A d \in j.device : May(j, j.op, d),
         Proceeds(s, j)
  PROVE  InOrder'
<1>1. CASE j.op = "show"
  <2> DEFINE k == [job[s] EXCEPT !.pc = "answers", !.rows = j.device]
  <2>1. JobInv(job[s], spent', devices', made', keys') /\ job[s] \in Jobs
    BY Here, OtherJobs DEF InOrder, TablesInv
  <2>2. j.device \subseteq Devices
    BY DEF Jobs
  <2>3. /\ k \in Jobs /\ k.pc = "answers" /\ k.who = job[s].who /\ k.device = job[s].device
        /\ k.rows = j.device
    BY <2>1, <2>2 DEF Jobs, Pcs
  <2>4. job' = [job EXCEPT ![s] = k]
    BY <1>1 DEF Proceeds, Answers, Becomes
  <2> HIDE DEF k
  <2>5. WhoInv(k, spent')
    BY <2>1, <2>3 DEF JobInv, WhoInv, Believed
  <2>6. DeviceInv(k, devices', made')
    BY <2>1, <2>3 DEF JobInv, DeviceInv
  <2>7. RowsInv(k, devices', keys')
    BY <1>1, <2>3 DEF RowsInv, May, HisOf, Believed
  <2> QED BY <2>3, <2>4, <2>5, <2>6, <2>7, GoesOn DEF JobInv
<1>2. CASE j.op # "show"
  <2> DEFINE k == [j EXCEPT !.pc = j.op]
  <2>1. /\ k \in Jobs /\ k.pc = j.op /\ k.who = j.who /\ k.device = j.device
        /\ k.pc \in {"regenerate", "delete", "rename"}
    BY <1>2 DEF Jobs, Pcs, DeviceOps
  <2>2. job' = [job EXCEPT ![s] = k]
    BY <1>2 DEF Proceeds, Becomes
  <2> DEFINE i == [j EXCEPT !.pc = "ensure"]
  <2>3. i.device = j.device
    BY DEF Jobs
  <2> HIDE DEF k, i
  <2>4. WhoInv(k, spent')
    BY <2>1 DEF WhoInv, Believed
  <2>5. DeviceInv(i, devices', made')
    BY DEF i
  <2>6. DeviceInv(k, devices', made')
    BY <1>2, <2>1, <2>3, <2>5 DEF DeviceInv, May, HisOf, Believed, AllowedOn
  <2>7. RowsInv(k, devices', keys')
    BY <2>1 DEF RowsInv
  <2> QED BY <2>1, <2>2, <2>4, <2>6, <2>7, GoesOn DEF JobInv
<1> QED BY <1>1, <1>2

LEMMA GetPeerInOrder ==
  ASSUME InOrder, NEW s \in Slots, GetPeer(s)
  PROVE  InOrder'
<1> DEFINE w == job[s].who
           j(op, d) == [job[s] EXCEPT !.op = op, !.device = {d}]
           ask(op, d) == [j(op, d) EXCEPT !.pc = "ensure"]
<1>1. PICK op \in DeviceOps, d \in devices :
        IF w.door = "session" /\ ~w.admin
        THEN Becomes(s, ask(op, d))
        ELSE /\ op # "show" => w.admin \/ Acting(w)
             /\ Acting(w) => Owns(w.id, d) /\ AllowedOn(op, d)
             /\ Proceeds(s, j(op, d))
  BY DEF GetPeer
<1>2. job[s] \in Jobs /\ d \in Devices
  BY Here DEF InOrder, TablesInv, Shapes
<1>3. /\ j(op, d) \in Jobs /\ j(op, d).op = op /\ j(op, d).device = {d} /\ j(op, d).who = w
      /\ j(op, d).pc = job[s].pc
      /\ ask(op, d) \in Jobs /\ ask(op, d).pc = "ensure" /\ ask(op, d).device = {d}
      /\ ask(op, d).who = w
  BY <1>2 DEF Jobs, Pcs, Ops
<1>4. DeviceInv(ask(op, d), devices, made)
  BY <1>3 DEF DeviceInv, InOrder, TablesInv, DevicesInv
<1>5. CASE w.door = "session" /\ ~w.admin
  <2> DEFINE k == ask(op, d)
  <2>1. k \in Jobs /\ k.pc = "ensure" /\ k.who = job[s].who /\ DeviceInv(k, devices, made)
    BY <1>3, <1>4
  <2>2. Becomes(s, k)
    BY <1>1, <1>5
  <2> HIDE DEF k
  <2>3. WhoInv(job[s], spent)
    BY Here
  <2>4. WhoInv(k, spent)
    BY <2>1, <2>3 DEF WhoInv, Believed
  <2>5. RowsInv(k, devices, keys)
    BY <2>1 DEF RowsInv
  <2>6. JobInv(k, spent, devices, made, keys)
    BY <2>1, <2>4, <2>5 DEF JobInv
  <2> QED BY <2>1, <2>2, <2>6, ReadsOn DEF GetPeer
<1>6. CASE ~(w.door = "session" /\ ~w.admin)
  <2> DEFINE k == j(op, d)
  <2>1. /\ op # "show" => w.admin \/ Acting(w)
        /\ Acting(w) => Owns(w.id, d) /\ AllowedOn(op, d)
        /\ Proceeds(s, k)
    BY <1>1, <1>6
  <2>2. WhoInv(job[s], spent) /\ At(s, "routed")
    BY Here DEF GetPeer
  <2>3. \/ op = "show" /\ w.door = "token"
        \/ w.admin
        \/ Owns(w.id, d) /\ AllowedOn(op, d) /\ w.id # {}
    BY <1>6, <2>1, <2>2, ActsFor DEF Acting
  <2>4. (op = "show" /\ w.door = "token") \/ May(job[s], op, d)
    BY <2>2, <2>3 DEF May, WhoInv, HisOf, Owns
  <2>5. (k.op = "show" /\ k.who.door = "token") \/ May(k, k.op, d)
    BY <1>3, <2>4 DEF May, HisOf, Believed
  <2>6. TablesInv' /\ Evolves
    BY ReadsKeep DEF InOrder, TablesInv, Shapes, GetPeer, Proceeds, Answers, Becomes
  <2>7. WhoInv(k, spent')
    BY <1>3, <2>2 DEF WhoInv, Believed, GetPeer
  <2>8. DeviceInv([k EXCEPT !.pc = "ensure"], devices', made')
    BY <1>4 DEF GetPeer, requestVars
  <2>9. k \in Jobs /\ k.device = {d} /\ k.op \in DeviceOps /\ k.who = w
    BY <1>3
  <2> HIDE DEF k
  <2> QED BY <2>1, <2>2, <2>5, <2>6, <2>7, <2>8, <2>9, ProceedsInOrder
<1> QED BY <1>5, <1>6

\* An upsert that leaves an account as it is.
LEMMA UpsertsKeep ==
  ASSUME TablesInv, NEW email \in Emails, NEW admin \in BOOLEAN, admin => email \in AdminEmails,
         Upserts(email, admin), UNCHANGED <<sessions, requestVars, events>>
  PROVE  /\ TablesInv' /\ Evolves
         /\ \E id \in Ids : UpsertedId(email) = {id} /\ id \in spent' /\ id.email = email
<1>1. CASE Account(email) = {}
  <2> DEFINE row == NewRow(email, admin)
  <2>1. Inserts(row)
    BY <1>1 DEF Upserts
  <2>2. row.id \in Ids
    BY <2>1, NewIds DEF Inserts
  <2>3. row.id.email = email /\ row.id = NewRow(email, FALSE).id /\ row.admin = admin
    BY DEF NewRow
  <2>4. row \in Users
    BY <2>2 DEF NewRow, Users
  <2> HIDE DEF row
  <2>5. TablesInv' /\ Evolves
    BY <1>1, <2>1, <2>3, <2>4, InsertsKeep
  <2>6. UpsertedId(email) = {row.id} /\ row.id \in spent'
    BY <1>1, <2>1, <2>3 DEF UpsertedId, Inserts
  <2> QED BY <2>2, <2>3, <2>5, <2>6
<1>2. CASE Account(email) # {}
  <2>1. UNCHANGED <<users, spent>>
    BY <1>2 DEF Upserts
  <2>2. TablesInv' /\ Evolves
    BY <2>1, ReadsKeep DEF TablesInv, Shapes
  <2>3. PICK u \in Account(email) : TRUE
    BY <1>2
  <2>4. u \in users /\ u.id \in Ids /\ u.id \in spent /\ u.id.email = email
    BY DEF Account, TablesInv, Shapes, UsersInv, Users
  <2>5. Account(email) = {u}
    BY DEF Account, TablesInv, UsersInv
  <2>6. UpsertedId(email) = {u.id}
    BY <1>2, <2>5 DEF UpsertedId
  <2> QED BY <2>1, <2>2, <2>4, <2>6
<1> QED BY <1>1, <1>2

LEMMA EnsureInOrder ==
  ASSUME InOrder, NEW s \in Slots, Ensure(s)
  PROVE  InOrder'
<1> DEFINE w == job[s].who
           j(ids) == [job[s] EXCEPT !.who.id = ids]
           k(ids) == [j(ids) EXCEPT !.pc = IF j(ids).op = "list" THEN "list" ELSE "live"]
           Ensured(email) ==
             /\ Upserts(email, w.admin)
             /\ IF j(UpsertedId(email)).op \in DeviceOps
                THEN IF \A d \in j(UpsertedId(email)).device :
                          /\ Owns(j(UpsertedId(email)).who.id, d)
                          /\ AllowedOn(j(UpsertedId(email)).op, d)
                     THEN Proceeds(s, j(UpsertedId(email)))
                     ELSE Becomes(s, NoJob)
                ELSE Becomes(s, k(UpsertedId(email)))
<1>1. PICK email \in w.email : Ensured(email)
  BY DEF Ensure
<1>2. /\ job[s] \in Jobs /\ WhoInv(job[s], spent) /\ DeviceInv(job[s], devices, made)
      /\ email \in Emails /\ w.admin \in BOOLEAN /\ job[s].pc = "ensure"
  BY Here DEF Jobs, Principals, Ensure, At
<1>3. w.door # "token" /\ (w.admin => email \in AdminEmails)
  BY <1>2 DEF WhoInv, Believed
<1>4. UNCHANGED <<sessions, requestVars, events>>
  BY <1>1 DEF Ensure, Proceeds, Answers, Becomes
<1>5. TablesInv' /\ Evolves
  BY <1>1, <1>2, <1>3, <1>4, UpsertsKeep DEF InOrder
<1>6. PICK id \in Ids : UpsertedId(email) = {id} /\ id \in spent' /\ id.email = email
  BY <1>1, <1>2, <1>3, <1>4, UpsertsKeep DEF InOrder
<1> DEFINE jj == j({id})
           kk == k({id})
<1>7. /\ jj \in Jobs /\ jj.op = job[s].op /\ jj.pc = "ensure" /\ jj.device = job[s].device
      /\ jj.rows = job[s].rows /\ jj.who.id = {id} /\ jj.who.email = w.email
      /\ jj.who.door = w.door /\ jj.who.admin = w.admin
  BY <1>2 DEF Jobs, Principals
<1>8. /\ kk \in Jobs /\ kk.pc = (IF jj.op = "list" THEN "list" ELSE "live")
      /\ kk.device = jj.device /\ kk.rows = jj.rows /\ kk.who = jj.who
  BY <1>7 DEF Jobs, Pcs
<1>9. IF jj.op \in DeviceOps
      THEN IF \A d \in jj.device : Owns(jj.who.id, d) /\ AllowedOn(jj.op, d)
           THEN Proceeds(s, jj)
           ELSE Becomes(s, NoJob)
      ELSE Becomes(s, kk)
  BY <1>1, <1>6
<1> HIDE DEF j, k, jj, kk, Ensured
<1>10. DeviceInv(job[s], devices', made')
  BY <1>2, <1>4 DEF requestVars
<1>11. WhoInv(jj, spent')
  BY <1>2, <1>3, <1>6, <1>7 DEF WhoInv, Believed
<1>12. CASE jj.op \notin DeviceOps
  <2>1. WhoInv(kk, spent')
    BY <1>7, <1>8, <1>11 DEF WhoInv, Believed
  <2>2. DeviceInv(kk, devices', made')
    BY <1>7, <1>8, <1>10 DEF DeviceInv
  <2>3. RowsInv(kk, devices', keys')
    BY <1>8 DEF RowsInv
  <2> QED BY <1>5, <1>8, <1>9, <1>12, <2>1, <2>2, <2>3, GoesOn DEF JobInv, Becomes
<1>13. CASE jj.op \in DeviceOps /\ \A d \in jj.device : Owns(jj.who.id, d) /\ AllowedOn(jj.op, d)
  <2>1. Proceeds(s, jj)
    BY <1>9, <1>13
  <2> DEFINE i == [jj EXCEPT !.pc = "ensure"]
  <2>2. i.pc = "ensure" /\ i.device = job[s].device
    BY <1>7 DEF Jobs
  <2> HIDE DEF i
  <2>3. DeviceInv(i, devices', made')
    BY <1>10, <2>2 DEF DeviceInv
  <2>4. \A d \in jj.device : May(jj, jj.op, d)
    BY <1>6, <1>7, <1>13 DEF May, HisOf, Owns
  <2>5. At(s, "ensure")
    BY <1>2 DEF At
  <2> QED
    BY <1>5, <1>7, <1>11, <1>13, <2>1, <2>3, <2>4, <2>5, ProceedsInOrder DEF i
<1>14. CASE jj.op \in DeviceOps /\ ~\A d \in jj.device : Owns(jj.who.id, d) /\ AllowedOn(jj.op, d)
  BY <1>5, <1>9, <1>14, IsDone
<1> QED BY <1>12, <1>13, <1>14

LEMMA ListMineInOrder ==
  ASSUME InOrder, NEW s \in Slots, ListMine(s)
  PROVE  InOrder'
<1> DEFINE mine == {d \in devices : Owns(job[s].who.id, d)}
           pc == IF job[s].op = "list" THEN "answers" ELSE "status"
           j == [job[s] EXCEPT !.pc = pc, !.rows = mine]
<1>1. /\ job[s] \in Jobs /\ WhoInv(job[s], spent) /\ DeviceInv(job[s], devices, made)
      /\ job[s].pc = "list"
  BY Here DEF ListMine, At
<1>2. mine \subseteq Devices
  BY DEF InOrder, TablesInv, Shapes
<1>3. /\ j \in Jobs /\ j.pc = pc /\ j.who = job[s].who /\ j.device = job[s].device
      /\ j.rows = mine
  BY <1>1, <1>2 DEF Jobs, Pcs
<1>4. Becomes(s, j)
  BY DEF ListMine, Answers
<1> HIDE DEF j
<1>5. WhoInv(j, spent)
  BY <1>1, <1>3 DEF WhoInv, Believed
<1>6. DeviceInv(j, devices, made)
  BY <1>1, <1>3 DEF DeviceInv
<1>7. \A d \in mine : HisOf(j, d)
  BY <1>1, <1>3 DEF WhoInv, HisOf, Owns
<1>8. \A r \in mine :
        r.key <= keys /\ \A e \in devices : e.key = r.key /\ r.key # 0 => e.owner = r.owner
  BY DEF InOrder, TablesInv, DevicesInv
<1>9. RowsInv(j, devices, keys)
  BY <1>3, <1>7, <1>8 DEF RowsInv
<1> QED BY <1>3, <1>4, <1>5, <1>6, <1>9, ReadsOn DEF JobInv, ListMine

\* An answer of devices that may be shown.
LEMMA AnswersOn ==
  ASSUME InOrder, NEW s \in Slots, NEW rows \in SUBSET Devices, Answers(s, rows),
         UNCHANGED <<users, spent, sessions, requestVars>>,
         job[s].who.door = "token" \/ Believed(job[s]) \/ \A r \in rows : HisOf(job[s], r)
  PROVE  InOrder'
<1> DEFINE j == [job[s] EXCEPT !.pc = "answers", !.rows = rows]
<1>1. job[s] \in Jobs /\ WhoInv(job[s], spent) /\ DeviceInv(job[s], devices, made)
  BY Here
<1>2. /\ j \in Jobs /\ j.pc = "answers" /\ j.who = job[s].who /\ j.device = job[s].device
      /\ j.rows = rows
  BY <1>1 DEF Jobs, Pcs
<1>3. Becomes(s, j)
  BY DEF Answers
<1> HIDE DEF j
<1>4. WhoInv(j, spent)
  BY <1>1, <1>2 DEF WhoInv, Believed
<1>5. DeviceInv(j, devices, made)
  BY <1>1, <1>2 DEF DeviceInv
<1>6. RowsInv(j, devices, keys)
  BY <1>2 DEF RowsInv, HisOf, Believed
<1> QED BY <1>2, <1>3, <1>4, <1>5, <1>6, ReadsOn DEF JobInv

LEMMA StatusInOrder ==
  ASSUME InOrder, NEW s \in Slots, Status(s)
  PROVE  InOrder'
<1>1. job[s].rows \subseteq Devices /\ RowsInv(job[s], devices, keys) /\ job[s].pc = "status"
  BY Here DEF Status, At, Jobs
<1>2. Visible(job[s].rows) \in SUBSET Devices
  BY DEF Visible, InOrder, TablesInv, Shapes
<1>3. \A d \in Visible(job[s].rows) : HisOf(job[s], d)
  BY <1>1 DEF Visible, RowsInv, HisOf
<1> QED BY <1>2, <1>3, AnswersOn DEF Status

LEMMA ListAllInOrder ==
  ASSUME InOrder, NEW s \in Slots, ListAll(s)
  PROVE  InOrder'
<1>1. job[s].who.door = "token" \/ Believed(job[s])
  BY Here DEF ListAll, WhoInv
<1>2. devices \in SUBSET Devices
  BY DEF InOrder, TablesInv, Shapes
<1> QED BY <1>1, <1>2, AnswersOn DEF ListAll

LEMMA AnsweredInOrder ==
  ASSUME InOrder, NEW s \in Slots, Answered(s)
  PROVE  InOrder'
BY NoJobInOrder, ReadsOn DEF Answered

LEMMA ReadLiveInOrder ==
  ASSUME InOrder, NEW s \in Slots, ReadLive(s)
  PROVE  InOrder'
<1> DEFINE pc == IF GroupFirst(job[s]) THEN "group" ELSE "claim groups"
           j == [job[s] EXCEPT !.pc = pc]
<1>1. job[s] \in Jobs /\ job[s].who.id # {}
  BY Here DEF ReadLive, At, WhoInv
<1>2. j \in Jobs /\ j.pc = pc /\ j.who = job[s].who /\ j.device = job[s].device
  BY <1>1 DEF Jobs, Pcs
<1>3. Becomes(s, j)
  BY DEF ReadLive
<1> HIDE DEF j
<1> QED BY <1>1, <1>2, <1>3, PassesOn DEF ReadLive

LEMMA DecidesInOrder ==
  ASSUME InOrder, NEW s \in Slots, NEW j \in Jobs, j.who = job[s].who, j.device = job[s].device,
         j.who.id # {}, Decides(s, j), UNCHANGED <<users, spent, sessions, requestVars>>
  PROVE  InOrder'
<1> DEFINE k == [j EXCEPT !.pc = IF j.op = "create" THEN "insert" ELSE "list"]
<1>1. Becomes(s, k) \/ Becomes(s, NoJob)
  BY DEF Decides
<1>2. k \in Jobs /\ k.pc \in {"insert", "list"} /\ k.who = job[s].who /\ k.device = job[s].device
  BY DEF Jobs, Pcs
<1> HIDE DEF k
<1>3. CASE Becomes(s, k)
  BY <1>2, <1>3, PassesOn
<1>4. CASE Becomes(s, NoJob)
  BY <1>4, NoJobInOrder, ReadsOn
<1> QED BY <1>1, <1>3, <1>4

LEMMA ReadClaimsInOrder ==
  ASSUME InOrder, NEW s \in Slots, ReadClaims(s)
  PROVE  InOrder'
<1> DEFINE claims == UNION {u.claims : u \in Row(job[s].who.id)}
           j == [job[s] EXCEPT !.claims = claims]
           k == [j EXCEPT !.pc = "group"]
<1>1. job[s] \in Jobs /\ job[s].who.id # {}
  BY Here DEF ReadClaims, At, WhoInv
<1>2. claims \subseteq Claims
  BY DEF Row, InOrder, TablesInv, Shapes, Users
<1>3. /\ j \in Jobs /\ j.who = job[s].who /\ j.device = job[s].device
      /\ k \in Jobs /\ k.who = job[s].who /\ k.device = job[s].device /\ k.pc = "group"
  BY <1>1, <1>2 DEF Jobs, Pcs
<1>4. Decides(s, j) \/ Becomes(s, k)
  BY DEF ReadClaims
<1> HIDE DEF j, k
<1> QED BY <1>1, <1>3, <1>4, PassesOn, DecidesInOrder DEF ReadClaims

LEMMA ReadGroupInOrder ==
  ASSUME InOrder, NEW s \in Slots, ReadGroup(s)
  PROVE  InOrder'
<1> DEFINE j == [job[s] EXCEPT !.group = {group}]
           k == [j EXCEPT !.pc = "claim groups"]
<1>1. job[s] \in Jobs /\ job[s].who.id # {}
  BY Here DEF ReadGroup, At, WhoInv
<1>2. group \in Groups
  BY DEF InOrder, TablesInv, Shapes
<1>3. /\ j \in Jobs /\ j.who = job[s].who /\ j.device = job[s].device
      /\ k \in Jobs /\ k.who = job[s].who /\ k.device = job[s].device /\ k.pc = "claim groups"
  BY <1>1, <1>2 DEF Jobs, Pcs
<1>4. Decides(s, j) \/ Becomes(s, k)
  BY DEF ReadGroup
<1> HIDE DEF j, k
<1> QED BY <1>1, <1>3, <1>4, PassesOn, DecidesInOrder DEF ReadGroup

LEMMA ReadForEditInOrder ==
  ASSUME InOrder, NEW s \in Slots, ReadForEdit(s)
  PROVE  InOrder'
<1>1. PICK left \in SUBSET {"emails", "claims"} :
        Becomes(s, [job[s] EXCEPT !.pc = "edit", !.group = {group}, !.left = left])
  BY DEF ReadForEdit
<1> DEFINE j == [job[s] EXCEPT !.pc = "edit", !.group = {group}, !.left = left]
<1>2. /\ job[s] \in Jobs /\ WhoInv(job[s], spent) /\ DeviceInv(job[s], devices, made)
      /\ job[s].who.admin
  BY Here DEF ReadForEdit, ByAdmin
<1>3. group \in Groups
  BY DEF InOrder, TablesInv, Shapes
<1>4. left \subseteq {"emails", "claims"}
  OBVIOUS
<1>5. j \in Jobs /\ j.pc = "edit" /\ j.who = job[s].who /\ j.device = job[s].device
  BY <1>2, <1>3, <1>4 DEF Jobs, Pcs
<1>6. Becomes(s, j)
  BY <1>1
<1> HIDE DEF j
<1>7. WhoInv(j, spent)
  BY <1>2, <1>5 DEF WhoInv, Believed
<1>8. DeviceInv(j, devices, made)
  BY <1>2, <1>5 DEF DeviceInv
<1>9. RowsInv(j, devices, keys)
  BY <1>5 DEF RowsInv
<1> QED BY <1>5, <1>6, <1>7, <1>8, <1>9, ReadsOn DEF JobInv, ReadForEdit

---------------------------------------------------------------------------
\* The writes.

\* The devices change, the accounts do not.
LEMMA DevicesKeep ==
  ASSUME TablesInv, UNCHANGED <<users, spent, sessions, events>>,
         devices' \subseteq Devices, made' \in made..MaxDevices, keys' \in keys..MaxKeys,
         group' \in Groups, DevicesInv', Evolves
  PROVE  TablesInv'
<1>1. made' \in 0..MaxDevices /\ keys' \in 0..MaxKeys
  BY StartAssumption DEF TablesInv, Shapes
<1> QED BY <1>1 DEF TablesInv, Shapes, UsersInv

\* A device is made.
LEMMA MakesKeep ==
  ASSUME TablesInv, UNCHANGED <<users, spent, sessions, events, group>>,
         NEW owner, owner = {} \/ \E u \in users : owner = {u.id},
         NEW own \in BOOLEAN, NEW key \in {0, keys + 1},
         made < MaxDevices, keys < MaxKeys,
         devices' = devices \cup {Fresh(owner, own, key)},
         made' = made + 1, keys' = IF key = 0 THEN keys ELSE key
  PROVE  TablesInv' /\ Evolves
<1> DEFINE e == Fresh(owner, own, key)
<1>1. made \in Nat /\ keys \in Nat /\ MaxDevices \in Nat /\ MaxKeys \in Nat
  BY StartAssumption DEF TablesInv, Shapes
<1>2. owner \in SUBSET Ids
  BY DEF TablesInv, Shapes, Users
<1>3. /\ e.id = made + 1 /\ e.owner = owner /\ e.own = own /\ e.key = key
      /\ e \in Devices
  BY <1>1, <1>2 DEF Fresh, Devices
<1> HIDE DEF e
<1>4. devices' = devices \cup {e}
  BY DEF e
<1>5. made' \in made..MaxDevices /\ keys' \in keys..MaxKeys
  BY <1>1
<1>6. \A d \in devices : d.id \in Nat /\ d.key \in Nat /\ d.id <= made /\ d.key <= keys
  BY DEF TablesInv, Shapes, DevicesInv, Devices
<1>7. Evolves
  BY <1>1, <1>3, <1>4, <1>5 DEF Evolves
<1>8. DevicesInv'
  <2>1. \A d \in devices' : d.id <= made' /\ d.key <= keys'
    BY <1>1, <1>3, <1>4, <1>6
  <2>2. \A d, f \in devices' : d.id = f.id \/ (d.key = f.key /\ d.key # 0) => d = f
    BY <1>1, <1>3, <1>4, <1>6 DEF TablesInv, DevicesInv
  <2>3. \A d \in devices' : \A id \in d.owner : \E u \in users' : u.id = id
    BY <1>3, <1>4 DEF TablesInv, DevicesInv
  <2> QED BY <2>1, <2>2, <2>3 DEF DevicesInv
<1>9. devices' \subseteq Devices /\ group' \in Groups
  BY <1>3, <1>4 DEF TablesInv, Shapes
<1> QED BY <1>5, <1>7, <1>8, <1>9, DevicesKeep

LEMMA InsertMineInOrder ==
  ASSUME InOrder, NEW s \in Slots, InsertMine(s)
  PROVE  InOrder'
<1>1. PICK u \in Row(job[s].who.id) : TRUE
  BY DEF InsertMine
<1>2. u \in users /\ job[s].who.id = {u.id}
  BY OneRow
<1>3. keys \in Nat /\ keys + 1 # 0
  BY StartAssumption DEF InOrder, TablesInv, Shapes
<1>4. TablesInv' /\ Evolves
  BY <1>2, <1>3, MakesKeep DEF InOrder, InsertMine, Becomes
<1> QED BY <1>4, IsDone DEF InsertMine

LEMMA ProvisionDeviceInOrder ==
  ASSUME InOrder, NEW s \in Slots, ProvisionDevice(s)
  PROVE  InOrder'
<1>1. PICK owner \in NewOwners(s), key \in {0, keys + 1} :
        /\ devices' = devices \cup {Fresh(owner, FALSE, key)}
        /\ keys' = IF key = 0 THEN keys ELSE key
  BY DEF ProvisionDevice
<1>2. owner = {} \/ \E u \in users : owner = {u.id}
  BY DEF NewOwners, Row
<1>3. TablesInv' /\ Evolves
  BY <1>1, <1>2, MakesKeep DEF InOrder, ProvisionDevice, Becomes
<1> QED BY <1>3, IsDone DEF ProvisionDevice

\* A device is changed.
LEMMA ChangesKeep ==
  ASSUME TablesInv, UNCHANGED <<users, spent, sessions, events, made, group>>,
         NEW d \in devices, NEW e \in Devices, e.id = d.id, e.owner = d.owner, e.own = d.own,
         \/ e.key = d.key /\ keys' = keys
         \/ e.key = keys + 1 /\ keys' = keys + 1 /\ keys < MaxKeys,
         devices' = (devices \ {d}) \cup {e}
  PROVE  TablesInv' /\ Evolves
<1>1. made \in Nat /\ keys \in Nat /\ MaxDevices \in Nat /\ MaxKeys \in Nat
  BY StartAssumption DEF TablesInv, Shapes
<1>2. made' \in made..MaxDevices /\ keys' \in keys..MaxKeys
  BY <1>1 DEF TablesInv, Shapes
<1>3. \A f \in devices : f.id \in Nat /\ f.key \in Nat /\ f.id <= made /\ f.key <= keys
  BY DEF TablesInv, Shapes, DevicesInv, Devices
<1>4. Evolves
  BY <1>1, <1>2, <1>3 DEF Evolves
<1>5. DevicesInv'
  <2>1. \A f \in devices' : f.id <= made' /\ f.key <= keys'
    BY <1>1, <1>3
  <2>2. \A f, g \in devices' : f.id = g.id \/ (f.key = g.key /\ f.key # 0) => f = g
    BY <1>1, <1>3 DEF TablesInv, DevicesInv
  <2>3. \A f \in devices' : \A id \in f.owner : \E u \in users' : u.id = id
    BY DEF TablesInv, DevicesInv
  <2> QED BY <2>1, <2>2, <2>3 DEF DevicesInv
<1>6. devices' \subseteq Devices /\ group' \in Groups
  BY DEF TablesInv, Shapes
<1> QED BY <1>2, <1>4, <1>5, <1>6, DevicesKeep

LEMMA OneNamed ==
  ASSUME InOrder, NEW s \in Slots, NEW d \in Named(s)
  PROVE  Named(s) = {d} /\ d \in devices /\ d \in Devices
<1>1. DeviceInv(job[s], devices, made)
  BY Here
<1> QED BY <1>1 DEF DeviceInv, Named, InOrder, TablesInv, DevicesInv, Shapes

LEMMA RegenerateInOrder ==
  ASSUME InOrder, NEW s \in Slots, Regenerate(s)
  PROVE  InOrder'
<1>1. PICK d \in Named(s) : TRUE
  BY DEF Regenerate
<1>2. Named(s) = {d} /\ d \in devices /\ d \in Devices
  BY OneNamed
<1>3. keys \in Nat /\ MaxKeys \in Nat /\ keys < MaxKeys
  BY StartAssumption DEF InOrder, TablesInv, Shapes, Regenerate
<1> DEFINE e == [d EXCEPT !.key = keys + 1]
<1>4. e \in Devices /\ e.id = d.id /\ e.owner = d.owner /\ e.own = d.own /\ e.key = keys + 1
  BY <1>2, <1>3 DEF Devices
<1>5. devices' = (devices \ {d}) \cup {e}
  BY <1>2 DEF Regenerate
<1> HIDE DEF e
<1>6. TablesInv' /\ Evolves
  BY <1>2, <1>3, <1>4, <1>5, ChangesKeep DEF InOrder, Regenerate, Becomes
<1> QED BY <1>6, IsDone DEF Regenerate

LEMMA RenameInOrder ==
  ASSUME InOrder, NEW s \in Slots, Rename(s)
  PROVE  InOrder'
<1>1. PICK d \in Named(s) : TRUE
  BY DEF Rename
<1>2. Named(s) = {d} /\ d \in devices /\ d \in Devices
  BY OneNamed
<1> DEFINE e == [d EXCEPT !.name = "changed"]
<1>3. e \in Devices /\ e.id = d.id /\ e.owner = d.owner /\ e.own = d.own /\ e.key = d.key
  BY <1>2 DEF Devices
<1>4. devices' = (devices \ {d}) \cup {e}
  BY <1>2 DEF Rename
<1> HIDE DEF e
<1>5. TablesInv' /\ Evolves
  BY <1>2, <1>3, <1>4, ChangesKeep DEF InOrder, Rename, Becomes
<1> QED BY <1>5, IsDone DEF Rename

\* Devices go.
LEMMA DropsKeep ==
  ASSUME TablesInv, UNCHANGED <<made, keys, group>>, devices' \subseteq devices,
         UsersInv', users' \subseteq users, UNCHANGED <<spent, sessions, events>>,
         \A d \in devices' : \A id \in d.owner : \E u \in users' : u.id = id
  PROVE  TablesInv' /\ Evolves
<1>1. Shapes'
  BY DEF TablesInv, Shapes
<1>2. DevicesInv'
  BY DEF TablesInv, DevicesInv
<1>3. made <= made' /\ keys <= keys'
  BY StartAssumption DEF TablesInv, Shapes
<1>4. Evolves
  BY <1>3 DEF Evolves
<1> QED BY <1>1, <1>2, <1>4 DEF TablesInv

LEMMA DeletePeerInOrder ==
  ASSUME InOrder, NEW s \in Slots, DeletePeer(s)
  PROVE  InOrder'
<1>1. devices' \subseteq devices /\ UNCHANGED <<users, spent, sessions, made, keys, group, events>>
  BY DEF DeletePeer, Becomes
<1>2. UsersInv'
  BY <1>1 DEF InOrder, TablesInv, UsersInv
<1>3. \A d \in devices' : \A id \in d.owner : \E u \in users' : u.id = id
  BY <1>1 DEF InOrder, TablesInv, DevicesInv
<1>4. TablesInv' /\ Evolves
  BY <1>1, <1>2, <1>3, DropsKeep DEF InOrder
<1> QED BY <1>4, IsDone DEF DeletePeer

LEMMA DeleteUserInOrder ==
  ASSUME InOrder, NEW s \in Slots, DeleteUser(s)
  PROVE  InOrder'
<1>1. PICK u \in users :
        /\ Updates({u}, {})
        /\ devices' = {d \in devices : u.id \notin d.owner}
  BY DEF DeleteUser
<1>2. users' = users \ {u} /\ UNCHANGED <<spent, sessions, made, keys, group, events>>
  BY <1>1 DEF Updates, DeleteUser, Becomes
<1>3. UsersInv'
  BY <1>2 DEF InOrder, TablesInv, UsersInv
<1>4. \A d \in devices' : \A id \in d.owner : \E v \in users' : v.id = id
  BY <1>1, <1>2 DEF InOrder, TablesInv, DevicesInv
<1>5. TablesInv' /\ Evolves
  BY <1>1, <1>2, <1>3, <1>4, DropsKeep DEF InOrder
<1> QED BY <1>5, IsDone DEF DeleteUser

LEMMA SetBannedInOrder ==
  ASSUME InOrder, NEW s \in Slots, SetBanned(s)
  PROVE  InOrder'
<1>1. PICK u \in users : Updates({u}, {[u EXCEPT !.banned = ~@]})
  BY DEF SetBanned
<1> DEFINE v == [u EXCEPT !.banned = ~u.banned]
<1>2. v \in Users /\ v.id = u.id /\ (v.admin => v.id.email \in AdminEmails)
  BY DEF Users, InOrder, TablesInv, Shapes, UsersInv
<1>3. UNCHANGED <<sessions, requestVars, events>>
  BY DEF SetBanned, Becomes
<1>4. TablesInv' /\ Evolves
  BY <1>1, <1>2, <1>3, UpdatesKeep DEF InOrder, TablesInv, Shapes, UsersInv
<1> QED BY <1>4, IsDone DEF SetBanned

LEMMA CreateUserInOrder ==
  ASSUME InOrder, NEW s \in Slots, CreateUser(s)
  PROVE  InOrder'
<1>0. \E email \in Emails : Upserts(email, FALSE)
  BY DEF CreateUser
<1>1. PICK admin \in BOOLEAN, email \in Emails : ~admin /\ Upserts(email, admin)
  BY <1>0, Zenon
<1>2. UNCHANGED <<sessions, requestVars, events>>
  BY DEF CreateUser, Becomes
<1>3. (admin => email \in AdminEmails) /\ TablesInv
  BY <1>1 DEF InOrder
<1>4. TablesInv' /\ Evolves
  BY <1>1, <1>2, <1>3, UpsertsKeep, Zenon
<1> QED BY <1>4, IsDone DEF CreateUser

LEMMA NameOwnerInOrder ==
  ASSUME InOrder, NEW s \in Slots, NameOwner(s)
  PROVE  InOrder'
<1> DEFINE j(ids) == [job[s] EXCEPT !.pc = "provision", !.owner = ids]
<1>1. PICK email \in Emails : Upserts(email, FALSE) /\ Becomes(s, j(UpsertedId(email)))
  BY DEF NameOwner
<1>2. UNCHANGED <<sessions, requestVars, events>>
  BY DEF NameOwner, Becomes
<1>3. PICK admin \in BOOLEAN : ~admin /\ Upserts(email, admin)
  BY <1>1, Zenon
<1>4. /\ TablesInv' /\ Evolves
      /\ \E id \in Ids : UpsertedId(email) = {id} /\ id \in spent' /\ id.email = email
  BY <1>2, <1>3, UpsertsKeep DEF InOrder
<1>5. PICK id \in Ids : UpsertedId(email) = {id}
  BY <1>4
<1> DEFINE jj == j({id})
<1>6. /\ job[s] \in Jobs /\ WhoInv(job[s], spent) /\ DeviceInv(job[s], devices, made)
      /\ job[s].who.admin
  BY Here DEF NameOwner, ByAdmin
<1>7. jj \in Jobs /\ jj.pc = "provision" /\ jj.who = job[s].who /\ jj.device = job[s].device
  BY <1>6 DEF Jobs, Pcs
<1>8. Becomes(s, jj)
  BY <1>1, <1>5
<1> HIDE DEF j, jj
<1>9. spent \subseteq spent' /\ UNCHANGED <<devices, made, keys>>
  BY <1>1, <1>2 DEF Upserts, Inserts, requestVars
<1>10. WhoInv(jj, spent')
  BY <1>6, <1>7, <1>9 DEF WhoInv, Believed
<1>11. DeviceInv(jj, devices', made')
  BY <1>6, <1>7, <1>9 DEF DeviceInv
<1>12. RowsInv(jj, devices', keys')
  BY <1>7 DEF RowsInv
<1> QED BY <1>4, <1>7, <1>8, <1>10, <1>11, <1>12, GoesOn DEF JobInv, Becomes

LEMMA EditGroupInOrder ==
  ASSUME InOrder, NEW s \in Slots, EditGroup(s)
  PROVE  InOrder'
<1>1. PICK g \in job[s].group, new \in Edits :
        group' = [column \in {"emails", "claims"} |->
                    IF column \in job[s].left THEN Kept(g, column) ELSE new[column]]
  BY DEF EditGroup
<1>2. g \in Groups /\ new \in Groups
  BY Here, StartAssumption DEF Jobs
<1>3. group' \in Groups
  BY <1>1, <1>2 DEF Groups, Kept
<1>4. UNCHANGED <<users, spent, sessions, devices, made, keys, events>>
  BY DEF EditGroup, Becomes
<1>5. made <= made' /\ keys <= keys'
  BY <1>4, StartAssumption DEF InOrder, TablesInv, Shapes
<1>6. Evolves
  BY <1>4, <1>5 DEF Evolves
<1>7. TablesInv'
  BY <1>3, <1>4 DEF InOrder, TablesInv, Shapes, UsersInv, DevicesInv
<1> QED BY <1>6, <1>7, IsDone DEF EditGroup

---------------------------------------------------------------------------
\* All steps together.

LEMMA InitInOrder == Init => InOrder
<1> SUFFICES ASSUME Init PROVE InOrder
  OBVIOUS
<1>1. IsFiniteSet(spent)
  <2> DEFINE f == [u \in StartUsers |-> u.id]
  <2>1. f \in Surjection(StartUsers, spent)
    BY DEF Surjection, Init
  <2> QED BY <2>1, FS_Surjection, StartAssumption
<1>2. Cardinality(StartDevices) \in Nat
  BY FS_CardinalityType, StartAssumption
<1>3. Shapes
  BY <1>1, <1>2, StartAssumption, AccountsAssumption DEF Init, Shapes, Users
<1>4. UsersInv
  BY StartAssumption DEF Init, UsersInv
<1>5. DevicesInv
  BY StartAssumption DEF Init, DevicesInv
<1>6. job \in [Slots -> Jobs] /\ \A s \in Slots : JobInv(job[s], spent, devices, made, keys)
  BY NoJobInOrder DEF Init
<1> QED BY <1>3, <1>4, <1>5, <1>6 DEF InOrder, TablesInv

LEMMA StepsInOrder ==
  ASSUME InOrder, [Next]_vars
  PROVE  InOrder'
<1>1. CASE Lapse /\ UNCHANGED requestVars
  BY <1>1, LapseInOrder
<1>2. ASSUME NEW s \in Slots, AccountStep(s), UNCHANGED requestVars
      PROVE  InOrder'
  BY <1>2, LoginInOrder, SessionCallInOrder, TokenCallInOrder, BearerCallInOrder,
     SignUpInOrder, GrantClaimsInOrder, RecordLoginInOrder, LoadInOrder, EndsInOrder
     DEF AccountStep
<1>3. ASSUME NEW s \in Slots, RequestStep(s)
      PROVE  InOrder'
  BY <1>3, GetPeerInOrder, MineInOrder, EnsureInOrder, ListMineInOrder, StatusInOrder,
     ListAllInOrder, AnsweredInOrder, ReadLiveInOrder, ReadClaimsInOrder, ReadGroupInOrder,
     InsertMineInOrder, RegenerateInOrder, RenameInOrder, DeletePeerInOrder,
     SetBannedInOrder, DeleteUserInOrder, CreateUserInOrder, ProvisionDeviceInOrder,
     NameOwnerInOrder, ReadForEditInOrder, EditGroupInOrder
     DEF RequestStep
<1>4. CASE UNCHANGED vars
  BY <1>4 DEF vars, InOrder, TablesInv, Shapes, UsersInv, DevicesInv
<1> QED BY <1>1, <1>2, <1>3, <1>4 DEF Next

LEMMA AlwaysInOrder == Spec => []InOrder
BY InitInOrder, StepsInOrder, PTL DEF Spec

\* TypeOK, for any accounts, devices, tokens and requests to begin with.
THEOREM TypeCorrect == Spec => []TypeOK
<1>1. InOrder => TypeOK
  <2> SUFFICES ASSUME InOrder PROVE TypeOK
    OBVIOUS
  <2>1. \A d \in devices : d.owner \subseteq {u.id : u \in users}
    BY DEF InOrder, TablesInv, DevicesInv
  <2>2. {u.id : u \in users} \subseteq spent
    BY DEF InOrder, TablesInv, UsersInv
  <2>3. ASSUME NEW s \in Slots
        PROVE  /\ DOMAIN job[s] = DOMAIN NoJob
               /\ job[s].who.email \subseteq Emails
               /\ job[s].who.id \subseteq spent
               /\ job[s].who.admin \in BOOLEAN
               /\ job[s].device \cup job[s].rows \subseteq Devices
               /\ job[s].group \subseteq Groups
    <3>1. job[s] \in Jobs /\ WhoInv(job[s], spent)
      BY Here
    <3>2. DOMAIN job[s] = DOMAIN NoJob
      BY <3>1 DEF Jobs, NoJob
    <3> QED BY <3>1, <3>2 DEF Jobs, Principals, WhoInv
  <2> QED BY <2>1, <2>2, <2>3 DEF TypeOK, InOrder, TablesInv, Shapes, UsersInv, DevicesInv
<1> QED BY <1>1, AlwaysInOrder, PTL

\* SeesOwnOnly: what a session or bearer of no admin is answered is his own.
THEOREM SeesOwn == Spec => []SeesOwnOnly
<1>1. InOrder => SeesOwnOnly
  <2> SUFFICES ASSUME InOrder, NEW s \in Slots, At(s, "answers"),
                      job[s].who.door \in {"session", "bearer"}, ~Trusted(s),
                      NEW d \in job[s].rows
               PROVE  IsHis(s, d)
    BY DEF SeesOwnOnly
  <2>1. RowsInv(job[s], devices, keys)
    BY Here
  <2> QED BY <2>1 DEF RowsInv, At, Trusted, Believed, IsHis, HisOf
<1> QED BY <1>1, AlwaysInOrder, PTL

---------------------------------------------------------------------------
\* What a step changes.

\* The step is the request's own: the others stay as they are.
LEMMA OthersStay ==
  ASSUME InOrder, NEW s \in Slots, NEW t \in Slots, t # s, AccountStep(t) \/ RequestStep(t)
  PROVE  job'[s] = job[s]
<1>1. \E j : job' = [job EXCEPT ![t] = j]
  <2>1. CASE AccountStep(t)
    BY <2>1 DEF AccountStep, Login, SessionCall, TokenCall, BearerCall, SignUp, GrantClaims,
       RecordLogin, Load, Ends, Comes, Becomes
  <2>2. CASE RequestStep(t)
    BY <2>2 DEF RequestStep, GetPeer, Mine, Ensure, ListMine, Status, ListAll, Answered,
       ReadLive, ReadClaims, ReadGroup, InsertMine, Regenerate, Rename, DeletePeer,
       SetBanned, DeleteUser, CreateUser, NameOwner, ProvisionDevice, ReadForEdit, EditGroup,
       Answers, Proceeds, Decides, Becomes
  <2> QED BY <2>1, <2>2
<1> QED BY <1>1 DEF InOrder

OnlyHisDevices(s) ==
  /\ \A d \in (devices \ devices') \cup (devices' \ devices) : IsHis(s, d)
  /\ \A d \in devices, e \in devices' : (d.id = e.id /\ d.name # e.name) => d.own

OnlyHimself(s) ==
  \A u \in (users \ users') \cup (users' \ users) : u.id.email \in job[s].who.email

\* A device that is still there as it was has its name.
LEMMA SameDevices ==
  ASSUME InOrder, devices' \subseteq devices
  PROVE  \A d \in devices, e \in devices' : (d.id = e.id /\ d.name # e.name) => d.own
BY DEF InOrder, TablesInv, DevicesInv

\* An account step touches the account of its user at most.
LEMMA AccountStepTouches ==
  ASSUME InOrder, NEW s \in Slots, AccountStep(s)
  PROVE  OnlyHimself(s)
<1>1. \A u \in Row(job[s].who.id) : u.id.email \in job[s].who.email
  BY OneRow
<1>2. CASE SignUp(s)
  <2> DEFINE old(email) == Account(email)
             new(email) == IF old(email) = {} THEN {NewRow(email, email \in AdminEmails)}
                           ELSE {SignInRow(email, u) : u \in old(email)}
  <2>1. PICK email \in job[s].who.email :
          \E u \in new(email) :
            IF old(email) = {} THEN Inserts(u) ELSE Updates(old(email), new(email))
    BY <1>2 DEF SignUp
  <2>2. \A u \in new(email) : u.id.email = email
    BY DEF NewRow, SignInRow, Account, InOrder, TablesInv, Shapes, Users
  <2>3. \A u \in old(email) : u.id.email = email
    BY DEF Account
  <2> HIDE DEF old, new
  <2> QED BY <2>1, <2>2, <2>3 DEF OnlyHimself, Inserts, Updates
<1>3. CASE GrantClaims(s)
  <2>1. PICK u \in Row(job[s].who.id) : TRUE
    BY <1>3 DEF GrantClaims
  <2>2. Row(job[s].who.id) = {u} /\ u \in Users
    BY OneRow DEF InOrder, TablesInv, Shapes
  <2>3. PICK claims : users' = (users \ {u}) \cup {[u EXCEPT !.claims = claims]}
    BY <1>3, <2>2 DEF GrantClaims, Updates
  <2> QED BY <1>1, <2>2, <2>3 DEF OnlyHimself, Users
<1>4. CASE RecordLogin(s)
  <2> DEFINE rows == Row(job[s].who.id)
  <2>1. users' = (users \ rows) \cup {[u EXCEPT !.live = "renewed"] : u \in rows}
    BY <1>4 DEF RecordLogin, Updates
  <2>2. \A u \in rows : [u EXCEPT !.live = "renewed"].id = u.id
    BY DEF Row, InOrder, TablesInv, Shapes, Users
  <2> HIDE DEF rows
  <2>3. \A u \in rows : u.id.email \in job[s].who.email
    BY <1>1 DEF rows
  <2> QED BY <2>1, <2>2, <2>3 DEF OnlyHimself
<1>5. CASE UNCHANGED users
  BY <1>5 DEF OnlyHimself
<1> QED
  BY <1>2, <1>3, <1>4, <1>5
     DEF AccountStep, Login, SessionCall, TokenCall, BearerCall, Load, Ends

\* A request's step, without an admin's right, touches what is its user's at most.
LEMMA RequestStepTouches ==
  ASSUME InOrder, NEW s \in Slots, RequestStep(s), ~Trusted(s)
  PROVE  OnlyHisDevices(s) /\ OnlyHimself(s) /\ group' = group
<1>1. /\ WhoInv(job[s], spent) /\ DeviceInv(job[s], devices, made)
      /\ ~Believed(job[s]) /\ ~job[s].who.admin
  BY Here DEF Trusted, Believed, WhoInv
<1>2. ASSUME UNCHANGED <<users, requestVars>>
      PROVE  OnlyHisDevices(s) /\ OnlyHimself(s) /\ group' = group
  BY <1>2, SameDevices DEF OnlyHisDevices, OnlyHimself, requestVars
<1>3. CASE Ensure(s)
  <2>1. PICK email \in job[s].who.email : Upserts(email, job[s].who.admin)
    BY <1>3 DEF Ensure
  <2>2. OnlyHimself(s)
    BY <2>1 DEF Upserts, Inserts, NewRow, OnlyHimself
  <2>3. OnlyHisDevices(s) /\ group' = group
    BY <1>3, SameDevices DEF OnlyHisDevices, Ensure, requestVars
  <2> QED BY <2>2, <2>3
<1>4. CASE InsertMine(s)
  <2> DEFINE e == Fresh(job[s].who.id, TRUE, keys + 1)
  <2>1. e.id = made + 1 /\ e.owner = job[s].who.id
    BY DEF Fresh
  <2> HIDE DEF e
  <2>2. devices' = devices \cup {e} /\ job[s].pc = "insert" /\ UNCHANGED <<users, group>>
    BY <1>4 DEF InsertMine, At, e
  <2>3. IsHis(s, e)
    BY <1>1, <2>1, <2>2 DEF WhoInv, IsHis
  <2>4. \A d \in devices : d.id # e.id
    BY <2>1, StartAssumption DEF InOrder, TablesInv, Shapes, DevicesInv, Devices
  <2>5. \A d \in devices, f \in devices' : (d.id = f.id /\ d.name # f.name) => d.own
    BY <2>2, <2>4 DEF InOrder, TablesInv, DevicesInv
  <2> QED BY <2>2, <2>3, <2>5 DEF OnlyHisDevices, OnlyHimself
<1>5. ASSUME job[s].pc \in {"regenerate", "rename", "delete"}, NEW d \in Named(s)
      PROVE  IsHis(s, d) /\ (job[s].pc = "rename" => d.own)
  BY <1>1, <1>5 DEF DeviceInv, Named, HisOf, IsHis
<1>6. CASE Regenerate(s)
  <2>1. PICK d \in Named(s) : TRUE
    BY <1>6 DEF Regenerate
  <2>2. Named(s) = {d} /\ d \in devices /\ d \in Devices
    BY OneNamed
  <2> DEFINE e == [d EXCEPT !.key = keys + 1]
  <2>3. e.id = d.id /\ e.owner = d.owner /\ e.name = d.name
    BY <2>2 DEF Devices
  <2>4. devices' = (devices \ {d}) \cup {e} /\ UNCHANGED <<users, group>>
    BY <1>6, <2>2 DEF Regenerate
  <2> HIDE DEF e
  <2>5. IsHis(s, d) /\ IsHis(s, e)
    BY <1>5, <1>6, <2>3 DEF IsHis, Regenerate, At
  <2>6. \A f \in devices, g \in devices' : (f.id = g.id /\ f.name # g.name) => f.own
    BY <2>2, <2>3, <2>4 DEF InOrder, TablesInv, DevicesInv
  <2> QED BY <2>4, <2>5, <2>6 DEF OnlyHisDevices, OnlyHimself
<1>7. CASE Rename(s)
  <2>1. PICK d \in Named(s) : TRUE
    BY <1>7 DEF Rename
  <2>2. Named(s) = {d} /\ d \in devices /\ d \in Devices
    BY OneNamed
  <2> DEFINE e == [d EXCEPT !.name = "changed"]
  <2>3. e.id = d.id /\ e.owner = d.owner
    BY <2>2 DEF Devices
  <2>4. devices' = (devices \ {d}) \cup {e} /\ UNCHANGED <<users, group>>
    BY <1>7, <2>2 DEF Rename
  <2> HIDE DEF e
  <2>5. IsHis(s, d) /\ IsHis(s, e) /\ d.own
    BY <1>5, <1>7, <2>3 DEF IsHis, Rename, At
  <2>6. \A f \in devices, g \in devices' : (f.id = g.id /\ f.name # g.name) => f.own
    BY <2>2, <2>3, <2>4, <2>5 DEF InOrder, TablesInv, DevicesInv
  <2> QED BY <2>4, <2>5, <2>6 DEF OnlyHisDevices, OnlyHimself
<1>8. CASE DeletePeer(s)
  <2>1. devices' = devices \ Named(s) /\ UNCHANGED <<users, group>>
    BY <1>8 DEF DeletePeer
  <2>2. \A d \in Named(s) : IsHis(s, d)
    BY <1>5, <1>8 DEF DeletePeer, At
  <2>3. \A d \in devices, e \in devices' : (d.id = e.id /\ d.name # e.name) => d.own
    BY <2>1, SameDevices
  <2> QED BY <2>1, <2>2, <2>3 DEF OnlyHisDevices, OnlyHimself
<1>9. CASE EditGroup(s)
  BY <1>1, <1>9 DEF EditGroup, At, WhoInv
<1>10. CASE \/ SetBanned(s) \/ DeleteUser(s) \/ CreateUser(s) \/ ProvisionDevice(s)
            \/ NameOwner(s) \/ ReadForEdit(s)
  BY <1>1, <1>10
     DEF SetBanned, DeleteUser, CreateUser, NameOwner, ProvisionDevice, ReadForEdit, ByAdmin,
         At, WhoInv
<1>11. CASE \/ GetPeer(s) \/ Mine(s) \/ ListMine(s) \/ Status(s) \/ ListAll(s) \/ Answered(s)
            \/ ReadLive(s) \/ ReadClaims(s) \/ ReadGroup(s)
  BY <1>2, <1>11
     DEF GetPeer, Mine, ListMine, Status, ListAll, Answered, ReadLive, ReadClaims, ReadGroup
<1> QED BY <1>3, <1>4, <1>6, <1>7, <1>8, <1>9, <1>10, <1>11 DEF RequestStep

\* TouchesOwnOnly: nobody but an admin changes what is not his, whatever the others
\* do between his request's reads and its write.
THEOREM TouchesOwn == Spec => TouchesOwnOnly
<1>1. ASSUME InOrder, [Next]_vars, NEW s \in Slots, job'[s] # job[s], ~Trusted(s)
      PROVE  OnlyHisDevices(s) /\ OnlyHimself(s) /\ group' = group
  <2>1. CASE UNCHANGED vars \/ Lapse
    BY <1>1, <2>1 DEF vars, Lapse
  <2>2. ASSUME NEW t \in Slots, AccountStep(t) /\ UNCHANGED requestVars
        PROVE  OnlyHisDevices(s) /\ OnlyHimself(s) /\ group' = group
    <3>1. t = s
      BY <1>1, <2>2, OthersStay
    <3>2. OnlyHimself(s)
      BY <1>1, <2>2, <3>1, AccountStepTouches
    <3> QED BY <1>1, <2>2, <3>2, SameDevices DEF OnlyHisDevices, requestVars
  <2>3. ASSUME NEW t \in Slots, RequestStep(t)
        PROVE  OnlyHisDevices(s) /\ OnlyHimself(s) /\ group' = group
    BY <1>1, <2>3, OthersStay, RequestStepTouches
  <2> QED BY <1>1, <2>1, <2>2, <2>3 DEF Next
<1> DEFINE Own(s) ==
      job'[s] # job[s] /\ ~Trusted(s) =>
        /\ \A d \in (devices \ devices') \cup (devices' \ devices) : IsHis(s, d)
        /\ \A d \in devices, e \in devices' :
             (d.id = e.id /\ d.name # e.name) => d.own
        /\ \A u \in (users \ users') \cup (users' \ users) : u.id.email \in job[s].who.email
        /\ group' = group
<1>2. InOrder /\ [Next]_vars => [\A s \in Slots : Own(s)]_vars
  BY <1>1 DEF OnlyHisDevices, OnlyHimself
<1> QED BY <1>2, AlwaysInOrder, PTL DEF Spec, TouchesOwnOnly

---------------------------------------------------------------------------
\* What has kept a user out ever since his request came.

LEMMA Watched ==
  ASSUME since \in [Slots -> Sinces], Watch, NEW s \in Slots
  PROVE  /\ since'[s] \in Sinces
         /\ job'[s].pc = "idle" => since'[s].shut = {}
         /\ job[s].pc \notin {"idle", "sign up"} => since'[s].shut \subseteq since[s].shut
         /\ \A r \in since'[s].shut : \E email \in job'[s].who.email : r \in Reasons(email)'
         /\ since'[s].edited <=>
              /\ job'[s].pc # "idle" /\ job[s].pc = "edit"
              /\ since[s].edited \/ group' # group
<1> DEFINE reasons == UNION {Reasons(email)' : email \in job'[s].who.email}
           shut == (IF job[s].pc \in {"idle", "sign up"} THEN AllReasons ELSE since[s].shut)
                     \cap reasons
           edited == job[s].pc = "edit" /\ (since[s].edited \/ group' # group)
<1>1. since'[s] = IF job'[s].pc = "idle" THEN [shut |-> {}, edited |-> FALSE]
                  ELSE [shut |-> shut, edited |-> edited]
  BY DEF Watch
<1>2. since[s].shut \subseteq AllReasons
  BY DEF Sinces
<1>3. shut \subseteq AllReasons /\ edited \in BOOLEAN
  BY <1>2
<1>4. /\ job[s].pc \notin {"idle", "sign up"} => shut \subseteq since[s].shut
      /\ shut \subseteq reasons
  OBVIOUS
<1>5. \A r \in reasons : \E email \in job'[s].who.email : r \in Reasons(email)'
  OBVIOUS
<1> HIDE DEF shut, reasons
<1>6. CASE job'[s].pc = "idle"
  BY <1>1, <1>6 DEF Sinces
<1>7. CASE job'[s].pc # "idle"
  <2>1. since'[s] = [shut |-> shut, edited |-> edited]
    BY <1>1, <1>7
  <2>2. since'[s].shut = shut /\ since'[s].edited = edited /\ since'[s] \in Sinces
    BY <1>3, <2>1 DEF Sinces
  <2> QED BY <1>4, <1>5, <1>7, <2>2
<1> QED BY <1>6, <1>7

\* What a row or the group, as they are after a step, say of a user's reasons.
LEMMA Refutes ==
  ASSUME NEW email
  PROVE  /\ \A u \in users' : u.id.email = email =>
              /\ ~u.banned => "banned" \notin Reasons(email)'
              /\ u.live # "lapsed" => "lapsed" \notin Reasons(email)'
              /\ u.claims # {} => "no claim" \notin Reasons(email)'
         /\ email \in group'.emails =>
              "no claim" \notin Reasons(email)' /\ "no value" \notin Reasons(email)'
         /\ group'.claims # {} => "no value" \notin Reasons(email)'
BY DEF Reasons, Account

\* What does not hold now has not held ever since.
LEMMA Clears ==
  ASSUME since \in [Slots -> Sinces], Watch, InOrder', NEW s \in Slots,
         NEW email \in job'[s].who.email, NEW r, r \notin Reasons(email)'
  PROVE  r \notin since'[s].shut
<1>1. \A x, y \in job'[s].who.email : x = y
  BY DEF InOrder, JobInv, WhoInv
<1> QED BY <1>1, Watched

\* A request that goes on without reading a reason away.
LEMMA SinceCarries ==
  ASSUME NEW j, NEW h, NEW g, SinceInv(j, h, g), NEW k, NEW i, NEW f,
         i.shut \subseteq h.shut, k.who.email = j.who.email, k.who.door = j.who.door,
         k.claims = j.claims, k.group = j.group, j.pc # "sign up",
         k.pc \in {"claim groups", "group"} =>
           j.pc \in {"claim groups", "group"} \/ "lapsed" \notin i.shut,
         k.pc \notin {"insert", "edit", "sign up"}
  PROVE  SinceInv(k, i, f)
BY DEF SinceInv

LEMMA SinceOthers ==
  ASSUME IInv, Watch, NEW s \in Slots, job'[s] = job[s]
  PROVE  SinceInv(job'[s], since'[s], group')
<1>1. since \in [Slots -> Sinces] /\ SinceInv(job[s], since[s], group)
  BY DEF IInv
<1>2. CASE job[s].pc = "idle"
  <2>1. job[s] = NoJob
    BY <1>2 DEF IInv, InOrder, JobInv
  <2> QED BY <2>1, NoJobInOrder
<1>3. CASE job[s].pc = "sign up"
  BY <1>1, <1>3 DEF SinceInv
<1>4. CASE job[s].pc \notin {"idle", "sign up"}
  <2>1. since'[s].shut \subseteq since[s].shut
    BY <1>1, <1>4, Watched
  <2>2. job[s].pc = "edit" /\ ~since'[s].edited => ~since[s].edited /\ group' = group
    BY <1>1, Watched
  <2> QED BY <1>1, <2>1, <2>2 DEF SinceInv
<1> QED BY <1>2, <1>3, <1>4

LEMMA SinceComes ==
  ASSUME IInv, InOrder', Watch, NEW s \in Slots, NEW pc, NEW who, Comes(s, pc, who),
         pc \in {"sign up", "routed", "renew"},
         who.door \in {"login", "bearer"} /\ pc # "sign up" =>
           \E email \in who.email : "banned" \notin Reasons(email)'
  PROVE  SinceInv(job'[s], since'[s], group')
<1> DEFINE j == [NoJob EXCEPT !.pc = pc, !.who = who]
<1>1. j.pc = pc /\ j.who = who /\ j.claims = {} /\ j.group = {}
  BY DEF NoJob
<1>2. job'[s] = j
  BY DEF Comes, IInv, InOrder
<1> HIDE DEF j
<1>3. who.door \in {"login", "bearer"} /\ pc # "sign up" => "banned" \notin since'[s].shut
  BY <1>1, <1>2, Clears DEF IInv
<1> QED BY <1>1, <1>2, <1>3 DEF SinceInv

LEMMA SinceAccountStep ==
  ASSUME IInv, InOrder', Watch, NEW s \in Slots, AccountStep(s), UNCHANGED requestVars
  PROVE  SinceInv(job'[s], since'[s], group')
<1> USE DEF IInv
<1>1. /\ job[s] \in Jobs /\ SinceInv(job[s], since[s], group)
      /\ since \in [Slots -> Sinces] /\ job \in [Slots -> Jobs]
  BY Here DEF InOrder
<1>2. CASE Login(s)
  <2>1. PICK email \in Emails :
          Comes(s, "sign up", [Nobody EXCEPT !.door = "login", !.email = {email}])
    BY <1>2 DEF Login
  <2> QED BY <2>1, SinceComes
<1>3. CASE SessionCall(s)
  <2>1. PICK x \in sessions :
          Comes(s, "routed",
                [Nobody EXCEPT !.door = "session", !.email = {x.email}, !.admin = x.admin])
    BY <1>3 DEF SessionCall
  <2>2. [Nobody EXCEPT !.door = "session", !.email = {x.email}, !.admin = x.admin].door = "session"
    BY DEF Nobody
  <2> QED BY <2>1, <2>2, SinceComes
<1>4. CASE TokenCall(s)
  <2>1. PICK t \in DOMAIN TokenKind :
          Comes(s, "routed", [Nobody EXCEPT !.door = "token", !.admin = TokenKind[t] = "admin"])
    BY <1>4 DEF TokenCall
  <2>2. [Nobody EXCEPT !.door = "token", !.admin = TokenKind[t] = "admin"].door = "token"
    BY DEF Nobody
  <2> QED BY <2>1, <2>2, SinceComes
<1>5. CASE BearerCall(s)
  <2>1. PICK email \in Emails :
          /\ \A u \in Account(email) : ~u.banned
          /\ Comes(s, IF Account(email) = {} THEN "sign up" ELSE "renew",
                   [Nobody EXCEPT !.door = "bearer", !.email = {email},
                                  !.id = {u.id : u \in Account(email)}])
    BY <1>5 DEF BearerCall
  <2> DEFINE who == [Nobody EXCEPT !.door = "bearer", !.email = {email},
                                   !.id = {u.id : u \in Account(email)}]
             pc == IF Account(email) = {} THEN "sign up" ELSE "renew"
  <2>2. who.email = {email}
    BY DEF Nobody
  <2>3. pc # "sign up" => "banned" \notin Reasons(email)'
    BY <1>5, <2>1, Refutes DEF BearerCall, Account
  <2>4. pc \in {"sign up", "routed", "renew"} /\ Comes(s, pc, who)
    BY <2>1
  <2> HIDE DEF who, pc
  <2> QED BY <2>2, <2>3, <2>4, SinceComes
<1>6. CASE SignUp(s)
  <2> DEFINE old(email) == Account(email)
             new(email) == IF old(email) = {} THEN {NewRow(email, email \in AdminEmails)}
                           ELSE {SignInRow(email, u) : u \in old(email)}
             Signs(email, v) ==
               /\ IF old(email) = {} THEN Inserts(v) ELSE Updates(old(email), new(email))
               /\ Becomes(s, IF v.banned THEN NoJob
                             ELSE [job[s] EXCEPT !.pc = "claims", !.who.id = {v.id},
                                                 !.who.admin = v.admin])
  <2>1. PICK email \in job[s].who.email : \E v \in new(email) : Signs(email, v)
    BY <1>6 DEF SignUp
  <2>2. PICK v \in new(email) : Signs(email, v)
    BY <2>1
  <2>3. CASE v.banned
    <3>1. job'[s] = NoJob
      BY <1>1, <2>2, <2>3 DEF Becomes
    <3> QED BY <3>1, NoJobInOrder
  <2>4. CASE ~v.banned
    <3> DEFINE j == [job[s] EXCEPT !.pc = "claims", !.who.id = {v.id}, !.who.admin = v.admin]
    <3>1. /\ j.pc = "claims" /\ j.who.email = job[s].who.email /\ j.claims = job[s].claims
          /\ j.group = job[s].group
      BY <1>1 DEF Jobs, Principals
    <3>2. job'[s] = j
      BY <1>1, <2>2, <2>4 DEF Becomes
    <3>3. v.id.email = email
      BY DEF NewRow, SignInRow, Account, InOrder, TablesInv, Shapes, Users
    <3>4. v \in users'
      BY <2>2 DEF Inserts, Updates
    <3>5. "banned" \notin since'[s].shut
      BY <1>1, <2>4, <3>1, <3>2, <3>3, <3>4, Refutes, Clears
    <3>6. job[s].claims = {} /\ job[s].group = {}
      BY <1>1, <1>6 DEF SignUp, At, SinceInv
    <3> HIDE DEF j
    <3> QED BY <1>1, <3>1, <3>2, <3>5, <3>6 DEF SinceInv
  <2> QED BY <2>3, <2>4
<1>7. CASE job'[s] = NoJob
  BY <1>7, NoJobInOrder
<1>8. ASSUME job[s].pc \in {"claims", "renew", "load"}, NEW pc \in {"renew", "load", "routed"},
             NEW admin,
             \/ job'[s] = [job[s] EXCEPT !.pc = pc]
             \/ job'[s] = [job[s] EXCEPT !.pc = pc, !.who.admin = admin]
      PROVE  SinceInv(job'[s], since'[s], group')
  <2>1. /\ job'[s].pc = pc /\ job'[s].who.email = job[s].who.email
        /\ job'[s].who.door = job[s].who.door
        /\ job'[s].claims = job[s].claims /\ job'[s].group = job[s].group
    <3>1. CASE job'[s] = [job[s] EXCEPT !.pc = pc]
      BY <1>1, <3>1 DEF Jobs
    <3>2. CASE job'[s] = [job[s] EXCEPT !.pc = pc, !.who.admin = admin]
      BY <1>1, <3>2 DEF Jobs, Principals
    <3> QED BY <1>8, <3>1, <3>2
  <2>2. since'[s].shut \subseteq since[s].shut
    BY <1>1, <1>8, Watched
  <2> QED BY <1>1, <1>8, <2>1, <2>2, SinceCarries
<1>9. CASE GrantClaims(s)
  BY <1>1, <1>8, <1>9 DEF GrantClaims, Becomes, At
<1>10. CASE RecordLogin(s)
  BY <1>1, <1>7, <1>8, <1>10 DEF RecordLogin, Becomes, At
<1>11. CASE Load(s)
  BY <1>1, <1>8, <1>11 DEF Load, Becomes, At
<1>12. CASE Ends(s)
  BY <1>1, <1>7, <1>12 DEF Ends, Becomes
<1> QED
  BY <1>2, <1>3, <1>4, <1>5, <1>6, <1>9, <1>10, <1>11, <1>12 DEF AccountStep

\* What the reasons are told from.
Alike(k, j) ==
  /\ k.who.email = j.who.email /\ k.who.door = j.who.door
  /\ k.claims = j.claims /\ k.group = j.group

LEMMA SinceStays ==
  ASSUME IInv, Watch, NEW s \in Slots, job[s].pc \notin {"idle", "sign up"},
         Alike(job'[s], job[s]),
         job'[s].pc \notin {"claim groups", "group", "insert", "edit", "sign up"}
  PROVE  SinceInv(job'[s], since'[s], group')
<1>1. since'[s].shut \subseteq since[s].shut /\ SinceInv(job[s], since[s], group)
  BY Watched DEF IInv
<1> QED BY <1>1, SinceCarries DEF Alike

LEMMA SinceProceeds ==
  ASSUME IInv, Watch, NEW s \in Slots, job[s].pc \notin {"idle", "sign up"},
         NEW j \in Jobs, Alike(j, job[s]), j.op \in DeviceOps, Proceeds(s, j)
  PROVE  SinceInv(job'[s], since'[s], group')
<1>1. job \in [Slots -> Jobs] /\ job[s] \in Jobs
  BY DEF IInv, InOrder
<1>2. CASE j.op = "show"
  <2>1. job'[s] = [job[s] EXCEPT !.pc = "answers", !.rows = j.device]
    BY <1>1, <1>2 DEF Proceeds, Answers, Becomes
  <2>2. Alike(job'[s], job[s]) /\ job'[s].pc = "answers"
    BY <1>1, <2>1 DEF Jobs, Alike
  <2> QED BY <2>2, SinceStays
<1>3. CASE j.op # "show"
  <2>1. job'[s] = [j EXCEPT !.pc = j.op]
    BY <1>1, <1>3 DEF Proceeds, Becomes
  <2>2. Alike(job'[s], job[s]) /\ job'[s].pc = j.op
    BY <1>1, <2>1 DEF Jobs, Alike
  <2> QED BY <2>2, SinceStays DEF DeviceOps
<1> QED BY <1>2, <1>3

LEMMA SinceGetPeer ==
  ASSUME IInv, Watch, NEW s \in Slots, GetPeer(s)
  PROVE  SinceInv(job'[s], since'[s], group')
<1> DEFINE j(op, d) == [job[s] EXCEPT !.op = op, !.device = {d}]
<1>1. PICK op \in DeviceOps, d \in devices :
        Becomes(s, [j(op, d) EXCEPT !.pc = "ensure"]) \/ Proceeds(s, j(op, d))
  BY DEF GetPeer
<1>2. job \in [Slots -> Jobs] /\ job[s] \in Jobs /\ d \in Devices
  BY DEF IInv, InOrder, TablesInv, Shapes
<1> DEFINE k == j(op, d)
           i == [k EXCEPT !.pc = "ensure"]
<1>3. k \in Jobs /\ Alike(k, job[s]) /\ k.op \in DeviceOps
  BY <1>2 DEF Jobs, Ops, Alike
<1>4. Alike(i, job[s]) /\ i.pc = "ensure"
  BY <1>2 DEF Jobs, Alike
<1>5. Becomes(s, i) \/ Proceeds(s, k)
  BY <1>1
<1>6. job[s].pc \notin {"idle", "sign up"}
  BY DEF GetPeer, At
<1> HIDE DEF k, i
<1>7. CASE Becomes(s, i)
  <2>1. job'[s] = i
    BY <1>2, <1>7 DEF Becomes
  <2> QED BY <1>4, <1>6, <2>1, SinceStays
<1>8. CASE Proceeds(s, k)
  BY <1>3, <1>6, <1>8, SinceProceeds
<1> QED BY <1>5, <1>7, <1>8

LEMMA SinceEnsure ==
  ASSUME IInv, Watch, NEW s \in Slots, Ensure(s)
  PROVE  SinceInv(job'[s], since'[s], group')
<1>1. /\ job \in [Slots -> Jobs] /\ job[s] \in Jobs /\ WhoInv(job[s], spent)
      /\ job[s].pc = "ensure" /\ TablesInv
  BY Here DEF IInv, InOrder, Ensure, At
<1> DEFINE j(ids) == [job[s] EXCEPT !.who.id = ids]
           k(ids) == [j(ids) EXCEPT !.pc = IF j(ids).op = "list" THEN "list" ELSE "live"]
           Goes(ids) ==
             \/ j(ids).op \in DeviceOps /\ Proceeds(s, j(ids))
             \/ Becomes(s, NoJob)
             \/ Becomes(s, k(ids))
<1>2. PICK email \in job[s].who.email :
        Upserts(email, job[s].who.admin) /\ Goes(UpsertedId(email))
  BY DEF Ensure
<1>3. UNCHANGED <<sessions, requestVars, events>>
  BY <1>2 DEF Ensure, Proceeds, Answers, Becomes
<1>4. PICK id \in Ids : UpsertedId(email) = {id}
  <2>1. email \in Emails /\ job[s].who.admin \in BOOLEAN
    BY <1>1 DEF Jobs, Principals
  <2>2. job[s].who.admin => email \in AdminEmails
    BY <1>1, <1>2 DEF WhoInv, Believed
  <2> QED BY <1>1, <1>2, <1>3, <2>1, <2>2, UpsertsKeep
<1> DEFINE jj == j({id})
           kk == k({id})
<1>5. jj \in Jobs /\ Alike(jj, job[s])
  BY <1>1 DEF Jobs, Principals, Alike
<1>6. Alike(kk, job[s]) /\ kk.pc \in {"list", "live"}
  BY <1>5 DEF Jobs, Alike
<1>7. (jj.op \in DeviceOps /\ Proceeds(s, jj)) \/ Becomes(s, NoJob) \/ Becomes(s, kk)
  BY <1>2, <1>4
<1> HIDE DEF j, k, jj, kk, Goes
<1>8. CASE jj.op \in DeviceOps /\ Proceeds(s, jj)
  BY <1>1, <1>5, <1>8, SinceProceeds
<1>9. CASE Becomes(s, NoJob)
  <2>1. job'[s] = NoJob
    BY <1>1, <1>9 DEF Becomes
  <2> QED BY <2>1, NoJobInOrder
<1>10. CASE Becomes(s, kk)
  <2>1. job'[s] = kk
    BY <1>1, <1>10 DEF Becomes
  <2> QED BY <1>1, <1>6, <2>1, SinceStays
<1> QED BY <1>7, <1>8, <1>9, <1>10

LEMMA SinceLists ==
  ASSUME IInv, Watch, NEW s \in Slots, Mine(s) \/ ListMine(s) \/ Status(s) \/ ListAll(s)
  PROVE  SinceInv(job'[s], since'[s], group')
<1>1. job \in [Slots -> Jobs] /\ job[s] \in Jobs
  BY DEF IInv, InOrder
<1>2. job[s].pc \notin {"idle", "sign up"}
  BY DEF Mine, ListMine, Status, ListAll, At
<1>3. \E pc \in {"ensure", "list", "live", "answers", "status"} : \E op, rows :
        \/ job'[s] = [job[s] EXCEPT !.op = op, !.pc = pc]
        \/ job'[s] = [job[s] EXCEPT !.pc = pc, !.rows = rows]
  BY <1>1 DEF Mine, ListMine, Status, ListAll, Answers, Becomes
<1>4. Alike(job'[s], job[s]) /\ job'[s].pc \in {"ensure", "list", "live", "answers", "status"}
  BY <1>1, <1>3 DEF Jobs, Alike
<1> QED BY <1>2, <1>4, SinceStays

LEMMA SinceReadLive ==
  ASSUME IInv, InOrder', Watch, NEW s \in Slots, ReadLive(s)
  PROVE  SinceInv(job'[s], since'[s], group')
<1>1. /\ job \in [Slots -> Jobs] /\ job[s] \in Jobs /\ since \in [Slots -> Sinces]
      /\ SinceInv(job[s], since[s], group) /\ job[s].pc = "live"
  BY DEF IInv, InOrder, ReadLive, At
<1>2. PICK u \in Row(job[s].who.id) : u.live # "lapsed"
  BY DEF ReadLive
<1>3. u \in users' /\ u.id.email \in job[s].who.email
  BY OneRow DEF IInv, ReadLive
<1> DEFINE pc == IF GroupFirst(job[s]) THEN "group" ELSE "claim groups"
<1>4. job'[s] = [job[s] EXCEPT !.pc = pc]
  BY <1>1 DEF ReadLive, Becomes
<1>5. Alike(job'[s], job[s]) /\ job'[s].pc \in {"claim groups", "group"}
  BY <1>1, <1>4 DEF Jobs, Alike
<1>6. "lapsed" \notin since'[s].shut
  BY <1>1, <1>2, <1>3, <1>5, Refutes, Clears DEF Alike
<1>7. since'[s].shut \subseteq since[s].shut
  BY <1>1, Watched
<1> QED BY <1>1, <1>5, <1>6, <1>7, SinceCarries DEF Alike

\* The same for a request that may be done.
LEMMA ClearsHere ==
  ASSUME IInv, Watch, InOrder', NEW s \in Slots, NEW email \in job[s].who.email,
         job'[s] = NoJob \/ job'[s].who.email = job[s].who.email,
         NEW r, r \notin Reasons(email)'
  PROVE  r \notin since'[s].shut
<1>1. CASE job'[s] = NoJob
  <2>1. job'[s].pc = "idle"
    BY <1>1 DEF NoJob
  <2>2. since'[s].shut = {}
    BY <2>1 DEF Watch
  <2> QED BY <2>2
<1>2. CASE job'[s].who.email = job[s].who.email
  BY <1>2, Clears DEF IInv
<1> QED BY <1>1, <1>2

\* j: the request once it has read; k: the same, had it another read before it.
LEMMA SinceDecides ==
  ASSUME IInv, Watch, NEW s \in Slots, NEW j \in Jobs, Decides(s, j),
         NEW k, Alike(k, j), k.pc = "group", SinceInv(k, since'[s], group')
  PROVE  SinceInv(job'[s], since'[s], group')
<1>1. job \in [Slots -> Jobs] /\ since'[s].shut \subseteq AllReasons
  BY Watched DEF IInv, InOrder, Sinces
<1>2. \/ job'[s] = [j EXCEPT !.pc = "insert"]
      \/ job'[s] = [j EXCEPT !.pc = "list"]
      \/ job'[s] = NoJob
  BY <1>1 DEF Decides, Becomes
<1>3. CASE job'[s] = NoJob
  BY <1>3, NoJobInOrder
<1>4. CASE job'[s] = [j EXCEPT !.pc = "list"]
  <2>1. Alike(job'[s], k) /\ job'[s].pc = "list"
    BY <1>4 DEF Jobs, Alike
  <2> QED BY <2>1, SinceCarries DEF Alike
<1>5. CASE job'[s] = [j EXCEPT !.pc = "insert"]
  <2>1. Alike(job'[s], k) /\ job'[s].pc = "insert"
    BY <1>5 DEF Jobs, Alike
  <2>2. PICK email \in j.who.email, g \in j.group : Granted(email, g, j.claims)
    BY DEF Decides
  <2>3. email \in g.emails => since'[s].shut \cap {"no claim", "no value"} = {}
    BY <2>2 DEF SinceInv, Alike
  <2>4. since'[s].shut \cap {"no claim", "no value"} = {}
    BY <2>2, <2>3 DEF SinceInv, Alike, Granted
  <2>5. "lapsed" \notin since'[s].shut
    BY DEF SinceInv
  <2>6. since'[s].shut \subseteq {"banned"}
    BY <1>1, <2>4, <2>5 DEF AllReasons
  <2> QED BY <2>1, <2>6 DEF SinceInv, Alike
<1> QED BY <1>2, <1>3, <1>4, <1>5

LEMMA SinceReadClaims ==
  ASSUME IInv, InOrder', Watch, NEW s \in Slots, ReadClaims(s)
  PROVE  SinceInv(job'[s], since'[s], group')
<1> DEFINE claims == UNION {u.claims : u \in Row(job[s].who.id)}
           j == [job[s] EXCEPT !.claims = claims]
           k == [j EXCEPT !.pc = "group"]
<1>1. /\ job \in [Slots -> Jobs] /\ job[s] \in Jobs /\ since \in [Slots -> Sinces]
      /\ SinceInv(job[s], since[s], group) /\ job[s].pc = "claim groups"
  BY DEF IInv, InOrder, ReadClaims, At
<1>2. claims \subseteq Claims
  BY DEF Row, IInv, InOrder, TablesInv, Shapes, Users
<1>3. /\ j \in Jobs /\ j.who = job[s].who /\ j.group = job[s].group /\ j.claims = claims
      /\ k \in Jobs /\ k.who = job[s].who /\ k.group = job[s].group /\ k.claims = claims
      /\ k.pc = "group"
  BY <1>1, <1>2 DEF Jobs, Pcs
<1>4. Decides(s, j) \/ Becomes(s, k)
  BY DEF ReadClaims
<1> HIDE DEF j, k
<1>5. job'[s] = NoJob \/ job'[s].who.email = job[s].who.email
  <2>1. CASE Becomes(s, k)
    BY <1>1, <1>3, <2>1 DEF Becomes
  <2>2. CASE Decides(s, j)
    <3>1. \/ job'[s] = NoJob
          \/ \E pc : job'[s] = [j EXCEPT !.pc = pc]
      BY <1>1, <2>2 DEF Decides, Becomes
    <3> QED BY <1>3, <3>1 DEF Jobs
  <2> QED BY <1>4, <2>1, <2>2
<1>6. claims # {} => "no claim" \notin since'[s].shut
  <2>1. SUFFICES ASSUME NEW u \in Row(job[s].who.id), u.claims # {}
                 PROVE  "no claim" \notin since'[s].shut
    OBVIOUS
  <2>2. u \in users' /\ u.id.email \in job[s].who.email
    BY OneRow DEF IInv, ReadClaims
  <2> QED BY <1>5, <2>1, <2>2, Refutes, ClearsHere
<1>7. since'[s].shut \subseteq since[s].shut
  BY <1>1, Watched
<1>8. SinceInv(k, since'[s], group')
  BY <1>1, <1>3, <1>6, <1>7 DEF SinceInv
<1>9. CASE Becomes(s, k)
  BY <1>1, <1>8, <1>9 DEF Becomes
<1>10. CASE Decides(s, j)
  BY <1>3, <1>8, <1>10, SinceDecides DEF Alike
<1> QED BY <1>4, <1>9, <1>10

\* A request that has just read the group.
LEMMA SinceHasGroup ==
  ASSUME IInv, InOrder', Watch, NEW s \in Slots, UNCHANGED group,
         job'[s] = NoJob \/ job'[s].who.email = job[s].who.email
  PROVE  /\ job[s].who.email \cap group.emails # {} =>
              since'[s].shut \cap {"no claim", "no value"} = {}
         /\ group.claims # {} => "no value" \notin since'[s].shut
<1>1. ASSUME NEW email \in job[s].who.email, email \in group.emails
      PROVE  "no claim" \notin since'[s].shut /\ "no value" \notin since'[s].shut
  BY <1>1, Refutes, ClearsHere
<1>2. ASSUME NEW email \in job[s].who.email, group.claims # {}
      PROVE  "no value" \notin since'[s].shut
  BY <1>2, Refutes, ClearsHere
<1>3. CASE job[s].who.email = {}
  <2>1. \A r \in since'[s].shut : \E email \in job'[s].who.email : r \in Reasons(email)'
    BY Watched DEF IInv
  <2>2. job'[s].who.email = {}
    BY <1>3 DEF NoJob, Nobody
  <2> QED BY <2>1, <2>2
<1> QED BY <1>1, <1>2, <1>3

LEMMA SinceReadGroup ==
  ASSUME IInv, InOrder', Watch, NEW s \in Slots, ReadGroup(s)
  PROVE  SinceInv(job'[s], since'[s], group')
<1> DEFINE j == [job[s] EXCEPT !.group = {group}]
           k == [j EXCEPT !.pc = "group"]
           i == [j EXCEPT !.pc = "claim groups"]
<1>1. /\ job \in [Slots -> Jobs] /\ job[s] \in Jobs /\ since \in [Slots -> Sinces]
      /\ SinceInv(job[s], since[s], group) /\ job[s].pc = "group"
      /\ group \in Groups /\ group' = group
  BY DEF IInv, InOrder, TablesInv, Shapes, ReadGroup, At, requestVars
<1>2. /\ j \in Jobs /\ j.who = job[s].who /\ j.claims = job[s].claims /\ j.group = {group}
      /\ k.who = job[s].who /\ k.claims = job[s].claims /\ k.group = {group} /\ k.pc = "group"
      /\ i.who = job[s].who /\ i.claims = job[s].claims /\ i.group = {group}
      /\ i.pc = "claim groups"
  BY <1>1 DEF Jobs
<1>3. Decides(s, j) \/ Becomes(s, i)
  BY DEF ReadGroup
<1> HIDE DEF i, j, k
<1>4. job'[s] = NoJob \/ job'[s].who.email = job[s].who.email
  <2>1. CASE Becomes(s, i)
    BY <1>1, <1>2, <2>1 DEF Becomes
  <2>2. CASE Decides(s, j)
    <3>1. \/ job'[s] = NoJob
          \/ \E pc : job'[s] = [j EXCEPT !.pc = pc]
      BY <1>1, <2>2 DEF Decides, Becomes
    <3> QED BY <1>2, <3>1 DEF Jobs
  <2> QED BY <1>3, <2>1, <2>2
<1>5. /\ job[s].who.email \cap group.emails # {} =>
           since'[s].shut \cap {"no claim", "no value"} = {}
      /\ group.claims # {} => "no value" \notin since'[s].shut
  BY <1>1, <1>4, SinceHasGroup
<1>6. since'[s].shut \subseteq since[s].shut
  BY <1>1, Watched
<1>7. SinceInv(k, since'[s], group')
  BY <1>1, <1>2, <1>5, <1>6 DEF SinceInv
<1>8. CASE Becomes(s, i)
  <2>1. SinceInv(i, since'[s], group')
    BY <1>1, <1>2, <1>5, <1>6 DEF SinceInv
  <2> QED BY <1>1, <1>8, <2>1 DEF Becomes
<1>9. CASE Decides(s, j)
  BY <1>2, <1>7, <1>9, SinceDecides DEF Alike
<1> QED BY <1>3, <1>8, <1>9

LEMMA SinceNameOwner ==
  ASSUME IInv, Watch, NEW s \in Slots, NameOwner(s)
  PROVE  SinceInv(job'[s], since'[s], group')
<1>1. PICK ids : job' = [job EXCEPT ![s] = [job[s] EXCEPT !.pc = "provision", !.owner = ids]]
  BY DEF NameOwner, Becomes
<1>2. job \in [Slots -> Jobs] /\ job[s] \in Jobs /\ job[s].pc = "routed"
  BY DEF IInv, InOrder, NameOwner, ByAdmin, At
<1>3. Alike(job'[s], job[s]) /\ job'[s].pc = "provision"
  BY <1>1, <1>2 DEF Jobs, Alike
<1> QED BY <1>2, <1>3, SinceStays

LEMMA SinceReadForEdit ==
  ASSUME IInv, InOrder', Watch, NEW s \in Slots, ReadForEdit(s)
  PROVE  SinceInv(job'[s], since'[s], group')
<1>1. PICK left : job' = [job EXCEPT ![s] = [job[s] EXCEPT !.pc = "edit", !.group = {group},
                                                           !.left = left]]
  BY DEF ReadForEdit, Becomes
<1>2. /\ job \in [Slots -> Jobs] /\ job[s] \in Jobs /\ since \in [Slots -> Sinces]
      /\ SinceInv(job[s], since[s], group) /\ job[s].pc = "routed" /\ group' = group
  BY DEF IInv, InOrder, ReadForEdit, ByAdmin, At, requestVars
<1>3. /\ job'[s].pc = "edit" /\ job'[s].who = job[s].who /\ job'[s].claims = job[s].claims
      /\ job'[s].group = {group}
  BY <1>1, <1>2 DEF Jobs
<1>4. /\ job[s].who.email \cap group.emails # {} =>
           since'[s].shut \cap {"no claim", "no value"} = {}
      /\ group.claims # {} => "no value" \notin since'[s].shut
  BY <1>2, <1>3, SinceHasGroup
<1>5. since'[s].shut \subseteq since[s].shut
  BY <1>2, Watched
<1> QED BY <1>2, <1>3, <1>4, <1>5 DEF SinceInv

LEMMA SinceRequestStep ==
  ASSUME IInv, InOrder', Watch, NEW s \in Slots, RequestStep(s)
  PROVE  SinceInv(job'[s], since'[s], group')
<1>1. CASE \/ Answered(s) \/ InsertMine(s) \/ Regenerate(s) \/ Rename(s) \/ DeletePeer(s)
           \/ SetBanned(s) \/ DeleteUser(s) \/ CreateUser(s) \/ ProvisionDevice(s)
           \/ EditGroup(s)
  <2>1. Becomes(s, NoJob)
    BY <1>1 DEF Answered, InsertMine, Regenerate, Rename, DeletePeer, SetBanned, DeleteUser,
       CreateUser, ProvisionDevice, EditGroup
  <2>2. job'[s] = NoJob
    BY <2>1 DEF Becomes, IInv, InOrder
  <2> QED BY <2>2, NoJobInOrder
<1> QED
  BY <1>1, SinceGetPeer, SinceEnsure, SinceLists, SinceReadLive, SinceReadClaims,
     SinceReadGroup, SinceNameOwner, SinceReadForEdit
     DEF RequestStep

LEMMA AlwaysInv == Spec => []IInv
<1>1. Init => IInv
  <2> SUFFICES ASSUME Init PROVE IInv
    OBVIOUS
  <2>1. since \in [Slots -> Sinces]
    BY DEF Init, Sinces
  <2>2. \A s \in Slots : SinceInv(job[s], since[s], group)
    BY NoJobInOrder DEF Init
  <2> QED BY <2>1, <2>2, InitInOrder DEF IInv
<1>2. IInv /\ [Next]_vars => IInv'
  <2> SUFFICES ASSUME IInv, [Next]_vars PROVE IInv'
    OBVIOUS
  <2>1. InOrder'
    BY StepsInOrder DEF IInv
  <2>2. CASE UNCHANGED vars
    BY <2>1, <2>2 DEF vars, IInv
  <2>3. CASE Next
    <3>1. since' \in [Slots -> Sinces]
      <4>1. \A s \in Slots : since'[s] \in Sinces
        BY <2>3, Watched DEF IInv, Next
      <4>2. since' = [s \in Slots |-> since'[s]]
        BY <2>3 DEF Next, Watch
      <4> QED BY <4>1, <4>2
    <3>2. ASSUME NEW s \in Slots
          PROVE  SinceInv(job'[s], since'[s], group')
      <4>1. CASE job'[s] = job[s]
        BY <2>3, <4>1, SinceOthers DEF Next
      <4>2. CASE AccountStep(s) /\ UNCHANGED requestVars
        BY <2>1, <2>3, <4>2, SinceAccountStep DEF Next
      <4>3. CASE RequestStep(s)
        BY <2>1, <2>3, <4>3, SinceRequestStep DEF Next
      <4>4. CASE Lapse
        BY <4>1, <4>4 DEF Lapse
      <4> QED BY <2>3, <4>1, <4>2, <4>3, <4>4, OthersStay DEF Next, IInv
    <3> QED BY <2>1, <3>1, <3>2 DEF IInv
  <2> QED BY <2>2, <2>3
<1> QED BY <1>1, <1>2, PTL DEF Spec

\* BannedStaysOut, of any number of logins and bearers at once.
THEOREM BannedNeverIn == Spec => []BannedStaysOut
<1>1. IInv => BannedStaysOut
  BY DEF IInv, SinceInv, BannedStaysOut, At
<1> QED BY <1>1, AlwaysInv, PTL

\* ShutGetsNone: an insert is not what a reason that has held all the while allows.
THEOREM ShutNeverGets == Spec => ShutGetsNone
<1> DEFINE Open(s) == At(s, "insert") /\ devices' # devices /\ job'[s] # job[s]
                        => since[s].shut \subseteq {"banned"}
<1>1. IInv => \A s \in Slots : Open(s)
  BY DEF IInv, SinceInv, At
<1>2. IInv /\ [Next]_vars => [\A s \in Slots : Open(s)]_vars
  BY <1>1
<1> QED BY <1>2, AlwaysInv, PTL DEF Spec, ShutGetsNone

\* LeavesOutKept: only another edit makes an edit change what it leaves out.
THEOREM LeavesOutIsKept == Spec => LeavesOutKept
<1>1. ASSUME IInv, [Next]_vars, NEW s \in Slots, At(s, "edit"), job'[s] # job[s], ~since[s].edited,
             NEW column \in job[s].left
      PROVE  group'[column] = group[column]
  <2>1. /\ \A g \in job[s].group : g = group
        /\ column \in {"emails", "claims"} /\ job[s].pc = "edit"
    BY <1>1, Here DEF IInv, SinceInv, At, Jobs
  <2>2. CASE EditGroup(s)
    BY <2>1, <2>2 DEF EditGroup, Kept
  <2>3. CASE group' = group
    BY <2>3
  <2>4. CASE RequestStep(s) /\ ~EditGroup(s)
    BY <2>1, <2>3, <2>4
       DEF RequestStep, GetPeer, Mine, Ensure, ListMine, Status, ListAll, Answered, ReadLive,
           ReadClaims, ReadGroup, InsertMine, Regenerate, Rename, DeletePeer, SetBanned,
           DeleteUser, CreateUser, NameOwner, ProvisionDevice, ReadForEdit, At, ByAdmin
  <2>5. ~UNCHANGED vars /\ ~Lapse
    BY <1>1 DEF vars, Lapse
  <2> QED BY <1>1, <2>2, <2>3, <2>4, <2>5, OthersStay DEF Next, IInv, requestVars
<1> DEFINE Keeps(s) ==
      At(s, "edit") /\ job'[s] # job[s] /\ ~since[s].edited
        => \A column \in job[s].left : group'[column] = group[column]
<1>2. IInv /\ [Next]_vars => [\A s \in Slots : Keeps(s)]_vars
  BY <1>1
<1> QED BY <1>2, AlwaysInv, PTL DEF Spec, LeavesOutKept
=============================================================================
