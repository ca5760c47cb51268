------------------------------ MODULE Requests ------------------------------
(***************************************************************************)
(* The handlers of the web UI and of the REST and MCP endpoints, as far as *)
(* they decide who may see and change what: the statements before a write, *)
(* and the write.  The device limit and addresses are Provisioning's, the  *)
(* sync that follows is DeviceSync's.                                      *)
(***************************************************************************)
EXTENDS Accounts

CONSTANTS
  MaxDevices,   \* bound on the devices made
  MaxKeys,      \* bound on the keys generated
  Edits,        \* what a group may be changed to
  StartUsers, StartDevices, StartSessions, StartGroup

VARIABLES
  devices,    \* the rows of wg_peers, on one interface
  made,       \* device ids given out so far
  keys,       \* keys generated so far: no two are equal
  group,      \* the one group the interface is given: emails and claim values
  since       \* history, which no guard reads.  For each request, shut: what has
              \* kept its user out ever since it came or, where he is signed up,
              \* ever since his sign-up; edited: whether the group was changed
              \* since it read it

requestVars == <<devices, made, keys, group>>
vars == <<users, spent, sessions, job, events, devices, made, keys, group, since>>

\* own: user_created; key 0: not configured yet.
Devices ==
  [id : 1..MaxDevices, owner : SUBSET Ids, own : BOOLEAN, key : 0..MaxKeys,
   name : {"given", "changed"}]

Groups == [emails : SUBSET Emails, claims : SUBSET Claims]

\* The rows to begin with, whose keys hold; admins are those listed.
ASSUME StartAssumption ==
  /\ MaxDevices \in Nat /\ MaxKeys \in Nat
  /\ IsFiniteSet(StartUsers) /\ IsFiniteSet(StartDevices)
  /\ StartUsers \subseteq Users
  /\ \A u, v \in StartUsers : u.id.email = v.id.email => u = v
  /\ \A u \in StartUsers : u.id.nth = 1 /\ (u.admin => u.id.email \in AdminEmails)
  /\ StartDevices \subseteq Devices
  /\ Cardinality(StartDevices) <= MaxDevices /\ Cardinality(StartDevices) <= MaxKeys
  /\ \A d \in StartDevices :
       /\ d.id <= Cardinality(StartDevices) /\ d.key <= Cardinality(StartDevices)
       /\ d.owner \in {{}} \cup {{u.id} : u \in StartUsers}
       /\ \A e \in StartDevices : d.id = e.id \/ (d.key = e.key /\ d.key # 0) => d = e
  /\ StartSessions \subseteq [email : Emails, admin : BOOLEAN]
  /\ \A x \in StartSessions : x.admin => x.email \in AdminEmails
  /\ StartGroup \in Groups
  /\ Edits \subseteq Groups

Init ==
  /\ users = StartUsers
  /\ spent = {u.id : u \in StartUsers}
  /\ sessions = StartSessions
  /\ job = [s \in Slots |-> NoJob]
  /\ events = 0
  /\ devices = StartDevices
  /\ made = Cardinality(StartDevices)
  /\ keys = Cardinality(StartDevices)
  /\ group = StartGroup
  /\ since = [s \in Slots |-> [shut |-> {}, edited |-> FALSE]]

\* A user who is no admin, whose own devices are all the request may touch.
Acting(w) == ~w.admin /\ w.email # {}

\* Mutant: a device without an owner is anybody's.
OwnsLax(ids, d) == d.owner \subseteq ids

Owns(ids, d) == d.owner = ids

\* Mutant: all of the group's claim values must be held, instead of one.
GrantedAll(email, g, claims) == email \in g.emails \/ g.claims \subseteq claims

Granted(email, g, claims) == email \in g.emails \/ g.claims \cap claims # {}

Answers(s, rows) == Becomes(s, [job[s] EXCEPT !.pc = "answers", !.rows = rows])

Fresh(owner, own, key) ==
  [id |-> made + 1, owner |-> owner, own |-> own, key |-> key, name |-> "given"]

---------------------------------------------------------------------------
\* A device is named: own_peer and authorize_peer.

DeviceOps == {"regenerate", "delete", "rename", "show"}

\* What the owner may do: not rename a device an admin made.
AllowedOn(op, d) == op = "rename" => d.own

\* What follows once the caller may touch the row that was read.
Proceeds(s, j) ==
  IF j.op = "show" THEN Answers(s, j.device) ELSE Becomes(s, [j EXCEPT !.pc = j.op])

GetPeer(s) ==
  /\ At(s, "routed")
  /\ \E op \in DeviceOps, d \in devices :
       LET w == job[s].who
           j == [job[s] EXCEPT !.op = op, !.device = {d}]
       IN IF w.door = "session" /\ ~w.admin
          THEN Becomes(s, [j EXCEPT !.pc = "ensure"])
          ELSE /\ op # "show" => w.admin \/ Acting(w)
               /\ Acting(w) => Owns(w.id, d) /\ AllowedOn(op, d)
               /\ Proceeds(s, j)
  /\ UNCHANGED <<users, spent, sessions, requestVars>>

---------------------------------------------------------------------------
\* A user's own devices and interfaces.

Mine(s) ==
  /\ At(s, "routed")
  /\ \E op \in {"create", "list", "status", "interfaces"} :
       LET w == job[s].who IN
         /\ w.door = "session" \/ Acting(w)
         /\ w.door = "session" => op # "status"
         /\ Becomes(s, [job[s] EXCEPT !.op = op,
                                      !.pc = IF w.door = "session" THEN "ensure"
                                             ELSE IF op = "list" THEN "list" ELSE "live"])
  /\ UNCHANGED <<users, spent, sessions, requestVars>>

\* current_user_id: the session's email, upserted; then authorize_peer's comparison.
Ensure(s) ==
  /\ At(s, "ensure")
  /\ \E email \in job[s].who.email :
       LET j == [job[s] EXCEPT !.who.id = UpsertedId(email)]
       IN /\ Upserts(email, job[s].who.admin)
          /\ IF j.op \in DeviceOps
             THEN IF \A d \in j.device : Owns(j.who.id, d) /\ AllowedOn(j.op, d)
                  THEN Proceeds(s, j)
                  ELSE Becomes(s, NoJob)
             ELSE Becomes(s, [j EXCEPT !.pc = IF j.op = "list" THEN "list" ELSE "live"])
  /\ UNCHANGED <<sessions, requestVars>>

\* Mutant: status is answered as the backend reports it.
VisibleAll(rows) == devices

\* Of what the backend reports, the devices with the keys read before.
Visible(rows) == {d \in devices : d.key \in {r.key : r \in rows} \ {0}}

ListMine(s) ==
  /\ At(s, "list")
  /\ LET rows == {d \in devices : Owns(job[s].who.id, d)} IN
       IF job[s].op = "list" THEN Answers(s, rows)
       ELSE Becomes(s, [job[s] EXCEPT !.pc = "status", !.rows = rows])
  /\ UNCHANGED <<users, spent, sessions, requestVars>>

Status(s) ==
  /\ At(s, "status")
  /\ Answers(s, Visible(job[s].rows))
  /\ UNCHANGED <<users, spent, sessions, requestVars>>

\* Admins and tokens see every device.
ListAll(s) ==
  /\ At(s, "routed")
  /\ job[s].who.admin \/ job[s].who.door = "token"
  /\ Answers(s, devices)
  /\ UNCHANGED <<users, spent, sessions, requestVars>>

Answered(s) ==
  /\ At(s, "answers")
  /\ Becomes(s, NoJob)
  /\ UNCHANGED <<users, spent, sessions, requestVars>>

---------------------------------------------------------------------------
\* Access to the interface: can_access_interface reads the group, then the claims,
\* interfaces_for_user the other way round.

GroupFirst(j) == j.who.door = "session" /\ j.op = "create"

ReadLive(s) ==
  /\ At(s, "live")
  /\ \E u \in Row(job[s].who.id) : u.live # "lapsed"
  /\ Becomes(s, [job[s] EXCEPT !.pc = IF GroupFirst(job[s]) THEN "group" ELSE "claim groups"])
  /\ UNCHANGED <<users, spent, sessions, requestVars>>

\* The decision, once both are read.
Decides(s, j) ==
  /\ \E email \in j.who.email, g \in j.group : Granted(email, g, j.claims)
  /\ Becomes(s, CASE j.op = "create" -> [j EXCEPT !.pc = "insert"]
                  [] j.op = "status" -> [j EXCEPT !.pc = "list"]
                  [] OTHER -> NoJob)

ReadClaims(s) ==
  /\ At(s, "claim groups")
  /\ LET j == [job[s] EXCEPT !.claims = UNION {u.claims : u \in Row(job[s].who.id)}] IN
       IF GroupFirst(j) THEN Decides(s, j) ELSE Becomes(s, [j EXCEPT !.pc = "group"])
  /\ UNCHANGED <<users, spent, sessions, requestVars>>

ReadGroup(s) ==
  /\ At(s, "group")
  /\ LET j == [job[s] EXCEPT !.group = {group}] IN
       IF GroupFirst(j) THEN Becomes(s, [j EXCEPT !.pc = "claim groups"]) ELSE Decides(s, j)
  /\ UNCHANGED <<users, spent, sessions, requestVars>>

---------------------------------------------------------------------------
\* Writes.

\* The insert of a user's device; the owner must still be there.
InsertMine(s) ==
  /\ At(s, "insert")
  /\ Row(job[s].who.id) # {}
  /\ made < MaxDevices /\ keys < MaxKeys
  /\ devices' = devices \cup {Fresh(job[s].who.id, TRUE, keys + 1)}
  /\ made' = made + 1
  /\ keys' = keys + 1
  /\ Becomes(s, NoJob)
  /\ UNCHANGED <<users, spent, sessions, group>>

\* The row with the id the request names, as it is now.
Named(s) == {d \in devices : d.id \in {e.id : e \in job[s].device}}

Regenerate(s) ==
  /\ At(s, "regenerate")
  /\ Named(s) # {}
  /\ keys < MaxKeys
  /\ devices' = (devices \ Named(s)) \cup {[d EXCEPT !.key = keys + 1] : d \in Named(s)}
  /\ keys' = keys + 1
  /\ Becomes(s, NoJob)
  /\ UNCHANGED <<users, spent, sessions, made, group>>

Rename(s) ==
  /\ At(s, "rename")
  /\ Named(s) # {}
  /\ devices' = (devices \ Named(s)) \cup {[d EXCEPT !.name = "changed"] : d \in Named(s)}
  /\ Becomes(s, NoJob)
  /\ UNCHANGED <<users, spent, sessions, made, keys, group>>

DeletePeer(s) ==
  /\ At(s, "delete")
  /\ devices' = devices \ Named(s)
  /\ Becomes(s, NoJob)
  /\ UNCHANGED <<users, spent, sessions, made, keys, group>>

---------------------------------------------------------------------------
\* What require_admin guards.

ByAdmin(s) == At(s, "routed") /\ job[s].who.admin

SetBanned(s) ==
  /\ ByAdmin(s)
  /\ \E u \in users : Updates({u}, {[u EXCEPT !.banned = ~@]})
  /\ Becomes(s, NoJob)
  /\ UNCHANGED <<sessions, requestVars>>

\* The account's devices go with it; its sessions stay.
DeleteUser(s) ==
  /\ ByAdmin(s)
  /\ \E u \in users :
       /\ Updates({u}, {})
       /\ devices' = {d \in devices : u.id \notin d.owner}
  /\ Becomes(s, NoJob)
  /\ UNCHANGED <<sessions, made, keys, group>>

CreateUser(s) ==
  /\ ByAdmin(s)
  /\ \E email \in Emails : Upserts(email, FALSE)
  /\ Becomes(s, NoJob)
  /\ UNCHANGED <<sessions, requestVars>>

\* peer_create for an email: its account is looked up, or made, first.
NameOwner(s) ==
  /\ ByAdmin(s)
  /\ job[s].who.door # "session"
  /\ \E email \in Emails :
       /\ Upserts(email, FALSE)
       /\ Becomes(s, [job[s] EXCEPT !.pc = "provision", !.owner = UpsertedId(email)])
  /\ UNCHANGED <<sessions, requestVars>>

\* The web names an account; REST nobody, or the one looked up if it is still there.
NewOwners(s) ==
  IF At(s, "provision") THEN {{u.id} : u \in Row(job[s].owner)}
  ELSE IF job[s].who.door = "session" THEN {{u.id} : u \in users} ELSE {{}}

\* A device for any account or for none, with a key or without.
ProvisionDevice(s) ==
  /\ ByAdmin(s) \/ At(s, "provision")
  /\ made < MaxDevices /\ keys < MaxKeys
  /\ \E owner \in NewOwners(s), key \in {0, keys + 1} :
       /\ devices' = devices \cup {Fresh(owner, FALSE, key)}
       /\ keys' = IF key = 0 THEN keys ELSE key
  /\ made' = made + 1
  /\ Becomes(s, NoJob)
  /\ UNCHANGED <<users, spent, sessions, group>>

\* group_update reads the columns the patch leaves out; the web's form has both.
ReadForEdit(s) ==
  /\ ByAdmin(s)
  /\ \E left \in SUBSET {"emails", "claims"} :
       /\ job[s].who.door = "session" => left = {}
       /\ Becomes(s, [job[s] EXCEPT !.pc = "edit", !.group = {group}, !.left = left])
  /\ UNCHANGED <<users, spent, sessions, requestVars>>

\* Mutant: a column left out of the patch is emptied.
KeptEmpty(g, column) == {}

Kept(g, column) == g[column]

\* UPDATE wg_groups: all columns are written.
EditGroup(s) ==
  /\ At(s, "edit")
  /\ \E g \in job[s].group, new \in Edits :
       group' = [column \in {"emails", "claims"} |->
                   IF column \in job[s].left THEN Kept(g, column) ELSE new[column]]
  /\ Becomes(s, NoJob)
  /\ UNCHANGED <<users, spent, sessions, devices, made, keys>>

---------------------------------------------------------------------------
\* What keeps the user of that email from signing in or from the interface.
Reasons(email) ==
  LET rows == Account(email)
      listed == email \in group.emails
  IN {r \in {"banned", "lapsed", "no claim", "no value"} :
        \/ r = "banned" /\ \A u \in rows : u.banned
        \/ r = "lapsed" /\ \A u \in rows : u.live = "lapsed"
        \/ r = "no claim" /\ ~listed /\ \A u \in rows : u.claims = {}
        \/ r = "no value" /\ ~listed /\ group.claims = {}}

AllReasons == {"banned", "lapsed", "no claim", "no value"}

Watch ==
  since' = [s \in Slots |->
    IF job'[s].pc = "idle" THEN [shut |-> {}, edited |-> FALSE]
    ELSE [shut   |-> (IF job[s].pc \in {"idle", "sign up"} THEN AllReasons ELSE since[s].shut)
                       \cap UNION {Reasons(email)' : email \in job'[s].who.email},
          edited |-> job[s].pc = "edit" /\ (since[s].edited \/ group' # group)]]

RequestStep(s) ==
  \/ GetPeer(s) \/ Mine(s) \/ Ensure(s) \/ ListMine(s) \/ Status(s) \/ ListAll(s) \/ Answered(s)
  \/ ReadLive(s) \/ ReadClaims(s) \/ ReadGroup(s)
  \/ InsertMine(s) \/ Regenerate(s) \/ Rename(s) \/ DeletePeer(s)
  \/ SetBanned(s) \/ DeleteUser(s) \/ CreateUser(s) \/ NameOwner(s) \/ ProvisionDevice(s)
  \/ ReadForEdit(s) \/ EditGroup(s)

Next ==
  /\ \/ Lapse /\ UNCHANGED requestVars
     \/ \E s \in Slots : (AccountStep(s) /\ UNCHANGED requestVars) \/ RequestStep(s)
  /\ Watch

Spec == Init /\ [][Next]_vars

---------------------------------------------------------------------------
\* The state is well typed, emails and device ids are unique, keys too, and every
\* device's owner is there.
TypeOK ==
  /\ users \subseteq Users
  /\ \A u, v \in users : u.id.email = v.id.email => u = v
  /\ {u.id : u \in users} \subseteq spent
  /\ sessions \subseteq [email : Emails, admin : BOOLEAN]
  /\ devices \subseteq Devices
  /\ \A d, e \in devices : d.id = e.id \/ (d.key = e.key /\ d.key # 0) => d = e
  /\ \A d \in devices : d.owner \subseteq {u.id : u \in users}
  /\ group \in Groups
  /\ events \in 0..MaxEvents /\ made \in 0..MaxDevices /\ keys \in 0..MaxKeys
  /\ \A s \in Slots :
       /\ DOMAIN job[s] = DOMAIN NoJob
       /\ job[s].who.email \subseteq Emails
       /\ job[s].who.id \subseteq spent
       /\ job[s].who.admin \in BOOLEAN
       /\ job[s].device \cup job[s].rows \subseteq Devices
       /\ job[s].group \subseteq Groups

\* A request made with an admin's token, or for somebody configured as admin.
Trusted(s) ==
  IF job[s].who.door = "token" THEN job[s].who.admin
  ELSE job[s].who.email \cap AdminEmails # {}

\* The device belongs to an account with the email the request was made for.
IsHis(s, d) == d.owner # {} /\ \A id \in d.owner : id.email \in job[s].who.email

\* Whoever is not configured as admin changes nothing but devices of his own, their
\* names only if he made them, and his own account: by no session, token or bearer,
\* however old what it knows, and whatever is deleted or made anew while it runs.
TouchesOwnOnly ==
  [][\A s \in Slots : job'[s] # job[s] /\ ~Trusted(s) =>
       /\ \A d \in (devices \ devices') \cup (devices' \ devices) : IsHis(s, d)
       /\ \A d \in devices, e \in devices' :
            (d.id = e.id /\ d.name # e.name) => d.own
       /\ \A u \in (users \ users') \cup (users' \ users) : u.id.email \in job[s].who.email
       /\ group' = group]_vars

\* A user who is no admin is shown no device but his own, however the devices he
\* has and the keys they have change between the reads of the answer.
SeesOwnOnly ==
  \A s \in Slots :
    At(s, "answers") /\ job[s].who.door \in {"session", "bearer"} /\ ~Trusted(s)
      => \A d \in job[s].rows : IsHis(s, d)

\* No login and no bearer gets anywhere - claims, a new deadline, a session, a
\* request - for somebody whose account has been banned ever since he came or,
\* where he is signed up, ever since the statement that did so: by whichever of the
\* two ways in, though nobody had an account when he came and it was made and
\* banned before his sign-up.
BannedStaysOut ==
  \A s \in Slots :
    job[s].who.door \in {"login", "bearer"} /\ ~At(s, "sign up")
      => "banned" \notin since[s].shut

\* A user gets a device only if nothing kept him from the interface all the while:
\* neither his deadline, nor that the group did not name him while he had no claim,
\* or while it named no claim.
ShutGetsNone ==
  [][\A s \in Slots : At(s, "insert") /\ devices' # devices /\ job'[s] # job[s]
       => since[s].shut \subseteq {"banned"}]_vars

\* An edit that leaves a column out changes it only if another edit came between its
\* read and its write.
LeavesOutKept ==
  [][\A s \in Slots : At(s, "edit") /\ job'[s] # job[s] /\ ~since[s].edited
       => \A column \in job[s].left : group'[column] = group[column]]_vars
=============================================================================
