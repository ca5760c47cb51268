----------------------------- MODULE DeviceSync -----------------------------
(***************************************************************************)
(* The reconciler of wg-vpng: the Postgres rows that decide which devices  *)
(* may use which WireGuard interface, the request handlers that change     *)
(* them, and sync_interface, which re-reads those rows statement by        *)
(* statement and pushes the permitted devices to the interface's backend.  *)
(*                                                                         *)
(* Every request runs in a slot (an async task of the server) and is a     *)
(* sequence of steps, one per database statement or backend call, so that  *)
(* the steps of two slots interleave at every await.  The database commits *)
(* a statement atomically; nothing locks anything across two statements.   *)
(* The boot task runs sync_all_best_effort before the server serves.       *)
(***************************************************************************)
EXTENDS Naturals, FiniteSets

CONSTANTS
  Users, Claims, Providers, Groups, Peers,  \* uuids, claim values, OIDC slugs
  Ifaces,     \* interface ids: numbers, in the order of created_at
  MaxGen,     \* bound on the keys one device is given over its life
  NoUser, NoGroup,
  Slots,      \* the requests that may be in flight at the same time
  Boot,       \* the task of init_server
  Start,      \* the databases a server may find when it starts
  Kinds,      \* the requests and environment events of the instance
  MaxCrashes  \* bound on the restarts of the server

ASSUME ConstantsAssumption ==
  /\ Ifaces \subseteq Nat \ {0} /\ IsFiniteSet(Ifaces) /\ IsFiniteSet(Peers)
  /\ MaxGen \in Nat
  /\ MaxCrashes \in Nat
  /\ Users \cap Claims = {}
  /\ NoUser \notin Users
  /\ NoGroup \notin Groups
  /\ Boot \notin Slots

VARIABLES
  db,         \* the tables users, user_provider_groups, wg_groups,
              \* wg_interfaces (refs is group_ids) and wg_peers
  backend,    \* the keys configured on the backend of each interface
  lastError,  \* wg_interfaces.last_error: TRUE when it holds an error
  pc,         \* the statement or call each task performs next
  plan,       \* what the request of a task still has to do
  snap,       \* the local variables of the sync a task is running
  hist,       \* history of that sync: no guard reads it
  crashes     \* restarts so far

vars == <<db, backend, lastError, pc, plan, snap, hist, crashes>>

Tasks == Slots \cup {Boot}

\* A key pair is named by the device and the number of the key in its life:
\* generate_keypair never repeats a key.
Keys == Peers \X (1..MaxGen)

\* What the rows of the tables can be; spent are the uuids given out so far.
Tables ==
  [spent   : SUBSET (Users \cup Groups \cup Ifaces \cup Peers),
   users   : SUBSET Users,
   banned  : SUBSET Users,
   revoked : SUBSET Users,
   live    : SUBSET Users,
   claims  : [Users \X Providers -> SUBSET Claims],
   groups  : SUBSET Groups,
   admits  : [Groups -> SUBSET (Users \cup Claims)],
   ifaces  : SUBSET Ifaces,
   refs    : [Ifaces -> SUBSET Groups],
   peers   : SUBSET Peers,
   home    : [Peers -> Ifaces],
   owner   : [Peers -> Users \cup {NoUser}],
   gen     : [Peers -> 0..MaxGen]]

\* The foreign keys of wg_peers hold, and every row has a uuid given out.
\* group_ids is JSON, not a foreign key: it may name groups that are gone.
Consistent(d) ==
  /\ \A p \in d.peers : d.home[p] \in d.ifaces /\ d.owner[p] \in d.users \cup {NoUser}
  /\ d.users \cup d.groups \cup d.ifaces \cup d.peers \subseteq d.spent

\* Callers know only ids that were given out, so group_ids has no others.
ASSUME StartAssumption ==
  \A d \in Start :
    /\ d \in Tables
    /\ Consistent(d)
    /\ \A i \in Ifaces : d.refs[i] \subseteq d.spent

-----------------------------------------------------------------------------
(* Who may use an interface.                                               *)

OwnerOf(d, k) == d.owner[k[1]]

\* The row of k's device exists and k is the key it holds.
Current(d, k) == k[1] \in d.peers /\ d.gen[k[1]] = k[2]

\* A user row that is neither banned nor revoked and has not lapsed.
InGoodStanding(d, u) == u \in (d.users \cap d.live) \ (d.banned \cup d.revoked)

\* user_claim_groups: the union over the providers.
ClaimGroups(d, u) == UNION {d.claims[<<u, pr>>] : pr \in Providers}

\* What the group rows among gs admit: user emails and claim values.
Admitted(d, gs) == UNION {d.admits[g] : g \in gs \cap d.groups}

\* access_granted, for the users and claim values a list of groups admits.
AccessGranted(admitted, u, cs) == u \in admitted \/ cs \cap admitted # {}

\* The rows list_peers returns for i that carry a key.
Configured(d, i) == {k \in Keys : Current(d, k) /\ d.home[k[1]] = i}

Permitted(d, i, k) ==
  \/ OwnerOf(d, k) = NoUser
  \/ /\ InGoodStanding(d, OwnerOf(d, k))
     /\ AccessGranted(Admitted(d, d.refs[i]), OwnerOf(d, k), ClaimGroups(d, OwnerOf(d, k)))

\* What list_active_peers returns when it runs on one database state.
Active(d, i) == {k \in Configured(d, i) : Permitted(d, i, k)}

-----------------------------------------------------------------------------
(* The statements of store.rs, as changes of the tables.                   *)

WithInterface(d, i, gs) ==
  [d EXCEPT !.spent = @ \cup {i}, !.ifaces = @ \cup {i}, !.refs[i] = gs]

WithRefs(d, i, gs) == [d EXCEPT !.refs[i] = gs]

\* The device rows ps go, on their own or by ON DELETE CASCADE.
WithoutPeers(d, ps) ==
  [d EXCEPT !.peers = @ \ ps, !.gen = [p \in Peers |-> IF p \in ps THEN 0 ELSE @[p]]]

WithoutInterface(d, i) ==
  [WithoutPeers(d, {p \in d.peers : d.home[p] = i}) EXCEPT !.ifaces = @ \ {i}, !.refs[i] = {}]

WithGroup(d, g, adm) ==
  [d EXCEPT !.spent = @ \cup {g}, !.groups = @ \cup {g}, !.admits[g] = adm]

WithAdmits(d, g, adm) == [d EXCEPT !.admits[g] = adm]

WithoutGroup(d, g) == [d EXCEPT !.groups = @ \ {g}, !.admits[g] = {}]

\* The upsert by email: a new user is live (the column defaults to infinity).
WithUser(d, u) == [d EXCEPT !.spent = @ \cup {u}, !.users = @ \cup {u}, !.live = @ \cup {u}]

\* UPDATE users and UPDATE wg_peers change the rows there are.
WithBan(d, u, on) ==
  [d EXCEPT !.banned = IF on THEN @ \cup ({u} \cap d.users) ELSE @ \ {u}]

WithRevocation(d, u, on) ==
  [d EXCEPT !.revoked = IF on THEN @ \cup ({u} \cap d.users) ELSE @ \ {u}]

WithLogin(d, u) == [d EXCEPT !.live = @ \cup ({u} \cap d.users)]

WithClaims(d, u, pr, cs) == [d EXCEPT !.claims[<<u, pr>>] = cs]

\* Mutant: wg_peers.user_id without ON DELETE CASCADE.
WithoutUserAlone(d, u) ==
  [d EXCEPT !.users = @ \ {u}, !.banned = @ \ {u}, !.revoked = @ \ {u}, !.live = @ \ {u}]

\* The user's devices and captured claims go with the row.
WithoutUser(d, u) ==
  [WithoutPeers(d, {p \in d.peers : d.owner[p] = u}) EXCEPT
     !.users = @ \ {u}, !.banned = @ \ {u}, !.revoked = @ \ {u}, !.live = @ \ {u},
     !.claims = [c \in Users \X Providers |-> IF c[1] = u THEN {} ELSE @[c]]]

\* The row a device gets; n = 0 is a device without a key.
WithDevice(d, p, i, u, n) ==
  [d EXCEPT !.spent = @ \cup {p}, !.peers = @ \cup {p},
            !.home[p] = i, !.owner[p] = u, !.gen[p] = n]

WithNewKey(d, p) == [d EXCEPT !.gen[p] = @ + 1]

-----------------------------------------------------------------------------
(* Tasks.                                                                  *)

Reading == {"iface", "groups", "peers", "owner", "claims"}
Phases  == Reading \cup
           {"idle", "list", "apply", "noteOk", "noteErr", "drop", "grant", "stamp"}

\* scope says which interfaces the request syncs, strict whether the first
\* failure ends it, todo the interfaces listed and not yet begun.
NoPlan == [scope |-> "one", strict |-> TRUE, only |-> NoGroup, who |-> NoUser, todo |-> {}]

\* cur is the interface being synced (0: none), refs its group_ids, admitted
\* what those groups admit, rows the devices still to be examined, asking the
\* device whose owner's claims are read next, out the devices to push.
NoSnap == [cur |-> 0, refs |-> {}, admitted |-> {}, rows |-> {}, asking |-> {}, out |-> {}]

Plans == [scope : {"one", "all", "group"}, strict : BOOLEAN, only : Groups \cup {NoGroup},
          who : Users \cup {NoUser}, todo : SUBSET Ifaces]

Snaps == [cur : Ifaces \cup {0}, refs : SUBSET Groups, admitted : SUBSET (Users \cup Claims),
          rows : SUBSET Keys, asking : SUBSET Keys, out : SUBSET Keys]

\* The history of a sync: whether nothing was committed since it began, the
\* keys that no row has carried ever since, and the users who have been out of
\* good standing ever since.
Hists == [fresh : BOOLEAN, gone : SUBSET Keys, barred : SUBSET Users]

NoHist == [fresh |-> FALSE, gone |-> {}, barred |-> {}]

Begun(d) ==
  [fresh  |-> TRUE,
   gone   |-> {k \in Keys : ~Current(d, k)},
   barred |-> {u \in Users : ~InGoodStanding(d, u)}]

\* That history when the tables become d.
Aged(h, d) ==
  [fresh  |-> h.fresh /\ d = db,
   gone   |-> {k \in h.gone : ~Current(d, k)},
   barred |-> {u \in h.barred : ~InGoodStanding(d, u)}]

\* Task s goes on with phase ph, plan p and snapshot sn, the tables become d.
Goto(s, ph, p, sn, h, d) ==
  /\ db' = d
  /\ pc' = [pc EXCEPT ![s] = ph]
  /\ plan' = [plan EXCEPT ![s] = p]
  /\ snap' = [snap EXCEPT ![s] = sn]
  /\ hist' = [t \in Tasks |-> IF t = s THEN h ELSE Aged(hist[t], d)]

StartSync(s, i, p, d) ==
  Goto(s, "iface", p, [NoSnap EXCEPT !.cur = i], Begun(d), d)

Finish(s, d) == Goto(s, "idle", NoPlan, NoSnap, NoHist, d)

\* The loop over the listed interfaces, ORDER BY created_at.
Continue(s, p) ==
  \/ p.todo = {} /\ Finish(s, db)
  \/ \E i \in p.todo :
       /\ \A j \in p.todo : i =< j
       /\ StartSync(s, i, [p EXCEPT !.todo = @ \ {i}], db)

\* What a handler does after its own statement: sync(interface), sync_all or
\* sync_groups_interfaces.
SyncOne(s, i, d) == StartSync(s, i, NoPlan, d)

SyncAll(s, d) == Goto(s, "list", [NoPlan EXCEPT !.scope = "all"], NoSnap, NoHist, d)

SyncReferencing(s, g, d) ==
  Goto(s, "list", [NoPlan EXCEPT !.scope = "group", !.strict = FALSE, !.only = g],
       NoSnap, NoHist, d)

BestEffortAll == [NoPlan EXCEPT !.scope = "all", !.strict = FALSE]

-----------------------------------------------------------------------------
(* The handlers: what a request does up to its first await after the write.*)

Serving == pc[Boot] = "idle"

Accept(s, kind) == s \in Slots /\ Serving /\ pc[s] = "idle" /\ kind \in Kinds

Elsewhere == UNCHANGED <<backend, lastError, crashes>>

\* A handler of a single statement that syncs nothing.
Commit(kind, d) ==
  /\ Serving /\ kind \in Kinds
  /\ db' = d
  /\ hist' = [t \in Tasks |-> Aged(hist[t], d)]
  /\ UNCHANGED <<pc, plan, snap>>
  /\ Elsewhere

\* admin_create_interface, interface_create.  group_ids is not checked, but a
\* caller only knows the ids of groups that exist or existed.
CreateInterface(s, i, gs) ==
  /\ Accept(s, "interface")
  /\ gs \subseteq db.spent
  /\ \A j \in Ifaces \cap db.spent : j < i
  /\ SyncOne(s, i, WithInterface(db, i, gs))
  /\ Elsewhere

\* admin_update_interface, interface_update: the groups are what it changes here.
UpdateInterface(s, i, gs) ==
  /\ Accept(s, "interface")
  /\ i \in db.ifaces /\ gs \subseteq db.spent
  /\ SyncOne(s, i, WithRefs(db, i, gs))
  /\ Elsewhere

\* admin_resync_interface, interface_resync.
ResyncInterface(s, i) ==
  /\ Accept(s, "resync")
  /\ SyncOne(s, i, db)
  /\ Elsewhere

\* delete_interface: the backend is told first and its answer is ignored; a
\* backend that fails half way keeps the devices it had not yet removed ...
RemoveInterface(s, i) ==
  /\ Accept(s, "interface")
  /\ i \in db.ifaces
  /\ Goto(s, "drop", NoPlan, [NoSnap EXCEPT !.cur = i], NoHist, db)
  /\ \/ backend' = [backend EXCEPT ![i] = {}]
     \/ /\ "fault" \in Kinds
        /\ \E part \in SUBSET backend[i] : backend' = [backend EXCEPT ![i] = part]
  /\ UNCHANGED <<lastError, crashes>>

\* ... then the row is deleted, and its devices with it.
DropInterface(s) ==
  LET i == snap[s].cur IN
  /\ pc[s] = "drop"
  /\ Finish(s, WithoutInterface(db, i))
  /\ lastError' = [lastError EXCEPT ![i] = FALSE]
  /\ UNCHANGED <<backend, crashes>>

CreateGroup(g, adm) ==
  /\ g \notin db.spent
  /\ Commit("group", WithGroup(db, g, adm))

UpdateGroup(s, g, adm) ==
  /\ Accept(s, "group")
  /\ g \in db.groups
  /\ SyncReferencing(s, g, WithAdmits(db, g, adm))
  /\ Elsewhere

\* Mutant: the interfaces of a deleted group are not synced.
DeleteGroupUnsynced(s, g) ==
  /\ Accept(s, "group")
  /\ g \in db.groups
  /\ Finish(s, WithoutGroup(db, g))
  /\ Elsewhere

DeleteGroup(s, g) ==
  /\ Accept(s, "group")
  /\ g \in db.groups
  /\ SyncReferencing(s, g, WithoutGroup(db, g))
  /\ Elsewhere

CreateUser(u) == u \notin db.spent /\ Commit("user", WithUser(db, u))

\* A login: resolve_user upserts and refuses a banned account, then
\* resolve_user_ctx replaces the provider's claims and records the login.
\* A bearer token only records the login, or signs up like a login.
SignIn(s, u) ==
  /\ Accept(s, "signin")
  /\ u \notin db.banned
  /\ \E ph \in {"grant", "stamp"} :
       \/ u \in db.users /\ Goto(s, ph, [NoPlan EXCEPT !.who = u], NoSnap, NoHist, db)
       \/ u \notin db.spent
          /\ Goto(s, ph, [NoPlan EXCEPT !.who = u], NoSnap, NoHist, WithUser(db, u))
  /\ Elsewhere

\* set_provider_groups; the foreign key refuses a user deleted meanwhile.
GrantClaims(s, pr, cs) ==
  LET u == plan[s].who IN
  /\ pc[s] = "grant"
  /\ IF u \in db.users
       THEN Goto(s, "stamp", plan[s], NoSnap, NoHist, WithClaims(db, u, pr, cs))
       ELSE Finish(s, db)
  /\ Elsewhere

\* record_login pushes live_until out; nothing is synced.
RecordLogin(s) ==
  /\ pc[s] = "stamp"
  /\ Finish(s, WithLogin(db, plan[s].who))
  /\ Elsewhere

\* The last statement of a deletion or a login fails: what came before it stays.
TailFails(s) ==
  /\ pc[s] \in {"drop", "grant", "stamp"} /\ "fault" \in Kinds
  /\ Finish(s, db)
  /\ Elsewhere

SetBanned(s, u, on) ==
  /\ Accept(s, "access")
  /\ SyncAll(s, WithBan(db, u, on))
  /\ Elsewhere

SetRevoked(s, u, on) ==
  /\ Accept(s, "access")
  /\ SyncAll(s, WithRevocation(db, u, on))
  /\ Elsewhere

DeleteUser(s, u) ==
  /\ Accept(s, "user")
  /\ SyncAll(s, WithoutUser(db, u))
  /\ Elsewhere

\* create_my_device, admin_create_device, peer_create, with a key.
CreateDevice(s, p, i, u) ==
  /\ Accept(s, "device")
  /\ p \notin db.spent
  /\ i \in db.ifaces /\ u \in db.users \cup {NoUser}
  /\ MaxGen > 0
  /\ SyncOne(s, i, WithDevice(db, p, i, u, 1))
  /\ Elsewhere

\* create_peer_unconfigured: its callers return without a sync.
CreateUnconfigured(p, i, u) ==
  /\ p \notin db.spent
  /\ i \in db.ifaces /\ u \in db.users \cup {NoUser}
  /\ Commit("device", WithDevice(db, p, i, u, 0))

RegeneratePeer(s, p) ==
  /\ Accept(s, "device")
  /\ p \in db.peers
  /\ db.gen[p] < MaxGen
  /\ SyncOne(s, db.home[p], WithNewKey(db, p))
  /\ Elsewhere

DeletePeer(s, p) ==
  /\ Accept(s, "device")
  /\ p \in db.peers
  /\ SyncOne(s, db.home[p], WithoutPeers(db, {p}))
  /\ Elsewhere

-----------------------------------------------------------------------------
(* The sync.                                                               *)

\* A step of the running sync of task s: no row changes.
Sync(s, ph, sn) == Goto(s, ph, plan[s], sn, hist[s], db)

\* list_interfaces, filtered by sync_groups_interfaces to the group's own.
ListInterfaces(s) ==
  LET p == plan[s] IN
  /\ pc[s] = "list"
  /\ Continue(s, [p EXCEPT !.todo =
       {i \in db.ifaces : p.scope = "group" => p.only \in db.refs[i]}])
  /\ Elsewhere

\* A failing list ends the request, or the best-effort loop before it began.
ListFails(s) ==
  /\ pc[s] = "list" /\ "fault" \in Kinds
  /\ Finish(s, db)
  /\ Elsewhere

\* get_interface, which sync_interface and list_active_peers both call: a row
\* read the first time is either read the second time or gone.
ReadInterface(s) ==
  /\ pc[s] = "iface"
  /\ snap[s].cur \in db.ifaces
  /\ Sync(s, "groups", [snap[s] EXCEPT !.refs = db.refs[snap[s].cur]])
  /\ Elsewhere

\* Mutant: the groups are read without WHERE id = ANY(group_ids).
ReadAllGroups(s) ==
  /\ pc[s] = "groups"
  /\ Sync(s, "peers", [snap[s] EXCEPT !.admitted = Admitted(db, Groups)])
  /\ Elsewhere

ReadGroups(s) ==
  /\ pc[s] = "groups"
  /\ Sync(s, "peers", [snap[s] EXCEPT !.admitted = Admitted(db, snap[s].refs)])
  /\ Elsewhere

\* The device examined next, if any is left.
Examine(rows) == IF rows = {} THEN "apply" ELSE "owner"

\* Mutant: list_peers without WHERE interface_id = $1.
ReadPeersAnywhere(s) ==
  LET listed == {k \in Keys : Current(db, k)}
      owned  == {k \in listed : OwnerOf(db, k) # NoUser}
  IN
  /\ pc[s] = "peers"
  /\ Sync(s, Examine(owned), [snap[s] EXCEPT !.rows = owned, !.out = listed \ owned])
  /\ Elsewhere

\* list_peers: devices without a key are skipped, unowned ones pushed.
ReadPeers(s) ==
  LET listed == Configured(db, snap[s].cur)
      owned  == {k \in listed : OwnerOf(db, k) # NoUser}
  IN
  /\ pc[s] = "peers"
  /\ Sync(s, Examine(owned), [snap[s] EXCEPT !.rows = owned, !.out = listed \ owned])
  /\ Elsewhere

\* Mutant: the owner's row is only looked for.
ReadOwnerExists(s, k) ==
  LET rest == snap[s].rows \ {k} IN
  /\ pc[s] = "owner"
  /\ k \in snap[s].rows
  /\ IF OwnerOf(db, k) \in db.users
       THEN Sync(s, "claims", [snap[s] EXCEPT !.rows = rest, !.asking = {k}])
       ELSE Sync(s, Examine(rest), [snap[s] EXCEPT !.rows = rest])
  /\ Elsewhere

\* Mutant: access_revoked is not looked at.
ReadOwnerUnrevoked(s, k) ==
  LET rest == snap[s].rows \ {k} IN
  /\ pc[s] = "owner"
  /\ k \in snap[s].rows
  /\ IF OwnerOf(db, k) \in (db.users \cap db.live) \ db.banned
       THEN Sync(s, "claims", [snap[s] EXCEPT !.rows = rest, !.asking = {k}])
       ELSE Sync(s, Examine(rest), [snap[s] EXCEPT !.rows = rest])
  /\ Elsewhere

\* One device's owner: banned, access_revoked and live_until > now() are read
\* together.  A missing row or an owner out of standing leaves the device out.
\* An owner never changes, so the row read by ReadPeers still names this one.
ReadOwner(s, k) ==
  LET rest == snap[s].rows \ {k} IN
  /\ pc[s] = "owner"
  /\ k \in snap[s].rows
  /\ IF InGoodStanding(db, OwnerOf(db, k))
       THEN Sync(s, "claims", [snap[s] EXCEPT !.rows = rest, !.asking = {k}])
       ELSE Sync(s, Examine(rest), [snap[s] EXCEPT !.rows = rest])
  /\ Elsewhere

\* user_claim_groups, and the decision on the device.
ReadClaims(s, k) ==
  LET u == OwnerOf(db, k)
      granted == AccessGranted(snap[s].admitted, u, ClaimGroups(db, u))
  IN
  /\ pc[s] = "claims"
  /\ k \in snap[s].asking
  /\ Sync(s, Examine(snap[s].rows),
          [snap[s] EXCEPT !.asking = {}, !.out = IF granted THEN @ \cup {k} ELSE @])
  /\ Elsewhere

\* Mutant: sync_all logs a failure and goes on, then answers success.
SyncFailedLogged(s) == Continue(s, plan[s])

\* Mutant: the best-effort loop tries a failing interface again at once.
SyncFailedRetried(s) ==
  IF plan[s].strict THEN Finish(s, db) ELSE StartSync(s, snap[s].cur, plan[s], db)

\* The ? of a failing sync: sync_interface's caller stops, or logs and goes on.
SyncFailed(s) == IF plan[s].strict THEN Finish(s, db) ELSE Continue(s, plan[s])

\* The interface is gone, or a statement or build_backend fails: the error
\* leaves sync_interface before last_error is written.
SyncError(s) ==
  /\ pc[s] \in Reading
  /\ \/ pc[s] = "iface" /\ snap[s].cur \notin db.ifaces
     \/ "fault" \in Kinds
  /\ SyncFailed(s)
  /\ Elsewhere

\* backend.apply leaves exactly the pushed devices.
ApplyOk(s) ==
  /\ pc[s] = "apply"
  /\ Sync(s, "noteOk", snap[s])
  /\ backend' = [backend EXCEPT ![snap[s].cur] = snap[s].out]
  /\ UNCHANGED <<lastError, crashes>>

\* A failing apply may have done any part of its work: a backend that works
\* device by device removes some and adds some, a lost answer hides it all.
ApplyFails(s) ==
  LET i == snap[s].cur IN
  /\ pc[s] = "apply" /\ "fault" \in Kinds
  /\ Sync(s, "noteErr", snap[s])
  /\ \E part \in SUBSET (backend[i] \cup snap[s].out) :
       /\ backend[i] \cap snap[s].out \subseteq part
       /\ backend' = [backend EXCEPT ![i] = part]
  /\ UNCHANGED <<lastError, crashes>>

\* UPDATE last_error: no row, no effect; its own failure is ignored.
Note(s) ==
  LET i == snap[s].cur IN
  /\ pc[s] \in {"noteOk", "noteErr"}
  /\ IF pc[s] = "noteOk" THEN Continue(s, plan[s]) ELSE SyncFailed(s)
  /\ \/ lastError' = [lastError EXCEPT ![i] = i \in db.ifaces /\ pc[s] = "noteErr"]
     \/ "fault" \in Kinds /\ UNCHANGED lastError
  /\ UNCHANGED <<backend, crashes>>

-----------------------------------------------------------------------------
(* The environment, and the whole.                                         *)

\* live_until of u passes: no statement runs.
Lapse(u) == u \in db.live /\ Commit("lapse", [db EXCEPT !.live = @ \ {u}])

\* The process dies and starts again: requests in flight are gone, the rows
\* and the backends stay, init_server syncs every interface.  Assumed of the
\* environment: a call under way when the process dies has had its effect, in
\* full (ApplyOk), in part (ApplyFails) or not at all, before the restart.  One
\* that a node or a child command carries out after the boot sync is left out.
Crash ==
  /\ "crash" \in Kinds
  /\ crashes < MaxCrashes
  /\ crashes' = crashes + 1
  /\ pc'   = [t \in Tasks |-> IF t = Boot THEN "list" ELSE "idle"]
  /\ plan' = [t \in Tasks |-> IF t = Boot THEN BestEffortAll ELSE NoPlan]
  /\ snap' = [t \in Tasks |-> NoSnap]
  /\ hist' = [t \in Tasks |-> NoHist]
  /\ UNCHANGED <<db, backend, lastError>>

Init ==
  /\ db \in Start
  /\ backend = [i \in Ifaces |-> {}]
  /\ lastError = [i \in Ifaces |-> FALSE]
  /\ pc   = [t \in Tasks |-> IF t = Boot THEN "list" ELSE "idle"]
  /\ plan = [t \in Tasks |-> IF t = Boot THEN BestEffortAll ELSE NoPlan]
  /\ snap = [t \in Tasks |-> NoSnap]
  /\ hist = [t \in Tasks |-> NoHist]
  /\ crashes = 0

InterfaceRequest(s) ==
  \E i \in Ifaces :
    \/ \E gs \in SUBSET Groups : CreateInterface(s, i, gs) \/ UpdateInterface(s, i, gs)
    \/ ResyncInterface(s, i)
    \/ RemoveInterface(s, i)

GroupRequest(s) ==
  \E g \in Groups :
    \/ \E adm \in SUBSET (Users \cup Claims) : CreateGroup(g, adm) \/ UpdateGroup(s, g, adm)
    \/ DeleteGroup(s, g)

UserRequest(s) ==
  \E u \in Users :
    \/ CreateUser(u)
    \/ SignIn(s, u)
    \/ \E on \in BOOLEAN : SetBanned(s, u, on) \/ SetRevoked(s, u, on)
    \/ DeleteUser(s, u)

DeviceRequest(s) ==
  \E p \in Peers :
    \/ \E i \in Ifaces, u \in Users \cup {NoUser} :
         CreateDevice(s, p, i, u) \/ CreateUnconfigured(p, i, u)
    \/ RegeneratePeer(s, p)
    \/ DeletePeer(s, p)

\* The steps a task owes once its request or the boot has begun.
Step(s) ==
  \/ ListInterfaces(s) \/ ListFails(s)
  \/ ReadInterface(s) \/ ReadGroups(s) \/ ReadPeers(s)
  \/ \E k \in Keys : ReadOwner(s, k) \/ ReadClaims(s, k)
  \/ SyncError(s) \/ ApplyOk(s) \/ ApplyFails(s) \/ Note(s)
  \/ DropInterface(s) \/ TailFails(s)
  \/ \E pr \in Providers, cs \in SUBSET Claims : GrantClaims(s, pr, cs)
  \/ RecordLogin(s)

Next ==
  \/ \E s \in Slots :
       InterfaceRequest(s) \/ GroupRequest(s) \/ UserRequest(s) \/ DeviceRequest(s)
  \/ \E s \in Tasks : Step(s)
  \/ \E u \in Users : Lapse(u)
  \/ Crash

Spec == Init /\ [][Next]_vars

\* The runtime polls every started task to its end; nobody has to send a request.
FairSpec == Spec /\ \A s \in Tasks : WF_vars(Step(s))
-----------------------------------------------------------------------------
(* Properties.                                                             *)

\* Every variable has its type and the foreign keys of wg_peers hold.
TypeOK ==
  /\ db \in Tables /\ Consistent(db)
  /\ backend \in [Ifaces -> SUBSET Keys]
  /\ lastError \in [Ifaces -> BOOLEAN]
  /\ pc \in [Tasks -> Phases]
  /\ plan \in [Tasks -> Plans]
  /\ snap \in [Tasks -> Snaps]
  /\ hist \in [Tasks -> Hists]
  /\ crashes \in 0..MaxCrashes

\* A sync that no commit overlapped pushes exactly the devices that are
\* permitted: whatever the interleaving of its statements with the syncs of
\* others, list_active_peers' loop computes Active.
FreshSyncExact ==
  \A s \in Tasks :
    pc[s] = "apply" /\ hist[s].fresh => snap[s].out = Active(db, snap[s].cur)

\* However many commits overlap a sync, it never pushes a device that was
\* deleted, or whose key was replaced, or whose owner was banned, revoked,
\* lapsed or deleted, all the time since the sync began: a torn read may mix
\* states, but each of these stands in a row the sync reads once, whole.
ShutStaysOut ==
  \A s \in Tasks : pc[s] = "apply" =>
    \A k \in snap[s].out : k \notin hist[s].gone /\ OwnerOf(db, k) \notin hist[s].barred

\* No backend holds a device of another interface, though one loop serves all
\* interfaces and devices and interfaces go while it runs.
OwnDevicesOnly ==
  \A i \in Ifaces : \A k \in backend[i] : k[1] \in db.spent /\ db.home[k[1]] = i

\* With no request in flight every backend holds exactly the permitted devices
\* of its interface, and that of a deleted interface none: "Editing a
\* group/interface re-syncs immediately, so access is granted/revoked in real
\* time" (README.md:18-19), and likewise for every other request that syncs.
QuiescentExact ==
  (\A s \in Tasks : pc[s] = "idle") => \A i \in Ifaces : backend[i] = Active(db, i)

\* A ban, a revocation or a deletion of a user that answers success has been
\* enforced on every interface, though any sync on the way may fail.
SuccessMeansEnforced ==
  [][\A s \in Slots :
       pc[s] = "noteOk" /\ pc'[s] = "idle" /\ crashes' = crashes
       /\ plan[s].strict /\ plan[s].scope = "all"
       => \A i \in db.ifaces : backend[i] = Active(db, i)]_vars

\* A bound on the statements and calls a task has left: the rest of this sync,
\* at most two statements for every device still to be examined, and a whole
\* sync for every interface that was listed.
WholeSync == 2 * Cardinality(Keys) + 6

RestOfSync(s) ==
  CASE pc[s] = "iface"  -> 2 * Cardinality(Keys) + 5
    [] pc[s] = "groups" -> 2 * Cardinality(Keys) + 4
    [] pc[s] = "peers"  -> 2 * Cardinality(Keys) + 3
    [] pc[s] = "owner"  -> 2 * Cardinality(snap[s].rows) + 2
    [] pc[s] = "claims" -> 2 * Cardinality(snap[s].rows) + 3
    [] pc[s] \in {"apply", "grant"} -> 2
    [] OTHER -> 1

Left(s) ==
  CASE pc[s] = "idle" -> 0
    [] pc[s] = "list" -> Cardinality(Ifaces) * WholeSync + 1
    [] OTHER -> Cardinality(plan[s].todo) * WholeSync + RestOfSync(s)

\* Whatever fails, and whatever others add meanwhile, no request and no boot
\* runs for ever: the loops go over what was listed when they began, a failing
\* interface is not tried again, so every step of a task leaves it less to do,
\* and what others do leaves it no more.
EveryTaskEnds ==
  [][\A s \in Tasks :
       pc[s] # "idle" /\ crashes' = crashes
       => IF Step(s) THEN Left(s)' < Left(s) ELSE UNCHANGED <<pc[s], plan[s], snap[s]>>]_vars

Served(u, i) == \E k \in backend[i] : OwnerOf(db, k) = u

Granted(u, i) == AccessGranted(Admitted(db, db.refs[i]), u, ClaimGroups(db, u))

\* "A user whose `live_until` has passed is deactivated - their devices drop
\* until they log in again" (server/src/store.rs:251-253): whoever lapses is
\* renewed, or has no device on any backend in the end.
LapseTakesHold ==
  \A u \in Users :
    u \in db.users \ db.live
      ~> u \in db.live \/ \A i \in Ifaces : ~Served(u, i)

\* "re-login via a provider refreshes exactly that provider's set (so IdP-side
\* removals revoke on next login)" (server/migrations/0008_groups.sql:32-34):
\* whoever is in good standing but not granted an interface is granted it
\* again, falls out of standing, or has no device on its backend in the end.
LoginTakesHold ==
  \A u \in Users, i \in Ifaces :
    InGoodStanding(db, u) /\ ~Granted(u, i)
      ~> ~InGoodStanding(db, u) \/ Granted(u, i) \/ ~Served(u, i)

\* One of the two promises is kept: a behaviour that violates this breaks both,
\* with a user who lapsed and another who lost his claims at a login still
\* served for ever.  Neither a lapse nor a login syncs anything.
LapseOrLoginTakesHold == LapseTakesHold \/ LoginTakesHold
=============================================================================
