-------------------------- MODULE Enforcement_proofs --------------------------
(***************************************************************************)
(* What requests that do not overlap achieve: with one slot, and as long as *)
(* nobody lapses, an answer of success means enforced, and with neither     *)
(* failures nor logins, which sync nothing, every backend is exact whenever *)
(* the server rests, restarts included.                                    *)
(*                                                                         *)
(* Then at most one task runs.  The invariant J says of it, besides what    *)
(* TaskInv says of a sync nothing was committed during, which interfaces   *)
(* it has still to sync: all others are as the tables would have them.     *)
(***************************************************************************)
EXTENDS DeviceSync_proofs, DeviceSyncPromise

OneAtATime == (\A s, t \in Slots : s = t) /\ "lapse" \notin Kinds

\* Nothing fails, and every request but CreateGroup, CreateUser and
\* CreateUnconfigured, which permit nobody and nothing new, ends in a sync: a
\* login changes who is permitted and syncs nothing.
SyncsOnly == "fault" \notin Kinds /\ "signin" \notin Kinds

-----------------------------------------------------------------------------
(* The invariant.                                                          *)

\* All tasks but s are at rest.
Turn(s) == \A t \in Tasks \ {s} : pc[t] = "idle"

Clean == [fresh |-> TRUE, gone |-> {}, barred |-> {}]

\* What the sync has read is what the tables hold.
Sure(d, ph, sn) == TaskInv(d, ph, sn, Clean)

Syncing == Reading \cup {"apply", "noteOk", "noteErr"}

\* The interfaces a task has still to sync.
Ahead(ph, p, sn) == p.todo \cup (IF ph = "noteOk" THEN {} ELSE {sn.cur})

Owed(d, ph, p, sn) ==
  {i \in d.ifaces :
     \/ ph = "list" /\ (p.scope = "group" => p.only \in d.refs[i])
     \/ ph \in Syncing \cup {"drop"} /\ i \in Ahead(ph, p, sn)}

\* sync_all, failures allowed: it has enforced what is behind it.
Behind(d, b, ph, p, sn) ==
  ph \in Syncing /\ p.strict /\ p.scope = "all"
    => \A i \in d.ifaces \ Ahead(ph, p, sn) : b[i] = Active(d, i)

\* Any request, without failures: what is not exact is still to be synced.
Settles(d, b, ph, p, sn) ==
  /\ \A i \in Ifaces : b[i] = Active(d, i) \/ i \in Owed(d, ph, p, sn)
  /\ ph \in Syncing /\ p.todo # {} => {sn.cur} \cup p.todo \subseteq d.ifaces
  /\ ph = "drop" => p.todo = {} /\ b[sn.cur] = {}
  /\ ph \notin {"noteErr", "grant", "stamp"}

\* group_ids names no group that is yet to be made.
Referenced(d) == \A i \in Ifaces : d.refs[i] \subseteq d.spent

J ==
  /\ IInv
  /\ Referenced(db)
  /\ \E s \in Tasks : Turn(s)
  /\ \A s \in Tasks : /\ Sure(db, pc[s], snap[s])
                      /\ Behind(db, backend, pc[s], plan[s], snap[s])
                      /\ SyncsOnly /\ Turn(s) => Settles(db, backend, pc[s], plan[s], snap[s])

-----------------------------------------------------------------------------
(* Whom a statement concerns.                                              *)

LEMMA NoInterface ==
  ASSUME NEW d \in Tables, Consistent(d), NEW i \in Ifaces \ d.ifaces
  PROVE  Active(d, i) = {}
BY DEF Active, Configured, Current, Consistent

\* The rows of users and their claims.
Accounts(d) == <<d.users, d.banned, d.revoked, d.live, d.claims>>

LEMMA SameActive ==
  ASSUME NEW d, NEW e, NEW i \in Ifaces,
         Configured(e, i) = Configured(d, i),
         \A k \in Configured(d, i) : OwnerOf(e, k) = OwnerOf(d, k),
         Accounts(e) = Accounts(d),
         Admitted(e, e.refs[i]) = Admitted(d, d.refs[i])
  PROVE  Active(e, i) = Active(d, i)
<1>1. \A u : InGoodStanding(e, u) <=> InGoodStanding(d, u)
  BY DEF Accounts, InGoodStanding
<1>2. \A u : ClaimGroups(e, u) = ClaimGroups(d, u)
  BY DEF Accounts, ClaimGroups
<1>3. \A k \in Configured(d, i) : Permitted(e, i, k) <=> Permitted(d, i, k)
  BY <1>1, <1>2 DEF Permitted
<1> QED BY <1>3 DEF Active

LEMMA RefsConcern ==
  ASSUME NEW d \in Tables, NEW i \in Ifaces, NEW gs \in SUBSET Groups
  PROVE  \A j \in Ifaces \ {i} : /\ Active(WithInterface(d, i, gs), j) = Active(d, j)
                                 /\ Active(WithRefs(d, i, gs), j) = Active(d, j)
<1> TAKE j \in Ifaces \ {i}
<1>1. ASSUME NEW e, e \in {WithInterface(d, i, gs), WithRefs(d, i, gs)}
      PROVE  Active(e, j) = Active(d, j)
  <2>1. /\ e.peers = d.peers /\ e.home = d.home /\ e.owner = d.owner /\ e.gen = d.gen
        /\ e.refs[j] = d.refs[j] /\ e.admits = d.admits /\ e.groups = d.groups
        /\ Accounts(e) = Accounts(d)
    BY <1>1 DEF WithInterface, WithRefs, Tables, Accounts
  <2>2. Configured(e, j) = Configured(d, j)
    BY <2>1 DEF Configured, Current
  <2>3. \A k : OwnerOf(e, k) = OwnerOf(d, k)
    BY <2>1 DEF OwnerOf
  <2>4. Admitted(e, e.refs[j]) = Admitted(d, d.refs[j])
    BY <2>1 DEF Admitted
  <2> QED BY <2>1, <2>2, <2>3, <2>4, SameActive
<1> QED BY <1>1

LEMMA GroupConcerns ==
  ASSUME NEW d \in Tables, NEW g \in Groups, NEW adm \in SUBSET (Users \cup Claims)
  PROVE  \A j \in Ifaces : g \notin d.refs[j] =>
           /\ Active(WithAdmits(d, g, adm), j) = Active(d, j)
           /\ Active(WithoutGroup(d, g), j) = Active(d, j)
<1> SUFFICES ASSUME NEW j \in Ifaces, g \notin d.refs[j],
                    NEW e, e \in {WithAdmits(d, g, adm), WithoutGroup(d, g)}
             PROVE  Active(e, j) = Active(d, j)
  OBVIOUS
<1>1. /\ e.peers = d.peers /\ e.home = d.home /\ e.owner = d.owner /\ e.gen = d.gen
      /\ e.refs = d.refs /\ Accounts(e) = Accounts(d)
      /\ e.groups \ {g} = d.groups \ {g}
      /\ \A x \in Groups \ {g} : e.admits[x] = d.admits[x]
  <2>1. CASE e = WithAdmits(d, g, adm)
    BY <2>1 DEF WithAdmits, Tables, Accounts
  <2>2. CASE e = WithoutGroup(d, g)
    BY <2>2 DEF WithoutGroup, Tables, Accounts
  <2> QED BY <2>1, <2>2
<1>2. Configured(e, j) = Configured(d, j)
  BY <1>1 DEF Configured, Current
<1>3. \A k : OwnerOf(e, k) = OwnerOf(d, k)
  BY <1>1 DEF OwnerOf
<1>4. Admitted(e, e.refs[j]) = Admitted(d, d.refs[j])
  <2>1. e.refs[j] \cap e.groups = d.refs[j] \cap d.groups
    BY <1>1
  <2>2. d.refs[j] \cap d.groups \subseteq Groups \ {g}
    BY DEF Tables
  <2>3. {e.admits[x] : x \in e.refs[j] \cap e.groups}
          = {d.admits[x] : x \in d.refs[j] \cap d.groups}
    BY <1>1, <2>1, <2>2
  <2> QED BY <2>3 DEF Admitted
<1> QED BY <1>1, <1>2, <1>3, <1>4, SameActive

\* Statements on one device.
LEMMA DeviceConcerns ==
  ASSUME NEW d \in Tables, Consistent(d), NEW e, NEW p \in Peers, NEW i \in Ifaces,
         Accounts(e) = Accounts(d), e.refs = d.refs, e.groups = d.groups, e.admits = d.admits,
         e.home[p] = i,
         p \in d.peers => d.home[p] = i,
         e.peers \ {p} = d.peers \ {p},
         \A q \in Peers \ {p} : /\ e.home[q] = d.home[q] /\ e.owner[q] = d.owner[q]
                                /\ e.gen[q] = d.gen[q]
  PROVE  \A j \in Ifaces \ {i} : Active(e, j) = Active(d, j)
<1> TAKE j \in Ifaces \ {i}
<1>1. Configured(e, j) = Configured(d, j)
  <2>1. ASSUME NEW k \in Keys
        PROVE  k \in Configured(e, j) <=> k \in Configured(d, j)
    <3>1. CASE k[1] = p
      BY <3>1 DEF Configured, Current
    <3>2. CASE k[1] # p
      BY <3>2 DEF Configured, Current, Tables
    <3> QED BY <3>1, <3>2
  <2> QED BY <2>1 DEF Configured
<1>2. ASSUME NEW k \in Configured(d, j)
      PROVE  OwnerOf(e, k) = OwnerOf(d, k)
  BY <1>2 DEF Configured, Current, OwnerOf, Tables
<1>3. Admitted(e, e.refs[j]) = Admitted(d, d.refs[j])
  BY DEF Admitted
<1> QED BY <1>1, <1>2, <1>3, SameActive

LEMMA PeerStatementsConcern ==
  ASSUME NEW d \in Tables, Consistent(d), NEW p \in Peers
  PROVE  /\ \A i \in Ifaces, u \in Users \cup {NoUser}, n \in 0..MaxGen :
              p \notin d.spent =>
                \A j \in Ifaces \ {i} : Active(WithDevice(d, p, i, u, n), j) = Active(d, j)
         /\ \A j \in Ifaces \ {d.home[p]} :
              /\ Active(WithNewKey(d, p), j) = Active(d, j)
              /\ Active(WithoutPeers(d, {p}), j) = Active(d, j)
<1>1. ASSUME NEW i \in Ifaces, NEW u \in Users \cup {NoUser}, NEW n \in 0..MaxGen,
             p \notin d.spent
      PROVE  \A j \in Ifaces \ {i} : Active(WithDevice(d, p, i, u, n), j) = Active(d, j)
  <2> DEFINE e == WithDevice(d, p, i, u, n)
  <2>1. /\ Accounts(e) = Accounts(d) /\ e.refs = d.refs /\ e.groups = d.groups
        /\ e.admits = d.admits /\ e.home[p] = i /\ e.peers = d.peers \cup {p}
        /\ \A q \in Peers \ {p} : /\ e.home[q] = d.home[q] /\ e.owner[q] = d.owner[q]
                                  /\ e.gen[q] = d.gen[q]
    BY DEF WithDevice, Tables, Accounts
  <2>2. p \notin d.peers
    BY <1>1 DEF Consistent
  <2> HIDE DEF e
  <2>3. \A j \in Ifaces \ {i} : Active(e, j) = Active(d, j)
    BY <2>1, <2>2, DeviceConcerns
  <2> QED BY <2>3 DEF e
<1>2. ASSUME NEW e, e \in {WithNewKey(d, p), WithoutPeers(d, {p})}
      PROVE  \A j \in Ifaces \ {d.home[p]} : Active(e, j) = Active(d, j)
  <2>1. /\ Accounts(e) = Accounts(d) /\ e.refs = d.refs /\ e.groups = d.groups
        /\ e.admits = d.admits /\ e.home = d.home /\ e.peers \ {p} = d.peers \ {p}
        /\ \A q \in Peers \ {p} : /\ e.home[q] = d.home[q] /\ e.owner[q] = d.owner[q]
                                  /\ e.gen[q] = d.gen[q]
    <3>1. CASE e = WithNewKey(d, p)
      BY <3>1 DEF WithNewKey, Tables, Accounts
    <3>2. CASE e = WithoutPeers(d, {p})
      BY <3>2 DEF WithoutPeers, Tables, Accounts
    <3> QED BY <1>2, <3>1, <3>2
  <2>2. d.home[p] \in Ifaces
    BY DEF Tables
  <2> QED BY <2>1, <2>2, DeviceConcerns
<1> QED BY <1>1, <1>2

LEMMA DropConcerns ==
  ASSUME NEW d \in Tables, Consistent(d), NEW i
  PROVE  /\ \A j \in Ifaces \ {i} : Active(WithoutInterface(d, i), j) = Active(d, j)
         /\ i \in Ifaces => Active(WithoutInterface(d, i), i) = {}
<1> DEFINE ps == {p \in d.peers : d.home[p] = i}
           e == WithoutInterface(d, i)
<1>1. /\ Accounts(e) = Accounts(d) /\ e.groups = d.groups /\ e.admits = d.admits
      /\ e.home = d.home /\ e.owner = d.owner /\ e.peers = d.peers \ ps
      /\ \A q \in Peers \ ps : e.gen[q] = d.gen[q]
      /\ \A j \in Ifaces \ {i} : e.refs[j] = d.refs[j]
  BY DEF WithoutInterface, WithoutPeers, Tables, Accounts
<1> HIDE DEF e
<1>2. ASSUME NEW j \in Ifaces \ {i}
      PROVE  Active(e, j) = Active(d, j)
  <2>1. ASSUME NEW k \in Keys
        PROVE  k \in Configured(e, j) <=> k \in Configured(d, j)
    BY <1>1 DEF Configured, Current, Tables
  <2>2. Configured(e, j) = Configured(d, j)
    BY <2>1 DEF Configured
  <2>3. \A k : OwnerOf(e, k) = OwnerOf(d, k)
    BY <1>1 DEF OwnerOf
  <2>4. Admitted(e, e.refs[j]) = Admitted(d, d.refs[j])
    BY <1>1 DEF Admitted
  <2> QED BY <1>1, <2>2, <2>3, <2>4, SameActive
<1>3. Configured(e, i) = {}
  BY <1>1 DEF Configured, Current
<1> QED BY <1>2, <1>3 DEF Active, e

-----------------------------------------------------------------------------
(* The requests that sync nothing concern nobody.                          *)

Calm(d, e) ==
  /\ Evolves(d, e) /\ Referenced(e)
  /\ e.ifaces = d.ifaces /\ e.refs = d.refs
  /\ \A i \in Ifaces : /\ Active(e, i) = Active(d, i)
                       /\ Configured(e, i) = Configured(d, i)
                       /\ Admitted(e, e.refs[i]) = Admitted(d, d.refs[i])
  /\ \A u : InGoodStanding(d, u) => InGoodStanding(e, u)

LEMMA NewGroupCalm ==
  ASSUME NEW d \in Tables, Consistent(d), Referenced(d),
         NEW g \in Groups, g \notin d.spent, NEW adm \in SUBSET (Users \cup Claims)
  PROVE  Calm(d, WithGroup(d, g, adm))
<1> DEFINE e == WithGroup(d, g, adm)
<1>1. Evolves(d, e)
  BY SimpleStatementsEvolve
<1>2. /\ e.peers = d.peers /\ e.home = d.home /\ e.owner = d.owner /\ e.gen = d.gen
      /\ e.refs = d.refs /\ e.ifaces = d.ifaces /\ Accounts(e) = Accounts(d)
      /\ e.groups = d.groups \cup {g} /\ d.spent \subseteq e.spent
      /\ \A x \in Groups \ {g} : e.admits[x] = d.admits[x]
  BY DEF WithGroup, Tables, Accounts
<1> HIDE DEF e
<1>3. ASSUME NEW i \in Ifaces
      PROVE  /\ Configured(e, i) = Configured(d, i)
             /\ Admitted(e, e.refs[i]) = Admitted(d, d.refs[i])
             /\ Active(e, i) = Active(d, i)
  <2>1. Configured(e, i) = Configured(d, i)
    BY <1>2 DEF Configured, Current
  <2>2. \A k : OwnerOf(e, k) = OwnerOf(d, k)
    BY <1>2 DEF OwnerOf
  <2>3. g \notin d.refs[i] /\ d.refs[i] \subseteq Groups
    BY DEF Referenced, Tables
  <2>4. Admitted(e, e.refs[i]) = Admitted(d, d.refs[i])
    <3>1. e.refs[i] \cap e.groups = d.refs[i] \cap d.groups
      BY <1>2, <2>3
    <3>2. {e.admits[x] : x \in e.refs[i] \cap e.groups}
            = {d.admits[x] : x \in d.refs[i] \cap d.groups}
      BY <1>2, <2>3, <3>1
    <3> QED BY <3>2 DEF Admitted
  <2> QED BY <1>2, <2>1, <2>2, <2>4, SameActive
<1>4. Referenced(e)
  BY <1>2 DEF Referenced
<1>5. \A u : InGoodStanding(d, u) => InGoodStanding(e, u)
  BY <1>2 DEF InGoodStanding, Accounts
<1> QED BY <1>1, <1>2, <1>3, <1>4, <1>5 DEF Calm, e

LEMMA NewUserCalm ==
  ASSUME NEW d \in Tables, Consistent(d), Referenced(d), NEW u \in Users, u \notin d.spent
  PROVE  Calm(d, WithUser(d, u))
<1> DEFINE e == WithUser(d, u)
<1>1. Evolves(d, e)
  BY WithUserEvolves
<1>2. /\ e.peers = d.peers /\ e.home = d.home /\ e.owner = d.owner /\ e.gen = d.gen
      /\ e.refs = d.refs /\ e.ifaces = d.ifaces /\ e.claims = d.claims
      /\ e.groups = d.groups /\ e.admits = d.admits /\ d.spent \subseteq e.spent
      /\ e.users = d.users \cup {u} /\ e.live = d.live \cup {u}
      /\ e.banned = d.banned /\ e.revoked = d.revoked
  BY DEF WithUser, Tables
<1> HIDE DEF e
<1>3. ASSUME NEW i \in Ifaces
      PROVE  /\ Configured(e, i) = Configured(d, i)
             /\ Admitted(e, e.refs[i]) = Admitted(d, d.refs[i])
             /\ Active(e, i) = Active(d, i)
  <2>1. Configured(e, i) = Configured(d, i)
    BY <1>2 DEF Configured, Current
  <2>2. Admitted(e, e.refs[i]) = Admitted(d, d.refs[i])
    BY <1>2 DEF Admitted
  <2>3. ASSUME NEW k \in Configured(d, i)
        PROVE  Permitted(e, i, k) <=> Permitted(d, i, k)
    <3>1. OwnerOf(e, k) = OwnerOf(d, k)
      BY <1>2 DEF OwnerOf
    <3>2. OwnerOf(d, k) # u
      BY <2>3, ConstantsAssumption DEF Configured, Current, Consistent, OwnerOf
    <3>3. InGoodStanding(e, OwnerOf(d, k)) <=> InGoodStanding(d, OwnerOf(d, k))
      BY <1>2, <3>2 DEF InGoodStanding
    <3>4. ClaimGroups(e, OwnerOf(d, k)) = ClaimGroups(d, OwnerOf(d, k))
      BY <1>2 DEF ClaimGroups
    <3> QED BY <2>2, <3>1, <3>3, <3>4 DEF Permitted
  <2> QED BY <2>1, <2>2, <2>3 DEF Active
<1>4. Referenced(e)
  BY <1>2 DEF Referenced
<1>5. \A x : InGoodStanding(d, x) => InGoodStanding(e, x)
  BY <1>2 DEF InGoodStanding
<1> QED BY <1>1, <1>2, <1>3, <1>4, <1>5 DEF Calm, e

\* A device without a key.
LEMMA NewDeviceCalm ==
  ASSUME NEW d \in Tables, Consistent(d), Referenced(d),
         NEW p \in Peers, p \notin d.spent, NEW i \in d.ifaces, NEW u \in d.users \cup {NoUser}
  PROVE  Calm(d, WithDevice(d, p, i, u, 0))
<1> DEFINE e == WithDevice(d, p, i, u, 0)
<1>1. Evolves(d, e)
  <2>1. 0 \in 0..MaxGen
    BY ConstantsAssumption
  <2> QED BY <2>1, WithDeviceEvolves
<1>2. /\ Accounts(e) = Accounts(d) /\ e.refs = d.refs /\ e.ifaces = d.ifaces
      /\ e.groups = d.groups /\ e.admits = d.admits /\ d.spent \subseteq e.spent
      /\ e.peers = d.peers \cup {p} /\ e.gen[p] = 0
      /\ \A q \in Peers \ {p} : /\ e.home[q] = d.home[q] /\ e.owner[q] = d.owner[q]
                                /\ e.gen[q] = d.gen[q]
  BY DEF WithDevice, Tables, Accounts
<1>3. p \notin d.peers
  BY DEF Consistent
<1> HIDE DEF e
<1>4. ASSUME NEW j \in Ifaces
      PROVE  /\ Configured(e, j) = Configured(d, j)
             /\ Admitted(e, e.refs[j]) = Admitted(d, d.refs[j])
             /\ Active(e, j) = Active(d, j)
  <2>1. ASSUME NEW k \in Keys
        PROVE  k \in Configured(e, j) <=> k \in Configured(d, j)
    <3>1. CASE k[1] = p
      <4>1. k[2] # 0
        BY DEF Keys
      <4> QED BY <1>2, <1>3, <3>1, <4>1 DEF Configured, Current
    <3>2. CASE k[1] # p
      <4>1. k[1] \in Peers \ {p}
        BY <3>2 DEF Keys
      <4> QED BY <1>2, <4>1 DEF Configured, Current
    <3> QED BY <3>1, <3>2
  <2>2. Configured(e, j) = Configured(d, j)
    BY <2>1 DEF Configured
  <2>3. Admitted(e, e.refs[j]) = Admitted(d, d.refs[j])
    BY <1>2 DEF Admitted
  <2>4. \A k \in Configured(d, j) : OwnerOf(e, k) = OwnerOf(d, k)
    BY <1>2, <1>3 DEF Configured, Current, OwnerOf, Keys
  <2> QED BY <1>2, <2>2, <2>3, <2>4, SameActive
<1>5. Referenced(e)
  BY <1>2 DEF Referenced
<1>6. \A x : InGoodStanding(d, x) => InGoodStanding(e, x)
  BY <1>2 DEF InGoodStanding, Accounts
<1> QED BY <1>1, <1>2, <1>4, <1>5, <1>6 DEF Calm, e

LEMMA CalmSure ==
  ASSUME NEW d \in Tables, Consistent(d), NEW e, Calm(d, e),
         NEW ph, NEW sn \in Snaps, Sure(d, ph, sn)
  PROVE  Sure(e, ph, sn)
<1>0. \A k \in Seen(sn) : k[1] \in Peers
  BY DEF Seen, Snaps, Keys
<1>1. ShapeInv(ph, sn)
  BY DEF Sure, TaskInv
<1>2. RowsInv(e, ph, sn)
  BY <1>0 DEF Sure, TaskInv, RowsInv, Calm, Evolves
<1>3. FreshInv(e, ph, sn, Clean)
  <2>1. ph \in {"groups", "peers"} \cup Loop => sn.cur \in Ifaces
    BY <1>1 DEF ShapeInv, Reading, Loop
  <2>2. ph \in Loop => \A k \in sn.rows \cup sn.asking : OwnerOf(e, k) = OwnerOf(d, k)
    <3>1. ASSUME ph \in Loop, NEW k \in sn.rows \cup sn.asking
          PROVE  k[1] \in Peers \cap d.spent
      BY <1>0, <3>1 DEF Sure, TaskInv, RowsInv, Seen
    <3> QED BY <3>1 DEF Calm, Evolves, OwnerOf
  <2>3. Clean.fresh
    BY DEF Clean
  <2> QED BY <2>1, <2>2, <2>3 DEF Sure, TaskInv, FreshInv, Calm
<1>4. ShutInv(e, ph, sn, Clean)
  BY DEF ShutInv, Clean
<1> QED BY <1>1, <1>2, <1>3, <1>4 DEF Sure, TaskInv

\* A statement that moves no task and concerns nobody.
LEMMA CalmKeeps ==
  ASSUME J, IInv', NEW d, Calm(db, d), NEW kind, Commit(kind, d)
  PROVE  J'
<1>1. db' = d /\ UNCHANGED <<pc, plan, snap, backend>>
  BY DEF Commit, Elsewhere
<1>2. db \in Tables /\ Consistent(db) /\ \A s \in Tasks : snap[s] \in Snaps
  BY DEF J, IInv, TypeOK
<1>3. Referenced(db')
  BY <1>1 DEF Calm
<1>4. \E s \in Tasks : \A t \in Tasks \ {s} : pc'[t] = "idle"
  BY <1>1 DEF J, Turn
<1>5. ASSUME NEW s \in Tasks
      PROVE  /\ Sure(d, pc[s], snap[s])
             /\ Behind(d, backend, pc[s], plan[s], snap[s])
             /\ SyncsOnly /\ Turn(s) => Settles(d, backend, pc[s], plan[s], snap[s])
  <2>1. Sure(d, pc[s], snap[s])
    BY <1>2, CalmSure DEF J
  <2>2. Behind(db, backend, pc[s], plan[s], snap[s])
    BY DEF J
  <2>3. d.ifaces = db.ifaces /\ d.refs = db.refs /\ db.ifaces \subseteq Ifaces
        /\ \A i \in Ifaces : Active(d, i) = Active(db, i)
    BY <1>2 DEF Calm, Tables
  <2>4. Behind(d, backend, pc[s], plan[s], snap[s])
    BY <2>2, <2>3 DEF Behind
  <2>5. ASSUME SyncsOnly, Turn(s)
        PROVE  Settles(d, backend, pc[s], plan[s], snap[s])
    <3>1. Settles(db, backend, pc[s], plan[s], snap[s])
      BY <2>5 DEF J
    <3> QED BY <3>1, <2>3 DEF Settles, Owed
  <2> QED BY <2>1, <2>4, <2>5
<1>6. \A s \in Tasks : Turn(s)' <=> Turn(s)
  BY <1>1 DEF Turn
<1>7. \A s \in Tasks : /\ Sure(db, pc[s], snap[s])'
                      /\ Behind(db, backend, pc[s], plan[s], snap[s])'
                      /\ (SyncsOnly /\ Turn(s) => Settles(db, backend, pc[s], plan[s], snap[s]))'
  BY <1>1, <1>5, <1>6
<1> QED BY <1>3, <1>4, <1>7 DEF J, Turn

-----------------------------------------------------------------------------
(* The ways to move, for the one task that runs.                           *)

LEMMA RestIsSure ==
  ASSUME NEW d, NEW ph \in {"idle", "list", "drop", "grant", "stamp"}, NEW sn
  PROVE  Sure(d, ph, sn)
BY DEF Sure, TaskInv, ShapeInv, RowsInv, FreshInv, ShutInv, Clean, Loop, Reading

LEMMA StartIsSure ==
  ASSUME NEW d, NEW i \in Ifaces
  PROVE  Sure(d, "iface", [NoSnap EXCEPT !.cur = i])
BY DEF Sure, TaskInv, ShapeInv, RowsInv, FreshInv, ShutInv, Clean, NoSnap, Loop, Reading

\* A task at rest owes nothing.
LEMMA RestSettles ==
  ASSUME NEW d, NEW b, NEW p, NEW sn
  PROVE  Settles(d, b, "idle", p, sn) <=> \A i \in Ifaces : b[i] = Active(d, i)
BY DEF Settles, Owed, Syncing, Reading

LEMMA Lands ==
  ASSUME J, IInv', NEW s \in Tasks, Turn(s), NEW ph, NEW p, NEW sn, NEW h, NEW d,
         Goto(s, ph, p, sn, h, d), Referenced(d), Sure(d, ph, sn),
         Behind(d, backend', ph, p, sn),
         SyncsOnly => Settles(d, backend', ph, p, sn)
  PROVE  J'
<1>1. /\ pc \in [Tasks -> Phases] /\ plan \in [Tasks -> Plans] /\ snap \in [Tasks -> Snaps]
  BY DEF J, IInv, TypeOK
<1>2. /\ db' = d /\ pc'[s] = ph /\ plan'[s] = p /\ snap'[s] = sn
      /\ \A t \in Tasks \ {s} : pc'[t] = "idle"
  BY <1>1 DEF Goto, Turn
<1>3. ASSUME NEW t \in Tasks
      PROVE  /\ Sure(d, pc'[t], snap'[t])
             /\ Behind(d, backend', pc'[t], plan'[t], snap'[t])
             /\ SyncsOnly /\ Turn(t)' => Settles(d, backend', pc'[t], plan'[t], snap'[t])
  <2>1. CASE t = s
    BY <1>2, <2>1
  <2>2. CASE t # s
    <3>1. pc'[t] = "idle"
      BY <1>2, <2>2
    <3>2. Sure(d, pc'[t], snap'[t])
      BY <3>1, RestIsSure
    <3>3. Behind(d, backend', pc'[t], plan'[t], snap'[t])
      BY <3>1 DEF Behind, Syncing, Reading
    <3>4. ASSUME SyncsOnly, Turn(t)'
          PROVE  Settles(d, backend', pc'[t], plan'[t], snap'[t])
      <4>1. ph = "idle"
        BY <1>2, <2>2, <3>4 DEF Turn
      <4> QED BY <3>1, <3>4, <4>1, RestSettles
    <3> QED BY <3>2, <3>3, <3>4
  <2> QED BY <2>1, <2>2
<1>4. Referenced(db') /\ Turn(s)'
  BY <1>2 DEF Turn
<1>5. \A t \in Tasks : /\ Sure(db, pc[t], snap[t])'
                      /\ Behind(db, backend, pc[t], plan[t], snap[t])'
                      /\ (SyncsOnly /\ Turn(t) => Settles(db, backend, pc[t], plan[t], snap[t]))'
  BY <1>2, <1>3
<1> QED BY <1>4, <1>5 DEF J

LEMMA FinishLands ==
  ASSUME J, IInv', NEW s \in Tasks, Turn(s), NEW d, Finish(s, d), Referenced(d),
         SyncsOnly => \A i \in Ifaces : backend'[i] = Active(d, i)
  PROVE  J'
<1>1. Sure(d, "idle", NoSnap)
  BY RestIsSure
<1>2. Behind(d, backend', "idle", NoPlan, NoSnap)
  BY DEF Behind, Syncing, Reading
<1>3. SyncsOnly => Settles(d, backend', "idle", NoPlan, NoSnap)
  BY RestSettles
<1> QED BY <1>1, <1>2, <1>3, Lands DEF Finish

LEMMA StartLands ==
  ASSUME J, IInv', NEW s \in Tasks, Turn(s), NEW i \in Ifaces, NEW p, NEW d,
         StartSync(s, i, p, d), Referenced(d), d.ifaces \subseteq Ifaces,
         p.strict /\ p.scope = "all"
           => \A j \in d.ifaces \ (p.todo \cup {i}) : backend'[j] = Active(d, j),
         SyncsOnly => /\ \A j \in Ifaces : \/ backend'[j] = Active(d, j)
                                           \/ j \in d.ifaces \cap (p.todo \cup {i})
                      /\ p.todo # {} => p.todo \cup {i} \subseteq d.ifaces
  PROVE  J'
<1> DEFINE sn == [NoSnap EXCEPT !.cur = i]
<1>1. sn.cur = i
  BY DEF NoSnap
<1>2. Sure(d, "iface", sn)
  BY StartIsSure
<1> HIDE DEF sn
<1>3. Ahead("iface", p, sn) = p.todo \cup {i}
  BY <1>1 DEF Ahead
<1>4. Behind(d, backend', "iface", p, sn)
  BY <1>3 DEF Behind
<1>5. SyncsOnly => Settles(d, backend', "iface", p, sn)
  BY <1>1, <1>3 DEF Settles, Owed, Syncing, Reading
<1>6. Goto(s, "iface", p, sn, Begun(d), d)
  BY DEF StartSync, sn
<1> QED BY <1>2, <1>4, <1>5, <1>6, Lands

LEMMA SyncOneLands ==
  ASSUME J, IInv', NEW s \in Tasks, Turn(s), NEW i \in Ifaces, NEW d, SyncOne(s, i, d),
         Referenced(d), d.ifaces \subseteq Ifaces,
         SyncsOnly => \A j \in Ifaces : backend'[j] = Active(d, j) \/ (j = i /\ i \in d.ifaces)
  PROVE  J'
<1>1. NoPlan.todo = {} /\ NoPlan.scope # "all"
  BY DEF NoPlan
<1> QED BY <1>1, StartLands DEF SyncOne

\* list and what it is for.
LEMMA ListLands ==
  ASSUME J, IInv', NEW s \in Tasks, Turn(s), NEW p, NEW d,
         Goto(s, "list", p, NoSnap, NoHist, d), Referenced(d), d.ifaces \subseteq Ifaces,
         SyncsOnly => \A j \in Ifaces :
                        \/ backend'[j] = Active(d, j)
                        \/ j \in d.ifaces /\ (p.scope = "group" => p.only \in d.refs[j])
  PROVE  J'
<1>1. Sure(d, "list", NoSnap)
  BY RestIsSure
<1>2. Behind(d, backend', "list", p, NoSnap)
  BY DEF Behind, Syncing, Reading
<1>3. SyncsOnly => Settles(d, backend', "list", p, NoSnap)
  BY DEF Settles, Owed, Syncing, Reading
<1> QED BY <1>1, <1>2, <1>3, Lands

LEMMA SyncAllLands ==
  ASSUME J, IInv', NEW s \in Tasks, Turn(s), NEW d, SyncAll(s, d), Evolves(db, d),
         d.ifaces = db.ifaces, d.refs = db.refs, backend' = backend,
         SyncsOnly => \A j \in Ifaces : backend[j] = Active(db, j)
  PROVE  J'
<1> DEFINE p == [NoPlan EXCEPT !.scope = "all"]
<1>1. p.scope = "all"
  BY DEF NoPlan
<1>2. db \in Tables /\ Consistent(db) /\ d \in Tables /\ Consistent(d)
  BY DEF J, IInv, TypeOK, Evolves
<1>3. Referenced(d) /\ d.ifaces \subseteq Ifaces
  BY <1>2 DEF J, Referenced, Evolves, Tables
<1>4. SyncsOnly => \A j \in Ifaces \ d.ifaces : backend'[j] = Active(d, j)
  BY <1>2, NoInterface
<1>5. Goto(s, "list", p, NoSnap, NoHist, d)
  BY DEF SyncAll
<1> HIDE DEF p
<1> QED BY <1>1, <1>3, <1>4, <1>5, ListLands

LEMMA SyncReferencingLands ==
  ASSUME J, IInv', NEW s \in Tasks, Turn(s), NEW g \in Groups, NEW d, SyncReferencing(s, g, d),
         Evolves(db, d), d.ifaces = db.ifaces, d.refs = db.refs, backend' = backend,
         \A j \in Ifaces : g \notin db.refs[j] => Active(d, j) = Active(db, j),
         SyncsOnly => \A j \in Ifaces : backend[j] = Active(db, j)
  PROVE  J'
<1> DEFINE p == [NoPlan EXCEPT !.scope = "group", !.strict = FALSE, !.only = g]
<1>1. p.scope = "group" /\ p.only = g
  BY DEF NoPlan
<1>2. db \in Tables /\ Consistent(db) /\ d \in Tables /\ Consistent(d)
  BY DEF J, IInv, TypeOK, Evolves
<1>3. Referenced(d) /\ d.ifaces \subseteq Ifaces
  BY <1>2 DEF J, Referenced, Evolves, Tables
<1>4. SyncsOnly => \A j \in Ifaces \ d.ifaces : backend'[j] = Active(d, j)
  BY <1>2, NoInterface
<1>5. Goto(s, "list", p, NoSnap, NoHist, d)
  BY DEF SyncReferencing
<1> HIDE DEF p
<1> QED BY <1>1, <1>3, <1>4, <1>5, ListLands

LEMMA ContinueLands ==
  ASSUME J, IInv', NEW s \in Tasks, Turn(s), NEW p, Continue(s, p), p.todo \subseteq Ifaces,
         backend' = backend,
         p.strict /\ p.scope = "all"
           => \A j \in db.ifaces \ p.todo : backend[j] = Active(db, j),
         SyncsOnly => /\ \A j \in Ifaces : backend[j] = Active(db, j) \/ j \in p.todo
                      /\ p.todo \subseteq db.ifaces
  PROVE  J'
<1>1. Referenced(db) /\ db.ifaces \subseteq Ifaces
  BY DEF J, IInv, TypeOK, Tables
<1>2. CASE p.todo = {} /\ Finish(s, db)
  BY <1>1, <1>2, FinishLands
<1>3. CASE \E i \in p.todo : StartSync(s, i, [p EXCEPT !.todo = @ \ {i}], db)
  <2> PICK i \in p.todo : StartSync(s, i, [p EXCEPT !.todo = @ \ {i}], db)
    BY <1>3
  <2> DEFINE q == [p EXCEPT !.todo = @ \ {i}]
  <2>1. q.todo \cup {i} = p.todo /\ q.strict = p.strict /\ q.scope = p.scope
    OBVIOUS
  <2>2. StartSync(s, i, q, db)
    OBVIOUS
  <2> HIDE DEF q
  <2> QED BY <1>1, <2>1, <2>2, StartLands
<1> QED BY <1>2, <1>3 DEF Continue

-----------------------------------------------------------------------------
(* The requests.  One begins when every task is at rest.                   *)

LEMMA AllAtRest ==
  ASSUME J, OneAtATime, NEW s \in Slots, Serving, pc[s] = "idle"
  PROVE  /\ s \in Tasks /\ Turn(s)
         /\ SyncsOnly => \A i \in Ifaces : backend[i] = Active(db, i)
<1>1. s \in Tasks /\ Turn(s)
  BY DEF OneAtATime, Serving, Turn, Tasks
<1>2. ASSUME SyncsOnly
      PROVE  \A i \in Ifaces : backend[i] = Active(db, i)
  <2>1. Settles(db, backend, "idle", plan[s], snap[s])
    BY <1>1, <1>2 DEF J
  <2> QED BY <2>1, RestSettles
<1> QED BY <1>1, <1>2

LEMMA InterfaceRequestEnforces ==
  ASSUME J, IInv', OneAtATime, NEW s \in Slots, InterfaceRequest(s)
  PROVE  J'
<1>0. db \in Tables /\ Consistent(db) /\ Referenced(db) /\ db.ifaces \subseteq Ifaces
  BY DEF J, IInv, TypeOK, Tables
<1>1. ASSUME NEW i \in Ifaces, NEW gs \in SUBSET Groups, CreateInterface(s, i, gs)
      PROVE  J'
  <2> DEFINE d == WithInterface(db, i, gs)
  <2>1. /\ Serving /\ pc[s] = "idle" /\ gs \subseteq db.spent
        /\ SyncOne(s, i, d) /\ backend' = backend
    BY <1>1 DEF CreateInterface, Accept, Elsewhere
  <2>2. Referenced(d) /\ d.ifaces = db.ifaces \cup {i}
    BY <1>0, <2>1 DEF WithInterface, Tables, Referenced
  <2>3. \A j \in Ifaces \ {i} : Active(d, j) = Active(db, j)
    BY <1>0, RefsConcern
  <2> HIDE DEF d
  <2>4. d.ifaces \subseteq Ifaces /\ i \in d.ifaces
    BY <1>0, <2>2
  <2> QED BY <2>1, <2>2, <2>3, <2>4, AllAtRest, SyncOneLands
<1>2. ASSUME NEW i \in Ifaces, NEW gs \in SUBSET Groups, UpdateInterface(s, i, gs)
      PROVE  J'
  <2> DEFINE d == WithRefs(db, i, gs)
  <2>1. /\ Serving /\ pc[s] = "idle" /\ gs \subseteq db.spent /\ i \in db.ifaces
        /\ SyncOne(s, i, d) /\ backend' = backend
    BY <1>2 DEF UpdateInterface, Accept, Elsewhere
  <2>2. Referenced(d) /\ d.ifaces = db.ifaces
    BY <1>0, <2>1 DEF WithRefs, Tables, Referenced
  <2>3. \A j \in Ifaces \ {i} : Active(d, j) = Active(db, j)
    BY <1>0, RefsConcern
  <2> HIDE DEF d
  <2>4. d.ifaces \subseteq Ifaces /\ i \in d.ifaces
    BY <1>0, <2>1, <2>2
  <2> QED BY <2>1, <2>2, <2>3, <2>4, AllAtRest, SyncOneLands
<1>3. ASSUME NEW i \in Ifaces, ResyncInterface(s, i)
      PROVE  J'
  <2>1. Serving /\ pc[s] = "idle" /\ SyncOne(s, i, db) /\ backend' = backend
    BY <1>3 DEF ResyncInterface, Accept, Elsewhere
  <2> QED BY <1>0, <2>1, AllAtRest, SyncOneLands
<1>4. ASSUME NEW i \in Ifaces, RemoveInterface(s, i)
      PROVE  J'
  <2> DEFINE sn == [NoSnap EXCEPT !.cur = i]
  <2>1. /\ Serving /\ pc[s] = "idle" /\ i \in db.ifaces
        /\ Goto(s, "drop", NoPlan, sn, NoHist, db)
        /\ backend' = [backend EXCEPT ![i] = {}] \/ "fault" \in Kinds
    BY <1>4 DEF RemoveInterface, Accept
  <2>2. sn.cur = i /\ NoPlan.todo = {}
    BY DEF NoSnap, NoPlan
  <2> HIDE DEF sn
  <2>3. Sure(db, "drop", sn)
    BY RestIsSure
  <2>4. Behind(db, backend', "drop", NoPlan, sn)
    BY DEF Behind, Syncing, Reading
  <2>5. ASSUME SyncsOnly
        PROVE  Settles(db, backend', "drop", NoPlan, sn)
    <3>1. backend' = [backend EXCEPT ![i] = {}] /\ backend \in [Ifaces -> SUBSET Keys]
      BY <2>1, <2>5 DEF SyncsOnly, J, IInv, TypeOK
    <3>2. \A j \in Ifaces : backend[j] = Active(db, j)
      BY <2>1, <2>5, AllAtRest
    <3>3. i \in Owed(db, "drop", NoPlan, sn)
      BY <2>1, <2>2 DEF Owed, Ahead
    <3>4. \A j \in Ifaces : backend'[j] = Active(db, j) \/ j = i
      BY <3>1, <3>2
    <3> QED BY <2>2, <3>1, <3>3, <3>4 DEF Settles, Syncing, Reading
  <2> QED BY <1>0, <2>1, <2>3, <2>4, <2>5, AllAtRest, Lands
<1> QED BY <1>1, <1>2, <1>3, <1>4 DEF InterfaceRequest

LEMMA GroupRequestEnforces ==
  ASSUME J, IInv', OneAtATime, NEW s \in Slots, GroupRequest(s)
  PROVE  J'
<1>0. db \in Tables /\ Consistent(db) /\ Referenced(db)
  BY DEF J, IInv, TypeOK
<1>1. ASSUME NEW g \in Groups, NEW adm \in SUBSET (Users \cup Claims), CreateGroup(g, adm)
      PROVE  J'
  <2>1. Calm(db, WithGroup(db, g, adm))
    BY <1>0, <1>1, NewGroupCalm DEF CreateGroup
  <2> QED BY <1>1, <2>1, CalmKeeps DEF CreateGroup
<1>2. ASSUME NEW g \in Groups, NEW adm \in SUBSET (Users \cup Claims), UpdateGroup(s, g, adm)
      PROVE  J'
  <2> DEFINE d == WithAdmits(db, g, adm)
  <2>1. Serving /\ pc[s] = "idle" /\ SyncReferencing(s, g, d) /\ backend' = backend
    BY <1>2 DEF UpdateGroup, Accept, Elsewhere
  <2>2. Evolves(db, d) /\ d.ifaces = db.ifaces /\ d.refs = db.refs
    BY <1>0, SimpleStatementsEvolve DEF WithAdmits, Tables
  <2>3. \A j \in Ifaces : g \notin db.refs[j] => Active(d, j) = Active(db, j)
    BY <1>0, GroupConcerns
  <2> HIDE DEF d
  <2> QED BY <2>1, <2>2, <2>3, AllAtRest, SyncReferencingLands
<1>3. ASSUME NEW g \in Groups, DeleteGroup(s, g)
      PROVE  J'
  <2> DEFINE d == WithoutGroup(db, g)
  <2>1. Serving /\ pc[s] = "idle" /\ SyncReferencing(s, g, d) /\ backend' = backend
    BY <1>3 DEF DeleteGroup, Accept, Elsewhere
  <2>2. Evolves(db, d) /\ d.ifaces = db.ifaces /\ d.refs = db.refs
    BY <1>0, SimpleStatementsEvolve DEF WithoutGroup, Tables
  <2>3. \A j \in Ifaces : g \notin db.refs[j] => Active(d, j) = Active(db, j)
    BY <1>0, GroupConcerns
  <2> HIDE DEF d
  <2> QED BY <2>1, <2>2, <2>3, AllAtRest, SyncReferencingLands
<1> QED BY <1>1, <1>2, <1>3 DEF GroupRequest

LEMMA UserRequestEnforces ==
  ASSUME J, IInv', OneAtATime, NEW s \in Slots, UserRequest(s)
  PROVE  J'
<1>0. db \in Tables /\ Consistent(db) /\ Referenced(db)
  BY DEF J, IInv, TypeOK
<1>1. ASSUME NEW u \in Users, CreateUser(u)
      PROVE  J'
  <2>1. Calm(db, WithUser(db, u))
    BY <1>0, <1>1, NewUserCalm DEF CreateUser
  <2> QED BY <1>1, <2>1, CalmKeeps DEF CreateUser
<1>2. ASSUME NEW u \in Users, SignIn(s, u)
      PROVE  J'
  <2> DEFINE p == [NoPlan EXCEPT !.who = u]
  <2>1. ~SyncsOnly /\ Serving /\ pc[s] = "idle"
    BY <1>2 DEF SignIn, Accept, SyncsOnly
  <2>2. PICK ph \in {"grant", "stamp"}, d \in {db, WithUser(db, u)} :
          Goto(s, ph, p, NoSnap, NoHist, d)
    BY <1>2 DEF SignIn
  <2>3. Referenced(d)
    <3>1. WithUser(db, u).refs = db.refs /\ db.spent \subseteq WithUser(db, u).spent
      BY <1>0 DEF WithUser, Tables
    <3>2. Referenced(WithUser(db, u))
      BY <1>0, <3>1 DEF Referenced
    <3> QED BY <1>0, <2>2, <3>2
  <2> HIDE DEF p
  <2>4. Sure(d, ph, NoSnap) /\ Behind(d, backend', ph, p, NoSnap)
    BY RestIsSure DEF Behind, Syncing, Reading
  <2> QED BY <2>1, <2>2, <2>3, <2>4, AllAtRest, Lands
<1>3. ASSUME NEW u \in Users, NEW d, SyncAll(s, d), Serving, pc[s] = "idle", backend' = backend,
             \/ \E on \in BOOLEAN : d \in {WithBan(db, u, on), WithRevocation(db, u, on)}
             \/ d = WithoutUser(db, u)
      PROVE  J'
  <2>1. Evolves(db, d)
    BY <1>0, <1>3, UserStatementsEvolve, WithoutUserEvolves
  <2>2. d.ifaces = db.ifaces /\ d.refs = db.refs
    BY <1>0, <1>3 DEF WithBan, WithRevocation, WithoutUser, WithoutPeers, Tables
  <2> QED BY <1>3, <2>1, <2>2, AllAtRest, SyncAllLands
<1>4. ASSUME NEW u \in Users, NEW on \in BOOLEAN, SetBanned(s, u, on) \/ SetRevoked(s, u, on)
      PROVE  J'
  BY <1>3, <1>4 DEF SetBanned, SetRevoked, Accept, Elsewhere
<1>5. ASSUME NEW u \in Users, DeleteUser(s, u)
      PROVE  J'
  BY <1>3, <1>5 DEF DeleteUser, Accept, Elsewhere
<1> QED BY <1>1, <1>2, <1>4, <1>5 DEF UserRequest

LEMMA DeviceRequestEnforces ==
  ASSUME J, IInv', OneAtATime, NEW s \in Slots, DeviceRequest(s)
  PROVE  J'
<1>0. db \in Tables /\ Consistent(db) /\ Referenced(db) /\ db.ifaces \subseteq Ifaces
  BY DEF J, IInv, TypeOK, Tables
<1>1. ASSUME NEW p \in Peers, NEW i \in Ifaces, NEW u \in Users \cup {NoUser},
             CreateDevice(s, p, i, u)
      PROVE  J'
  <2> DEFINE d == WithDevice(db, p, i, u, 1)
  <2>1. /\ Serving /\ pc[s] = "idle" /\ p \notin db.spent /\ i \in db.ifaces /\ MaxGen > 0
        /\ SyncOne(s, i, d) /\ backend' = backend
    BY <1>1 DEF CreateDevice, Accept, Elsewhere
  <2>2. Referenced(d) /\ d.ifaces = db.ifaces
    BY <1>0 DEF WithDevice, Tables, Referenced
  <2>3. 1 \in 0..MaxGen
    BY <2>1, ConstantsAssumption
  <2>4. \A j \in Ifaces \ {i} : Active(d, j) = Active(db, j)
    BY <1>0, <2>1, <2>3, PeerStatementsConcern
  <2> HIDE DEF d
  <2> QED BY <1>0, <2>1, <2>2, <2>4, AllAtRest, SyncOneLands
<1>2. ASSUME NEW p \in Peers, NEW i \in Ifaces, NEW u \in Users \cup {NoUser},
             CreateUnconfigured(p, i, u)
      PROVE  J'
  <2>1. Calm(db, WithDevice(db, p, i, u, 0))
    BY <1>0, <1>2, NewDeviceCalm DEF CreateUnconfigured
  <2> QED BY <1>2, <2>1, CalmKeeps DEF CreateUnconfigured
<1>3. ASSUME NEW p \in Peers, NEW d, d \in {WithNewKey(db, p), WithoutPeers(db, {p})},
             p \in db.peers, SyncOne(s, db.home[p], d),
             Serving, pc[s] = "idle", backend' = backend
      PROVE  J'
  <2>1. db.home[p] \in Ifaces /\ db.home[p] \in db.ifaces
    BY <1>0, <1>3 DEF Consistent, Tables
  <2>2. Referenced(d) /\ d.ifaces = db.ifaces
    BY <1>0, <1>3 DEF WithNewKey, WithoutPeers, Tables, Referenced
  <2>3. \A j \in Ifaces \ {db.home[p]} : Active(d, j) = Active(db, j)
    BY <1>0, <1>3, PeerStatementsConcern
  <2> QED BY <1>0, <1>3, <2>1, <2>2, <2>3, AllAtRest, SyncOneLands
<1>4. ASSUME NEW p \in Peers, RegeneratePeer(s, p) \/ DeletePeer(s, p)
      PROVE  J'
  BY <1>3, <1>4 DEF RegeneratePeer, DeletePeer, Accept, Elsewhere
<1> QED BY <1>1, <1>2, <1>4 DEF DeviceRequest

-----------------------------------------------------------------------------
(* The steps of the task that runs.                                        *)

LEMMA Running ==
  ASSUME J, NEW s \in Tasks, pc[s] # "idle"
  PROVE  /\ Turn(s) /\ Sure(db, pc[s], snap[s])
         /\ Behind(db, backend, pc[s], plan[s], snap[s])
         /\ SyncsOnly => Settles(db, backend, pc[s], plan[s], snap[s])
<1>1. PICK t \in Tasks : Turn(t)
  BY DEF J
<1>2. t = s
  BY <1>1 DEF Turn
<1> QED BY <1>1, <1>2 DEF J

\* A statement that reads: the interface stays the one to be synced.
LEMMA ReadLands ==
  ASSUME J, IInv', NEW s \in Tasks, pc[s] \in Reading,
         NEW ph \in Reading \cup {"apply"}, NEW sn, sn.cur = snap[s].cur,
         Sync(s, ph, sn), Sure(db, ph, sn), backend' = backend
  PROVE  J'
<1>1. /\ Turn(s) /\ Behind(db, backend, pc[s], plan[s], snap[s])
      /\ SyncsOnly => Settles(db, backend, pc[s], plan[s], snap[s])
  BY Running DEF Reading
<1>2. Ahead(ph, plan[s], sn) = Ahead(pc[s], plan[s], snap[s])
  BY DEF Ahead, Reading
<1>3. Behind(db, backend', ph, plan[s], sn)
  BY <1>1, <1>2 DEF Behind, Syncing
<1>4. SyncsOnly => Settles(db, backend', ph, plan[s], sn)
  BY <1>1, <1>2 DEF Settles, Owed, Syncing, Reading
<1> QED BY <1>1, <1>3, <1>4, Lands DEF Sync, J

LEMMA ReadingEnforces ==
  ASSUME J, IInv', NEW s \in Tasks,
         \/ ReadInterface(s) \/ ReadGroups(s) \/ ReadPeers(s)
         \/ \E k \in Keys : ReadOwner(s, k) \/ ReadClaims(s, k)
  PROVE  J'
<1> DEFINE sn == snap[s]
<1>0. /\ db \in Tables /\ Consistent(db) /\ sn \in Snaps /\ Clean \in Hists
      /\ TaskInv(db, pc[s], sn, Clean)
  BY DEF J, IInv, TypeOK, Sure, Clean, Hists
<1>1. CASE ReadInterface(s)
  <2> DEFINE sm == [sn EXCEPT !.refs = db.refs[sn.cur]]
  <2>1. pc[s] = "iface" /\ Sync(s, "groups", sm) /\ backend' = backend
    BY <1>1 DEF ReadInterface, Elsewhere
  <2>2. Sure(db, "groups", sm) /\ sm.cur = sn.cur
    BY <1>0, <2>1, InterfaceRead DEF Sure, Snaps
  <2> HIDE DEF sm
  <2> QED BY <2>1, <2>2, ReadLands DEF Reading
<1>2. CASE ReadGroups(s)
  <2> DEFINE sm == [sn EXCEPT !.admitted = Admitted(db, sn.refs)]
  <2>1. pc[s] = "groups" /\ Sync(s, "peers", sm) /\ backend' = backend
    BY <1>2 DEF ReadGroups, Elsewhere
  <2>2. Sure(db, "peers", sm) /\ sm.cur = sn.cur
    BY <1>0, <2>1, GroupsRead DEF Sure, Snaps
  <2> HIDE DEF sm
  <2> QED BY <2>1, <2>2, ReadLands DEF Reading
<1>3. CASE ReadPeers(s)
  <2> DEFINE listed == Configured(db, sn.cur)
             owned == {k \in listed : OwnerOf(db, k) # NoUser}
             sm == [sn EXCEPT !.rows = owned, !.out = listed \ owned]
  <2>1. pc[s] = "peers" /\ Sync(s, Examine(owned), sm) /\ backend' = backend
    BY <1>3 DEF ReadPeers, Elsewhere
  <2>2. Sure(db, Examine(owned), sm) /\ sm.cur = sn.cur
    BY <1>0, <2>1, PeersRead DEF Sure, Snaps
  <2> HIDE DEF sm, owned
  <2>3. Examine(owned) \in Reading \cup {"apply"}
    BY DEF Examine, Reading
  <2> QED BY <2>1, <2>2, <2>3, ReadLands DEF Reading
<1>4. ASSUME NEW k \in Keys, ReadOwner(s, k)
      PROVE  J'
  <2>1. pc[s] = "owner" /\ k \in sn.rows /\ backend' = backend
    BY <1>4 DEF ReadOwner, Elsewhere
  <2>2. CASE InGoodStanding(db, OwnerOf(db, k))
    <3> DEFINE sm == [sn EXCEPT !.rows = sn.rows \ {k}, !.asking = {k}]
    <3>1. Sync(s, "claims", sm)
      BY <1>4, <2>2 DEF ReadOwner
    <3>2. Sure(db, "claims", sm) /\ sm.cur = sn.cur
      BY <1>0, <2>1, <2>2, OwnerGood DEF Sure, Snaps
    <3> HIDE DEF sm
    <3> QED BY <2>1, <3>1, <3>2, ReadLands DEF Reading
  <2>3. CASE ~InGoodStanding(db, OwnerOf(db, k))
    <3> DEFINE sm == [sn EXCEPT !.rows = sn.rows \ {k}]
               ph == Examine(sn.rows \ {k})
    <3>1. Sync(s, ph, sm)
      BY <1>4, <2>3 DEF ReadOwner
    <3>2. Sure(db, ph, sm) /\ sm.cur = sn.cur
      BY <1>0, <2>1, <2>3, OwnerBad DEF Sure, Snaps
    <3>3. ph \in Reading \cup {"apply"}
      BY DEF Examine, Reading
    <3> HIDE DEF sm, ph
    <3> QED BY <2>1, <3>1, <3>2, <3>3, ReadLands DEF Reading
  <2> QED BY <2>2, <2>3
<1>5. ASSUME NEW k \in Keys, ReadClaims(s, k)
      PROVE  J'
  <2> DEFINE u == OwnerOf(db, k)
             granted == AccessGranted(sn.admitted, u, ClaimGroups(db, u))
             out == IF granted THEN sn.out \cup {k} ELSE sn.out
             sm == [sn EXCEPT !.asking = {}, !.out = out]
             ph == Examine(sn.rows)
  <2>1. pc[s] = "claims" /\ k \in sn.asking /\ Sync(s, ph, sm) /\ backend' = backend
    BY <1>5 DEF ReadClaims, Elsewhere
  <2>2. out = IF AccessGranted(sn.admitted, OwnerOf(db, k), ClaimGroups(db, OwnerOf(db, k)))
               THEN sn.out \cup {k} ELSE sn.out
    OBVIOUS
  <2> HIDE DEF out
  <2>3. Sure(db, ph, sm) /\ sm.cur = sn.cur
    BY <1>0, <2>1, <2>2, ClaimsRead DEF Sure, Snaps
  <2>4. ph \in Reading \cup {"apply"}
    BY DEF Examine, Reading
  <2> HIDE DEF sm, ph
  <2> QED BY <2>1, <2>3, <2>4, ReadLands DEF Reading
<1> QED BY <1>1, <1>2, <1>3, <1>4, <1>5

\* The listing puts every interface it is for ahead.
LEMMA ListEnforces ==
  ASSUME J, IInv', NEW s \in Tasks, ListInterfaces(s) \/ ListFails(s)
  PROVE  J'
<1>1. pc[s] = "list" /\ backend' = backend
  BY DEF ListInterfaces, ListFails, Elsewhere
<1>2. Turn(s) /\ (SyncsOnly => Settles(db, backend, "list", plan[s], snap[s]))
  BY <1>1, Running
<1>3. Referenced(db) /\ db.ifaces \subseteq Ifaces /\ plan[s] \in Plans
  BY DEF J, IInv, TypeOK, Tables
<1>4. CASE ListInterfaces(s)
  <2> DEFINE todo == {i \in db.ifaces : plan[s].scope = "group" => plan[s].only \in db.refs[i]}
             p == [plan[s] EXCEPT !.todo = todo]
  <2>1. Continue(s, p)
    BY <1>4 DEF ListInterfaces
  <2>2. p.todo = todo /\ p.scope = plan[s].scope
    BY <1>3 DEF Plans
  <2>3. p.scope = "all" => p.todo = db.ifaces
    BY <2>2
  <2>4. SyncsOnly => \A j \in Ifaces : backend[j] = Active(db, j) \/ j \in p.todo
    BY <1>2, <2>2 DEF Settles, Owed, Syncing, Reading
  <2>5. p.todo \subseteq db.ifaces
    BY <2>2
  <2> HIDE DEF p
  <2> QED BY <1>1, <1>2, <1>3, <2>1, <2>3, <2>4, <2>5, ContinueLands
<1>5. CASE ListFails(s)
  <2>1. ~SyncsOnly /\ Finish(s, db)
    BY <1>5 DEF ListFails, SyncsOnly
  <2> QED BY <1>1, <1>2, <1>3, <2>1, FinishLands
<1> QED BY <1>4, <1>5

\* A failure ends a strict request; without faults only a sync of an interface
\* that is not there fails, and that was all its request had to do.
LEMMA FailureEnforces ==
  ASSUME J, IInv', NEW s \in Tasks, pc[s] \in Syncing, SyncFailed(s), backend' = backend,
         SyncsOnly => pc[s] = "iface" /\ snap[s].cur \notin db.ifaces
  PROVE  J'
<1>1. Turn(s) /\ (SyncsOnly => Settles(db, backend, pc[s], plan[s], snap[s]))
  BY Running DEF Syncing, Reading
<1>2. Referenced(db) /\ plan[s] \in Plans
  BY DEF J, IInv, TypeOK
<1>3. ASSUME SyncsOnly
      PROVE  plan[s].todo = {} /\ \A i \in Ifaces : backend[i] = Active(db, i)
  <2>1. plan[s].todo = {}
    BY <1>1, <1>3 DEF Settles
  <2>2. Owed(db, pc[s], plan[s], snap[s]) = {}
    BY <1>3, <2>1 DEF Owed, Ahead
  <2> QED BY <1>1, <1>3, <2>1, <2>2 DEF Settles
<1>4. CASE plan[s].strict
  BY <1>1, <1>2, <1>3, <1>4, FinishLands DEF SyncFailed
<1>5. CASE ~plan[s].strict
  <2>1. Continue(s, plan[s]) /\ plan[s].todo \subseteq Ifaces
    BY <1>2, <1>5 DEF SyncFailed, Plans
  <2> QED BY <1>1, <1>3, <1>5, <2>1, ContinueLands
<1> QED BY <1>4, <1>5

LEMMA ErrorEnforces ==
  ASSUME J, IInv', NEW s \in Tasks, SyncError(s)
  PROVE  J'
BY FailureEnforces DEF SyncError, Elsewhere, Syncing, SyncsOnly

\* What a sync pushes is what the tables permit.
LEMMA ApplyEnforces ==
  ASSUME J, IInv', NEW s \in Tasks, ApplyOk(s) \/ ApplyFails(s)
  PROVE  J'
<1> DEFINE i == snap[s].cur
           sn == snap[s]
           p == plan[s]
<1>1. pc[s] = "apply"
  BY DEF ApplyOk, ApplyFails
<1>2. /\ Turn(s) /\ Sure(db, "apply", sn) /\ Behind(db, backend, "apply", p, sn)
      /\ SyncsOnly => Settles(db, backend, "apply", p, sn)
  BY <1>1, Running
<1>3. i \in Ifaces /\ backend \in [Ifaces -> SUBSET Keys] /\ Referenced(db)
      /\ db.ifaces \subseteq Ifaces
  BY <1>2 DEF Sure, TaskInv, ShapeInv, J, IInv, TypeOK, Tables
<1>4. Ahead("apply", p, sn) = p.todo \cup {i} /\ Ahead("noteErr", p, sn) = p.todo \cup {i}
      /\ Ahead("noteOk", p, sn) = p.todo
  BY DEF Ahead
<1>5. CASE ApplyOk(s)
  <2>1. sn.out = Active(db, i)
    BY <1>2 DEF Sure, TaskInv, ShapeInv, FreshInv, Clean, Loop, Seen
  <2>2. Sync(s, "noteOk", sn) /\ backend' = [backend EXCEPT ![i] = sn.out]
    BY <1>5 DEF ApplyOk
  <2>3. \A j \in Ifaces : backend'[j] = IF j = i THEN Active(db, i) ELSE backend[j]
    BY <1>3, <2>1, <2>2
  <2>4. Sure(db, "noteOk", sn)
    BY <1>2 DEF Sure, TaskInv, ShapeInv, RowsInv, FreshInv, ShutInv, Clean, Loop, Reading
  <2>5. Behind(db, backend', "noteOk", p, sn)
    BY <1>2, <1>3, <1>4, <2>3 DEF Behind, Syncing
  <2>6. ASSUME SyncsOnly
        PROVE  Settles(db, backend', "noteOk", p, sn)
    <3>1. Settles(db, backend, "apply", p, sn)
      BY <1>2, <2>6
    <3>2. \A j \in Ifaces : backend'[j] = Active(db, j) \/ j \in Owed(db, "noteOk", p, sn)
      BY <1>4, <2>3, <3>1 DEF Settles, Owed, Syncing
    <3> QED BY <3>1, <3>2 DEF Settles, Syncing
  <2> QED BY <1>2, <1>3, <2>2, <2>4, <2>5, <2>6, Lands DEF Sync
<1>6. CASE ApplyFails(s)
  <2>1. Sync(s, "noteErr", sn) /\ ~SyncsOnly
    BY <1>6 DEF ApplyFails, SyncsOnly
  <2>2. \A j \in Ifaces \ {i} : backend'[j] = backend[j]
    BY <1>3, <1>6 DEF ApplyFails
  <2>3. Sure(db, "noteErr", sn)
    BY <1>2 DEF Sure, TaskInv, ShapeInv, RowsInv, FreshInv, ShutInv, Clean, Loop, Reading
  <2>4. Behind(db, backend', "noteErr", p, sn)
    BY <1>2, <1>3, <1>4, <2>2 DEF Behind, Syncing
  <2> QED BY <1>2, <1>3, <2>1, <2>3, <2>4, Lands DEF Sync
<1> QED BY <1>5, <1>6

LEMMA NoteEnforces ==
  ASSUME J, IInv', NEW s \in Tasks, Note(s)
  PROVE  J'
<1>1. pc[s] \in {"noteOk", "noteErr"} /\ backend' = backend
  BY DEF Note
<1>2. /\ Turn(s) /\ Behind(db, backend, pc[s], plan[s], snap[s])
      /\ SyncsOnly => Settles(db, backend, pc[s], plan[s], snap[s])
  BY <1>1, Running
<1>3. plan[s].todo \subseteq Ifaces /\ db.ifaces \subseteq Ifaces
  BY DEF J, IInv, TypeOK, Plans, Tables
<1>4. CASE pc[s] = "noteOk"
  <2>1. Continue(s, plan[s]) /\ Ahead("noteOk", plan[s], snap[s]) = plan[s].todo
    BY <1>4 DEF Note, Ahead
  <2>2. plan[s].strict /\ plan[s].scope = "all"
          => \A j \in db.ifaces \ plan[s].todo : backend[j] = Active(db, j)
    BY <1>2, <1>4, <2>1 DEF Behind, Syncing
  <2>3. SyncsOnly => /\ \A j \in Ifaces : backend[j] = Active(db, j) \/ j \in plan[s].todo
                     /\ plan[s].todo \subseteq db.ifaces
    BY <1>2, <1>4, <2>1 DEF Settles, Owed, Syncing
  <2> QED BY <1>1, <1>2, <1>3, <2>1, <2>2, <2>3, ContinueLands
<1>5. CASE pc[s] = "noteErr"
  <2>1. SyncFailed(s) /\ ~SyncsOnly
    BY <1>2, <1>5 DEF Note, Settles
  <2> QED BY <1>1, <1>5, <2>1, FailureEnforces DEF Syncing
<1> QED BY <1>1, <1>4, <1>5

\* Deleting an interface, whose backend was told; the statements of a login.
LEMMA TailEnforces ==
  ASSUME J, IInv', NEW s \in Tasks,
         \/ DropInterface(s) \/ TailFails(s) \/ RecordLogin(s)
         \/ \E pr \in Providers, cs \in SUBSET Claims : GrantClaims(s, pr, cs)
  PROVE  J'
<1>0. db \in Tables /\ Consistent(db) /\ Referenced(db)
  BY DEF J, IInv, TypeOK
<1>1. CASE DropInterface(s)
  <2> DEFINE i == snap[s].cur
             d == WithoutInterface(db, i)
  <2>1. pc[s] = "drop" /\ Finish(s, d) /\ backend' = backend
    BY <1>1 DEF DropInterface
  <2>2. Turn(s) /\ (SyncsOnly => Settles(db, backend, "drop", plan[s], snap[s]))
    BY <2>1, Running
  <2>3. Referenced(d)
    BY <1>0 DEF WithoutInterface, WithoutPeers, Tables, Referenced
  <2>4. /\ \A j \in Ifaces \ {i} : Active(d, j) = Active(db, j)
        /\ i \in Ifaces => Active(d, i) = {}
    BY <1>0, DropConcerns
  <2> HIDE DEF d
  <2>5. ASSUME SyncsOnly, NEW j \in Ifaces
        PROVE  backend'[j] = Active(d, j)
    <3>1. plan[s].todo = {} /\ backend[i] = {}
      BY <2>2, <2>5 DEF Settles
    <3>2. j # i => backend[j] = Active(db, j)
      BY <2>2, <2>5, <3>1 DEF Settles, Owed, Ahead, Syncing, Reading
    <3> QED BY <2>1, <2>4, <3>1, <3>2
  <2> QED BY <2>1, <2>2, <2>3, <2>5, FinishLands
<1>2. CASE TailFails(s)
  <2>1. pc[s] # "idle" /\ ~SyncsOnly /\ Finish(s, db)
    BY <1>2 DEF TailFails, SyncsOnly
  <2> QED BY <1>0, <2>1, Running, FinishLands
<1>3. CASE RecordLogin(s)
  <2>1. pc[s] = "stamp" /\ Finish(s, WithLogin(db, plan[s].who))
    BY <1>3 DEF RecordLogin
  <2>2. Turn(s) /\ ~SyncsOnly
    BY <2>1, Running DEF Settles
  <2>3. Referenced(WithLogin(db, plan[s].who))
    BY <1>0 DEF WithLogin, Tables, Referenced
  <2> QED BY <2>1, <2>2, <2>3, FinishLands
<1>4. ASSUME NEW pr \in Providers, NEW cs \in SUBSET Claims, GrantClaims(s, pr, cs)
      PROVE  J'
  <2> DEFINE d == WithClaims(db, plan[s].who, pr, cs)
  <2>1. pc[s] = "grant" /\ (Finish(s, db) \/ Goto(s, "stamp", plan[s], NoSnap, NoHist, d))
    BY <1>4 DEF GrantClaims
  <2>2. Turn(s) /\ ~SyncsOnly
    BY <2>1, Running DEF Settles
  <2>3. Referenced(d)
    BY <1>0 DEF WithClaims, Tables, Referenced
  <2> HIDE DEF d
  <2>4. Sure(d, "stamp", NoSnap) /\ Behind(d, backend', "stamp", plan[s], NoSnap)
    BY RestIsSure DEF Behind, Syncing, Reading
  <2> QED BY <1>0, <2>1, <2>2, <2>3, <2>4, FinishLands, Lands
<1> QED BY <1>1, <1>2, <1>3, <1>4

LEMMA StepEnforces ==
  ASSUME J, IInv', NEW s \in Tasks, Step(s)
  PROVE  J'
BY ReadingEnforces, ListEnforces, ErrorEnforces, ApplyEnforces, NoteEnforces, TailEnforces DEF Step

-----------------------------------------------------------------------------
(* The restart, and the whole.                                             *)

\* A server that has just started syncs every interface there is.
LEMMA BootSettles ==
  ASSUME NEW d \in Tables, Consistent(d), NEW b,
         \A i \in Ifaces \ d.ifaces : b[i] = {}
  PROVE  Settles(d, b, "list", BestEffortAll, NoSnap)
<1>1. \A i \in Ifaces \ d.ifaces : b[i] = Active(d, i)
  BY NoInterface
<1>2. BestEffortAll.scope = "all"
  BY DEF BestEffortAll, NoPlan
<1> QED BY <1>1, <1>2 DEF Settles, Owed, Syncing, Reading

LEMMA BootTurn ==
  ASSUME NEW t \in Tasks, NEW x,
         x = [u \in Tasks |-> IF u = Boot THEN "list" ELSE "idle"],
         \A u \in Tasks \ {t} : x[u] = "idle"
  PROVE  t = Boot
BY DEF Tasks

LEMMA CrashEnforces ==
  ASSUME J, IInv', Crash
  PROVE  J'
<1>1. /\ pc'   = [t \in Tasks |-> IF t = Boot THEN "list" ELSE "idle"]
      /\ plan' = [t \in Tasks |-> IF t = Boot THEN BestEffortAll ELSE NoPlan]
      /\ snap' = [t \in Tasks |-> NoSnap]
      /\ db' = db /\ backend' = backend
  BY DEF Crash
<1>2. db \in Tables /\ Consistent(db) /\ Referenced(db)
  BY DEF J, IInv, TypeOK
<1>3. ASSUME SyncsOnly
      PROVE  \A i \in Ifaces \ db.ifaces : backend[i] = {}
  <2>1. PICK s \in Tasks : Turn(s)
    BY DEF J
  <2>2. Settles(db, backend, pc[s], plan[s], snap[s])
    BY <1>3, <2>1 DEF J
  <2> QED BY <1>2, <2>2, NoInterface DEF Settles, Owed
<1>4. ASSUME NEW t \in Tasks
      PROVE  /\ Sure(db, pc'[t], snap'[t])
             /\ Behind(db, backend, pc'[t], plan'[t], snap'[t])
             /\ SyncsOnly /\ Turn(t)' => Settles(db, backend, pc'[t], plan'[t], snap'[t])
  <2>1. pc'[t] \in {"list", "idle"} /\ snap'[t] = NoSnap
    BY <1>1
  <2>2. Sure(db, pc'[t], snap'[t]) /\ Behind(db, backend, pc'[t], plan'[t], snap'[t])
    BY <2>1, RestIsSure DEF Behind, Syncing, Reading
  <2>3. ASSUME SyncsOnly, Turn(t)'
        PROVE  Settles(db, backend, pc'[t], plan'[t], snap'[t])
    <3>1. t = Boot
      BY <1>1, <2>3, BootTurn DEF Turn
    <3>2. pc'[t] = "list" /\ plan'[t] = BestEffortAll /\ snap'[t] = NoSnap
      BY <1>1, <3>1
    <3> QED BY <1>2, <1>3, <2>3, <3>2, BootSettles
  <2> QED BY <2>2, <2>3
<1>5. Boot \in Tasks /\ Turn(Boot)'
  BY <1>1 DEF Turn, Tasks
<1>6. \A t \in Tasks : /\ Sure(db, pc[t], snap[t])'
                      /\ Behind(db, backend, pc[t], plan[t], snap[t])'
                      /\ (SyncsOnly /\ Turn(t) => Settles(db, backend, pc[t], plan[t], snap[t]))'
  BY <1>1, <1>4
<1> QED BY <1>1, <1>2, <1>5, <1>6 DEF J

LEMMA JHolds == Init => J
<1> SUFFICES ASSUME Init PROVE J
  OBVIOUS
<1>1. IInv
  BY InitHolds
<1>2. db \in Tables /\ Consistent(db) /\ Referenced(db)
  BY StartAssumption DEF Init, Referenced
<1>3. /\ pc   = [t \in Tasks |-> IF t = Boot THEN "list" ELSE "idle"]
      /\ plan = [t \in Tasks |-> IF t = Boot THEN BestEffortAll ELSE NoPlan]
      /\ snap = [t \in Tasks |-> NoSnap]
      /\ \A i \in Ifaces : backend[i] = {}
  BY DEF Init
<1>4. Boot \in Tasks /\ Turn(Boot)
  BY <1>3 DEF Turn, Tasks
<1>5. ASSUME NEW t \in Tasks
      PROVE  /\ Sure(db, pc[t], snap[t])
             /\ Behind(db, backend, pc[t], plan[t], snap[t])
             /\ SyncsOnly /\ Turn(t) => Settles(db, backend, pc[t], plan[t], snap[t])
  <2>1. pc[t] \in {"list", "idle"} /\ snap[t] = NoSnap
    BY <1>3
  <2>2. Sure(db, pc[t], snap[t]) /\ Behind(db, backend, pc[t], plan[t], snap[t])
    BY <2>1, RestIsSure DEF Behind, Syncing, Reading
  <2>3. ASSUME Turn(t)
        PROVE  Settles(db, backend, pc[t], plan[t], snap[t])
    <3>1. t = Boot
      BY <1>3, <2>3, BootTurn DEF Turn
    <3>2. pc[t] = "list" /\ plan[t] = BestEffortAll /\ snap[t] = NoSnap
      BY <1>3, <3>1
    <3> QED BY <1>2, <1>3, <3>2, BootSettles
  <2> QED BY <2>2, <2>3
<1> QED BY <1>1, <1>2, <1>4, <1>5 DEF J

LEMMA JKept ==
  ASSUME OneAtATime
  PROVE  J /\ [Next]_vars => J'
<1> SUFFICES ASSUME J, [Next]_vars PROVE J'
  OBVIOUS
<1>0. IInv'
  BY NextKeeps DEF J
<1>1. ASSUME NEW s \in Slots,
             InterfaceRequest(s) \/ GroupRequest(s) \/ UserRequest(s) \/ DeviceRequest(s)
      PROVE  J'
  BY <1>0, <1>1, InterfaceRequestEnforces, GroupRequestEnforces, UserRequestEnforces,
     DeviceRequestEnforces
<1>2. ASSUME NEW s \in Tasks, Step(s)
      PROVE  J'
  BY <1>0, <1>2, StepEnforces
<1>3. \A u \in Users : ~Lapse(u)
  BY DEF Lapse, Commit, OneAtATime
<1>4. CASE Crash
  BY <1>0, <1>4, CrashEnforces
<1>5. CASE UNCHANGED vars
  BY <1>0, <1>5 DEF vars, J, Turn
<1> QED BY <1>1, <1>2, <1>3, <1>4, <1>5 DEF Next

-----------------------------------------------------------------------------
(* The theorems.                                                           *)

\* The invariant above, for requests one at a time.
THEOREM JInvariant ==
  ASSUME OneAtATime
  PROVE  Spec => []J
BY JHolds, JKept, PTL DEF Spec

\* Nobody but the last note of a sync takes a task from there to rest.
LEMMA OnlyNotes ==
  ASSUME J, OneAtATime, [Next]_vars, NEW s \in Slots,
         pc[s] = "noteOk", pc'[s] = "idle", crashes' = crashes
  PROVE  Note(s)
<1>0. s \in Tasks /\ Turn(s) /\ pc \in [Tasks -> Phases]
  BY Running DEF Tasks, J, IInv, TypeOK
<1>1. pc' # pc
  <2> SUFFICES ASSUME pc' = pc PROVE FALSE
    OBVIOUS
  <2>1. pc'[s] = pc[s]
    OBVIOUS
  <2>2. "noteOk" # "idle"
    OBVIOUS
  <2> QED BY <2>1, <2>2
<1>2. \A kind : \A t \in Slots : ~Accept(t, kind)
  BY DEF OneAtATime, Accept
<1>3. \A kind, d : ~Commit(kind, d)
  BY <1>1 DEF Commit
<1>4. \A t \in Slots : ~InterfaceRequest(t)
  BY <1>2 DEF InterfaceRequest, CreateInterface, UpdateInterface, ResyncInterface,
              RemoveInterface
<1>5. \A t \in Slots : ~GroupRequest(t)
  BY <1>2, <1>3 DEF GroupRequest, CreateGroup, UpdateGroup, DeleteGroup
<1>6. \A t \in Slots : ~UserRequest(t)
  BY <1>2, <1>3 DEF UserRequest, CreateUser, SignIn, SetBanned, SetRevoked, DeleteUser
<1>7. \A t \in Slots : ~DeviceRequest(t)
  BY <1>2, <1>3 DEF DeviceRequest, CreateDevice, CreateUnconfigured, RegeneratePeer, DeletePeer
<1>8. \A u \in Users : ~Lapse(u)
  BY <1>3 DEF Lapse
<1>9. ~Crash
  <2>1. crashes \in Nat
    BY ConstantsAssumption DEF J, IInv, TypeOK
  <2> QED BY <2>1 DEF Crash
<1>10. ASSUME NEW t \in Tasks, Step(t)
       PROVE  Note(s)
  <2>1. pc[t] # "idle"
    BY <1>10 DEF Step, ListInterfaces, ListFails, ReadInterface, ReadGroups, ReadPeers, ReadOwner,
       ReadClaims, SyncError, ApplyOk, ApplyFails, Note, DropInterface, TailFails, GrantClaims,
       RecordLogin, Reading
  <2>2. t = s
    BY <1>0, <2>1 DEF Turn
  <2>3. pc[t] = "noteOk" /\ "noteOk" \notin Reading
    BY <2>2 DEF Reading
  <2>4. /\ ~ListInterfaces(t) /\ ~ListFails(t) /\ ~ReadInterface(t) /\ ~ReadGroups(t)
        /\ ~ReadPeers(t) /\ \A k \in Keys : ~ReadOwner(t, k) /\ ~ReadClaims(t, k)
    BY <2>3 DEF ListInterfaces, ListFails, ReadInterface, ReadGroups, ReadPeers, ReadOwner,
                ReadClaims
  <2>5. /\ ~SyncError(t) /\ ~ApplyOk(t) /\ ~ApplyFails(t) /\ ~DropInterface(t)
        /\ ~TailFails(t) /\ ~RecordLogin(t)
        /\ \A pr \in Providers, cs \in SUBSET Claims : ~GrantClaims(t, pr, cs)
    BY <2>3 DEF SyncError, ApplyOk, ApplyFails, DropInterface, TailFails, RecordLogin, GrantClaims
  <2> QED
    BY <1>10, <2>2, <2>4, <2>5 DEF Step
<1> QED BY <1>1, <1>4, <1>5, <1>6, <1>7, <1>8, <1>9, <1>10 DEF Next, vars

\* A ban, a revocation or a deletion that answers success is enforced on every
\* interface (sync_all, server/src/store.rs:852-860), though statements, calls
\* and the process may fail, for any number of interfaces, devices and users.
THEOREM Enforced ==
  ASSUME OneAtATime
  PROVE  Spec => SuccessMeansEnforced
<1>1. ASSUME J, [Next]_vars, NEW s \in Slots,
             pc[s] = "noteOk", pc'[s] = "idle", crashes' = crashes,
             plan[s].strict, plan[s].scope = "all", NEW i \in db.ifaces
      PROVE  backend[i] = Active(db, i)
  <2>1. Note(s) /\ s \in Tasks /\ pc \in [Tasks -> Phases]
    BY <1>1, OnlyNotes DEF Tasks, J, IInv, TypeOK
  <2>2. Continue(s, plan[s])
    BY <1>1, <2>1 DEF Note
  <2>3. plan[s].todo = {}
    BY <1>1, <2>1, <2>2 DEF Continue, StartSync, Goto
  <2>4. Behind(db, backend, "noteOk", plan[s], snap[s])
    BY <1>1, <2>1 DEF J
  <2> QED BY <1>1, <2>3, <2>4 DEF Behind, Ahead, Syncing
<1>2. J /\ [Next]_vars =>
        \A s \in Slots :
          pc[s] = "noteOk" /\ pc'[s] = "idle" /\ crashes' = crashes
          /\ plan[s].strict /\ plan[s].scope = "all"
          => \A i \in db.ifaces : backend[i] = Active(db, i)
  BY <1>1
<1> QED BY <1>2, JInvariant, PTL DEF Spec, SuccessMeansEnforced

\* Whenever no request is in flight every backend is exact, and a deleted
\* interface's is empty ("in real time", README.md:18-19), whatever requests
\* other than logins came one after the other and wherever the server was
\* restarted.  Logins and lapses have to be ruled out: they change who is
\* permitted and sync nothing (server/src/web/auth.rs:104-112), so that one of
\* them, on one slot and without a fault, leaves a backend inexact.
THEOREM ExactAtRest ==
  ASSUME OneAtATime, "fault" \notin Kinds, "signin" \notin Kinds
  PROVE  Spec => []QuiescentExact
<1>1. ASSUME J PROVE QuiescentExact
  <2> SUFFICES ASSUME \A s \in Tasks : pc[s] = "idle"
               PROVE  \A i \in Ifaces : backend[i] = Active(db, i)
    BY DEF QuiescentExact
  <2>1. Boot \in Tasks /\ Turn(Boot)
    BY DEF Turn, Tasks
  <2>2. Settles(db, backend, "idle", plan[Boot], snap[Boot])
    BY <1>1, <2>1 DEF J, SyncsOnly
  <2> QED BY <2>2, RestSettles
<1>2. J => QuiescentExact
  BY <1>1
<1> QED BY <1>2, JInvariant, PTL

\* A step of the model is a step of AccessPromise or a stutter: no backend is
\* brought to anything but what the rows permit at the moment of the call, or
\* taken down (sync_interface and delete_interface, server/src/store.rs).  This
\* is KeepsPromise but for its fairness.
THEOREM Refines ==
  ASSUME OneAtATime, "fault" \notin Kinds
  PROVE  Spec => Promise!Init /\ [][Promise!Next]_Promise!vars
<1> DEFINE allowed == [i \in Ifaces |-> Active(db, i)]
<1>1. Init => Promise!Init
  <2> SUFFICES ASSUME Init PROVE Promise!Init
    OBVIOUS
  <2>1. allowed \in [Ifaces -> SUBSET Keys]
    BY DEF Active, Configured
  <2>2. backend = [i \in Ifaces |-> {}]
    BY DEF Init
  <2> QED BY <2>1, <2>2 DEF Promise!Init
<1>2. ASSUME J, J', [Next]_vars
      PROVE  [Promise!Next]_Promise!vars
  <2>1. CASE backend' = backend
    <3>1. allowed' \in [Ifaces -> SUBSET Keys]
      BY DEF Active, Configured
    <3>2. Promise!Decide
      BY <2>1, <3>1 DEF Promise!Decide
    <3> QED BY <3>2 DEF Promise!Next
  <2>2. ASSUME NEW s \in Tasks, ApplyOk(s)
        PROVE  [Promise!Next]_Promise!vars
    <3> DEFINE i == snap[s].cur
    <3>1. /\ pc[s] = "apply" /\ db' = db
          /\ backend' = [backend EXCEPT ![i] = snap[s].out]
      BY <2>2 DEF ApplyOk, Sync, Goto
    <3>2. Sure(db, "apply", snap[s])
      BY <1>2, <3>1 DEF J
    <3>3. i \in Ifaces /\ snap[s].out = Active(db, i)
      BY <3>2 DEF Sure, TaskInv, ShapeInv, FreshInv, Clean, Loop, Seen
    <3>4. allowed' = allowed /\ allowed[i] = Active(db, i)
      BY <3>1, <3>3
    <3> HIDE DEF allowed
    <3>5. backend' = [backend EXCEPT ![i] = allowed[i]]
      BY <3>1, <3>3, <3>4
    <3> USE DEF allowed
    <3>6. Promise!Enforce(i)
      BY <3>4, <3>5 DEF Promise!Enforce
    <3> QED BY <3>3, <3>6 DEF Promise!Next
  <2>3. ASSUME NEW s \in Slots, NEW i \in Ifaces, RemoveInterface(s, i), backend' # backend
        PROVE  [Promise!Next]_Promise!vars
    <3>1. backend' = [backend EXCEPT ![i] = {}] /\ db' = db
      BY <2>3 DEF RemoveInterface, Goto
    <3>2. Promise!TakeDown(i)
      BY <3>1 DEF Promise!TakeDown
    <3> QED BY <3>2 DEF Promise!Next
  <2>4. ASSUME backend' # backend
        PROVE  \/ \E s \in Tasks : ApplyOk(s)
               \/ \E s \in Slots, i \in Ifaces : RemoveInterface(s, i)
    <3>1. \A s \in Tasks : ~ApplyFails(s)
      BY DEF ApplyFails
    <3>2. \A kind, d : ~Commit(kind, d)
      BY <2>4 DEF Commit, Elsewhere
    <3>3. \A s \in Slots : ~GroupRequest(s) /\ ~UserRequest(s) /\ ~DeviceRequest(s)
      BY <2>4, <3>2 DEF GroupRequest, CreateGroup, UpdateGroup, DeleteGroup,
         UserRequest, CreateUser, SignIn, SetBanned, SetRevoked, DeleteUser,
         DeviceRequest, CreateDevice, CreateUnconfigured, RegeneratePeer, DeletePeer, Elsewhere
    <3>4. ASSUME NEW s \in Slots, InterfaceRequest(s)
          PROVE  \E i \in Ifaces : RemoveInterface(s, i)
      BY <2>4, <3>4 DEF InterfaceRequest, CreateInterface, UpdateInterface, ResyncInterface,
                        Elsewhere
    <3>5. ASSUME NEW s \in Tasks, Step(s)
          PROVE  ApplyOk(s)
      BY <2>4, <3>1, <3>5 DEF Step, ListInterfaces, ListFails, ReadInterface, ReadGroups,
         ReadPeers, ReadOwner, ReadClaims, SyncError, Note, DropInterface, TailFails,
         GrantClaims, RecordLogin, Elsewhere
    <3>6. ~Crash /\ (\A u \in Users : ~Lapse(u)) /\ vars' # vars
      BY <2>4, <3>2 DEF Crash, Lapse, vars
    <3> QED BY <1>2, <3>3, <3>4, <3>5, <3>6 DEF Next
  <2> QED BY <2>1, <2>2, <2>3, <2>4
<1>3. J /\ J' /\ [Next]_vars => [Promise!Next]_Promise!vars
  BY <1>2
<1> QED BY <1>1, <1>3, JInvariant, PTL DEF Spec
=============================================================================
