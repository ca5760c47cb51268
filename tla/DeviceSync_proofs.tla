-------------------------- MODULE DeviceSync_proofs --------------------------
(***************************************************************************)
(* Proofs about DeviceSync, for all its constants: any number of users,    *)
(* groups, interfaces, devices and requests in flight, with failures,      *)
(* lapses and restarts.                                                    *)
(*                                                                         *)
(* A step of one task touches the tables, a backend and its own local      *)
(* variables.  So the invariant is a conjunction over tasks of TaskInv, an *)
(* operator of the tables and of one task's variables: Evolves says   *)
(* what a step may do to the tables, OtherTask that TaskInv survives this  *)
(* for the tasks that did not move, and one lemma per statement of the     *)
(* sync that the task that did move re-establishes it.                     *)
(***************************************************************************)
EXTENDS DeviceSync, FiniteSetTheorems, TLAPS

-----------------------------------------------------------------------------
(* The tables.                                                             *)

\* What no step does to the tables: take a uuid back, or move a device to
\* another interface or owner.
Evolves(d, e) ==
  /\ e \in Tables /\ Consistent(e)
  /\ d.spent \subseteq e.spent
  /\ \A p \in Peers \cap d.spent : e.home[p] = d.home[p] /\ e.owner[p] = d.owner[p]

LEMMA EvolvesRefl ==
  ASSUME NEW d \in Tables, Consistent(d)
  PROVE  Evolves(d, d)
BY DEF Evolves

\* The statements that change rows in place, or add or drop rows that no other
\* row depends on.
LEMMA SimpleStatementsEvolve ==
  ASSUME NEW d \in Tables, Consistent(d)
  PROVE  /\ \A i \in Ifaces, gs \in SUBSET Groups :
              Evolves(d, WithInterface(d, i, gs)) /\ Evolves(d, WithRefs(d, i, gs))
         /\ \A g \in Groups, adm \in SUBSET (Users \cup Claims) :
              Evolves(d, WithGroup(d, g, adm)) /\ Evolves(d, WithAdmits(d, g, adm))
         /\ \A g \in Groups : Evolves(d, WithoutGroup(d, g))
<1>1. ASSUME NEW i \in Ifaces, NEW gs \in SUBSET Groups
      PROVE  Evolves(d, WithInterface(d, i, gs)) /\ Evolves(d, WithRefs(d, i, gs))
  <2>1. Evolves(d, WithInterface(d, i, gs))
    BY DEF Evolves, Tables, Consistent, WithInterface
  <2>2. Evolves(d, WithRefs(d, i, gs))
    BY DEF Evolves, Tables, Consistent, WithRefs
  <2> QED BY <2>1, <2>2
<1>2. ASSUME NEW g \in Groups, NEW adm \in SUBSET (Users \cup Claims)
      PROVE  Evolves(d, WithGroup(d, g, adm)) /\ Evolves(d, WithAdmits(d, g, adm))
  <2>1. Evolves(d, WithGroup(d, g, adm))
    BY DEF Evolves, Tables, Consistent, WithGroup
  <2>2. Evolves(d, WithAdmits(d, g, adm))
    BY DEF Evolves, Tables, Consistent, WithAdmits
  <2> QED BY <2>1, <2>2
<1>3. ASSUME NEW g \in Groups
      PROVE  Evolves(d, WithoutGroup(d, g))
  BY DEF Evolves, Tables, Consistent, WithoutGroup
<1> QED BY <1>1, <1>2, <1>3

\* Deleting device rows.
LEMMA WithoutPeersEvolves ==
  ASSUME NEW d \in Tables, Consistent(d), NEW ps
  PROVE  /\ Evolves(d, WithoutPeers(d, ps))
         /\ WithoutPeers(d, ps).peers = d.peers \ ps
<1> DEFINE e == WithoutPeers(d, ps)
           gen == [p \in Peers |-> IF p \in ps THEN 0 ELSE d.gen[p]]
<1>1. gen \in [Peers -> 0..MaxGen]
  BY ConstantsAssumption DEF Tables
<1>2. e = [d EXCEPT !.peers = d.peers \ ps, !.gen = gen]
  BY DEF WithoutPeers
<1> HIDE DEF gen
<1>3. e \in Tables
  BY <1>1, <1>2 DEF Tables
<1> QED BY <1>2, <1>3 DEF Evolves, Tables, Consistent

LEMMA WithUserEvolves ==
  ASSUME NEW d \in Tables, Consistent(d), NEW u \in Users
  PROVE  Evolves(d, WithUser(d, u))
BY DEF Evolves, Tables, Consistent, WithUser

\* The statements on an existing user.
LEMMA UserStatementsEvolve ==
  ASSUME NEW d \in Tables, Consistent(d)
  PROVE  /\ \A u \in Users, on \in BOOLEAN :
              Evolves(d, WithBan(d, u, on)) /\ Evolves(d, WithRevocation(d, u, on))
         /\ \A u : Evolves(d, WithLogin(d, u))
         /\ \A u, pr, cs : cs \in SUBSET Claims => Evolves(d, WithClaims(d, u, pr, cs))
<1>1. ASSUME NEW u \in Users, NEW on \in BOOLEAN
      PROVE  Evolves(d, WithBan(d, u, on)) /\ Evolves(d, WithRevocation(d, u, on))
  <2>1. Evolves(d, WithBan(d, u, on))
    BY DEF Evolves, Tables, Consistent, WithBan
  <2>2. Evolves(d, WithRevocation(d, u, on))
    BY DEF Evolves, Tables, Consistent, WithRevocation
  <2> QED BY <2>1, <2>2
<1>2. ASSUME NEW u
      PROVE  Evolves(d, WithLogin(d, u))
  BY DEF Evolves, Tables, Consistent, WithLogin
<1>3. ASSUME NEW u, NEW pr, NEW cs \in SUBSET Claims
      PROVE  Evolves(d, WithClaims(d, u, pr, cs))
  BY DEF Evolves, Tables, Consistent, WithClaims
<1> QED BY <1>1, <1>2, <1>3

\* Deleting an interface or a user takes the devices that refer to it along.
LEMMA WithoutInterfaceEvolves ==
  ASSUME NEW d \in Tables, Consistent(d), NEW i
  PROVE  Evolves(d, WithoutInterface(d, i))
<1> DEFINE w == WithoutPeers(d, {p \in d.peers : d.home[p] = i})
           e == [w EXCEPT !.ifaces = @ \ {i}, !.refs[i] = {}]
<1>1. e = WithoutInterface(d, i)
  BY DEF WithoutInterface
<1>2. Evolves(d, w) /\ w.peers = d.peers \ {p \in d.peers : d.home[p] = i}
  BY WithoutPeersEvolves
<1>3. w.home = d.home
  BY DEF WithoutPeers, Tables
<1> HIDE DEF w
<1>4. /\ e \in Tables /\ e.users = w.users /\ e.peers = w.peers /\ e.owner = w.owner
      /\ e.home = w.home /\ e.ifaces = w.ifaces \ {i} /\ e.groups = w.groups
      /\ e.spent = w.spent
  BY <1>2 DEF Evolves, Tables
<1>5. \A p \in e.peers : e.home[p] # i
  BY <1>2, <1>3, <1>4
<1> HIDE DEF e
<1>6. Consistent(e)
  BY <1>2, <1>4, <1>5 DEF Evolves, Consistent
<1> QED BY <1>1, <1>2, <1>4, <1>6 DEF Evolves

LEMMA WithoutUserEvolves ==
  ASSUME NEW d \in Tables, Consistent(d), NEW u
  PROVE  Evolves(d, WithoutUser(d, u))
<1> DEFINE w == WithoutPeers(d, {p \in d.peers : d.owner[p] = u})
           cl == [c \in Users \X Providers |-> IF c[1] = u THEN {} ELSE w.claims[c]]
           e == [w EXCEPT !.users = w.users \ {u}, !.banned = w.banned \ {u},
                          !.revoked = w.revoked \ {u}, !.live = w.live \ {u}, !.claims = cl]
<1>1. e = WithoutUser(d, u)
  BY DEF WithoutUser
<1>2. Evolves(d, w) /\ w.peers = d.peers \ {p \in d.peers : d.owner[p] = u}
  BY WithoutPeersEvolves
<1>3. w.owner = d.owner
  BY DEF WithoutPeers, Tables
<1>4. cl \in [Users \X Providers -> SUBSET Claims]
  BY <1>2 DEF Evolves, Tables
<1> HIDE DEF w, cl
<1>5. e \in Tables
  BY <1>2, <1>4 DEF Evolves, Tables
<1>6. /\ e.users = w.users \ {u} /\ e.peers = w.peers /\ e.owner = w.owner
      /\ e.home = w.home /\ e.ifaces = w.ifaces /\ e.groups = w.groups
      /\ e.spent = w.spent
  BY <1>2 DEF Evolves, Tables
<1>7. \A p \in e.peers : e.owner[p] # u
  BY <1>2, <1>3, <1>6
<1> HIDE DEF e
<1>8. Consistent(e)
  BY <1>2, <1>6, <1>7 DEF Evolves, Consistent
<1> QED BY <1>1, <1>2, <1>5, <1>6, <1>8 DEF Evolves

LEMMA WithDeviceEvolves ==
  ASSUME NEW d \in Tables, Consistent(d), NEW p \in Peers, p \notin d.spent,
         NEW i \in d.ifaces, NEW u \in d.users \cup {NoUser}, NEW n \in 0..MaxGen
  PROVE  Evolves(d, WithDevice(d, p, i, u, n))
<1> DEFINE e == WithDevice(d, p, i, u, n)
<1>1. e \in Tables
  BY DEF Tables, WithDevice, Consistent
<1>2. Consistent(e)
  BY DEF Tables, WithDevice, Consistent
<1>3. /\ d.spent \subseteq e.spent
      /\ \A q \in Peers \cap d.spent : e.home[q] = d.home[q] /\ e.owner[q] = d.owner[q]
  BY DEF Tables, WithDevice
<1> QED BY <1>1, <1>2, <1>3 DEF Evolves

LEMMA WithNewKeyEvolves ==
  ASSUME NEW d \in Tables, Consistent(d), NEW p \in Peers, d.gen[p] < MaxGen
  PROVE  Evolves(d, WithNewKey(d, p))
<1>1. d.gen[p] + 1 \in 0..MaxGen
  BY ConstantsAssumption DEF Tables
<1> QED BY <1>1 DEF Evolves, Tables, Consistent, WithNewKey

-----------------------------------------------------------------------------
(* One task.                                                               *)

Loop == {"owner", "claims", "apply"}

Seen(sn) == sn.rows \cup sn.asking \cup sn.out

\* The shape of the local variables at each phase.
ShapeInv(ph, sn) ==
  /\ ph \in Reading \cup {"apply", "noteOk", "noteErr"} => sn.cur \in Ifaces
  /\ ph \in {"iface", "groups", "peers", "owner", "apply"} => sn.asking = {}
  /\ ph = "claims" => \E k \in Keys : sn.asking = {k}
  /\ ph = "apply" => sn.rows = {}

\* The devices a sync handles have rows, or had, on the interface it syncs.
RowsInv(d, ph, sn) ==
  ph \in Loop => \A k \in Seen(sn) : k[1] \in d.spent /\ d.home[k[1]] = sn.cur

\* While nothing was committed since the sync began, what it read is what the
\* tables hold, what it decided is right, and what it has not decided is ahead.
FreshInv(d, ph, sn, h) ==
  h.fresh =>
    /\ ph = "groups" => sn.refs = d.refs[sn.cur]
    /\ ph \in {"peers"} \cup Loop => sn.admitted = Admitted(d, d.refs[sn.cur])
    /\ ph \in Loop =>
         /\ sn.out \subseteq Active(d, sn.cur)
         /\ Active(d, sn.cur) \subseteq Seen(sn)
         /\ \A k \in sn.rows \cup sn.asking :
              k \in Configured(d, sn.cur) /\ OwnerOf(d, k) # NoUser
         /\ \A k \in sn.asking : InGoodStanding(d, OwnerOf(d, k))

\* The history is about now, and nothing it excludes was let through.
ShutInv(d, ph, sn, h) ==
  /\ \A k \in h.gone : ~Current(d, k)
  /\ \A u \in h.barred : ~InGoodStanding(d, u)
  /\ ph \in Loop =>
       /\ Seen(sn) \cap h.gone = {}
       /\ \A k \in sn.asking \cup sn.out : OwnerOf(d, k) \notin h.barred

TaskInv(d, ph, sn, h) ==
  ShapeInv(ph, sn) /\ RowsInv(d, ph, sn) /\ FreshInv(d, ph, sn, h) /\ ShutInv(d, ph, sn, h)

\* The history of a task when the tables go from d to e.
AgedTo(h, d, e) ==
  [fresh  |-> h.fresh /\ e = d,
   gone   |-> {k \in h.gone : ~Current(e, k)},
   barred |-> {u \in h.barred : ~InGoodStanding(e, u)}]

LEMMA AgedType ==
  ASSUME NEW h \in Hists, NEW d, NEW e
  PROVE  AgedTo(h, d, e) \in Hists
BY DEF AgedTo, Hists

\* A step of another task, or of time, leaves the invariant of this one.
LEMMA OtherTask ==
  ASSUME NEW d \in Tables, NEW e, Evolves(d, e),
         NEW ph, NEW sn \in Snaps, NEW h \in Hists, TaskInv(d, ph, sn, h)
  PROVE  TaskInv(e, ph, sn, AgedTo(h, d, e))
<1> DEFINE g == AgedTo(h, d, e)
<1>0. \A k \in Seen(sn) : k \in Keys /\ k[1] \in Peers
  BY DEF Seen, Snaps, Keys
<1>1. RowsInv(e, ph, sn)
  BY <1>0 DEF TaskInv, RowsInv, Evolves
<1>2. FreshInv(e, ph, sn, g)
  <2>1. CASE ~g.fresh
    BY <2>1 DEF FreshInv
  <2>2. CASE g.fresh
    <3>1. e = d /\ h.fresh
      BY <2>2 DEF AgedTo
    <3> QED BY <3>1 DEF TaskInv, FreshInv
  <2> QED BY <2>1, <2>2
<1>3. ShutInv(e, ph, sn, g)
  <2>1. /\ \A k \in g.gone : ~Current(e, k)
        /\ \A u \in g.barred : ~InGoodStanding(e, u)
        /\ g.gone \subseteq h.gone /\ g.barred \subseteq h.barred
    BY DEF AgedTo
  <2>2. ASSUME ph \in Loop, NEW k \in sn.asking \cup sn.out
        PROVE  OwnerOf(e, k) = OwnerOf(d, k)
    <3>1. k \in Seen(sn)
      BY <2>2 DEF Seen
    <3>2. k[1] \in Peers \cap d.spent
      BY <1>0, <2>2, <3>1 DEF TaskInv, RowsInv
    <3> QED BY <3>2 DEF Evolves, OwnerOf
  <2> HIDE DEF g
  <2> QED BY <2>1, <2>2 DEF TaskInv, ShutInv
<1> QED BY <1>1, <1>2, <1>3 DEF TaskInv

-----------------------------------------------------------------------------
(* The statements of a sync, on one task's variables.                      *)

LEMMA AtRest ==
  ASSUME NEW d, NEW ph \in {"idle", "list", "drop", "grant", "stamp"}, NEW sn
  PROVE  TaskInv(d, ph, sn, NoHist)
BY DEF TaskInv, ShapeInv, RowsInv, FreshInv, ShutInv, NoHist, Loop, Reading

LEMMA AtStart ==
  ASSUME NEW d, NEW i \in Ifaces
  PROVE  TaskInv(d, "iface", [NoSnap EXCEPT !.cur = i], Begun(d))
BY DEF TaskInv, ShapeInv, RowsInv, FreshInv, ShutInv, NoSnap, Begun, Loop, Reading

LEMMA InterfaceRead ==
  ASSUME NEW d, NEW sn \in Snaps, NEW h \in Hists, TaskInv(d, "iface", sn, h)
  PROVE  TaskInv(d, "groups", [sn EXCEPT !.refs = d.refs[sn.cur]], h)
BY DEF TaskInv, ShapeInv, RowsInv, FreshInv, ShutInv, Snaps, Loop, Reading

LEMMA GroupsRead ==
  ASSUME NEW d, NEW sn \in Snaps, NEW h \in Hists, TaskInv(d, "groups", sn, h)
  PROVE  TaskInv(d, "peers", [sn EXCEPT !.admitted = Admitted(d, sn.refs)], h)
BY DEF TaskInv, ShapeInv, RowsInv, FreshInv, ShutInv, Snaps, Loop, Reading

\* The devices without an owner are decided at once.
LEMMA PeersRead ==
  ASSUME NEW d \in Tables, Consistent(d),
         NEW sn \in Snaps, NEW h \in Hists, TaskInv(d, "peers", sn, h),
         NEW owned, owned = {k \in Configured(d, sn.cur) : OwnerOf(d, k) # NoUser}
  PROVE  TaskInv(d, Examine(owned),
                 [sn EXCEPT !.rows = owned, !.out = Configured(d, sn.cur) \ owned], h)
<1> DEFINE ph == Examine(owned)
           listed == Configured(d, sn.cur)
           sm == [sn EXCEPT !.rows = owned, !.out = listed \ owned]
<1>1. /\ sm.cur = sn.cur /\ sm.admitted = sn.admitted /\ sm.asking = {}
      /\ sm.rows = owned /\ sm.out = listed \ owned
  BY DEF Snaps, TaskInv, ShapeInv
<1>2. ph \in {"owner", "apply"} /\ (ph = "apply" <=> owned = {})
  BY DEF Examine
<1>3. Seen(sm) = listed
  BY <1>1 DEF Seen
<1>4. \A k \in listed : Current(d, k) /\ d.home[k[1]] = sn.cur /\ k[1] \in d.spent
  BY DEF Configured, Current, Consistent
<1> HIDE DEF ph, sm
<1>5. ShapeInv(ph, sm)
  BY <1>1, <1>2 DEF TaskInv, ShapeInv, Reading
<1>6. RowsInv(d, ph, sm)
  BY <1>1, <1>3, <1>4 DEF RowsInv
<1>7. FreshInv(d, ph, sm, h)
  <2>1. sm.out \subseteq Active(d, sn.cur)
    BY <1>1 DEF Active, Permitted
  <2>2. Active(d, sn.cur) \subseteq Seen(sm)
    BY <1>3 DEF Active
  <2>3. h.fresh => sm.admitted = Admitted(d, d.refs[sn.cur])
    BY <1>1 DEF TaskInv, FreshInv
  <2>4. \A k \in sm.rows \cup sm.asking :
          k \in Configured(d, sn.cur) /\ OwnerOf(d, k) # NoUser
    BY <1>1
  <2>5. ph # "groups"
    BY <1>2
  <2>6. sm.asking = {} /\ sm.cur = sn.cur
    BY <1>1
  <2> QED BY <2>1, <2>2, <2>3, <2>4, <2>5, <2>6 DEF FreshInv
<1>8. ShutInv(d, ph, sm, h)
  <2>1. Seen(sm) \cap h.gone = {}
    BY <1>3, <1>4 DEF TaskInv, ShutInv
  <2>2. NoUser \notin h.barred
    BY ConstantsAssumption DEF Hists
  <2>3. \A k \in sm.asking \cup sm.out : OwnerOf(d, k) = NoUser
    BY <1>1
  <2> QED BY <2>1, <2>2, <2>3 DEF TaskInv, ShutInv
<1> QED BY <1>5, <1>6, <1>7, <1>8 DEF TaskInv, ph, sm

\* An owner in good standing: the device waits for the claims.
LEMMA OwnerGood ==
  ASSUME NEW d \in Tables, Consistent(d),
         NEW sn \in Snaps, NEW h \in Hists, TaskInv(d, "owner", sn, h),
         NEW k \in sn.rows, InGoodStanding(d, OwnerOf(d, k))
  PROVE  TaskInv(d, "claims", [sn EXCEPT !.rows = sn.rows \ {k}, !.asking = {k}], h)
<1> DEFINE sm == [sn EXCEPT !.rows = sn.rows \ {k}, !.asking = {k}]
<1>1. /\ sm.cur = sn.cur /\ sm.admitted = sn.admitted /\ sm.out = sn.out
      /\ sm.rows = sn.rows \ {k} /\ sm.asking = {k} /\ sn.asking = {}
  BY DEF Snaps, TaskInv, ShapeInv
<1>2. Seen(sm) = Seen(sn) /\ sm.rows \cup sm.asking = sn.rows \cup sn.asking
  BY <1>1 DEF Seen
<1> HIDE DEF sm
<1>3. ShapeInv("claims", sm)
  BY <1>1 DEF TaskInv, ShapeInv, Reading, Snaps
<1>4. RowsInv(d, "claims", sm)
  BY <1>1, <1>2 DEF TaskInv, RowsInv, Loop
<1>5. FreshInv(d, "claims", sm, h)
  BY <1>1, <1>2 DEF TaskInv, FreshInv, Loop
<1>6. ShutInv(d, "claims", sm, h)
  BY <1>1, <1>2 DEF TaskInv, ShutInv, Loop
<1> QED BY <1>3, <1>4, <1>5, <1>6 DEF TaskInv, sm

\* An owner who is not, or no longer has a row: the device is left out.
LEMMA OwnerBad ==
  ASSUME NEW d \in Tables, Consistent(d),
         NEW sn \in Snaps, NEW h \in Hists, TaskInv(d, "owner", sn, h),
         NEW k \in sn.rows, ~InGoodStanding(d, OwnerOf(d, k))
  PROVE  TaskInv(d, Examine(sn.rows \ {k}), [sn EXCEPT !.rows = sn.rows \ {k}], h)
<1> DEFINE sm == [sn EXCEPT !.rows = sn.rows \ {k}]
           ph == Examine(sn.rows \ {k})
<1>1. /\ sm.cur = sn.cur /\ sm.admitted = sn.admitted /\ sm.out = sn.out
      /\ sm.rows = sn.rows \ {k} /\ sm.asking = {} /\ sn.asking = {}
  BY DEF Snaps, TaskInv, ShapeInv
<1>2. ph \in {"owner", "apply"} /\ (ph = "apply" <=> sm.rows = {})
  BY <1>1 DEF Examine
<1>3. Seen(sm) = Seen(sn) \ {k} \/ Seen(sm) = Seen(sn)
  BY <1>1 DEF Seen
<1>4. Seen(sn) \ {k} \subseteq Seen(sm)
  BY <1>1 DEF Seen
<1> HIDE DEF sm, ph
<1>5. ShapeInv(ph, sm)
  BY <1>1, <1>2 DEF TaskInv, ShapeInv, Reading
<1>6. RowsInv(d, ph, sm)
  BY <1>1, <1>2, <1>3 DEF TaskInv, RowsInv, Loop
<1>7. FreshInv(d, ph, sm, h)
  <2>1. SUFFICES ASSUME h.fresh
                 PROVE  /\ sm.admitted = Admitted(d, d.refs[sm.cur])
                        /\ sm.out \subseteq Active(d, sm.cur)
                        /\ Active(d, sm.cur) \subseteq Seen(sm)
                        /\ \A r \in sm.rows :
                             r \in Configured(d, sm.cur) /\ OwnerOf(d, r) # NoUser
    BY <1>1, <1>2 DEF FreshInv, Loop
  <2>2. k \notin Active(d, sn.cur)
    BY <2>1 DEF TaskInv, FreshInv, Loop, Active, Permitted
  <2> QED BY <2>1, <2>2, <1>1, <1>4 DEF TaskInv, FreshInv, Loop
<1>8. ShutInv(d, ph, sm, h)
  BY <1>1, <1>2, <1>3 DEF TaskInv, ShutInv, Loop
<1> QED BY <1>5, <1>6, <1>7, <1>8 DEF TaskInv, sm, ph

\* The claims decide: with the owner in good standing, granted is permitted.
LEMMA ClaimsRead ==
  ASSUME NEW d \in Tables, Consistent(d),
         NEW sn \in Snaps, NEW h \in Hists, TaskInv(d, "claims", sn, h),
         NEW k \in sn.asking, NEW out,
         out = IF AccessGranted(sn.admitted, OwnerOf(d, k), ClaimGroups(d, OwnerOf(d, k)))
                 THEN sn.out \cup {k} ELSE sn.out
  PROVE  TaskInv(d, Examine(sn.rows), [sn EXCEPT !.asking = {}, !.out = out], h)
<1> DEFINE granted == AccessGranted(sn.admitted, OwnerOf(d, k), ClaimGroups(d, OwnerOf(d, k)))
           sm == [sn EXCEPT !.asking = {}, !.out = out]
           ph == Examine(sn.rows)
<1>1. /\ sm.cur = sn.cur /\ sm.admitted = sn.admitted /\ sm.out = out
      /\ sm.rows = sn.rows /\ sm.asking = {} /\ sn.asking = {k}
  BY DEF Snaps, TaskInv, ShapeInv
<1>2. ph \in {"owner", "apply"} /\ (ph = "apply" <=> sm.rows = {})
  BY <1>1 DEF Examine
<1>3. Seen(sm) \subseteq Seen(sn) /\ (granted => Seen(sm) = Seen(sn))
  BY <1>1 DEF Seen
<1>4. Seen(sn) \ {k} \subseteq Seen(sm)
  BY <1>1 DEF Seen
<1> HIDE DEF sm, ph
<1>5. ShapeInv(ph, sm)
  BY <1>1, <1>2 DEF TaskInv, ShapeInv, Reading
<1>6. RowsInv(d, ph, sm)
  BY <1>1, <1>2, <1>3 DEF TaskInv, RowsInv, Loop
<1>7. FreshInv(d, ph, sm, h)
  <2>1. SUFFICES ASSUME h.fresh
                 PROVE  /\ sm.admitted = Admitted(d, d.refs[sm.cur])
                        /\ sm.out \subseteq Active(d, sm.cur)
                        /\ Active(d, sm.cur) \subseteq Seen(sm)
                        /\ \A r \in sm.rows :
                             r \in Configured(d, sm.cur) /\ OwnerOf(d, r) # NoUser
    BY <1>1, <1>2 DEF FreshInv, Loop
  <2>2. k \in Active(d, sn.cur) <=> granted
    BY <2>1 DEF TaskInv, FreshInv, Loop, Active, Permitted
  <2> QED BY <2>1, <2>2, <1>1, <1>3, <1>4 DEF TaskInv, FreshInv, Loop
<1>8. ShutInv(d, ph, sm, h)
  BY <1>1, <1>2, <1>3 DEF TaskInv, ShutInv, Loop
<1> QED BY <1>5, <1>6, <1>7, <1>8 DEF TaskInv, sm, ph

-----------------------------------------------------------------------------
(* All tasks.                                                              *)

AllTasks == \A t \in Tasks : TaskInv(db, pc[t], snap[t], hist[t])

\* The inductive invariant.
IInv == TypeOK /\ OwnDevicesOnly /\ AllTasks

TypedTask(ph, p, sn, h) == ph \in Phases /\ p \in Plans /\ sn \in Snaps /\ h \in Hists

\* Task s moved to local variables that satisfy its invariant.
Moved(s) ==
  \E ph, p, sn, h, d :
    /\ TypedTask(ph, p, sn, h) /\ Evolves(db, d) /\ TaskInv(d, ph, sn, h)
    /\ Goto(s, ph, p, sn, h, d)

\* What a step establishes for the variables that Goto assigns.
Kept ==
  /\ Evolves(db, db')
  /\ pc' \in [Tasks -> Phases] /\ plan' \in [Tasks -> Plans]
  /\ snap' \in [Tasks -> Snaps] /\ hist' \in [Tasks -> Hists]
  /\ AllTasks'

LEMMA MovedKeeps ==
  ASSUME IInv, NEW s \in Tasks, Moved(s)
  PROVE  Kept
<1> PICK ph, p, sn, h, d :
      /\ TypedTask(ph, p, sn, h) /\ Evolves(db, d) /\ TaskInv(d, ph, sn, h)
      /\ Goto(s, ph, p, sn, h, d)
  BY DEF Moved
<1>1. /\ db' = d /\ pc' = [pc EXCEPT ![s] = ph] /\ plan' = [plan EXCEPT ![s] = p]
      /\ snap' = [snap EXCEPT ![s] = sn]
      /\ hist' = [t \in Tasks |-> IF t = s THEN h ELSE AgedTo(hist[t], db, d)]
  BY DEF Goto, Aged, AgedTo
<1>2. /\ ph \in Phases /\ p \in Plans /\ sn \in Snaps /\ h \in Hists
  BY DEF TypedTask
<1>3. /\ pc \in [Tasks -> Phases] /\ plan \in [Tasks -> Plans]
      /\ snap \in [Tasks -> Snaps] /\ hist \in [Tasks -> Hists] /\ db \in Tables
  BY DEF IInv, TypeOK
<1>4. \A t \in Tasks : AgedTo(hist[t], db, d) \in Hists
  BY <1>3, AgedType
<1>5. ASSUME NEW t \in Tasks
      PROVE  TaskInv(d, pc'[t], snap'[t], hist'[t])
  <2>1. CASE t = s
    BY <2>1, <1>1, <1>3
  <2>2. CASE t # s
    <3>1. pc'[t] = pc[t] /\ snap'[t] = snap[t] /\ hist'[t] = AgedTo(hist[t], db, d)
      BY <2>2, <1>1, <1>3
    <3>2. TaskInv(db, pc[t], snap[t], hist[t]) /\ snap[t] \in Snaps /\ hist[t] \in Hists
      BY <1>3 DEF IInv, AllTasks
    <3> QED BY <3>1, <3>2, <1>3, OtherTask
  <2> QED BY <2>1, <2>2
<1>6. AllTasks'
  BY <1>1, <1>5 DEF AllTasks
<1> QED BY <1>1, <1>2, <1>3, <1>4, <1>6 DEF Kept

\* A statement that moves no task.
LEMMA CommitKeeps ==
  ASSUME IInv, NEW d, Evolves(db, d), NEW kind, Commit(kind, d)
  PROVE  Kept /\ Elsewhere
<1>1. /\ db' = d /\ hist' = [t \in Tasks |-> AgedTo(hist[t], db, d)]
      /\ UNCHANGED <<pc, plan, snap>> /\ Elsewhere
  BY DEF Commit, Aged, AgedTo
<1>2. /\ pc \in [Tasks -> Phases] /\ plan \in [Tasks -> Plans]
      /\ snap \in [Tasks -> Snaps] /\ hist \in [Tasks -> Hists] /\ db \in Tables
  BY DEF IInv, TypeOK
<1>3. \A t \in Tasks : AgedTo(hist[t], db, d) \in Hists
  BY <1>2, AgedType
<1>4. ASSUME NEW t \in Tasks
      PROVE  TaskInv(d, pc[t], snap[t], AgedTo(hist[t], db, d))
  <2>1. TaskInv(db, pc[t], snap[t], hist[t]) /\ snap[t] \in Snaps /\ hist[t] \in Hists
    BY <1>2 DEF IInv, AllTasks
  <2> QED BY <2>1, <1>2, OtherTask
<1>5. AllTasks'
  BY <1>1, <1>4 DEF AllTasks
<1> QED BY <1>1, <1>2, <1>3, <1>5 DEF Kept

\* The backends, when the tables evolve and no backend is touched.
LEMMA UntouchedBackends ==
  ASSUME IInv, Evolves(db, db'), backend' = backend
  PROVE  OwnDevicesOnly' /\ backend' \in [Ifaces -> SUBSET Keys]
BY DEF IInv, OwnDevicesOnly, Evolves, TypeOK, Keys

LEMMA KeptElsewhere ==
  ASSUME IInv, Kept, Elsewhere
  PROVE  IInv'
BY UntouchedBackends DEF IInv, Kept, Elsewhere, TypeOK, Evolves

\* The ways to move.
LEMMA Finished ==
  ASSUME NEW s, NEW d, Evolves(db, d), Finish(s, d)
  PROVE  Moved(s)
BY AtRest DEF Finish, Moved, TypedTask, Phases, Plans, Snaps, Hists, NoPlan, NoSnap, NoHist

LEMMA Started ==
  ASSUME NEW s, NEW i \in Ifaces, NEW p \in Plans, NEW d, Evolves(db, d),
         StartSync(s, i, p, d)
  PROVE  Moved(s)
<1>1. [NoSnap EXCEPT !.cur = i] \in Snaps
  BY DEF NoSnap, Snaps
<1>2. Begun(d) \in Hists
  BY DEF Begun, Hists
<1>3. TypedTask("iface", p, [NoSnap EXCEPT !.cur = i], Begun(d))
  BY <1>1, <1>2 DEF TypedTask, Phases, Reading
<1> QED BY <1>3, AtStart DEF StartSync, Moved

LEMMA Resting ==
  ASSUME NEW s, NEW ph \in {"list", "drop", "grant", "stamp"}, NEW p \in Plans,
         NEW sn \in Snaps, NEW d, Evolves(db, d), Goto(s, ph, p, sn, NoHist, d)
  PROVE  Moved(s)
<1>1. TypedTask(ph, p, sn, NoHist)
  BY DEF TypedTask, Phases, Hists, NoHist
<1> QED BY <1>1, AtRest DEF Moved

LEMMA Continued ==
  ASSUME IInv, NEW s, NEW p \in Plans, Continue(s, p)
  PROVE  Moved(s)
<1>1. Evolves(db, db)
  BY EvolvesRefl DEF IInv, TypeOK
<1>2. CASE p.todo = {} /\ Finish(s, db)
  BY <1>1, <1>2, Finished
<1>3. CASE \E i \in p.todo : StartSync(s, i, [p EXCEPT !.todo = @ \ {i}], db)
  <2> PICK i \in p.todo : StartSync(s, i, [p EXCEPT !.todo = @ \ {i}], db)
    BY <1>3
  <2>1. i \in Ifaces /\ [p EXCEPT !.todo = @ \ {i}] \in Plans
    BY DEF Plans
  <2> QED BY <1>1, <2>1, Started
<1> QED BY <1>2, <1>3 DEF Continue

LEMMA NoPlanType == NoPlan \in Plans /\ BestEffortAll \in Plans /\ NoSnap \in Snaps
                   /\ [NoPlan EXCEPT !.scope = "all"] \in Plans
BY DEF NoPlan, Plans, BestEffortAll, NoSnap, Snaps

\* The three syncs a handler ends with.
LEMMA SyncedOne ==
  ASSUME NEW s, NEW i \in Ifaces, NEW d, Evolves(db, d), SyncOne(s, i, d)
  PROVE  Moved(s)
BY Started, NoPlanType DEF SyncOne

LEMMA SyncedAll ==
  ASSUME NEW s, NEW d, Evolves(db, d), SyncAll(s, d)
  PROVE  Moved(s)
BY Resting, NoPlanType DEF SyncAll

LEMMA SyncedReferencing ==
  ASSUME NEW s, NEW g \in Groups, NEW d, Evolves(db, d), SyncReferencing(s, g, d)
  PROVE  Moved(s)
<1>1. [NoPlan EXCEPT !.scope = "group", !.strict = FALSE, !.only = g] \in Plans
  BY DEF NoPlan, Plans
<1> QED BY <1>1, Resting, NoPlanType DEF SyncReferencing

-----------------------------------------------------------------------------
(* The handlers.                                                           *)

LEMMA InterfaceRequestKeeps ==
  ASSUME IInv, NEW s \in Slots, InterfaceRequest(s)
  PROVE  IInv'
<1>0. s \in Tasks /\ db \in Tables /\ Consistent(db) /\ Evolves(db, db)
  BY EvolvesRefl DEF IInv, TypeOK, Tasks
<1>1. ASSUME NEW i \in Ifaces, NEW gs \in SUBSET Groups, CreateInterface(s, i, gs)
      PROVE  IInv'
  <2>1. Evolves(db, WithInterface(db, i, gs))
    BY <1>0, SimpleStatementsEvolve
  <2>2. Moved(s) /\ Elsewhere
    BY <1>1, <2>1, SyncedOne DEF CreateInterface
  <2> QED BY <1>0, <2>2, MovedKeeps, KeptElsewhere
<1>2. ASSUME NEW i \in Ifaces, NEW gs \in SUBSET Groups, UpdateInterface(s, i, gs)
      PROVE  IInv'
  <2>1. Evolves(db, WithRefs(db, i, gs))
    BY <1>0, SimpleStatementsEvolve
  <2>2. Moved(s) /\ Elsewhere
    BY <1>2, <2>1, SyncedOne DEF UpdateInterface
  <2> QED BY <1>0, <2>2, MovedKeeps, KeptElsewhere
<1>3. ASSUME NEW i \in Ifaces, ResyncInterface(s, i)
      PROVE  IInv'
  <2>1. Moved(s) /\ Elsewhere
    BY <1>0, <1>3, SyncedOne DEF ResyncInterface
  <2> QED BY <1>0, <2>1, MovedKeeps, KeptElsewhere
<1>4. ASSUME NEW i \in Ifaces, RemoveInterface(s, i)
      PROVE  IInv'
  <2>1. [NoSnap EXCEPT !.cur = i] \in Snaps
    BY DEF NoSnap, Snaps
  <2>2. Moved(s)
    BY <1>0, <1>4, <2>1, Resting, NoPlanType DEF RemoveInterface
  <2>3. Kept
    BY <1>0, <2>2, MovedKeeps
  <2>4. PICK part \in SUBSET backend[i] : backend' = [backend EXCEPT ![i] = part]
    BY <1>4, SMT DEF RemoveInterface
  <2>5. OwnDevicesOnly' /\ backend' \in [Ifaces -> SUBSET Keys]
    <3>1. part \in SUBSET Keys
      BY DEF IInv, TypeOK
    <3>2. \A j \in Ifaces : backend'[j] \subseteq backend[j]
      BY <2>4 DEF IInv, TypeOK
    <3> QED BY <2>3, <2>4, <3>1, <3>2 DEF Kept, IInv, OwnDevicesOnly, Evolves, TypeOK, Keys
  <2> QED BY <1>4, <2>3, <2>5 DEF IInv, Kept, RemoveInterface, TypeOK, Evolves
<1> QED BY <1>1, <1>2, <1>3, <1>4 DEF InterfaceRequest

LEMMA GroupRequestKeeps ==
  ASSUME IInv, NEW s \in Slots, GroupRequest(s)
  PROVE  IInv'
<1>0. s \in Tasks /\ db \in Tables /\ Consistent(db)
  BY DEF IInv, TypeOK, Tasks
<1>1. ASSUME NEW g \in Groups, NEW adm \in SUBSET (Users \cup Claims), CreateGroup(g, adm)
      PROVE  IInv'
  <2>1. Evolves(db, WithGroup(db, g, adm))
    BY <1>0, SimpleStatementsEvolve
  <2>2. Kept /\ Elsewhere
    BY <1>1, <2>1, CommitKeeps DEF CreateGroup
  <2> QED BY <2>2, KeptElsewhere
<1>2. ASSUME NEW g \in Groups, NEW adm \in SUBSET (Users \cup Claims), UpdateGroup(s, g, adm)
      PROVE  IInv'
  <2>1. Evolves(db, WithAdmits(db, g, adm))
    BY <1>0, SimpleStatementsEvolve
  <2>2. Moved(s) /\ Elsewhere
    BY <1>2, <2>1, SyncedReferencing DEF UpdateGroup
  <2> QED BY <1>0, <2>2, MovedKeeps, KeptElsewhere
<1>3. ASSUME NEW g \in Groups, DeleteGroup(s, g)
      PROVE  IInv'
  <2>1. Evolves(db, WithoutGroup(db, g))
    BY <1>0, SimpleStatementsEvolve
  <2>2. Moved(s) /\ Elsewhere
    BY <1>3, <2>1, SyncedReferencing DEF DeleteGroup
  <2> QED BY <1>0, <2>2, MovedKeeps, KeptElsewhere
<1> QED BY <1>1, <1>2, <1>3 DEF GroupRequest

LEMMA UserRequestKeeps ==
  ASSUME IInv, NEW s \in Slots, UserRequest(s)
  PROVE  IInv'
<1>0. s \in Tasks /\ db \in Tables /\ Consistent(db) /\ Evolves(db, db)
  BY EvolvesRefl DEF IInv, TypeOK, Tasks
<1>1. ASSUME NEW u \in Users, CreateUser(u)
      PROVE  IInv'
  <2>1. Evolves(db, WithUser(db, u))
    BY <1>0, WithUserEvolves
  <2>2. Kept /\ Elsewhere
    BY <1>1, <2>1, CommitKeeps DEF CreateUser
  <2> QED BY <2>2, KeptElsewhere
<1>2. ASSUME NEW u \in Users, SignIn(s, u)
      PROVE  IInv'
  <2> DEFINE p == [NoPlan EXCEPT !.who = u]
  <2>1. Evolves(db, WithUser(db, u))
    BY <1>0, WithUserEvolves
  <2>2. p \in Plans
    BY DEF NoPlan, Plans
  <2>3. PICK ph \in {"grant", "stamp"} :
          \/ Goto(s, ph, p, NoSnap, NoHist, db)
          \/ Goto(s, ph, p, NoSnap, NoHist, WithUser(db, u))
    BY <1>2 DEF SignIn
  <2> HIDE DEF p
  <2>4. Moved(s)
    BY <1>0, <2>1, <2>2, <2>3, Resting, NoPlanType
  <2>5. Elsewhere
    BY <1>2 DEF SignIn
  <2> QED BY <1>0, <2>4, <2>5, MovedKeeps, KeptElsewhere
<1>3. ASSUME NEW u \in Users, NEW on \in BOOLEAN, SetBanned(s, u, on)
      PROVE  IInv'
  <2>1. Evolves(db, WithBan(db, u, on))
    BY <1>0, UserStatementsEvolve
  <2>2. Moved(s) /\ Elsewhere
    BY <1>3, <2>1, SyncedAll DEF SetBanned
  <2> QED BY <1>0, <2>2, MovedKeeps, KeptElsewhere
<1>4. ASSUME NEW u \in Users, NEW on \in BOOLEAN, SetRevoked(s, u, on)
      PROVE  IInv'
  <2>1. Evolves(db, WithRevocation(db, u, on))
    BY <1>0, UserStatementsEvolve
  <2>2. Moved(s) /\ Elsewhere
    BY <1>4, <2>1, SyncedAll DEF SetRevoked
  <2> QED BY <1>0, <2>2, MovedKeeps, KeptElsewhere
<1>5. ASSUME NEW u \in Users, DeleteUser(s, u)
      PROVE  IInv'
  <2>1. Evolves(db, WithoutUser(db, u))
    BY <1>0, WithoutUserEvolves
  <2>2. Moved(s) /\ Elsewhere
    BY <1>5, <2>1, SyncedAll DEF DeleteUser
  <2> QED BY <1>0, <2>2, MovedKeeps, KeptElsewhere
<1> QED BY <1>1, <1>2, <1>3, <1>4, <1>5 DEF UserRequest

LEMMA DeviceRequestKeeps ==
  ASSUME IInv, NEW s \in Slots, DeviceRequest(s)
  PROVE  IInv'
<1>0. s \in Tasks /\ db \in Tables /\ Consistent(db)
  BY DEF IInv, TypeOK, Tasks
<1>1. ASSUME NEW p \in Peers, NEW i \in Ifaces, NEW u \in Users \cup {NoUser},
             CreateDevice(s, p, i, u)
      PROVE  IInv'
  <2>1. 1 \in 0..MaxGen
    BY <1>1, ConstantsAssumption DEF CreateDevice
  <2>2. Evolves(db, WithDevice(db, p, i, u, 1))
    BY <1>0, <1>1, <2>1, WithDeviceEvolves DEF CreateDevice
  <2>3. Moved(s) /\ Elsewhere
    BY <1>1, <2>2, SyncedOne DEF CreateDevice
  <2> QED BY <1>0, <2>3, MovedKeeps, KeptElsewhere
<1>2. ASSUME NEW p \in Peers, NEW i \in Ifaces, NEW u \in Users \cup {NoUser},
             CreateUnconfigured(p, i, u)
      PROVE  IInv'
  <2>1. 0 \in 0..MaxGen
    BY ConstantsAssumption
  <2>2. Evolves(db, WithDevice(db, p, i, u, 0))
    BY <1>0, <1>2, <2>1, WithDeviceEvolves DEF CreateUnconfigured
  <2>3. Kept /\ Elsewhere
    BY <1>2, <2>2, CommitKeeps DEF CreateUnconfigured
  <2> QED BY <2>3, KeptElsewhere
<1>3. ASSUME NEW p \in Peers, RegeneratePeer(s, p)
      PROVE  IInv'
  <2>1. db.home[p] \in Ifaces
    BY <1>0 DEF Tables
  <2>2. Evolves(db, WithNewKey(db, p))
    BY <1>0, <1>3, WithNewKeyEvolves DEF RegeneratePeer
  <2>3. Moved(s) /\ Elsewhere
    BY <1>3, <2>1, <2>2, SyncedOne DEF RegeneratePeer
  <2> QED BY <1>0, <2>3, MovedKeeps, KeptElsewhere
<1>4. ASSUME NEW p \in Peers, DeletePeer(s, p)
      PROVE  IInv'
  <2>1. db.home[p] \in Ifaces /\ Evolves(db, WithoutPeers(db, {p}))
    BY <1>0, WithoutPeersEvolves DEF Tables
  <2>2. Moved(s) /\ Elsewhere
    BY <1>4, <2>1, SyncedOne DEF DeletePeer
  <2> QED BY <1>0, <2>2, MovedKeeps, KeptElsewhere
<1> QED BY <1>1, <1>2, <1>3, <1>4 DEF DeviceRequest

-----------------------------------------------------------------------------
(* The steps of a task.                                                    *)

\* A step of the running sync: the tables stay.
LEMMA Synced ==
  ASSUME IInv, NEW s \in Tasks, NEW ph \in Phases, NEW sn \in Snaps,
         TaskInv(db, ph, sn, hist[s]), Sync(s, ph, sn)
  PROVE  Moved(s)
<1>1. Evolves(db, db)
  BY EvolvesRefl DEF IInv, TypeOK
<1>2. TypedTask(ph, plan[s], sn, hist[s])
  BY DEF IInv, TypeOK, TypedTask
<1> QED BY <1>1, <1>2 DEF Sync, Moved

LEMMA Failed ==
  ASSUME IInv, NEW s \in Tasks, SyncFailed(s)
  PROVE  Moved(s)
<1>1. Evolves(db, db) /\ plan[s] \in Plans
  BY EvolvesRefl DEF IInv, TypeOK
<1> QED BY <1>1, Finished, Continued DEF SyncFailed

\* The statements that read leave the backends alone.
LEMMA ReadingKeeps ==
  ASSUME IInv, NEW s \in Tasks,
         \/ ReadInterface(s) \/ ReadGroups(s) \/ ReadPeers(s)
         \/ \E k \in Keys : ReadOwner(s, k) \/ ReadClaims(s, k)
  PROVE  IInv'
<1> DEFINE sn == snap[s]
           h == hist[s]
<1>0. /\ db \in Tables /\ Consistent(db) /\ sn \in Snaps /\ h \in Hists
      /\ TaskInv(db, pc[s], sn, h)
  BY DEF IInv, TypeOK, AllTasks
<1>1. CASE ReadInterface(s)
  <2> DEFINE sm == [sn EXCEPT !.refs = db.refs[sn.cur]]
  <2>1. /\ pc[s] = "iface" /\ sn.cur \in db.ifaces /\ Sync(s, "groups", sm) /\ Elsewhere
    BY <1>1 DEF ReadInterface
  <2>2. sm \in Snaps /\ "groups" \in Phases
    BY <1>0, <2>1 DEF Snaps, Tables, Phases, Reading
  <2>3. TaskInv(db, "groups", sm, h)
    BY <1>0, <2>1, InterfaceRead
  <2> HIDE DEF sm
  <2> QED BY <2>1, <2>2, <2>3, Synced, MovedKeeps, KeptElsewhere
<1>2. CASE ReadGroups(s)
  <2> DEFINE sm == [sn EXCEPT !.admitted = Admitted(db, sn.refs)]
  <2>1. /\ pc[s] = "groups" /\ Sync(s, "peers", sm) /\ Elsewhere
    BY <1>2 DEF ReadGroups
  <2>2. sm \in Snaps /\ "peers" \in Phases
    BY <1>0 DEF Snaps, Tables, Phases, Reading, Admitted
  <2>3. TaskInv(db, "peers", sm, h)
    BY <1>0, <2>1, GroupsRead
  <2> HIDE DEF sm
  <2> QED BY <2>1, <2>2, <2>3, Synced, MovedKeeps, KeptElsewhere
<1>3. CASE ReadPeers(s)
  <2> DEFINE listed == Configured(db, sn.cur)
             owned == {k \in listed : OwnerOf(db, k) # NoUser}
             sm == [sn EXCEPT !.rows = owned, !.out = listed \ owned]
  <2>1. /\ pc[s] = "peers" /\ Sync(s, Examine(owned), sm) /\ Elsewhere
    BY <1>3 DEF ReadPeers
  <2>2. sm \in Snaps /\ Examine(owned) \in Phases
    BY <1>0 DEF Snaps, Configured, Examine, Phases, Reading
  <2>3. TaskInv(db, Examine(owned), sm, h)
    BY <1>0, <2>1, PeersRead
  <2> HIDE DEF sm, owned
  <2> QED BY <2>1, <2>2, <2>3, Synced, MovedKeeps, KeptElsewhere
<1>4. ASSUME NEW k \in Keys, ReadOwner(s, k)
      PROVE  IInv'
  <2>1. pc[s] = "owner" /\ k \in sn.rows /\ Elsewhere
    BY <1>4 DEF ReadOwner
  <2>2. CASE InGoodStanding(db, OwnerOf(db, k))
    <3> DEFINE sm == [sn EXCEPT !.rows = sn.rows \ {k}, !.asking = {k}]
    <3>1. Sync(s, "claims", sm)
      BY <1>4, <2>2 DEF ReadOwner
    <3>2. sm \in Snaps /\ "claims" \in Phases
      BY <1>0 DEF Snaps, Phases, Reading
    <3>3. TaskInv(db, "claims", sm, h)
      BY <1>0, <2>1, <2>2, OwnerGood
    <3> HIDE DEF sm
    <3> QED BY <2>1, <3>1, <3>2, <3>3, Synced, MovedKeeps, KeptElsewhere
  <2>3. CASE ~InGoodStanding(db, OwnerOf(db, k))
    <3> DEFINE sm == [sn EXCEPT !.rows = sn.rows \ {k}]
               ph == Examine(sn.rows \ {k})
    <3>1. Sync(s, ph, sm)
      BY <1>4, <2>3 DEF ReadOwner
    <3>2. sm \in Snaps /\ ph \in Phases
      BY <1>0 DEF Snaps, Phases, Reading, Examine
    <3>3. TaskInv(db, ph, sm, h)
      BY <1>0, <2>1, <2>3, OwnerBad
    <3> HIDE DEF sm, ph
    <3> QED BY <2>1, <3>1, <3>2, <3>3, Synced, MovedKeeps, KeptElsewhere
  <2> QED BY <2>2, <2>3
<1>5. ASSUME NEW k \in Keys, ReadClaims(s, k)
      PROVE  IInv'
  <2> DEFINE u == OwnerOf(db, k)
             granted == AccessGranted(sn.admitted, u, ClaimGroups(db, u))
             out == IF granted THEN sn.out \cup {k} ELSE sn.out
             sm == [sn EXCEPT !.asking = {}, !.out = out]
             ph == Examine(sn.rows)
  <2>1. /\ pc[s] = "claims" /\ k \in sn.asking /\ Sync(s, ph, sm) /\ Elsewhere
    BY <1>5 DEF ReadClaims
  <2>2. sm \in Snaps /\ ph \in Phases
    BY <1>0 DEF Snaps, Phases, Reading, Examine
  <2>3. out = IF AccessGranted(sn.admitted, OwnerOf(db, k), ClaimGroups(db, OwnerOf(db, k)))
               THEN sn.out \cup {k} ELSE sn.out
    OBVIOUS
  <2> HIDE DEF out
  <2>4. TaskInv(db, ph, sm, h)
    BY <1>0, <2>1, <2>3, ClaimsRead
  <2> HIDE DEF sm, ph
  <2> QED BY <2>1, <2>2, <2>4, Synced, MovedKeeps, KeptElsewhere
<1> QED BY <1>1, <1>2, <1>3, <1>4, <1>5

\* The listing and the failures.
LEMMA ControlKeeps ==
  ASSUME IInv, NEW s \in Tasks, ListInterfaces(s) \/ ListFails(s) \/ SyncError(s)
  PROVE  IInv'
<1>0. db \in Tables /\ Evolves(db, db) /\ plan[s] \in Plans
  BY EvolvesRefl DEF IInv, TypeOK
<1>1. CASE ListInterfaces(s)
  <2> DEFINE p == [plan[s] EXCEPT !.todo =
                     {i \in db.ifaces : plan[s].scope = "group" => plan[s].only \in db.refs[i]}]
  <2>1. p \in Plans
    BY <1>0 DEF Plans, Tables
  <2>2. Continue(s, p) /\ Elsewhere
    BY <1>1 DEF ListInterfaces
  <2> HIDE DEF p
  <2> QED BY <2>1, <2>2, Continued, MovedKeeps, KeptElsewhere
<1>2. CASE ListFails(s)
  BY <1>0, <1>2, Finished, MovedKeeps, KeptElsewhere DEF ListFails
<1>3. CASE SyncError(s)
  BY <1>3, Failed, MovedKeeps, KeptElsewhere DEF SyncError
<1> QED BY <1>1, <1>2, <1>3

\* The apply: what is pushed are devices of the interface, whole or in part.
LEMMA ApplyKeeps ==
  ASSUME IInv, NEW s \in Tasks, ApplyOk(s) \/ ApplyFails(s)
  PROVE  IInv'
<1> DEFINE i == snap[s].cur
           out == snap[s].out
<1>0. /\ pc[s] = "apply" /\ UNCHANGED <<lastError, crashes>>
      /\ \E ph \in {"noteOk", "noteErr"} : Sync(s, ph, snap[s])
      /\ \E part \in SUBSET (backend[i] \cup out) : backend' = [backend EXCEPT ![i] = part]
  BY DEF ApplyOk, ApplyFails
<1>1. /\ db \in Tables /\ snap[s] \in Snaps /\ backend \in [Ifaces -> SUBSET Keys]
      /\ TaskInv(db, "apply", snap[s], hist[s])
  BY <1>0 DEF IInv, TypeOK, AllTasks
<1>2. i \in Ifaces /\ out \subseteq Keys
  BY <1>1 DEF TaskInv, ShapeInv, Snaps
<1>3. \A k \in out : k[1] \in db.spent /\ db.home[k[1]] = i
  BY <1>1 DEF TaskInv, RowsInv, Loop, Seen
<1>4. Kept
  <2>1. PICK ph \in {"noteOk", "noteErr"} : Sync(s, ph, snap[s])
    BY <1>0
  <2>2. TaskInv(db, ph, snap[s], hist[s])
    BY <1>1, <1>2 DEF TaskInv, ShapeInv, RowsInv, FreshInv, ShutInv, Loop, Reading
  <2> QED BY <1>1, <2>1, <2>2, Synced, MovedKeeps DEF Phases
<1>5. OwnDevicesOnly' /\ backend' \in [Ifaces -> SUBSET Keys]
  <2>1. PICK part \in SUBSET (backend[i] \cup out) : backend' = [backend EXCEPT ![i] = part]
    BY <1>0
  <2>2. backend' \in [Ifaces -> SUBSET Keys]
    BY <1>1, <1>2, <2>1
  <2>3. ASSUME NEW j \in Ifaces, NEW k \in backend'[j]
        PROVE  k[1] \in db.spent /\ db.home[k[1]] = j
    BY <1>1, <1>2, <1>3, <2>1, <2>3 DEF IInv, OwnDevicesOnly
  <2>4. ASSUME NEW j \in Ifaces, NEW k \in backend'[j]
        PROVE  k[1] \in db'.spent /\ db'.home[k[1]] = j
    BY <1>4, <2>2, <2>3 DEF Kept, Evolves, Keys
  <2> QED BY <2>2, <2>4 DEF OwnDevicesOnly
<1> QED BY <1>0, <1>4, <1>5 DEF IInv, Kept, TypeOK, Evolves

LEMMA NoteKeeps ==
  ASSUME IInv, NEW s \in Tasks, Note(s)
  PROVE  IInv'
<1>1. Moved(s)
  BY Continued, Failed DEF Note, IInv, TypeOK
<1>2. backend' = backend /\ crashes' = crashes
  BY DEF Note
<1>3. lastError' \in [Ifaces -> BOOLEAN]
  BY DEF Note, IInv, TypeOK
<1>4. Kept
  BY <1>1, MovedKeeps
<1> QED BY <1>2, <1>3, <1>4, UntouchedBackends DEF IInv, Kept, TypeOK, Evolves

\* Deleting an interface and its devices, and the statements of a login.
LEMMA TailKeeps ==
  ASSUME IInv, NEW s \in Tasks,
         \/ DropInterface(s) \/ TailFails(s) \/ RecordLogin(s)
         \/ \E pr \in Providers, cs \in SUBSET Claims : GrantClaims(s, pr, cs)
  PROVE  IInv'
<1>0. /\ db \in Tables /\ Consistent(db) /\ Evolves(db, db) /\ plan[s] \in Plans
      /\ snap[s] \in Snaps
  BY EvolvesRefl DEF IInv, TypeOK
<1>1. CASE DropInterface(s)
  <2> DEFINE i == snap[s].cur
  <2>1. /\ Finish(s, WithoutInterface(db, i)) /\ UNCHANGED <<backend, crashes>>
        /\ lastError' = [lastError EXCEPT ![i] = FALSE]
    BY <1>1 DEF DropInterface
  <2>2. Evolves(db, WithoutInterface(db, i))
    BY <1>0, WithoutInterfaceEvolves
  <2> HIDE DEF i
  <2>3. Kept
    BY <2>1, <2>2, Finished, MovedKeeps
  <2> QED BY <2>1, <2>3, UntouchedBackends DEF IInv, Kept, TypeOK, Evolves
<1>2. CASE TailFails(s)
  BY <1>0, <1>2, Finished, MovedKeeps, KeptElsewhere DEF TailFails
<1>3. CASE RecordLogin(s)
  <2>1. Evolves(db, WithLogin(db, plan[s].who))
    BY <1>0, UserStatementsEvolve
  <2> QED BY <1>3, <2>1, Finished, MovedKeeps, KeptElsewhere DEF RecordLogin
<1>4. ASSUME NEW pr \in Providers, NEW cs \in SUBSET Claims, GrantClaims(s, pr, cs)
      PROVE  IInv'
  <2> DEFINE d == WithClaims(db, plan[s].who, pr, cs)
  <2>1. Evolves(db, d)
    BY <1>0, UserStatementsEvolve
  <2>2. Elsewhere /\ (Finish(s, db) \/ Goto(s, "stamp", plan[s], NoSnap, NoHist, d))
    BY <1>4 DEF GrantClaims
  <2> HIDE DEF d
  <2> QED BY <1>0, <2>1, <2>2, Finished, Resting, NoPlanType, MovedKeeps, KeptElsewhere
<1> QED BY <1>1, <1>2, <1>3, <1>4

LEMMA StepKeeps ==
  ASSUME IInv, NEW s \in Tasks, Step(s)
  PROVE  IInv'
BY ReadingKeeps, ControlKeeps, ApplyKeeps, NoteKeeps, TailKeeps DEF Step

-----------------------------------------------------------------------------
(* Time, restarts, and the whole.                                          *)

LEMMA LapseKeeps ==
  ASSUME IInv, NEW u \in Users, Lapse(u)
  PROVE  IInv'
<1> DEFINE d == [db EXCEPT !.live = @ \ {u}]
<1>1. Evolves(db, d)
  BY DEF IInv, TypeOK, Evolves, Tables, Consistent
<1>2. Kept /\ Elsewhere
  BY <1>1, CommitKeeps DEF Lapse
<1> QED BY <1>2, KeptElsewhere

\* The tasks of a server that has just started.
LEMMA Booting ==
  LET booting == [t \in Tasks |-> IF t = Boot THEN "list" ELSE "idle"]
      planned == [t \in Tasks |-> IF t = Boot THEN BestEffortAll ELSE NoPlan]
  IN  /\ booting \in [Tasks -> Phases] /\ planned \in [Tasks -> Plans]
      /\ [t \in Tasks |-> NoSnap] \in [Tasks -> Snaps]
      /\ [t \in Tasks |-> NoHist] \in [Tasks -> Hists]
      /\ \A d : \A t \in Tasks : TaskInv(d, booting[t], NoSnap, NoHist)
<1>1. NoHist \in Hists
  BY DEF NoHist, Hists
<1>2. "list" \in Phases /\ "idle" \in Phases
  BY DEF Phases
<1> QED BY <1>1, <1>2, NoPlanType, AtRest

LEMMA CrashKeeps ==
  ASSUME IInv, Crash
  PROVE  IInv'
<1>1. /\ pc'   = [t \in Tasks |-> IF t = Boot THEN "list" ELSE "idle"]
      /\ plan' = [t \in Tasks |-> IF t = Boot THEN BestEffortAll ELSE NoPlan]
      /\ snap' = [t \in Tasks |-> NoSnap]
      /\ hist' = [t \in Tasks |-> NoHist]
      /\ UNCHANGED <<db, backend, lastError>>
  BY DEF Crash
<1>2. crashes' \in 0..MaxCrashes
  BY ConstantsAssumption DEF Crash, IInv, TypeOK
<1>3. AllTasks'
  BY <1>1, Booting DEF AllTasks
<1>4. Evolves(db, db')
  BY <1>1, EvolvesRefl DEF IInv, TypeOK
<1>5. Kept
  BY <1>1, <1>3, <1>4, Booting DEF Kept
<1> QED BY <1>1, <1>2, <1>5, UntouchedBackends DEF IInv, Kept, TypeOK, Evolves

LEMMA InitHolds == Init => IInv
<1> SUFFICES ASSUME Init PROVE IInv
  OBVIOUS
<1>1. db \in Tables /\ Consistent(db)
  BY StartAssumption DEF Init
<1>2. /\ pc   = [t \in Tasks |-> IF t = Boot THEN "list" ELSE "idle"]
      /\ plan = [t \in Tasks |-> IF t = Boot THEN BestEffortAll ELSE NoPlan]
      /\ snap = [t \in Tasks |-> NoSnap]
      /\ hist = [t \in Tasks |-> NoHist]
  BY DEF Init
<1>3. backend \in [Ifaces -> SUBSET Keys] /\ lastError \in [Ifaces -> BOOLEAN]
  BY DEF Init
<1>4. crashes \in 0..MaxCrashes
  BY ConstantsAssumption DEF Init
<1>5. AllTasks
  BY <1>2, Booting DEF AllTasks
<1>6. OwnDevicesOnly
  BY DEF Init, OwnDevicesOnly
<1> QED BY <1>1, <1>2, <1>3, <1>4, <1>5, <1>6, Booting DEF IInv, TypeOK

LEMMA NextKeeps == IInv /\ [Next]_vars => IInv'
<1> SUFFICES ASSUME IInv, [Next]_vars PROVE IInv'
  OBVIOUS
<1>1. ASSUME NEW s \in Slots,
             InterfaceRequest(s) \/ GroupRequest(s) \/ UserRequest(s) \/ DeviceRequest(s)
      PROVE  IInv'
  BY <1>1, InterfaceRequestKeeps, GroupRequestKeeps, UserRequestKeeps, DeviceRequestKeeps
<1>2. ASSUME NEW s \in Tasks, Step(s)
      PROVE  IInv'
  BY <1>2, StepKeeps
<1>3. ASSUME NEW u \in Users, Lapse(u)
      PROVE  IInv'
  BY <1>3, LapseKeeps
<1>4. CASE Crash
  BY <1>4, CrashKeeps
<1>5. CASE UNCHANGED vars
  BY <1>5 DEF vars, IInv, TypeOK, OwnDevicesOnly, AllTasks
<1> QED BY <1>1, <1>2, <1>3, <1>4, <1>5 DEF Next

-----------------------------------------------------------------------------
(* The theorems.                                                           *)

\* The invariant above holds of every reachable state.
THEOREM Invariance == Spec => []IInv
BY InitHolds, NextKeeps, PTL DEF Spec

\* The handlers and syncs of any number of tasks keep the types of all state
\* and the foreign keys of wg_peers (migrations/0001_init.sql:58-59).
THEOREM TypeCorrect == Spec => []TypeOK
<1>1. IInv => TypeOK
  BY DEF IInv
<1> QED BY <1>1, Invariance, PTL

\* A sync whose reads no commit overlapped computes exactly the permitted
\* devices (list_active_peers, server/src/store.rs:790-820), however many
\* users, groups and devices it loops over.
THEOREM SyncExact == Spec => []FreshSyncExact
<1>1. ASSUME IInv PROVE FreshSyncExact
  <2> SUFFICES ASSUME NEW s \in Tasks, pc[s] = "apply", hist[s].fresh
               PROVE  snap[s].out = Active(db, snap[s].cur)
    BY DEF FreshSyncExact
  <2>1. TaskInv(db, "apply", snap[s], hist[s])
    BY <1>1 DEF IInv, AllTasks
  <2>2. Seen(snap[s]) = snap[s].out
    BY <2>1 DEF TaskInv, ShapeInv, Seen
  <2> QED BY <2>1, <2>2 DEF TaskInv, FreshInv, Loop
<1>2. IInv => FreshSyncExact
  BY <1>1
<1> QED BY <1>2, Invariance, PTL

\* However many commits overlap a sync, it never pushes a device that was gone,
\* or whose owner was out of good standing, all the time since it began.
THEOREM StaysOut == Spec => []ShutStaysOut
<1>1. ASSUME IInv PROVE ShutStaysOut
  <2> SUFFICES ASSUME NEW s \in Tasks, pc[s] = "apply", NEW k \in snap[s].out
               PROVE  k \notin hist[s].gone /\ OwnerOf(db, k) \notin hist[s].barred
    BY DEF ShutStaysOut
  <2>1. TaskInv(db, "apply", snap[s], hist[s])
    BY <1>1 DEF IInv, AllTasks
  <2> QED BY <2>1 DEF TaskInv, ShutInv, Loop, Seen
<1>2. IInv => ShutStaysOut
  BY <1>1
<1> QED BY <1>2, Invariance, PTL

\* No backend ever holds a device of another interface, through failing
\* applies, deleted interfaces and restarts.
THEOREM OwnOnly == Spec => []OwnDevicesOnly
<1>1. IInv => OwnDevicesOnly
  BY DEF IInv
<1> QED BY <1>1, Invariance, PTL

-----------------------------------------------------------------------------
(* Every task comes to an end.                                             *)

RestOf(ph, sn) ==
  CASE ph = "iface"  -> 2 * Cardinality(Keys) + 5
    [] ph = "groups" -> 2 * Cardinality(Keys) + 4
    [] ph = "peers"  -> 2 * Cardinality(Keys) + 3
    [] ph = "owner"  -> 2 * Cardinality(sn.rows) + 2
    [] ph = "claims" -> 2 * Cardinality(sn.rows) + 3
    [] ph \in {"apply", "grant"} -> 2
    [] OTHER -> 1

LeftOf(ph, p, sn) ==
  CASE ph = "idle" -> 0
    [] ph = "list" -> Cardinality(Ifaces) * WholeSync + 1
    [] OTHER -> Cardinality(p.todo) * WholeSync + RestOf(ph, sn)

LEMMA LeftIs ==
  /\ \A s : Left(s) = LeftOf(pc[s], plan[s], snap[s])
  /\ \A s : Left(s)' = LeftOf(pc'[s], plan'[s], snap'[s])
BY DEF Left, LeftOf, RestOfSync, RestOf

LEMMA KeysFinite ==
  /\ IsFiniteSet(Keys) /\ Cardinality(Keys) \in Nat
  /\ IsFiniteSet(Ifaces) /\ Cardinality(Ifaces) \in Nat
  /\ WholeSync \in Nat
<1>1. IsFiniteSet(1..MaxGen)
  <2>1. 1 \in Int /\ MaxGen \in Int
    BY ConstantsAssumption
  <2> QED
    BY <2>1, FS_Interval
<1>2. IsFiniteSet(Keys)
  BY <1>1, ConstantsAssumption, FS_Product DEF Keys
<1>3. Cardinality(Keys) \in Nat /\ Cardinality(Ifaces) \in Nat
  BY <1>2, ConstantsAssumption, FS_CardinalityType
<1> QED
  BY <1>2, <1>3, ConstantsAssumption DEF WholeSync

LEMMA FewRows ==
  ASSUME NEW R \in SUBSET Keys
  PROVE  /\ Cardinality(R) \in 0..Cardinality(Keys)
         /\ \A k \in R : Cardinality(R \ {k}) = Cardinality(R) - 1
         /\ R # {} => Cardinality(R) > 0
<1>1. IsFiniteSet(R) /\ Cardinality(R) =< Cardinality(Keys)
  BY KeysFinite, FS_Subset
<1>2. Cardinality(R) \in Nat
  BY <1>1, FS_CardinalityType
<1>3. \A k \in R : Cardinality(R \ {k}) = Cardinality(R) - 1
  BY <1>1, FS_RemoveElement
<1>4. R # {} => Cardinality(R) # 0
  BY <1>1, FS_EmptySet
<1> QED
  BY <1>1, <1>2, <1>3, <1>4, KeysFinite

\* Fewer interfaces are less to do.
LEMMA FewInterfaces ==
  ASSUME NEW J \in SUBSET Ifaces
  PROVE  /\ Cardinality(J) \in Nat
         /\ Cardinality(J) * WholeSync \in Nat
         /\ Cardinality(J) * WholeSync =< Cardinality(Ifaces) * WholeSync
         /\ Cardinality(Ifaces) * WholeSync \in Nat
         /\ \A i \in J : Cardinality(J \ {i}) * WholeSync + WholeSync = Cardinality(J) * WholeSync
                         /\ Cardinality(J \ {i}) * WholeSync \in Nat
<1>1. IsFiniteSet(J) /\ Cardinality(J) =< Cardinality(Ifaces)
  BY KeysFinite, FS_Subset
<1>2. Cardinality(J) \in Nat
  BY <1>1, FS_CardinalityType
<1>3. \A a, b, w \in Nat : (a + b) * w = a * w + b * w /\ a * w \in Nat
  OBVIOUS
<1>4. PICK b \in Nat : Cardinality(Ifaces) = Cardinality(J) + b
  <2>1. Cardinality(Ifaces) - Cardinality(J) \in Nat
    BY <1>1, <1>2, KeysFinite
  <2> QED
    BY <2>1, <1>2, KeysFinite
<1>5. /\ Cardinality(J) * WholeSync \in Nat
      /\ Cardinality(Ifaces) * WholeSync = Cardinality(J) * WholeSync + b * WholeSync
      /\ b * WholeSync \in Nat
  BY <1>2, <1>3, <1>4, KeysFinite
<1>6. ASSUME NEW i \in J
      PROVE  /\ Cardinality(J \ {i}) * WholeSync + WholeSync = Cardinality(J) * WholeSync
             /\ Cardinality(J \ {i}) * WholeSync \in Nat
  <2>1. Cardinality(J \ {i}) \in Nat /\ Cardinality(J) = Cardinality(J \ {i}) + 1
    <3>1. IsFiniteSet(J \ {i}) /\ Cardinality(J \ {i}) = Cardinality(J) - 1
      BY <1>1, FS_RemoveElement
    <3> QED
      BY <1>2, <3>1, FS_CardinalityType
  <2>2. 1 * WholeSync = WholeSync
    BY KeysFinite
  <2> QED
    BY <1>3, <2>1, <2>2, KeysFinite
<1>7. Cardinality(J) * WholeSync =< Cardinality(Ifaces) * WholeSync /\ Cardinality(Ifaces) * WholeSync \in Nat
  <2> DEFINE x == Cardinality(J) * WholeSync
             y == b * WholeSync
             z == Cardinality(Ifaces) * WholeSync
  <2>1. x \in Nat /\ y \in Nat /\ z = x + y
    BY <1>5
  <2> HIDE DEF x, y, z
  <2>2. x =< z /\ z \in Nat
    BY <2>1
  <2> QED
    BY <2>2 DEF x, z
<1> QED
  BY <1>2, <1>5, <1>6, <1>7

\* The bound in each phase, where the variables have their types.
LEMMA LeftBounds ==
  ASSUME NEW p \in Plans, NEW sn \in Snaps
  PROVE  /\ LeftOf("idle", p, sn) = 0
         /\ LeftOf("list", p, sn) = Cardinality(Ifaces) * WholeSync + 1
         /\ \A ph \in Phases \ {"idle", "list"} :
              LeftOf(ph, p, sn) = Cardinality(p.todo) * WholeSync + RestOf(ph, sn)
         /\ \A ph \in Phases : RestOf(ph, sn) \in Nat /\ RestOf(ph, sn) > 0
<1>1. Cardinality(sn.rows) \in Nat
  BY FewRows, KeysFinite DEF Snaps
<1>2. \A ph \in Phases : RestOf(ph, sn) \in Nat /\ RestOf(ph, sn) > 0
  BY <1>1, KeysFinite DEF RestOf
<1> QED
  BY <1>2 DEF LeftOf

\* A step of s that moves only s.
LEMMA MovesOnly ==
  ASSUME TypeOK, NEW s \in Tasks, NEW ph, NEW p, NEW sn, NEW h, NEW d, Goto(s, ph, p, sn, h, d)
  PROVE  /\ pc'[s] = ph /\ plan'[s] = p /\ snap'[s] = sn
         /\ \A t \in Tasks \ {s} : UNCHANGED <<pc[t], plan[t], snap[t]>>
BY DEF TypeOK, Goto

\* The loop goes on with one listed interface less, or ends.
LEMMA LoopLeaves ==
  ASSUME TypeOK, NEW s \in Tasks, NEW p \in Plans, Continue(s, p)
  PROVE  /\ Left(s)' =< Cardinality(p.todo) * WholeSync
         /\ Left(s)' \in Int
         /\ \A t \in Tasks \ {s} : UNCHANGED <<pc[t], plan[t], snap[t]>>
<1>1. p.todo \in SUBSET Ifaces /\ Cardinality(p.todo) * WholeSync \in Nat
  BY FewInterfaces DEF Plans
<1>2. CASE Finish(s, db)
  <2>1. Goto(s, "idle", NoPlan, NoSnap, NoHist, db)
    BY <1>2 DEF Finish
  <2>2. /\ pc'[s] = "idle" /\ plan'[s] = NoPlan /\ snap'[s] = NoSnap
        /\ \A t \in Tasks \ {s} : UNCHANGED <<pc[t], plan[t], snap[t]>>
    BY <2>1, MovesOnly
  <2>3. Left(s)' = 0
    BY <2>2, LeftIs, LeftBounds, NoPlanType
  <2> QED
    BY <1>1, <2>2, <2>3
<1>3. ASSUME NEW i \in p.todo, StartSync(s, i, [p EXCEPT !.todo = @ \ {i}], db)
      PROVE  /\ Left(s)' =< Cardinality(p.todo) * WholeSync
             /\ Left(s)' \in Int
             /\ \A t \in Tasks \ {s} : UNCHANGED <<pc[t], plan[t], snap[t]>>
  <2> DEFINE q == [p EXCEPT !.todo = @ \ {i}]
             sn == [NoSnap EXCEPT !.cur = i]
  <2>1. Goto(s, "iface", q, sn, Begun(db), db)
    BY <1>3 DEF StartSync
  <2>2. q \in Plans /\ q.todo = p.todo \ {i} /\ sn \in Snaps
    BY <1>1 DEF Plans, Snaps, NoSnap
  <2> HIDE DEF q, sn
  <2>3. /\ pc'[s] = "iface" /\ plan'[s] = q /\ snap'[s] = sn
        /\ \A t \in Tasks \ {s} : UNCHANGED <<pc[t], plan[t], snap[t]>>
    BY <2>1, MovesOnly
  <2>4. Left(s)' = Cardinality(p.todo \ {i}) * WholeSync + RestOf("iface", sn)
    <3>1. Left(s)' = LeftOf("iface", q, sn)
      BY <2>3, LeftIs
    <3>2. "iface" \in Phases \ {"idle", "list"}
      BY DEF Phases, Reading
    <3>3. LeftOf("iface", q, sn) = Cardinality(q.todo) * WholeSync + RestOf("iface", sn)
      BY <2>2, <3>2, LeftBounds
    <3> QED
      BY <2>2, <3>1, <3>3
  <2>5. RestOf("iface", sn) + 1 = WholeSync /\ RestOf("iface", sn) \in Nat
    BY KeysFinite DEF RestOf, WholeSync
  <2>6. /\ Cardinality(p.todo \ {i}) * WholeSync + WholeSync = Cardinality(p.todo) * WholeSync
        /\ Cardinality(p.todo \ {i}) * WholeSync \in Nat
    BY <1>1, FewInterfaces
  <2> DEFINE x == Cardinality(p.todo \ {i}) * WholeSync
             y == Cardinality(p.todo) * WholeSync
             r == RestOf("iface", sn)
  <2>7. Left(s)' = x + r /\ r + 1 = WholeSync /\ r \in Nat /\ x + WholeSync = y /\ x \in Nat
    BY <2>4, <2>5, <2>6
  <2> HIDE DEF x, y, r
  <2>8. Left(s)' =< y /\ Left(s)' \in Int
    BY <2>7, KeysFinite
  <2> QED
    BY <2>3, <2>8 DEF y
<1> QED
  BY <1>2, <1>3 DEF Continue

Lessens(s) ==
  /\ Left(s)' < Left(s)
  /\ \A t \in Tasks \ {s} : UNCHANGED <<pc[t], plan[t], snap[t]>>

\* What a task in a loop has left is more than the interfaces yet to be begun.
LEMMA MoreThanLoop ==
  ASSUME TypeOK, NEW s \in Tasks, pc[s] \notin {"idle", "list"}
  PROVE  /\ plan[s] \in Plans /\ Cardinality(plan[s].todo) * WholeSync \in Nat
         /\ Left(s) = Cardinality(plan[s].todo) * WholeSync + RestOf(pc[s], snap[s])
         /\ RestOf(pc[s], snap[s]) \in Nat /\ RestOf(pc[s], snap[s]) > 0
<1>1. plan[s] \in Plans /\ snap[s] \in Snaps /\ pc[s] \in Phases \ {"idle", "list"}
  BY DEF TypeOK
<1>2. Cardinality(plan[s].todo) * WholeSync \in Nat
  BY <1>1, FewInterfaces DEF Plans
<1> QED
  BY <1>1, <1>2, LeftIs, LeftBounds

LEMMA LoopLessens ==
  ASSUME TypeOK, NEW s \in Tasks, pc[s] \notin {"idle", "list"}, Continue(s, plan[s])
  PROVE  Lessens(s)
<1> DEFINE x == Cardinality(plan[s].todo) * WholeSync
           r == RestOf(pc[s], snap[s])
<1>1. plan[s] \in Plans /\ x \in Nat /\ Left(s) = x + r /\ r \in Nat /\ r > 0
  BY MoreThanLoop
<1>2. /\ Left(s)' =< x /\ Left(s)' \in Int
      /\ \A t \in Tasks \ {s} : UNCHANGED <<pc[t], plan[t], snap[t]>>
  BY <1>1, LoopLeaves
<1> HIDE DEF x, r
<1>3. Left(s)' < Left(s)
  BY <1>1, <1>2
<1> QED
  BY <1>2, <1>3 DEF Lessens

\* The end of a request.
LEMMA EndLessens ==
  ASSUME TypeOK, NEW s \in Tasks, pc[s] # "idle", NEW d, Finish(s, d)
  PROVE  Lessens(s)
<1>1. Goto(s, "idle", NoPlan, NoSnap, NoHist, d)
  BY DEF Finish
<1>2. /\ pc'[s] = "idle" /\ plan'[s] = NoPlan /\ snap'[s] = NoSnap
      /\ \A t \in Tasks \ {s} : UNCHANGED <<pc[t], plan[t], snap[t]>>
  BY <1>1, MovesOnly
<1>3. Left(s)' = 0
  BY <1>2, LeftIs, LeftBounds, NoPlanType
<1>4. Left(s) > 0
  <2>1. CASE pc[s] = "list"
    <3>1. Left(s) = Cardinality(Ifaces) * WholeSync + 1
      BY <2>1, LeftIs, LeftBounds DEF TypeOK
    <3>2. Cardinality(Ifaces) * WholeSync \in Nat
      BY FewInterfaces
    <3> QED
      BY <3>1, <3>2
  <2>2. CASE pc[s] # "list"
    <3> DEFINE x == Cardinality(plan[s].todo) * WholeSync
               r == RestOf(pc[s], snap[s])
    <3>1. x \in Nat /\ Left(s) = x + r /\ r \in Nat /\ r > 0
      BY <2>2, MoreThanLoop
    <3> HIDE DEF x, r
    <3> QED
      BY <3>1
  <2> QED
    BY <2>1, <2>2
<1> QED
  BY <1>2, <1>3, <1>4 DEF Lessens

\* A step within a sync, to a phase with less of it left.
LEMMA SyncLessens ==
  ASSUME TypeOK, NEW s \in Tasks, pc[s] \notin {"idle", "list"},
         NEW ph \in Phases \ {"idle", "list"}, NEW sn \in Snaps, Sync(s, ph, sn),
         RestOf(ph, sn) < RestOf(pc[s], snap[s])
  PROVE  Lessens(s)
<1> DEFINE x == Cardinality(plan[s].todo) * WholeSync
           r == RestOf(pc[s], snap[s])
           q == RestOf(ph, sn)
<1>1. plan[s] \in Plans /\ x \in Nat /\ Left(s) = x + r /\ r \in Nat
  BY MoreThanLoop
<1>2. Goto(s, ph, plan[s], sn, hist[s], db)
  BY DEF Sync
<1>3. /\ pc'[s] = ph /\ plan'[s] = plan[s] /\ snap'[s] = sn
      /\ \A t \in Tasks \ {s} : UNCHANGED <<pc[t], plan[t], snap[t]>>
  BY <1>2, MovesOnly
<1>4. Left(s)' = x + q /\ q \in Nat
  BY <1>1, <1>3, LeftIs, LeftBounds
<1> HIDE DEF x
<1>5. q < r
  OBVIOUS
<1> HIDE DEF q, r
<1>6. Left(s)' < Left(s)
  BY <1>1, <1>4, <1>5
<1> QED
  BY <1>3, <1>6 DEF Lessens

\* Every phase of a sync that is not its end.
LEMMA SyncPhases ==
  /\ Phases \ {"idle", "list"} =
       {"iface", "groups", "peers", "owner", "claims", "apply", "noteOk", "noteErr", "drop", "grant", "stamp"}
  /\ \A rows : Examine(rows) \in Phases \ {"idle", "list"}
BY DEF Phases, Reading, Examine

\* What is left once the rows to be examined are known.
LEMMA RestAfter ==
  ASSUME NEW sn \in Snaps
  PROVE  RestOf(Examine(sn.rows), sn) =< 2 * Cardinality(sn.rows) + 2
<1>1. Cardinality(sn.rows) \in Nat
  BY FewRows, KeysFinite DEF Snaps
<1> QED
  BY <1>1 DEF RestOf, Examine

LEMMA ListLessens ==
  ASSUME TypeOK, NEW s \in Tasks, ListInterfaces(s)
  PROVE  Lessens(s)
<1> DEFINE p == [plan[s] EXCEPT !.todo =
                   {i \in db.ifaces : plan[s].scope = "group" => plan[s].only \in db.refs[i]}]
<1>1. p \in Plans
  BY DEF TypeOK, Plans, Tables
<1>2. pc[s] = "list" /\ Continue(s, p)
  BY DEF ListInterfaces
<1> HIDE DEF p
<1> DEFINE x == Cardinality(p.todo) * WholeSync
           y == Cardinality(Ifaces) * WholeSync
<1>3. x \in Nat /\ y \in Nat /\ x =< y
  BY <1>1, FewInterfaces DEF Plans
<1>4. /\ Left(s)' =< x /\ Left(s)' \in Int
      /\ \A t \in Tasks \ {s} : UNCHANGED <<pc[t], plan[t], snap[t]>>
  BY <1>1, <1>2, LoopLeaves
<1>5. Left(s) = y + 1
  BY <1>2, LeftIs, LeftBounds DEF TypeOK
<1> HIDE DEF x, y
<1>6. Left(s)' < Left(s)
  BY <1>3, <1>4, <1>5
<1> QED
  BY <1>4, <1>6 DEF Lessens

\* The statements that read the interface, its groups and its devices.
LEMMA ReadLessens ==
  ASSUME TypeOK, NEW s \in Tasks, ReadInterface(s) \/ ReadGroups(s) \/ ReadPeers(s)
  PROVE  Lessens(s)
<1> DEFINE before == RestOf(pc[s], snap[s])
<1>0. snap[s] \in Snaps /\ db \in Tables /\ Cardinality(Keys) \in Nat
  BY KeysFinite DEF TypeOK
<1>1. CASE ReadInterface(s)
  <2> DEFINE sn == [snap[s] EXCEPT !.refs = db.refs[snap[s].cur]]
  <2>1. pc[s] = "iface" /\ Sync(s, "groups", sn) /\ snap[s].cur \in db.ifaces
    BY <1>1 DEF ReadInterface
  <2>2. sn \in Snaps
    BY <1>0, <2>1 DEF Snaps, Tables
  <2> HIDE DEF sn
  <2>3. RestOf("groups", sn) < before
    BY <1>0, <2>1 DEF RestOf
  <2> QED
    BY <2>1, <2>2, <2>3, SyncPhases, SyncLessens
<1>2. CASE ReadGroups(s)
  <2> DEFINE sn == [snap[s] EXCEPT !.admitted = Admitted(db, snap[s].refs)]
  <2>1. pc[s] = "groups" /\ Sync(s, "peers", sn)
    BY <1>2 DEF ReadGroups
  <2>2. sn \in Snaps
    BY <1>0 DEF Snaps, Tables, Admitted
  <2> HIDE DEF sn
  <2>3. RestOf("peers", sn) < before
    BY <1>0, <2>1 DEF RestOf
  <2> QED
    BY <2>1, <2>2, <2>3, SyncPhases, SyncLessens
<1>3. CASE ReadPeers(s)
  <2> DEFINE listed == Configured(db, snap[s].cur)
             owned == {k \in listed : OwnerOf(db, k) # NoUser}
             sn == [snap[s] EXCEPT !.rows = owned, !.out = listed \ owned]
  <2>1. pc[s] = "peers" /\ Sync(s, Examine(owned), sn)
    BY <1>3 DEF ReadPeers
  <2>2. listed \subseteq Keys
    BY DEF Configured
  <2>3. owned \subseteq Keys /\ listed \ owned \subseteq Keys
    BY <2>2
  <2> HIDE DEF owned, listed
  <2>4. sn \in Snaps /\ sn.rows = owned
    BY <1>0, <2>3 DEF Snaps
  <2> HIDE DEF sn
  <2>5. RestOf(Examine(owned), sn) =< 2 * Cardinality(owned) + 2
    BY <2>4, RestAfter
  <2>6. Cardinality(owned) \in 0..Cardinality(Keys)
    BY <2>3, FewRows
  <2>7. before = 2 * Cardinality(Keys) + 3
    BY <2>1 DEF RestOf
  <2>8. RestOf(Examine(owned), sn) \in Nat
    BY <2>4, SyncPhases, LeftBounds, <1>0, NoPlanType
  <2> DEFINE after == RestOf(Examine(owned), sn)
  <2>9. after < before
    <3> HIDE DEF after, before
    <3> QED
      BY <1>0, <2>5, <2>6, <2>7, <2>8 DEF after
  <2> QED
    BY <2>1, <2>4, <2>9, SyncPhases, SyncLessens
<1> QED
  BY <1>1, <1>2, <1>3

\* The two statements that examine a device.
LEMMA OwnerLessens ==
  ASSUME TypeOK, NEW s \in Tasks, NEW k \in Keys, ReadOwner(s, k)
  PROVE  Lessens(s)
<1> DEFINE rest == snap[s].rows \ {k}
           before == RestOf(pc[s], snap[s])
           n == Cardinality(rest)
<1>1. pc[s] = "owner" /\ k \in snap[s].rows /\ snap[s] \in Snaps
  BY DEF ReadOwner, TypeOK
<1>2. rest \subseteq Keys /\ {k} \subseteq Keys
  BY <1>1 DEF Snaps
<1>3. n \in Nat /\ Cardinality(snap[s].rows) = n + 1
  BY <1>1, <1>2, FewRows, KeysFinite DEF Snaps
<1>4. before = 2 * Cardinality(snap[s].rows) + 2
  BY <1>1 DEF RestOf
<1>5. before = 2 * n + 4
  BY <1>3, <1>4
<1>6. CASE InGoodStanding(db, OwnerOf(db, k))
  <2> DEFINE sn == [snap[s] EXCEPT !.rows = rest, !.asking = {k}]
  <2>1. Sync(s, "claims", sn)
    BY <1>6 DEF ReadOwner
  <2>2. sn \in Snaps /\ sn.rows = rest
    BY <1>1, <1>2 DEF Snaps
  <2> HIDE DEF sn
  <2>3. RestOf("claims", sn) = 2 * n + 3
    BY <2>2 DEF RestOf
  <2>4. RestOf("claims", sn) < before
    BY <1>3, <1>5, <2>3
  <2> QED
    BY <1>1, <2>1, <2>2, <2>4, SyncPhases, SyncLessens
<1>7. CASE ~InGoodStanding(db, OwnerOf(db, k))
  <2> DEFINE sn == [snap[s] EXCEPT !.rows = rest]
  <2>1. Sync(s, Examine(rest), sn)
    BY <1>7 DEF ReadOwner
  <2>2. sn \in Snaps /\ sn.rows = rest
    BY <1>1, <1>2 DEF Snaps
  <2> HIDE DEF sn
  <2>3. RestOf(Examine(rest), sn) =< 2 * n + 2
    BY <2>2, RestAfter
  <2>4. RestOf(Examine(rest), sn) \in Nat
    BY <2>2, SyncPhases, LeftBounds, NoPlanType
  <2> DEFINE after == RestOf(Examine(rest), sn)
  <2>5. after < before
    <3> HIDE DEF after, before, n
    <3> QED
      BY <1>3, <1>5, <2>3, <2>4 DEF after
  <2> QED
    BY <1>1, <2>1, <2>2, <2>5, SyncPhases, SyncLessens
<1> QED
  BY <1>6, <1>7

LEMMA ClaimsLessens ==
  ASSUME TypeOK, NEW s \in Tasks, NEW k \in Keys, ReadClaims(s, k)
  PROVE  Lessens(s)
<1> DEFINE granted == AccessGranted(snap[s].admitted, OwnerOf(db, k), ClaimGroups(db, OwnerOf(db, k)))
           sn == [snap[s] EXCEPT !.asking = {}, !.out = IF granted THEN @ \cup {k} ELSE @]
           before == RestOf(pc[s], snap[s])
           n == Cardinality(snap[s].rows)
<1>1. pc[s] = "claims" /\ snap[s] \in Snaps /\ Sync(s, Examine(snap[s].rows), sn)
  BY DEF ReadClaims, TypeOK
<1>2. sn \in Snaps /\ sn.rows = snap[s].rows
  BY <1>1 DEF Snaps
<1> HIDE DEF granted, sn
<1>3. n \in Nat
  BY <1>1, FewRows, KeysFinite DEF Snaps
<1>4. before = 2 * n + 3
  BY <1>1 DEF RestOf
<1>5. RestOf(Examine(snap[s].rows), sn) =< 2 * n + 2
  BY <1>2, RestAfter
<1>6. RestOf(Examine(snap[s].rows), sn) \in Nat
  BY <1>2, SyncPhases, LeftBounds, NoPlanType
<1> DEFINE after == RestOf(Examine(snap[s].rows), sn)
<1>7. after < before
  <2> HIDE DEF after, before, n
  <2> QED
    BY <1>3, <1>4, <1>5, <1>6 DEF after
<1> QED
  BY <1>1, <1>2, <1>7, SyncPhases, SyncLessens

\* A sync that fails ends the request, or leaves the loop one interface less.
LEMMA FailedLessens ==
  ASSUME TypeOK, NEW s \in Tasks, pc[s] \notin {"idle", "list"}, SyncFailed(s)
  PROVE  Lessens(s)
<1>1. CASE plan[s].strict
  BY <1>1, EndLessens DEF SyncFailed
<1>2. CASE ~plan[s].strict
  BY <1>2, LoopLessens DEF SyncFailed
<1> QED
  BY <1>1, <1>2

LEMMA TailLessens ==
  ASSUME TypeOK, NEW s \in Tasks,
         SyncError(s) \/ ApplyOk(s) \/ ApplyFails(s) \/ Note(s)
  PROVE  Lessens(s)
<1>0. snap[s] \in Snaps
  BY DEF TypeOK
<1>1. CASE SyncError(s)
  <2>1. pc[s] \notin {"idle", "list"} /\ SyncFailed(s)
    BY <1>1 DEF SyncError, Reading
  <2> QED
    BY <2>1, FailedLessens
<1>2. CASE ApplyOk(s) \/ ApplyFails(s)
  <2>1. pc[s] = "apply" /\ \E ph \in {"noteOk", "noteErr"} : Sync(s, ph, snap[s])
    BY <1>2 DEF ApplyOk, ApplyFails
  <2>2. PICK ph \in {"noteOk", "noteErr"} : Sync(s, ph, snap[s])
    BY <2>1
  <2>3. RestOf(ph, snap[s]) < RestOf(pc[s], snap[s])
    BY <2>1 DEF RestOf
  <2> QED
    BY <1>0, <2>1, <2>2, <2>3, SyncPhases, SyncLessens
<1>3. CASE Note(s)
  <2>1. pc[s] \notin {"idle", "list"} /\ (Continue(s, plan[s]) \/ SyncFailed(s))
    BY <1>3 DEF Note
  <2> QED
    BY <2>1, LoopLessens, FailedLessens
<1> QED
  BY <1>1, <1>2, <1>3

\* The tails of a deletion and of a login.
LEMMA LoginLessens ==
  ASSUME TypeOK, NEW s \in Tasks, NEW pr, NEW cs, GrantClaims(s, pr, cs)
  PROVE  Lessens(s)
<1>1. pc[s] = "grant"
  BY DEF GrantClaims
<1>2. CASE plan[s].who \notin db.users
  <2>1. Finish(s, db)
    BY <1>2 DEF GrantClaims
  <2> QED
    BY <1>1, <2>1, EndLessens
<1>3. CASE plan[s].who \in db.users
  <2> DEFINE d == WithClaims(db, plan[s].who, pr, cs)
             x == Cardinality(plan[s].todo) * WholeSync
  <2>1. Goto(s, "stamp", plan[s], NoSnap, NoHist, d)
    BY <1>3 DEF GrantClaims
  <2> HIDE DEF d
  <2>2. /\ pc'[s] = "stamp" /\ plan'[s] = plan[s] /\ snap'[s] = NoSnap
        /\ \A t \in Tasks \ {s} : UNCHANGED <<pc[t], plan[t], snap[t]>>
    BY <2>1, MovesOnly
  <2>3. plan[s] \in Plans /\ x \in Nat /\ Left(s) = x + RestOf("grant", snap[s])
    BY <1>1, MoreThanLoop
  <2>4. Left(s)' = x + RestOf("stamp", NoSnap)
    BY <2>2, <2>3, LeftIs, LeftBounds, NoPlanType, SyncPhases
  <2>5. RestOf("stamp", NoSnap) = 1 /\ RestOf("grant", snap[s]) = 2
    BY DEF RestOf
  <2> HIDE DEF x
  <2>6. Left(s)' < Left(s)
    BY <2>3, <2>4, <2>5
  <2> QED
    BY <2>2, <2>6 DEF Lessens
<1> QED
  BY <1>2, <1>3

\* Every step a task owes.
LEMMA StepLessens ==
  ASSUME TypeOK, NEW s \in Tasks, Step(s)
  PROVE  Lessens(s) /\ UNCHANGED crashes
<1>1. UNCHANGED crashes
  BY DEF Step, ListInterfaces, ListFails, ReadInterface, ReadGroups, ReadPeers, ReadOwner, ReadClaims,
         SyncError, ApplyOk, ApplyFails, Note, DropInterface, TailFails, GrantClaims, RecordLogin, Elsewhere
<1> SUFFICES Lessens(s)
  BY <1>1
<1>2. CASE ListInterfaces(s)
  BY <1>2, ListLessens
<1>3. CASE ReadInterface(s) \/ ReadGroups(s) \/ ReadPeers(s)
  BY <1>3, ReadLessens
<1>4. CASE \E k \in Keys : ReadOwner(s, k) \/ ReadClaims(s, k)
  BY <1>4, OwnerLessens, ClaimsLessens
<1>5. CASE SyncError(s) \/ ApplyOk(s) \/ ApplyFails(s) \/ Note(s)
  BY <1>5, TailLessens
<1>6. CASE \E pr \in Providers, cs \in SUBSET Claims : GrantClaims(s, pr, cs)
  BY <1>6, LoginLessens
<1>7. CASE ListFails(s) \/ TailFails(s)
  <2>1. pc[s] # "idle" /\ Finish(s, db)
    BY <1>7 DEF ListFails, TailFails
  <2> QED
    BY <2>1, EndLessens
<1>8. CASE DropInterface(s)
  <2>1. pc[s] # "idle" /\ Finish(s, WithoutInterface(db, snap[s].cur))
    BY <1>8 DEF DropInterface
  <2> QED
    BY <2>1, EndLessens
<1>9. CASE RecordLogin(s)
  <2>1. pc[s] # "idle" /\ Finish(s, WithLogin(db, plan[s].who))
    BY <1>9 DEF RecordLogin
  <2> QED
    BY <2>1, EndLessens
<1> QED
  BY <1>2, <1>3, <1>4, <1>5, <1>6, <1>7, <1>8, <1>9 DEF Step

Still(t) == UNCHANGED <<pc[t], plan[t], snap[t]>>

\* A step that goes on with an idle task leaves every task at work as it is.
LEMMA GotoStill ==
  ASSUME TypeOK, NEW s \in Tasks, pc[s] = "idle", NEW t \in Tasks, pc[t] # "idle",
         NEW ph, NEW p, NEW sn, NEW h, NEW d, Goto(s, ph, p, sn, h, d)
  PROVE  Still(t)
<1>1. t \in Tasks \ {s}
  OBVIOUS
<1> QED
  BY <1>1, MovesOnly DEF Still

LEMMA CommitStill ==
  ASSUME NEW kind, NEW d, Commit(kind, d), NEW t
  PROVE  Still(t)
BY DEF Commit, Still

\* Accepting a request.
LEMMA RequestStill ==
  ASSUME TypeOK, NEW s \in Slots, NEW t \in Tasks, pc[t] # "idle",
         InterfaceRequest(s) \/ GroupRequest(s) \/ UserRequest(s) \/ DeviceRequest(s)
  PROVE  Still(t)
<1>0. s \in Tasks
  BY DEF Tasks
<1>1. CASE InterfaceRequest(s)
  <2>1. PICK i \in Ifaces :
          \/ \E gs \in SUBSET Groups : CreateInterface(s, i, gs) \/ UpdateInterface(s, i, gs)
          \/ ResyncInterface(s, i) \/ RemoveInterface(s, i)
    BY <1>1 DEF InterfaceRequest
  <2>2. pc[s] = "idle" /\ \E ph, p, sn, h, d : Goto(s, ph, p, sn, h, d)
    BY <2>1 DEF CreateInterface, UpdateInterface, ResyncInterface, RemoveInterface, Accept, SyncOne, StartSync
  <2> QED
    BY <1>0, <2>2, GotoStill
<1>2. CASE GroupRequest(s)
  <2>1. PICK g \in Groups :
          \/ \E adm \in SUBSET (Users \cup Claims) : CreateGroup(g, adm) \/ UpdateGroup(s, g, adm)
          \/ DeleteGroup(s, g)
    BY <1>2 DEF GroupRequest
  <2>2. \/ pc[s] = "idle" /\ \E ph, p, sn, h, d : Goto(s, ph, p, sn, h, d)
        \/ \E kind, d : Commit(kind, d)
    BY <2>1 DEF CreateGroup, UpdateGroup, DeleteGroup, Accept, SyncReferencing
  <2> QED
    BY <1>0, <2>2, GotoStill, CommitStill
<1>3. CASE UserRequest(s)
  <2>1. PICK u \in Users :
          \/ CreateUser(u) \/ SignIn(s, u)
          \/ \E on \in BOOLEAN : SetBanned(s, u, on) \/ SetRevoked(s, u, on)
          \/ DeleteUser(s, u)
    BY <1>3 DEF UserRequest
  <2>2. \/ pc[s] = "idle" /\ \E ph, p, sn, h, d : Goto(s, ph, p, sn, h, d)
        \/ \E kind, d : Commit(kind, d)
    BY <2>1 DEF CreateUser, SignIn, SetBanned, SetRevoked, DeleteUser, Accept, SyncAll
  <2> QED
    BY <1>0, <2>2, GotoStill, CommitStill
<1>4. CASE DeviceRequest(s)
  <2>1. PICK p \in Peers :
          \/ \E i \in Ifaces, u \in Users \cup {NoUser} :
               CreateDevice(s, p, i, u) \/ CreateUnconfigured(p, i, u)
          \/ RegeneratePeer(s, p) \/ DeletePeer(s, p)
    BY <1>4 DEF DeviceRequest
  <2>2. \/ pc[s] = "idle" /\ \E ph, q, sn, h, d : Goto(s, ph, q, sn, h, d)
        \/ \E kind, d : Commit(kind, d)
    BY <2>1 DEF CreateDevice, CreateUnconfigured, RegeneratePeer, DeletePeer, Accept, SyncOne, StartSync
  <2> QED
    BY <1>0, <2>2, GotoStill, CommitStill
<1> QED
  BY <1>1, <1>2, <1>3, <1>4

\* No request and no boot runs for ever, whatever fails and whatever others
\* commit meanwhile: every step of a task lessens a natural number, and no
\* step of another task or of the environment adds to it.
THEOREM TasksEnd == Spec => EveryTaskEnds
<1> DEFINE Ends(s) ==
      pc[s] # "idle" /\ crashes' = crashes
      => IF Step(s) THEN Left(s)' < Left(s) ELSE UNCHANGED <<pc[s], plan[s], snap[s]>>
<1>1. ASSUME TypeOK, Next, NEW t \in Tasks
      PROVE  Ends(t)
  <2>1. SUFFICES ASSUME pc[t] # "idle", crashes' = crashes
                 PROVE  IF Step(t) THEN Left(t)' < Left(t) ELSE Still(t)
    BY DEF Still
  <2>2. CASE Step(t)
    BY <1>1, <2>2, StepLessens DEF Lessens
  <2>3. CASE ~Step(t)
    <3>1. CASE \E s \in Slots :
                 InterfaceRequest(s) \/ GroupRequest(s) \/ UserRequest(s) \/ DeviceRequest(s)
      BY <1>1, <2>1, <2>3, <3>1, RequestStill
    <3>2. CASE \E s \in Tasks : Step(s)
      <4>1. PICK s \in Tasks : Step(s)
        BY <3>2
      <4>2. t \in Tasks \ {s} /\ Lessens(s)
        BY <1>1, <2>3, <4>1, StepLessens
      <4> QED
        BY <2>3, <4>2 DEF Lessens, Still
    <3>3. CASE \E u \in Users : Lapse(u)
      BY <2>3, <3>3, CommitStill DEF Lapse
    <3>4. CASE Crash
      <4>1. crashes' = crashes + 1 /\ crashes \in Nat
        BY <1>1, <3>4, ConstantsAssumption DEF Crash, TypeOK
      <4> QED
        BY <2>1, <4>1
    <3> QED
      BY <1>1, <3>1, <3>2, <3>3, <3>4 DEF Next
  <2> QED
    BY <2>2, <2>3
<1>2. TypeOK /\ [Next]_vars => [\A s \in Tasks : Ends(s)]_vars
  <2> HIDE DEF Ends
  <2> QED
    BY <1>1
<1> QED
  BY <1>2, TypeCorrect, PTL DEF Spec, EveryTaskEnds

=============================================================================
