---------------------------- MODULE Stamps_proofs ----------------------------
(***************************************************************************)
(* The stale marker of Provisioning, for requests that do not overlap: the *)
(* row a request has read is then still the interface's, a device never     *)
(* runs ahead of the interface's version, and a configuration that was     *)
(* handed out for a device's key is current, or the device trails.         *)
(***************************************************************************)
EXTENDS Provisioning_proofs

OneRequest == \A s, t \in Slots : s = t

-----------------------------------------------------------------------------
(* The invariant.                                                          *)

Stamped ==
  /\ iface.version \in Nat
  /\ \A d \in DOMAIN peers :
       peers[d].key \in Nat /\ peers[d].version \in Nat /\ peers[d].version =< iface.version

\* What request s knows of the interface and of its device still holds.
Knows(s) ==
  /\ pc[s] = "write" => job[s].seen = iface
  /\ pc[s] \in Creating \cup {"sync"} => job[s].reread \/ job[s].seen = iface
  /\ pc[s] \in {"sync", "render"} =>
       /\ job[s].dev \in 1..born /\ job[s].key \in Nat
       /\ job[s].dev \in DOMAIN peers => job[s].key =< peers[job[s].dev].key

\* A configuration c that was handed out: its device's key may have changed
\* since, but only to a later one.
Shown(c) ==
  /\ c.dev \in 1..born /\ c.key \in Nat
  /\ c.dev \in DOMAIN peers =>
       /\ c.key =< peers[c.dev].key
       /\ c.key = peers[c.dev].key /\ peers[c.dev].version >= iface.version
            => c.shows = RenderedOf(iface)

SInv ==
  /\ Shapes
  /\ Stamped
  /\ \A s \in Slots : Knows(s)
  /\ \A c \in handed : Shown(c)

-----------------------------------------------------------------------------
LEMMA Begins ==
  ASSUME Init
  PROVE  SInv
<1>1. Shapes
  BY InitHolds DEF IInv
<1>2. Stamped
  BY ProvisioningAssumption DEF Init, Rows, Stamped
<1>3. ASSUME NEW s \in Slots PROVE Knows(s)
  BY DEF Init, Knows, Creating
<1> QED
  BY <1>1, <1>2, <1>3 DEF Init, SInv

\* A request that goes on to phase ph with job j, by itself; the rest of the
\* step is about rows and configurations.
LEMMA Alone ==
  ASSUME Shapes, OneRequest, NEW s \in Slots, NEW ph, NEW j, Goto(s, ph, j)
  PROVE  pc'[s] = ph /\ job'[s] = j /\ \A t \in Slots : t = s
BY DEF Shapes, OneRequest, Goto

\* The row is only read: what was known and shown of it stays.
LEMMA Reads ==
  ASSUME SInv, OneRequest, Shapes', UNCHANGED <<iface, peers, born>>,
         NEW s \in Slots, Knows(s)', \A c \in handed' \ handed : Shown(c)'
  PROVE  SInv'
<1>1. Stamped'
  BY DEF SInv, Stamped
<1>2. \A t \in Slots : Knows(t)'
  BY DEF OneRequest
<1>3. ASSUME NEW c \in handed
      PROVE  Shown(c)'
  BY DEF SInv, Shown, RenderedOf
<1> QED
  BY <1>1, <1>2, <1>3 DEF SInv

\* At rest there is nothing to know.
LEMMA Rests ==
  ASSUME Shapes, OneRequest, NEW s \in Slots, Finish(s)
  PROVE  Knows(s)'
<1>1. pc'[s] = "idle"
  BY Alone DEF Finish
<1> QED
  BY <1>1 DEF Knows, Creating

-----------------------------------------------------------------------------
\* The steps that begin a request, or carry it to the sync, but for the insert.
LEMMA Preparing ==
  ASSUME SInv, OneRequest, Shapes', NEW s \in Slots,
         \/ \E u \in Users : RequestMine(s, u)
         \/ \E u \in Users \cup {NoUser}, spec \in Specs, keyed, reread \in BOOLEAN :
              RequestByAdmin(s, u, spec, keyed, reread)
         \/ CountDevices(s) \/ ChooseAddress(s) \/ SyncFailed(s) \/ Abandon(s)
         \/ \E patch \in Patches : ReadForUpdate(s, patch)
  PROVE  SInv'
<1>0. UNCHANGED <<iface, peers, born, handed>>
  BY DEF RequestMine, RequestByAdmin, CountDevices, ChooseAddress, SyncFailed, Abandon,
         ReadForUpdate
<1>1. Shapes /\ JobShape(job[s]) /\ Knows(s)
  BY DEF SInv, Shapes
<1>2. ASSUME NEW u \in Users, RequestMine(s, u)
      PROVE  Knows(s)'
  <2> DEFINE k == [NoJob EXCEPT !.owner = u, !.mine = TRUE, !.reread = FALSE, !.seen = iface]
  <2>1. Goto(s, "count", k) /\ k.seen = iface
    BY <1>2 DEF RequestMine, NoJob
  <2> HIDE DEF k
  <2> QED
    BY <1>0, <1>1, <2>1, Alone DEF Knows, Creating
<1>3. ASSUME NEW u \in Users \cup {NoUser}, NEW spec \in Specs,
             NEW keyed \in BOOLEAN, NEW reread \in BOOLEAN,
             RequestByAdmin(s, u, spec, keyed, reread)
      PROVE  Knows(s)'
  <2> DEFINE k == [NoJob EXCEPT !.owner = u, !.spec = spec, !.keyed = keyed, !.reread = reread,
                        !.address = spec.nets, !.seen = IF reread THEN NoRow ELSE iface]
  <2>1. PICK ph \in {"insert", "list"} : Goto(s, ph, k)
    BY <1>3 DEF RequestByAdmin
  <2>2. k.reread \/ k.seen = iface
    BY DEF NoJob
  <2> HIDE DEF k
  <2> QED
    BY <1>0, <1>1, <2>1, <2>2, Alone DEF Knows, Creating
<1>4. ASSUME CountDevices(s)
      PROVE  Knows(s)'
  <2>1. pc[s] = "count" /\ (Finish(s) \/ Goto(s, "list", job[s]))
    BY <1>4 DEF CountDevices
  <2> QED
    BY <1>0, <1>1, <2>1, Alone, Rests DEF Knows, Creating
<1>5. ASSUME ChooseAddress(s)
      PROVE  Knows(s)'
  <2> DEFINE a == Allocate(job[s].spec, Taken)
             k == [job[s] EXCEPT !.address = a]
  <2>1. pc[s] = "list" /\ (Finish(s) \/ Goto(s, "insert", k))
    BY <1>5 DEF ChooseAddress
  <2>2. k.reread = job[s].reread /\ k.seen = job[s].seen
    BY <1>1 DEF JobShape
  <2> HIDE DEF k
  <2> QED
    BY <1>0, <1>1, <2>1, <2>2, Alone, Rests DEF Knows, Creating
<1>6. ASSUME SyncFailed(s) \/ Abandon(s)
      PROVE  Knows(s)'
  BY <1>1, <1>6, Rests DEF SyncFailed, Abandon
<1>7. ASSUME NEW patch \in Patches, ReadForUpdate(s, patch)
      PROVE  Knows(s)'
  <2> DEFINE k == [NoJob EXCEPT !.patch = patch, !.seen = iface]
  <2>1. Goto(s, "write", k) /\ k.seen = iface
    BY <1>7 DEF ReadForUpdate, NoJob
  <2> HIDE DEF k
  <2> QED
    BY <1>0, <1>1, <2>1, Alone DEF Knows, Creating
<1> QED
  BY <1>0, <1>2, <1>3, <1>4, <1>5, <1>6, <1>7, Reads

\* The steps after the sync: what is handed out is what the interface renders.
LEMMA HandingOut ==
  ASSUME SInv, OneRequest, Shapes', NEW s \in Slots, Synced(s) \/ RenderReread(s)
  PROVE  SInv'
<1>0. UNCHANGED <<iface, peers, born>>
  BY DEF Synced, RenderReread
<1>1. Shapes /\ Knows(s)
  BY DEF SInv
<1>2. pc[s] \in {"sync", "render"}
  BY DEF Synced, RenderReread
<1>c. PICK c : c = [dev |-> job[s].dev, key |-> job[s].key, shows |-> RenderedOf(iface)]
  OBVIOUS
<1>3. Shown(c)'
  <2>1. c.dev = job[s].dev /\ c.key = job[s].key /\ c.shows = RenderedOf(iface)
    BY <1>c
  <2>2. RenderedOf(iface)' = RenderedOf(iface)
    BY <1>0 DEF RenderedOf
  <2> QED
    BY <1>0, <1>1, <1>2, <2>1, <2>2 DEF Knows, Shown
<1>4. CASE Goto(s, "render", job[s]) /\ UNCHANGED handed /\ pc[s] = "sync"
  <2>1. pc'[s] = "render" /\ job'[s] = job[s]
    BY <1>1, <1>4, Alone
  <2>2. Knows(s)'
    BY <1>0, <1>1, <1>4, <2>1 DEF Knows, Creating
  <2> QED
    BY <1>0, <1>4, <2>2, Reads
<1>5. CASE Finish(s) /\ handed' = handed \cup {c}
  BY <1>0, <1>1, <1>3, <1>5, Rests, Reads
<1>6. CASE Synced(s)
  <2>1. job[s].reread \/ job[s].seen = iface
    BY <1>1, <1>6 DEF Synced, Knows
  <2>2. CASE job[s].reread
    BY <1>4, <1>6, <2>2 DEF Synced
  <2>3. CASE ~job[s].reread
    BY <1>c, <1>5, <1>6, <2>1, <2>3 DEF Synced, HandOut
  <2> QED
    BY <2>2, <2>3
<1> QED
  BY <1>c, <1>5, <1>6 DEF RenderReread, HandOut

\* A device that is inserted has no configuration yet, and the interface's version.
LEMMA Inserting ==
  ASSUME SInv, OneRequest, Shapes', NEW s \in Slots, InsertPeer(s)
  PROVE  SInv'
<1> DEFINE j == job[s]
           d == born + 1
           k == [j EXCEPT !.dev = d, !.key = 1]
<1>0. UNCHANGED <<iface, handed>> /\ pc[s] = "insert" /\ Shapes /\ Knows(s) /\ JobShape(j)
  BY DEF InsertPeer, SInv, Shapes
<1>1. CASE Finish(s) /\ UNCHANGED <<peers, born>>
  BY <1>0, <1>1, Rests, Reads
<1>2. CASE /\ peers' = [e \in DOMAIN peers \cup {d} |-> IF e = d THEN NewRow(j) ELSE peers[e]]
           /\ born' = d
           /\ Finish(s) \/ (j.keyed /\ Goto(s, "sync", k))
  <2>0. born \in Nat /\ DOMAIN peers \subseteq 1..born /\ d \notin DOMAIN peers
    BY <1>0 DEF Shapes
  <2>1. NewRow(j).key \in {0, 1} /\ NewRow(j).version = iface.version
    BY DEF NewRow
  <2>2. Stamped'
    BY <1>0, <1>2, <2>0, <2>1 DEF SInv, Stamped
  <2>3. Knows(s)'
    <3>1. CASE Finish(s)
      BY <1>0, <3>1, Rests
    <3>2. CASE j.keyed /\ Goto(s, "sync", k)
      <4>1. k.reread = j.reread /\ k.seen = j.seen /\ k.dev = d /\ k.key = 1
        BY <1>0 DEF JobShape
      <4>2. pc'[s] = "sync" /\ job'[s] = k
        BY <1>0, <3>2, Alone
      <4>3. d \in 1..born' /\ peers'[d].key = 1
        BY <1>2, <2>0, <3>2 DEF NewRow
      <4> QED
        BY <1>0, <1>2, <4>1, <4>2, <4>3 DEF Knows, Creating
    <3> QED
      BY <1>2, <3>1, <3>2
  <2>4. ASSUME NEW c \in handed
        PROVE  Shown(c)'
    BY <1>0, <1>2, <2>0 DEF SInv, Shown, RenderedOf
  <2> QED
    BY <1>0, <2>2, <2>3, <2>4 DEF SInv, OneRequest
<1> QED
  BY <1>1, <1>2 DEF InsertPeer

\* A new key makes the configurations of the old one history, and a deleted
\* device has none.
LEMMA Changing ==
  ASSUME SInv, OneRequest, Shapes', NEW d \in Devices,
         DeleteDevice(d) \/ \E s \in Slots : Regenerate(s, d)
  PROVE  SInv'
<1>0. Shapes
  BY DEF SInv
<1>1. CASE DeleteDevice(d)
  <2>1. /\ UNCHANGED <<iface, born, handed, pc, job>>
        /\ DOMAIN peers' \subseteq DOMAIN peers
        /\ \A e \in DOMAIN peers' : peers'[e] = peers[e]
    BY <1>1 DEF DeleteDevice
  <2>2. Stamped'
    BY <2>1 DEF SInv, Stamped
  <2>3. ASSUME NEW t \in Slots PROVE Knows(t)'
    BY <2>1 DEF SInv, Knows
  <2>4. ASSUME NEW c \in handed PROVE Shown(c)'
    BY <2>1 DEF SInv, Shown, RenderedOf
  <2> QED
    BY <2>1, <2>2, <2>3, <2>4 DEF SInv
<1>2. ASSUME NEW s \in Slots, Regenerate(s, d)
      PROVE  SInv'
  <2> DEFINE k == [NoJob EXCEPT !.dev = d, !.key = peers[d].key + 1]
  <2>1. /\ d \in DOMAIN peers /\ UNCHANGED <<iface, born, handed>>
        /\ peers' = [peers EXCEPT ![d].key = @ + 1, ![d].version = iface.version]
        /\ Goto(s, "sync", k)
    BY <1>2 DEF Regenerate
  <2>2. /\ DOMAIN peers' = DOMAIN peers
        /\ peers'[d].key = peers[d].key + 1 /\ peers'[d].version = iface.version
        /\ \A e \in DOMAIN peers \ {d} : peers'[e] = peers[e]
    <3>1. PeerShape(peers[d])
      BY <1>0, <2>1 DEF Shapes
    <3> QED
      BY <2>1, <3>1 DEF PeerShape
  <2>3. Stamped'
    BY <2>1, <2>2 DEF SInv, Stamped
  <2>4. Knows(s)'
    <3>1. k.dev = d /\ k.key = peers[d].key + 1 /\ k.reread
      BY DEF NoJob
    <3>2. pc'[s] = "sync" /\ job'[s] = k
      BY <1>0, <2>1, Alone
    <3>3. d \in 1..born /\ peers[d].key \in Nat
      BY <1>0, <2>1 DEF SInv, Stamped, Shapes
    <3> HIDE DEF k
    <3> QED
      BY <2>1, <2>2, <3>1, <3>2, <3>3 DEF Knows, Creating
  <2>5. ASSUME NEW c \in handed PROVE Shown(c)'
    BY <2>1, <2>2 DEF SInv, Stamped, Shown, RenderedOf
  <2> QED
    BY <1>0, <2>1, <2>3, <2>4, <2>5 DEF SInv, OneRequest
<1> QED
  BY <1>1, <1>2

\* An update that changes what is rendered overtakes every device's version.
LEMMA Updating ==
  ASSUME SInv, OneRequest, Shapes', NEW s \in Slots, WriteUpdate(s)
  PROVE  SInv'
<1>1. /\ pc[s] = "write" /\ Finish(s) /\ UNCHANGED <<peers, born, handed>>
      /\ iface' = Patched(job[s].seen, job[s].patch)
  BY DEF WriteUpdate
<1>2. job[s].seen = iface /\ Shapes
  BY <1>1 DEF SInv, Knows
<1>3. \/ iface'.version = iface.version /\ RenderedOf(iface)' = RenderedOf(iface)
      \/ iface'.version = iface.version + 1
  <2> DEFINE set == [f \in Fields |-> IF f \in DOMAIN job[s].patch.set
                                       THEN job[s].patch.set[f] ELSE iface.set[f]]
  <2>1. /\ iface'.set = set
        /\ iface'.version = iface.version + IF \E f \in Rendered : set[f] # iface.set[f] THEN 1 ELSE 0
    BY <1>1, <1>2 DEF Patched
  <2> HIDE DEF set
  <2>2. CASE \E f \in Rendered : set[f] # iface.set[f]
    BY <2>1, <2>2
  <2>3. CASE \A f \in Rendered : set[f] = iface.set[f]
    <3>1. iface'.version = iface.version
      BY <2>1, <2>3 DEF SInv, Stamped
    <3> QED
      BY <2>1, <2>3, <3>1 DEF RenderedOf
  <2> QED
    BY <2>2, <2>3
<1>4. Stamped'
  BY <1>1, <1>3 DEF SInv, Stamped
<1>5. ASSUME NEW c \in handed PROVE Shown(c)'
  BY <1>1, <1>3 DEF SInv, Stamped, Shown
<1>6. Knows(s)'
  BY <1>1, <1>2, Rests
<1> QED
  BY <1>1, <1>4, <1>5, <1>6 DEF SInv, OneRequest

LEMMA Kept ==
  ASSUME IInv, SInv, OneRequest, [Next]_vars
  PROVE  SInv'
<1>1. Shapes'
  BY StepHolds DEF IInv
<1>2. CASE UNCHANGED vars
  BY <1>1, <1>2 DEF vars, SInv, Stamped, Knows, Shown, RenderedOf
<1>3. CASE Next
  BY <1>1, <1>3, Preparing, HandingOut, Inserting, Changing, Updating DEF Next
<1> QED
  BY <1>2, <1>3

\* As long as requests do not overlap, and whatever fails on the way, a device
\* that shows no stale marker has a current configuration: the one handed out
\* for its key is what the interface would render now.
THEOREM UnmarkedCurrent ==
  ASSUME OneRequest
  PROVE  Spec => []UnmarkedIsCurrent
<1>1. ASSUME SInv
      PROVE  UnmarkedIsCurrent
  BY <1>1 DEF SInv, Shown, UnmarkedIsCurrent
<1>2. Init => IInv /\ SInv
  BY InitHolds, Begins
<1>3. IInv /\ SInv /\ [Next]_vars => IInv' /\ SInv'
  BY StepHolds, Kept
<1> QED
  BY <1>1, <1>2, <1>3, PTL DEF Spec

\* Where the limit never changes, one request at a time keeps every user's own
\* devices within it; the limit run shows that two requests do not.
THEOREM LimitKept ==
  ASSUME OneRequest, NEW l, Limits = {l}
  PROVE  Spec => []LimitHolds
<1>1. IInv /\ LimitOvershoot => LimitHolds
  <2> SUFFICES ASSUME IInv, LimitOvershoot, iface.limit # Unlimited, NEW u \in Users
               PROVE  Cardinality({d \in DevicesOf(u) : peers[d].mine}) =< iface.limit
    BY DEF LimitHolds
  <2>1. iface.limit = l /\ l \in Nat
    BY ProvisioningAssumption DEF IInv, Shapes
  <2>2. Cardinality(Slots) = 1
    <3>1. PICK s \in Slots : TRUE
      BY ProvisioningAssumption
    <3>2. Slots = {s}
      BY <3>1 DEF OneRequest
    <3> QED
      BY <3>2, FS_Singleton
  <2>3. Cardinality({d \in DevicesOf(u) : peers[d].mine}) < l + Cardinality(Slots)
    BY <2>1 DEF LimitOvershoot
  <2>4. Cardinality({d \in DevicesOf(u) : peers[d].mine}) \in Nat
    BY Finite DEF IInv, Mine
  <2> QED
    BY <2>1, <2>2, <2>3, <2>4
<1> QED
  BY <1>1, InitHolds, StepHolds, OvershootBounded, PTL DEF Spec
=============================================================================
