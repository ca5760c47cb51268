------------------------- MODULE Provisioning_proofs -------------------------
(***************************************************************************)
(* The device limit of Provisioning, for every number of users, requests   *)
(* and devices: each request that has passed the count but not inserted    *)
(* its device yet is counted as if it had.                                 *)
(***************************************************************************)
EXTENDS Provisioning, FiniteSetTheorems, TLAPS

\* The devices u made, and the requests of u that will make another.
Mine(u) == {d \in DevicesOf(u) : peers[d].mine}

Passed(u) ==
  {s \in Slots : pc[s] \in {"list", "insert"} /\ job[s].mine /\ job[s].owner = u}

\* The records of a request and of a device have their fields; what the others
\* hold does not matter here.
JobShape(j) ==
  j \in [owner : Users \cup {NoUser}, mine : BOOLEAN, patch : Patches \cup {NoPatch},
         spec : {j.spec}, keyed : {j.keyed}, reread : {j.reread}, seen : {j.seen},
         address : {j.address}, dev : {j.dev}, key : {j.key}]

PeerShape(r) ==
  r \in [owner : Users \cup {NoUser}, mine : BOOLEAN, address : {r.address},
         key : {r.key}, version : {r.version}]

Shapes ==
  /\ iface.limit \in Limits
  /\ born \in Nat
  /\ DOMAIN peers \subseteq 1..born
  /\ peers = [d \in DOMAIN peers |-> peers[d]]
  /\ \A d \in DOMAIN peers : PeerShape(peers[d])
  /\ pc \in [Slots -> Phases]
  /\ job = [s \in Slots |-> job[s]]
  /\ \A s \in Slots : JobShape(job[s])
  /\ \A s \in Slots : pc[s] \in {"count", "write"} => job[s].seen.limit \in Limits

Bounded(u) ==
  \E l \in Limits :
    l # Unlimited =>
      Cardinality(Mine(u)) + Cardinality(Passed(u)) < l + Cardinality(Slots)

IInv == Shapes /\ \A u \in Users : Bounded(u)

-----------------------------------------------------------------------------
\* The two sets stay finite.
LEMMA Finite ==
  ASSUME Shapes, NEW u \in Users
  PROVE  /\ IsFiniteSet(DevicesOf(u)) /\ IsFiniteSet(Mine(u)) /\ IsFiniteSet(Passed(u))
         /\ Cardinality(DevicesOf(u)) \in Nat
         /\ Cardinality(Mine(u)) \in Nat /\ Cardinality(Mine(u)) =< Cardinality(DevicesOf(u))
         /\ Cardinality(Passed(u)) \in Nat /\ Cardinality(Passed(u)) =< Cardinality(Slots)
         /\ Cardinality(Slots) \in Nat
<1>1. IsFiniteSet(1..born)
  <2>1. 1 \in Int /\ born \in Int
    BY DEF Shapes
  <2> QED
    BY <2>1, FS_Interval
<1>2. DevicesOf(u) \subseteq 1..born
  BY DEF Shapes, DevicesOf
<1>3. IsFiniteSet(DevicesOf(u)) /\ Cardinality(DevicesOf(u)) \in Nat
  BY <1>1, <1>2, FS_Subset, FS_CardinalityType
<1>4. Mine(u) \subseteq DevicesOf(u)
  BY DEF Mine
<1>5. IsFiniteSet(Slots) /\ Cardinality(Slots) \in Nat
  BY ProvisioningAssumption, FS_CardinalityType
<1>6. Passed(u) \subseteq Slots
  BY DEF Passed
<1>7. IsFiniteSet(Mine(u)) /\ Cardinality(Mine(u)) =< Cardinality(DevicesOf(u))
  BY <1>3, <1>4, FS_Subset
<1>8. IsFiniteSet(Passed(u)) /\ Cardinality(Passed(u)) =< Cardinality(Slots)
  BY <1>5, <1>6, FS_Subset
<1> QED
  BY <1>3, <1>5, <1>7, <1>8, FS_CardinalityType

\* A step that adds neither a device of u nor a request past the count.
LEMMA Shrinking ==
  ASSUME Shapes, NEW u \in Users, Bounded(u), Shapes',
         Mine(u)' \subseteq Mine(u), Passed(u)' \subseteq Passed(u)
  PROVE  Bounded(u)'
<1>1. Cardinality(Mine(u)') \in Nat /\ Cardinality(Mine(u)') =< Cardinality(Mine(u))
  BY Finite, FS_Subset, FS_CardinalityType
<1>2. Cardinality(Passed(u)') \in Nat /\ Cardinality(Passed(u)') =< Cardinality(Passed(u))
  BY Finite, FS_Subset, FS_CardinalityType
<1>3. PICK l \in Limits :
        l # Unlimited => Cardinality(Mine(u)) + Cardinality(Passed(u)) < l + Cardinality(Slots)
  BY DEF Bounded
<1>4. l # Unlimited =>
        Cardinality(Mine(u)') + Cardinality(Passed(u)') < l + Cardinality(Slots)
  BY <1>1, <1>2, <1>3, Finite, ProvisioningAssumption
<1> QED
  BY <1>4 DEF Bounded

\* A step that turns a request past the count into a device.
LEMMA Turning ==
  ASSUME Shapes, NEW u \in Users, Bounded(u), Shapes',
         NEW d, Mine(u)' \subseteq Mine(u) \cup {d},
         NEW s \in Passed(u), Passed(u)' \subseteq Passed(u) \ {s}
  PROVE  Bounded(u)'
<1>1. Cardinality(Mine(u) \cup {d}) =< Cardinality(Mine(u)) + 1
      /\ IsFiniteSet(Mine(u) \cup {d}) /\ Cardinality(Mine(u) \cup {d}) \in Nat
  <2>1. IsFiniteSet(Mine(u)) /\ Cardinality(Mine(u)) \in Nat
    BY Finite
  <2>2. IsFiniteSet(Mine(u) \cup {d})
    BY <2>1, FS_AddElement
  <2>3. \/ Cardinality(Mine(u) \cup {d}) = Cardinality(Mine(u))
        \/ Cardinality(Mine(u) \cup {d}) = Cardinality(Mine(u)) + 1
    BY <2>1, FS_AddElement
  <2> QED
    BY <2>1, <2>2, <2>3
<1>2. Cardinality(Passed(u) \ {s}) = Cardinality(Passed(u)) - 1
      /\ IsFiniteSet(Passed(u) \ {s}) /\ Cardinality(Passed(u) \ {s}) \in Nat
  BY Finite, FS_RemoveElement, FS_CardinalityType
<1>3. Cardinality(Mine(u)') \in Nat /\ Cardinality(Mine(u)') =< Cardinality(Mine(u)) + 1
  BY <1>1, Finite, FS_Subset, FS_CardinalityType
<1>4. Cardinality(Passed(u)') \in Nat /\ Cardinality(Passed(u)') =< Cardinality(Passed(u)) - 1
  BY <1>2, Finite, FS_Subset, FS_CardinalityType
<1>5. PICK l \in Limits :
        l # Unlimited => Cardinality(Mine(u)) + Cardinality(Passed(u)) < l + Cardinality(Slots)
  BY DEF Bounded
<1>6. l # Unlimited =>
        Cardinality(Mine(u)') + Cardinality(Passed(u)') < l + Cardinality(Slots)
  BY <1>3, <1>4, <1>5, Finite, ProvisioningAssumption
<1> QED
  BY <1>6 DEF Bounded

\* The step of the count itself: it only passes below the limit it read.
LEMMA Passing ==
  ASSUME Shapes, NEW u \in Users, Bounded(u), Shapes', Mine(u)' = Mine(u),
         NEW l \in Limits, l # Unlimited => ~(Cardinality(DevicesOf(u)) >= l)
  PROVE  Bounded(u)'
<1>1. Cardinality(Passed(u)') \in Nat /\ Cardinality(Passed(u)') =< Cardinality(Slots)
  <2>1. Passed(u)' \subseteq Slots
    BY DEF Passed
  <2> QED
    BY <2>1, ProvisioningAssumption, FS_Subset, FS_CardinalityType
<1>2. l # Unlimited =>
        Cardinality(Mine(u)') + Cardinality(Passed(u)') < l + Cardinality(Slots)
  BY <1>1, Finite, ProvisioningAssumption
<1> QED
  BY <1>2 DEF Bounded

-----------------------------------------------------------------------------
\* One lemma for all steps: what each does to the shapes, and to the two sets.
LEMMA InitHolds ==
  ASSUME Init
  PROVE  IInv
<1> USE DEF Init
<1>1. Shapes
  <2>1. iface.limit \in Limits
    BY DEF Rows
  <2>2. DOMAIN peers = {} /\ peers = [d \in DOMAIN peers |-> peers[d]]
    OBVIOUS
  <2>3. \A s \in Slots : JobShape(job[s])
    BY DEF NoJob, JobShape
  <2>4. pc \in [Slots -> Phases] /\ \A s \in Slots : pc[s] = "idle"
    BY DEF Phases
  <2>5. job = [s \in Slots |-> job[s]]
    OBVIOUS
  <2> QED
    BY <2>1, <2>2, <2>3, <2>4, <2>5 DEF Shapes
<1>2. ASSUME NEW u \in Users
      PROVE  Bounded(u)
  <2>1. Mine(u) = {} /\ Passed(u) = {}
    BY DEF Mine, DevicesOf, Passed
  <2>2. Cardinality(Slots) \in Nat /\ Cardinality(Slots) > 0
    BY ProvisioningAssumption, FS_EmptySet, FS_CardinalityType
  <2>3. PICK l \in Limits : TRUE
    BY <1>1 DEF Shapes
  <2>4. l # Unlimited => 0 + 0 < l + Cardinality(Slots)
    BY <2>2, ProvisioningAssumption
  <2> QED
    BY <2>1, <2>3, <2>4, FS_EmptySet DEF Bounded
<1> QED
  BY <1>1, <1>2 DEF IInv

\* A step of slot s that moves only that slot: the shapes, given the new job.
LEMMA Moved ==
  ASSUME Shapes, NEW s \in Slots, NEW ph \in Phases, NEW j, Goto(s, ph, j), JobShape(j),
         ph \in {"count", "write"} => j.seen.limit \in Limits
  PROVE  /\ pc' \in [Slots -> Phases]
         /\ job' = [t \in Slots |-> job'[t]]
         /\ \A t \in Slots : JobShape(job'[t])
         /\ \A t \in Slots : pc'[t] \in {"count", "write"} => job'[t].seen.limit \in Limits
         /\ pc'[s] = ph /\ job'[s] = j
         /\ \A t \in Slots \ {s} : pc'[t] = pc[t] /\ job'[t] = job[t]
<1>1. pc'[s] = ph /\ job'[s] = j
  BY DEF Shapes, Goto
<1>2. \A t \in Slots \ {s} : pc'[t] = pc[t] /\ job'[t] = job[t]
  BY DEF Shapes, Goto
<1>3. pc' \in [Slots -> Phases] /\ job' = [t \in Slots |-> job'[t]]
  BY DEF Shapes, Goto
<1> QED
  BY <1>1, <1>2, <1>3 DEF Shapes

\* The same without a change of the tables that matters: only a step that
\* leaves the count or the insert behind needs more.
LEMMA Idling ==
  ASSUME IInv, NEW s \in Slots, NEW ph \in Phases, NEW j, Goto(s, ph, j), JobShape(j),
         ph \in {"count", "write"} => j.seen.limit \in Limits,
         ph \in {"list", "insert"} => ~j.mine \/ (pc[s] \in {"list", "insert"} /\ j.owner = job[s].owner
                                                /\ j.mine = job[s].mine),
         iface'.limit \in Limits, UNCHANGED <<peers, born>>
  PROVE  IInv'
<1>1. Shapes'
  BY Moved DEF IInv, Shapes
<1>2. ASSUME NEW u \in Users
      PROVE  Bounded(u)'
  <2>1. Mine(u)' = Mine(u)
    BY DEF Mine, DevicesOf
  <2>2. Passed(u)' \subseteq Passed(u)
    BY Moved DEF IInv, Passed
  <2> QED
    BY <1>1, <2>1, <2>2, Shrinking DEF IInv
<1> QED
  BY <1>1, <1>2 DEF IInv

\* A step that leaves the devices of every user what they were, or fewer.
LEMMA Emptying ==
  ASSUME IInv, NEW u \in Users, Shapes',
         \A d \in DOMAIN peers' : d \in DOMAIN peers /\ peers'[d].owner = peers[d].owner
                                /\ peers'[d].mine = peers[d].mine,
         Passed(u)' \subseteq Passed(u)
  PROVE  Bounded(u)'
<1>1. Mine(u)' \subseteq Mine(u)
  BY DEF Mine, DevicesOf
<1> QED
  BY <1>1, Shrinking DEF IInv

LEMMA NoJobShape == JobShape(NoJob) /\ ~NoJob.mine
BY DEF JobShape, NoJob

\* CountDevices passes below the limit, or ends the request.
LEMMA CountStep ==
  ASSUME IInv, NEW s \in Slots, CountDevices(s)
  PROVE  IInv'
<1> DEFINE j == job[s]
<1>0. UNCHANGED <<iface, peers, born>> /\ pc[s] = "count"
  BY DEF CountDevices
<1>1. JobShape(j) /\ j.seen.limit \in Limits
  BY <1>0 DEF IInv, Shapes
<1>2. CASE j.seen.limit # Unlimited /\ Cardinality(DevicesOf(j.owner)) >= j.seen.limit
  <2>1. Goto(s, "idle", NoJob)
    BY <1>2 DEF CountDevices, Finish
  <2> QED
    BY <1>0, <2>1, NoJobShape, Idling DEF Phases, IInv, Shapes
<1>3. CASE ~(j.seen.limit # Unlimited /\ Cardinality(DevicesOf(j.owner)) >= j.seen.limit)
  <2>1. Goto(s, "list", j)
    BY <1>3 DEF CountDevices
  <2>2. Shapes'
    BY <1>0, <1>1, <2>1, Moved DEF IInv, Shapes, Phases, Creating
  <2>3. ASSUME NEW u \in Users
        PROVE  Bounded(u)'
    <3>1. Mine(u)' = Mine(u)
      BY <1>0 DEF Mine, DevicesOf
    <3>2. CASE u = j.owner
      BY <1>1, <1>3, <2>2, <3>1, <3>2, Passing DEF IInv
    <3>3. CASE u # j.owner
      <4>1. Passed(u)' \subseteq Passed(u)
        BY <1>1, <2>1, <3>3, Moved DEF IInv, Passed, Phases, Creating
      <4> QED
        BY <2>2, <3>1, <4>1, Shrinking DEF IInv
    <3> QED
      BY <3>2, <3>3
  <2> QED
    BY <2>2, <2>3 DEF IInv
<1> QED
  BY <1>2, <1>3

\* InsertPeer turns the request into a device, or ends it.
LEMMA InsertStep ==
  ASSUME IInv, NEW s \in Slots, InsertPeer(s)
  PROVE  IInv'
<1> DEFINE j == job[s]
           d == born + 1
<1>0. UNCHANGED iface /\ pc[s] = "insert" /\ JobShape(j)
  BY DEF InsertPeer, IInv, Shapes
<1>1. CASE j.address \in Taken
  <2>1. Goto(s, "idle", NoJob) /\ UNCHANGED <<peers, born>>
    BY <1>1 DEF InsertPeer, Finish
  <2> QED
    BY <1>0, <2>1, NoJobShape, Idling DEF Phases, IInv, Shapes
<1>2. CASE j.address \notin Taken
  <2>1. /\ peers' = [e \in DOMAIN peers \cup {d} |-> IF e = d THEN NewRow(j) ELSE peers[e]]
        /\ born' = d
    BY <1>2 DEF InsertPeer
  <2>2. PICK k : JobShape(k) /\ (Goto(s, "sync", k) \/ Goto(s, "idle", k))
    <3>1. CASE j.keyed
      <4>1. Goto(s, "sync", [j EXCEPT !.dev = d, !.key = 1])
        BY <1>2, <3>1 DEF InsertPeer
      <4>2. JobShape([j EXCEPT !.dev = d, !.key = 1])
        BY <1>0 DEF JobShape
      <4> QED
        BY <4>1, <4>2
    <3>2. CASE ~j.keyed
      BY <1>2, <3>2, NoJobShape DEF InsertPeer, Finish
    <3> QED
      BY <3>1, <3>2
  <2>3. PeerShape(NewRow(j))
    BY <1>0 DEF JobShape, PeerShape, NewRow
  <2>4. Shapes'
    <3>1. born' \in Nat /\ DOMAIN peers' \subseteq 1..born'
      BY <2>1 DEF IInv, Shapes
    <3>2. peers' = [e \in DOMAIN peers' |-> peers'[e]]
      BY <2>1
    <3>3. \A e \in DOMAIN peers' : PeerShape(peers'[e])
      BY <2>1, <2>3 DEF IInv, Shapes
    <3> QED
      BY <1>0, <2>2, <3>1, <3>2, <3>3, Moved DEF IInv, Shapes, Phases
  <2>5. ASSUME NEW u \in Users
        PROVE  Bounded(u)'
    <3>1. Passed(u)' \subseteq Passed(u) \ {s}
      BY <2>2, Moved DEF IInv, Passed, Phases
    <3>2. d \notin DOMAIN peers
      BY DEF IInv, Shapes
    <3>3. CASE s \in Passed(u)
      <4>1. Mine(u)' \subseteq Mine(u) \cup {d}
        BY <2>1, <3>2 DEF Mine, DevicesOf
      <4> QED
        BY <2>4, <3>1, <3>3, <4>1, Turning DEF IInv
    <3>4. CASE s \notin Passed(u)
      <4>1. ~(j.mine /\ j.owner = u)
        BY <1>0, <3>4 DEF Passed
      <4>2. Mine(u)' \subseteq Mine(u)
        BY <2>1, <3>2, <4>1 DEF Mine, DevicesOf, NewRow
      <4>3. Passed(u)' \subseteq Passed(u)
        BY <3>1
      <4> QED
        BY <2>4, <4>2, <4>3, Shrinking DEF IInv
    <3> QED
      BY <3>3, <3>4
  <2> QED
    BY <2>4, <2>5 DEF IInv
<1> QED
  BY <1>1, <1>2

\* The other steps of a request only begin it, carry it on or end it.
LEMMA OtherStep ==
  ASSUME IInv, NEW s \in Slots,
         \/ \E u \in Users : RequestMine(s, u)
         \/ \E u \in Users \cup {NoUser}, spec \in Specs, keyed, reread \in BOOLEAN :
              RequestByAdmin(s, u, spec, keyed, reread)
         \/ ChooseAddress(s)
         \/ Synced(s) \/ SyncFailed(s) \/ RenderReread(s)
         \/ \E patch \in Patches : ReadForUpdate(s, patch)
         \/ WriteUpdate(s) \/ Abandon(s)
  PROVE  IInv'
<1>0. iface.limit \in Limits /\ JobShape(job[s])
  BY DEF IInv, Shapes
<1>1. ASSUME NEW u \in Users, RequestMine(s, u)
      PROVE  IInv'
  <2> DEFINE k == [NoJob EXCEPT !.owner = u, !.mine = TRUE, !.reread = FALSE, !.seen = iface]
  <2>1. Goto(s, "count", k) /\ UNCHANGED <<iface, peers, born>>
    BY <1>1 DEF RequestMine
  <2>2. JobShape(k) /\ k.seen = iface
    BY DEF JobShape, NoJob
  <2> QED
    BY <1>0, <2>1, <2>2, Idling DEF Phases, Creating
<1>2. ASSUME NEW u \in Users \cup {NoUser}, NEW spec \in Specs,
             NEW keyed \in BOOLEAN, NEW reread \in BOOLEAN,
             RequestByAdmin(s, u, spec, keyed, reread)
      PROVE  IInv'
  <2> DEFINE k == [NoJob EXCEPT !.owner = u, !.spec = spec, !.keyed = keyed, !.reread = reread,
                        !.address = spec.nets, !.seen = IF reread THEN NoRow ELSE iface]
  <2>1. PICK ph \in {"insert", "list"} : Goto(s, ph, k)
    BY <1>2 DEF RequestByAdmin
  <2>2. JobShape(k) /\ ~k.mine
    BY DEF JobShape, NoJob
  <2>3. UNCHANGED <<iface, peers, born>>
    BY <1>2 DEF RequestByAdmin
  <2> QED
    BY <1>0, <2>1, <2>2, <2>3, Idling DEF Phases, Creating
<1>3. ASSUME ChooseAddress(s)
      PROVE  IInv'
  <2> DEFINE a == Allocate(job[s].spec, Taken)
             k == [job[s] EXCEPT !.address = a]
  <2>1. UNCHANGED <<iface, peers, born>> /\ pc[s] = "list"
    BY <1>3 DEF ChooseAddress
  <2>2. CASE Goto(s, "idle", NoJob)
    BY <1>0, <2>1, <2>2, NoJobShape, Idling DEF Phases
  <2>3. CASE Goto(s, "insert", k)
    <3>1. JobShape(k) /\ k.mine = job[s].mine /\ k.owner = job[s].owner
      BY <1>0 DEF JobShape
    <3> QED
      BY <1>0, <2>1, <2>3, <3>1, Idling DEF Phases, Creating
  <2> QED
    BY <1>3, <2>2, <2>3 DEF ChooseAddress, Finish
<1>4. ASSUME Synced(s) \/ SyncFailed(s) \/ RenderReread(s) \/ Abandon(s)
      PROVE  IInv'
  <2>1. UNCHANGED <<iface, peers, born>>
    BY <1>4 DEF Synced, SyncFailed, RenderReread, Abandon
  <2>2. Goto(s, "idle", NoJob) \/ Goto(s, "render", job[s])
    BY <1>4 DEF Synced, SyncFailed, RenderReread, Abandon, Finish
  <2> QED
    BY <1>0, <2>1, <2>2, NoJobShape, Idling DEF Phases
<1>5. ASSUME NEW patch \in Patches, ReadForUpdate(s, patch)
      PROVE  IInv'
  <2> DEFINE k == [NoJob EXCEPT !.patch = patch, !.seen = iface]
  <2>1. Goto(s, "write", k) /\ UNCHANGED <<iface, peers, born>>
    BY <1>5 DEF ReadForUpdate
  <2>2. JobShape(k) /\ k.seen = iface
    BY DEF JobShape, NoJob
  <2> QED
    BY <1>0, <2>1, <2>2, Idling DEF Phases
<1>6. ASSUME WriteUpdate(s)
      PROVE  IInv'
  <2>1. /\ pc[s] = "write" /\ Goto(s, "idle", NoJob) /\ UNCHANGED <<peers, born>>
        /\ iface' = Patched(job[s].seen, job[s].patch)
    BY <1>6 DEF WriteUpdate, Finish
  <2>2. job[s].seen.limit \in Limits
    BY <2>1 DEF IInv, Shapes
  <2>3. job[s].patch.limit = {} \/ \E l \in Limits : job[s].patch.limit = {l}
    BY <1>0 DEF JobShape, Patches, NoPatch
  <2>4. iface'.limit \in Limits
    BY <2>1, <2>2, <2>3 DEF Patched
  <2> QED
    BY <2>1, <2>4, NoJobShape, Idling DEF Phases
<1> QED
  BY <1>1, <1>2, <1>3, <1>4, <1>5, <1>6

\* Regenerating and deleting change rows, but no row gains an owner.
LEMMA RowStep ==
  ASSUME IInv, NEW d \in Devices,
         DeleteDevice(d) \/ \E s \in Slots : Regenerate(s, d)
  PROVE  IInv'
<1>1. ASSUME DeleteDevice(d)
      PROVE  IInv'
  <2>1. UNCHANGED <<iface, born, pc, job>> /\ peers' = [e \in DOMAIN peers \ {d} |-> peers[e]]
    BY <1>1 DEF DeleteDevice
  <2>2. Shapes'
    BY <2>1 DEF IInv, Shapes
  <2>3. ASSUME NEW u \in Users
        PROVE  Bounded(u)'
    BY <2>1, <2>2, Emptying DEF Passed
  <2> QED
    BY <2>2, <2>3 DEF IInv
<1>2. ASSUME NEW s \in Slots, Regenerate(s, d)
      PROVE  IInv'
  <2> DEFINE k == [NoJob EXCEPT !.dev = d, !.key = peers[d].key + 1]
  <2>1. /\ d \in DOMAIN peers /\ UNCHANGED <<iface, born>>
        /\ peers' = [peers EXCEPT ![d].key = @ + 1, ![d].version = iface.version]
        /\ Goto(s, "sync", k)
    BY <1>2 DEF Regenerate
  <2>2. JobShape(k)
    BY DEF JobShape, NoJob
  <2>3. \A e \in DOMAIN peers : PeerShape(peers[e])
    BY DEF IInv, Shapes
  <2>4. /\ DOMAIN peers' = DOMAIN peers /\ peers' = [e \in DOMAIN peers' |-> peers'[e]]
        /\ \A e \in DOMAIN peers :
             /\ PeerShape(peers'[e])
             /\ peers'[e].owner = peers[e].owner /\ peers'[e].mine = peers[e].mine
    BY <2>1, <2>3 DEF PeerShape, IInv, Shapes
  <2>5. Shapes'
    BY <2>1, <2>2, <2>4, Moved DEF IInv, Shapes, Phases
  <2>6. ASSUME NEW u \in Users
        PROVE  Bounded(u)'
    <3>1. Passed(u)' \subseteq Passed(u)
      <4>1. "sync" \in Phases /\ Shapes
        BY DEF Phases, IInv
      <4> HIDE DEF k
      <4>2. pc'[s] = "sync" /\ \A t \in Slots \ {s} : pc'[t] = pc[t] /\ job'[t] = job[t]
        BY <2>1, <2>2, <4>1, Moved
      <4> QED
        BY <4>2 DEF Passed
    <3> QED
      BY <2>4, <2>5, <3>1, Emptying
  <2> QED
    BY <2>5, <2>6 DEF IInv
<1> QED
  BY <1>1, <1>2

LEMMA StepHolds ==
  ASSUME IInv, [Next]_vars
  PROVE  IInv'
<1>1. CASE UNCHANGED vars
  <2>1. Shapes'
    BY <1>1 DEF vars, IInv, Shapes
  <2>2. ASSUME NEW u \in Users
        PROVE  Bounded(u)'
    BY <1>1, <2>1, Emptying DEF vars, Passed
  <2> QED
    BY <2>1, <2>2 DEF IInv
<1>2. CASE Next
  BY <1>2, CountStep, InsertStep, OtherStep, RowStep DEF Next
<1> QED
  BY <1>1, <1>2

\* However the requests of a user interleave, and whatever admins create and
\* change meanwhile, the devices he makes himself exceed the highest limit by
\* less than the number of requests in flight.
THEOREM OvershootBounded == Spec => []LimitOvershoot
<1>1. ASSUME IInv
      PROVE  LimitOvershoot
  <2>1. ASSUME NEW u \in Users
        PROVE  \E l \in Limits : l # Unlimited => Cardinality(Mine(u)) < l + Cardinality(Slots)
    <3>1. PICK l \in Limits : l # Unlimited =>
            Cardinality(Mine(u)) + Cardinality(Passed(u)) < l + Cardinality(Slots)
      BY <1>1 DEF IInv, Bounded
    <3> QED
      BY <1>1, <3>1, Finite, ProvisioningAssumption DEF IInv
  <2> QED
    BY <2>1 DEF LimitOvershoot, Mine
<1> QED
  BY <1>1, InitHolds, StepHolds, PTL DEF Spec
=============================================================================
