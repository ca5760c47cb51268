-------------------------- MODULE Addresses_proofs --------------------------
(***************************************************************************)
(* Which addresses Provisioning hands out, for any subnets, requests and   *)
(* devices: every row keeps its type; devices that are given addresses by  *)
(* allocation never overlap, however their requests interleave; and with   *)
(* one request at a time a routed subnet overlaps no device there is.      *)
(***************************************************************************)
EXTENDS Stamps_proofs, AddressAlloc_proofs

-----------------------------------------------------------------------------
(* Types.                                                                  *)

Jobs == [owner : Users \cup {NoUser}, mine : BOOLEAN, spec : Specs, keyed : BOOLEAN,
         reread : BOOLEAN, patch : Patches \cup {NoPatch}, seen : Rows \cup {NoRow},
         address : Blocks, dev : 0..MaxDevices, key : 0..MaxKeys]

\* What a request with job j has learned when it is in phase ph.
Learned(ph, j) ==
  /\ ph = "write" => j.seen \in Rows /\ j.seen.version < MaxVersion
  /\ ph \in Creating \cup {"sync"} => j.reread \/ j.seen \in Rows
  /\ ph \in {"sync", "render"} => j.dev \in Devices /\ j.key \in 1..MaxKeys

Creators == {s \in Slots : pc[s] \in Creating}

\* Every device there will be is within the bound of the run.
Counted == born + Cardinality(Creators) =< MaxDevices

TInv ==
  /\ TypeOK
  /\ peers = [d \in DOMAIN peers |-> peers[d]]
  /\ job \in [Slots -> Jobs]
  /\ \A s \in Slots : Learned(pc[s], job[s])
  /\ Counted

LEMMA NoJobTyped == NoJob \in Jobs /\ Learned("idle", NoJob)
<1>1. << >> \in Blocks
  BY DEF Blocks
<1>2. 0 \in 0..MaxDevices /\ 0 \in 0..MaxKeys
  BY ProvisioningAssumption
<1>3. AnyAddress \in Specs
  BY DEF Specs
<1> QED
  BY <1>1, <1>2, <1>3 DEF NoJob, Jobs, Learned, Creating

\* A device row with a new key and version.
LEMMA Rekeyed ==
  ASSUME NEW r \in PeerRows, NEW x \in 0..MaxKeys, NEW v \in 1..MaxVersion
  PROVE  [r EXCEPT !.key = x, !.version = v] \in PeerRows
BY DEF PeerRows

LEMMA FiniteCreators ==
  /\ IsFiniteSet(Creators) /\ Cardinality(Creators) \in Nat
  /\ IsFiniteSet(Creators') /\ Cardinality(Creators') \in Nat
<1>1. Creators \subseteq Slots /\ Creators' \subseteq Slots
  BY DEF Creators
<1> QED
  BY <1>1, ProvisioningAssumption, FS_Subset, FS_CardinalityType

\* A step of slot s that moves that slot only.
LEMMA MovesAlone ==
  ASSUME TInv, NEW s \in Slots, NEW ph \in Phases, NEW j \in Jobs, Goto(s, ph, j)
  PROVE  /\ pc' \in [Slots -> Phases] /\ job' \in [Slots -> Jobs]
         /\ pc'[s] = ph /\ job'[s] = j
         /\ \A t \in Slots \ {s} : pc'[t] = pc[t] /\ job'[t] = job[t]
BY DEF TInv, TypeOK, Goto

\* ... and what it must take care of.
LEMMA Proceeds ==
  ASSUME TInv, NEW s \in Slots, NEW ph \in Phases, NEW j \in Jobs, Goto(s, ph, j),
         Learned(ph, j), Counted',
         iface' \in Rows, born' \in 0..MaxDevices, DOMAIN peers' \subseteq 1..born',
         \A d \in DOMAIN peers' : peers'[d] \in PeerRows,
         peers' = [d \in DOMAIN peers' |-> peers'[d]], handed' \subseteq Configs
  PROVE  TInv'
<1>1. pc' \in [Slots -> Phases] /\ job' \in [Slots -> Jobs]
  BY MovesAlone
<1>2. \A t \in Slots : Learned(pc'[t], job'[t])
  <2>1. Learned(pc'[s], job'[s])
    BY MovesAlone
  <2>2. ASSUME NEW t \in Slots \ {s} PROVE Learned(pc'[t], job'[t])
    <3>1. pc'[t] = pc[t] /\ job'[t] = job[t] /\ Learned(pc[t], job[t])
      BY MovesAlone DEF TInv
    <3> QED
      BY <3>1
  <2> QED
    BY <2>1, <2>2
<1>3. TypeOK'
  BY <1>1 DEF TypeOK
<1>4. \A t \in Slots : Learned(pc[t], job[t])'
  BY <1>2 DEF Learned
<1> QED
  BY <1>1, <1>3, <1>4 DEF TInv

\* No new creation.
LEMMA CountStays ==
  ASSUME TInv, NEW s \in Slots, NEW ph \in Phases, NEW j \in Jobs, Goto(s, ph, j),
         ph \in Creating => pc[s] \in Creating, born' = born
  PROVE  Counted'
<1>1. Creators' \subseteq Creators
  BY MovesAlone DEF Creators
<1>2. Cardinality(Creators') =< Cardinality(Creators)
  BY <1>1, FiniteCreators, FS_Subset
<1> QED
  BY <1>2, FiniteCreators, ProvisioningAssumption DEF TInv, TypeOK, Counted

\* A creation that there is room for.
LEMMA CountStarts ==
  ASSUME TInv, NEW s \in Slots, NEW ph \in Phases, NEW j \in Jobs, Goto(s, ph, j),
         Room, born' = born
  PROVE  Counted'
<1>1. Creators' \subseteq Creators \cup {s}
  BY MovesAlone DEF Creators
<1>2. IsFiniteSet(Creators \cup {s}) /\ Cardinality(Creators \cup {s}) \in Nat
      /\ Cardinality(Creators \cup {s}) =< Cardinality(Creators) + 1
  <2>1. IsFiniteSet(Creators \cup {s}) /\ Cardinality(Creators \cup {s}) =
            IF s \in Creators THEN Cardinality(Creators) ELSE Cardinality(Creators) + 1
    BY FiniteCreators, FS_AddElement
  <2> QED
    BY <2>1, FiniteCreators
<1>3. Cardinality(Creators') =< Cardinality(Creators \cup {s})
  BY <1>1, <1>2, FS_Subset
<1>4. born + Cardinality(Creators) < MaxDevices
  BY DEF Room, Creators
<1> QED
  BY <1>2, <1>3, <1>4, FiniteCreators, ProvisioningAssumption DEF TInv, TypeOK, Counted

\* A creation that ends with a device.
LEMMA CountTurns ==
  ASSUME TInv, NEW s \in Creators, NEW ph \in Phases \ Creating, NEW j \in Jobs, Goto(s, ph, j),
         born' = born + 1
  PROVE  Counted' /\ born' \in 0..MaxDevices /\ born + 1 \in Devices
<1>0. s \in Slots /\ born \in Nat /\ MaxDevices \in Nat
  BY ProvisioningAssumption DEF Creators, TInv, TypeOK
<1>1. Creators' \subseteq Creators \ {s}
  BY <1>0, MovesAlone DEF Creators
<1>2. IsFiniteSet(Creators \ {s}) /\ Cardinality(Creators \ {s}) = Cardinality(Creators) - 1
  BY FiniteCreators, FS_RemoveElement
<1>3. Cardinality(Creators') =< Cardinality(Creators \ {s})
  BY <1>1, <1>2, FS_Subset
<1>4. Counted'
  BY <1>0, <1>2, <1>3, FiniteCreators DEF TInv, Counted
<1> QED
  BY <1>0, <1>4, FiniteCreators DEF Counted, Devices

\* A step that changes the job only.
LEMMA OnlyMoves ==
  ASSUME TInv, NEW s \in Slots, NEW ph \in Phases, NEW j \in Jobs, Goto(s, ph, j),
         Learned(ph, j), Counted', UNCHANGED <<iface, peers, born, handed>>
  PROVE  TInv'
<1>1. TypeOK /\ peers = [d \in DOMAIN peers |-> peers[d]]
  BY DEF TInv
<1> QED
  BY <1>1, Proceeds DEF TypeOK

\* A request that ends.
LEMMA Ends ==
  ASSUME TInv, NEW s \in Slots, Finish(s), UNCHANGED <<iface, peers, born, handed>>
  PROVE  TInv'
<1>1. Goto(s, "idle", NoJob) /\ "idle" \in Phases /\ "idle" \notin Creating
  BY DEF Finish, Phases, Creating
<1>2. Counted'
  BY <1>1, NoJobTyped, CountStays
<1> QED
  BY <1>1, <1>2, NoJobTyped, OnlyMoves

\* What is handed out is a configuration.
LEMMA Configured ==
  ASSUME NEW j \in Jobs, j.dev \in Devices, j.key \in 1..MaxKeys, NEW row \in Rows
  PROVE  [dev |-> j.dev, key |-> j.key, shows |-> RenderedOf(row)] \in Configs
<1>1. RenderedOf(row) \in [Rendered -> Values]
  BY DEF RenderedOf, Rows, Fields
<1> QED
  BY <1>1 DEF Configs

\* Every allocation is a list of nets.
LEMMA AllocateTyped ==
  ASSUME NEW spec \in Specs, NEW taken
  PROVE  Allocate(spec, taken) \in Blocks
<1>1. Subnets \in Blocks /\ spec.len \in Nat /\ << >> \in Blocks
  BY ProvisioningAssumption DEF Specs, AnyAddress, Blocks
<1>2. AllocateAddresses(Subnets, taken) \in Blocks
  <2>1. CASE AllocateAddresses(Subnets, taken) = NoAddress
    BY <1>1, <2>1 DEF NoAddress
  <2>2. CASE AllocateAddresses(Subnets, taken) # NoAddress
    <3>1. AllocateAddresses(Subnets, taken) \in [DOMAIN Subnets -> Hosts]
      BY <1>1, <2>2, Allocated
    <3>2. DOMAIN Subnets = 1..Len(Subnets) /\ Len(Subnets) \in Nat
      BY <1>1 DEF Blocks
    <3>3. Hosts \subseteq Nets
      BY HostRange
    <3>4. AllocateAddresses(Subnets, taken) \in [1..Len(Subnets) -> Nets]
      BY <3>1, <3>2, <3>3
    <3> QED
      BY <3>2, <3>4 DEF Blocks
  <2> QED
    BY <2>1, <2>2
<1>3. AllocateSubnet(Subnets, taken, spec.len) \in Blocks
  <2>1. CASE AllocateSubnet(Subnets, taken, spec.len) = NoAddress
    BY <1>1, <2>1 DEF NoAddress
  <2>2. CASE AllocateSubnet(Subnets, taken, spec.len) # NoAddress
    <3>1. PICK i \in DOMAIN Subnets : \E b \in FreeBlocks(Subnets[i], taken, spec.len) :
                 AllocateSubnet(Subnets, taken, spec.len) = << b >>
      BY <1>1, <2>2, SubnetAllocated
    <3>2. PICK b \in FreeBlocks(Subnets[i], taken, spec.len) :
                 AllocateSubnet(Subnets, taken, spec.len) = << b >>
      BY <3>1
    <3>3. Subnets[i] \in Nets
      BY <1>1 DEF Blocks
    <3>4. b \in Nets
      BY <1>1, <3>3, BlocksAreNets
    <3> QED
      BY <3>2, <3>4 DEF Blocks
  <2> QED
    BY <2>1, <2>2
<1> QED
  BY <1>2, <1>3 DEF Allocate

LEMMA TypedInit ==
  ASSUME Init
  PROVE  TInv
<1>1. iface \in Rows /\ peers = << >> /\ born = 0 /\ handed = {}
  BY DEF Init
<1>2. DOMAIN peers = {} /\ peers = [d \in DOMAIN peers |-> peers[d]]
  BY <1>1
<1>3. pc = [s \in Slots |-> "idle"] /\ job = [s \in Slots |-> NoJob]
  BY DEF Init
<1>4. TypeOK
  BY <1>1, <1>2, <1>3, ProvisioningAssumption DEF TypeOK, Phases
<1>5. \A s \in Slots : Learned(pc[s], job[s])
  BY <1>3, NoJobTyped
<1>6. Creators = {}
  BY <1>3 DEF Creators, Creating
<1>7. Counted
  BY <1>1, <1>6, FS_EmptySet, ProvisioningAssumption DEF Counted
<1> QED
  BY <1>2, <1>3, <1>4, <1>5, <1>7, NoJobTyped DEF TInv

\* The requests that begin a creation.
LEMMA TypedRequest ==
  ASSUME TInv, NEW s \in Slots,
         \/ \E u \in Users : RequestMine(s, u)
         \/ \E u \in Users \cup {NoUser}, spec \in Specs, keyed, reread \in BOOLEAN :
              RequestByAdmin(s, u, spec, keyed, reread)
  PROVE  TInv'
<1>0. iface \in Rows /\ NoJob \in Jobs
  BY NoJobTyped DEF TInv, TypeOK
<1>1. ASSUME NEW u \in Users, RequestMine(s, u)
      PROVE  TInv'
  <2> DEFINE k == [NoJob EXCEPT !.owner = u, !.mine = TRUE, !.reread = FALSE, !.seen = iface]
  <2>1. Goto(s, "count", k) /\ Room /\ UNCHANGED <<iface, peers, born, handed>>
    BY <1>1 DEF RequestMine
  <2>2. k \in Jobs /\ k.seen = iface
    BY <1>0 DEF Jobs
  <2> HIDE DEF k
  <2>3. "count" \in Phases /\ Learned("count", k)
    BY <1>0, <2>2 DEF Phases, Creating, Learned
  <2>4. Counted'
    BY <2>1, <2>2, <2>3, CountStarts
  <2> QED
    BY <2>1, <2>2, <2>3, <2>4, OnlyMoves
<1>2. ASSUME NEW u \in Users \cup {NoUser}, NEW spec \in Specs,
             NEW keyed \in BOOLEAN, NEW reread \in BOOLEAN,
             RequestByAdmin(s, u, spec, keyed, reread)
      PROVE  TInv'
  <2> DEFINE k == [NoJob EXCEPT !.owner = u, !.spec = spec, !.keyed = keyed, !.reread = reread,
                        !.address = spec.nets, !.seen = IF reread THEN NoRow ELSE iface]
  <2>1. PICK ph \in {"insert", "list"} : Goto(s, ph, k)
    BY <1>2 DEF RequestByAdmin
  <2>2. Room /\ UNCHANGED <<iface, peers, born, handed>>
    BY <1>2 DEF RequestByAdmin
  <2>3. spec.nets \in Blocks
    <3>1. spec.nets = << >> \/ spec.nets \in Fixed
      BY DEF Specs, AnyAddress
    <3>2. << >> \in Blocks
      BY DEF Blocks
    <3>3. Fixed \subseteq Blocks
      BY ProvisioningAssumption
    <3> QED
      BY <3>1, <3>2, <3>3
  <2>4. k \in Jobs /\ (k.reread \/ k.seen = iface)
    BY <1>0, <2>3 DEF Jobs
  <2> HIDE DEF k
  <2>5. ph \in Phases /\ Learned(ph, k)
    BY <1>0, <2>4 DEF Phases, Creating, Learned
  <2>6. Counted'
    BY <2>1, <2>2, <2>4, <2>5, CountStarts
  <2> QED
    BY <2>1, <2>2, <2>4, <2>5, <2>6, OnlyMoves
<1> QED
  BY <1>1, <1>2

\* The steps that carry a request on or end it, and touch no device.
LEMMA TypedCarry ==
  ASSUME TInv, NEW s \in Slots,
         \/ CountDevices(s) \/ ChooseAddress(s) \/ SyncFailed(s) \/ Abandon(s)
         \/ \E patch \in Patches : ReadForUpdate(s, patch)
  PROVE  TInv'
<1>0. job[s] \in Jobs /\ NoJob \in Jobs /\ iface \in Rows /\ Learned(pc[s], job[s])
  BY NoJobTyped DEF TInv, TypeOK
<1>1. UNCHANGED <<iface, peers, born, handed>>
  BY DEF CountDevices, ChooseAddress, SyncFailed, Abandon, ReadForUpdate
<1>2. CASE Finish(s)
  BY <1>1, <1>2, Ends
<1>3. CASE CountDevices(s) /\ ~Finish(s)
  <2>1. pc[s] = "count" /\ Goto(s, "list", job[s])
    BY <1>3 DEF CountDevices
  <2>2. "list" \in Phases /\ Learned("list", job[s])
    BY <1>0, <2>1 DEF Phases, Creating, Learned
  <2>3. Counted'
    BY <1>0, <1>1, <2>1, <2>2, CountStays DEF Creating
  <2> QED
    BY <1>0, <1>1, <2>1, <2>2, <2>3, OnlyMoves
<1>4. CASE ChooseAddress(s) /\ ~Finish(s)
  <2> DEFINE a == Allocate(job[s].spec, Taken)
             k == [job[s] EXCEPT !.address = a]
  <2>1. pc[s] = "list" /\ Goto(s, "insert", k)
    BY <1>4 DEF ChooseAddress
  <2>2. a \in Blocks
    BY <1>0, AllocateTyped DEF Jobs
  <2>3. k \in Jobs /\ k.reread = job[s].reread /\ k.seen = job[s].seen
    <3> HIDE DEF a
    <3> QED
      BY <1>0, <2>2 DEF Jobs
  <2> HIDE DEF k
  <2>4. "insert" \in Phases /\ Learned("insert", k)
    BY <1>0, <2>1, <2>3 DEF Phases, Creating, Learned
  <2>5. Counted'
    BY <1>0, <1>1, <2>1, <2>3, <2>4, CountStays DEF Creating
  <2> QED
    BY <1>1, <2>1, <2>3, <2>4, <2>5, OnlyMoves
<1>5. ASSUME NEW patch \in Patches, ReadForUpdate(s, patch)
      PROVE  TInv'
  <2> DEFINE k == [NoJob EXCEPT !.patch = patch, !.seen = iface]
  <2>1. Goto(s, "write", k) /\ iface.version < MaxVersion
    BY <1>5 DEF ReadForUpdate
  <2>2. k \in Jobs /\ k.seen = iface
    BY <1>0 DEF Jobs
  <2> HIDE DEF k
  <2>3. "write" \in Phases /\ Learned("write", k)
    BY <1>0, <2>1, <2>2 DEF Phases, Creating, Learned
  <2>4. Counted'
    BY <1>1, <2>1, <2>2, <2>3, CountStays DEF Creating
  <2> QED
    BY <1>1, <2>1, <2>2, <2>3, <2>4, OnlyMoves
<1> QED
  BY <1>2, <1>3, <1>4, <1>5 DEF SyncFailed, Abandon

\* What is answered is rendered from a row of the interface.
LEMMA TypedAnswer ==
  ASSUME TInv, NEW s \in Slots, Synced(s) \/ RenderReread(s)
  PROVE  TInv'
<1>0. /\ job[s] \in Jobs /\ NoJob \in Jobs /\ iface \in Rows /\ Learned(pc[s], job[s])
      /\ Learned("idle", NoJob) /\ "idle" \in Phases /\ "render" \in Phases
  BY NoJobTyped DEF TInv, TypeOK, Phases
<1>1. UNCHANGED <<iface, peers, born>> /\ pc[s] \in {"sync", "render"}
  BY DEF Synced, RenderReread
<1>2. CASE Goto(s, "render", job[s]) /\ UNCHANGED handed
  <2>1. Learned("render", job[s])
    BY <1>0, <1>1 DEF Learned, Creating
  <2>2. Counted'
    BY <1>0, <1>1, <1>2, CountStays DEF Creating
  <2> QED
    BY <1>0, <1>1, <1>2, <2>1, <2>2, OnlyMoves
<1>3. ASSUME NEW row \in Rows, HandOut(job[s], row), Finish(s)
      PROVE  TInv'
  <2>1. job[s].dev \in Devices /\ job[s].key \in 1..MaxKeys
    BY <1>0, <1>1 DEF Learned
  <2>2. handed' \subseteq Configs
    BY <1>0, <1>3, <2>1, Configured DEF HandOut, TInv, TypeOK
  <2>3. Goto(s, "idle", NoJob)
    BY <1>3 DEF Finish
  <2>4. Counted'
    BY <1>0, <1>1, <2>3, CountStays DEF Creating
  <2>5. TypeOK /\ peers = [d \in DOMAIN peers |-> peers[d]]
    BY DEF TInv
  <2> QED
    BY <1>0, <1>1, <2>2, <2>3, <2>4, <2>5, Proceeds DEF TypeOK
<1>4. CASE Synced(s)
  <2>1. job[s].reread \/ job[s].seen \in Rows
    BY <1>0, <1>4 DEF Synced, Learned
  <2>2. CASE job[s].reread
    BY <1>2, <1>4, <2>2 DEF Synced
  <2>3. CASE ~job[s].reread
    BY <1>3, <1>4, <2>1, <2>3 DEF Synced
  <2> QED
    BY <2>2, <2>3
<1> QED
  BY <1>0, <1>3, <1>4 DEF RenderReread

\* A device that is inserted has a row of the type, and a number.
LEMMA TypedInsert ==
  ASSUME TInv, NEW s \in Slots, InsertPeer(s)
  PROVE  TInv'
<1> DEFINE j == job[s]
           d == born + 1
           k == [j EXCEPT !.dev = d, !.key = 1]
<1>0. /\ j \in Jobs /\ NoJob \in Jobs /\ iface \in Rows /\ Learned("insert", j)
      /\ pc[s] = "insert" /\ UNCHANGED <<iface, handed>>
  BY NoJobTyped DEF TInv, TypeOK, InsertPeer
<1>1. CASE j.address \in Taken
  BY <1>0, <1>1, Ends DEF InsertPeer
<1>2. CASE j.address \notin Taken
  <2>1. /\ peers' = [e \in DOMAIN peers \cup {d} |-> IF e = d THEN NewRow(j) ELSE peers[e]]
        /\ born' = d
        /\ Goto(s, "sync", k) \/ Goto(s, "idle", NoJob)
    BY <1>2 DEF InsertPeer, Finish
  <2>2. s \in Creators /\ "sync" \in Phases \ Creating /\ "idle" \in Phases \ Creating
    BY <1>0 DEF Creators, Creating, Phases
  <2>3. d \in Devices => k \in Jobs /\ k.reread = j.reread /\ k.seen = j.seen /\ k.dev = d /\ k.key = 1
    <3> SUFFICES ASSUME NEW e \in 0..MaxDevices, NEW x \in 0..MaxKeys, e = d, x = 1
                 PROVE  k \in Jobs /\ k.reread = j.reread /\ k.seen = j.seen /\ k.dev = e /\ k.key = x
      BY ProvisioningAssumption DEF Devices
    <3>1. k = [j EXCEPT !.dev = e, !.key = x]
      OBVIOUS
    <3> HIDE DEF d, j
    <3> QED
      BY <1>0, <3>1 DEF Jobs
  <2> HIDE DEF k, j
  <2>4. PICK ph \in {"sync", "idle"}, jj \in {k, NoJob} :
          Goto(s, ph, jj) /\ (ph = "sync" => jj = k) /\ (ph = "idle" => jj = NoJob)
    BY <2>1
  <2>5. d \in Devices
    <3>1. Cardinality(Creators) >= 1
      BY <2>2, FiniteCreators, FS_EmptySet
    <3> QED
      BY <3>1, FiniteCreators, ProvisioningAssumption DEF TInv, TypeOK, Counted, Devices
  <2>6. jj \in Jobs /\ ph \in Phases \ Creating
    BY <1>0, <2>2, <2>3, <2>4, <2>5
  <2>7. Counted' /\ born' \in 0..MaxDevices
    BY <2>1, <2>2, <2>4, <2>6, CountTurns
  <2>8. Learned(ph, jj)
    <3>1. CASE ph = "sync"
      BY <1>0, <2>3, <2>4, <2>5, <3>1, ProvisioningAssumption DEF Learned, Creating
    <3>2. CASE ph = "idle"
      BY <2>4, <3>2, NoJobTyped
    <3> QED
      BY <2>4, <3>1, <3>2
  <2>9. NewRow(j) \in PeerRows
    <3>1. iface.version \in 1..MaxVersion /\ 0 \in 0..MaxKeys /\ 1 \in 0..MaxKeys
      BY <1>0, ProvisioningAssumption DEF Rows
    <3> QED
      BY <1>0, <3>1 DEF NewRow, PeerRows, Jobs
  <2>10. /\ DOMAIN peers' \subseteq 1..born' /\ peers' = [e \in DOMAIN peers' |-> peers'[e]]
         /\ \A e \in DOMAIN peers' : peers'[e] \in PeerRows
    BY <2>1, <2>9 DEF TInv, TypeOK
  <2>11. handed' \subseteq Configs
    BY <1>0 DEF TInv, TypeOK
  <2> QED
    BY <1>0, <2>4, <2>6, <2>7, <2>8, <2>10, <2>11, Proceeds
<1> QED
  BY <1>1, <1>2

\* Regenerating and deleting.
LEMMA TypedDevice ==
  ASSUME TInv, NEW d \in Devices, DeleteDevice(d) \/ \E s \in Slots : Regenerate(s, d)
  PROVE  TInv'
<1>0. TypeOK /\ NoJob \in Jobs
  BY NoJobTyped DEF TInv
<1>1. CASE DeleteDevice(d)
  <2>1. UNCHANGED <<iface, born, handed, pc, job>> /\ peers' = [e \in DOMAIN peers \ {d} |-> peers[e]]
    BY <1>1 DEF DeleteDevice
  <2>2. TypeOK'
    BY <1>0, <2>1 DEF TypeOK
  <2>3. Counted'
    BY <2>1 DEF TInv, Counted, Creators
  <2> QED
    BY <2>1, <2>2, <2>3 DEF TInv, Learned
<1>2. ASSUME NEW s \in Slots, Regenerate(s, d)
      PROVE  TInv'
  <2> DEFINE k == [NoJob EXCEPT !.dev = d, !.key = peers[d].key + 1]
  <2>1. /\ d \in DOMAIN peers /\ UNCHANGED <<iface, born, handed>> /\ peers[d].key < MaxKeys
        /\ peers' = [peers EXCEPT ![d].key = @ + 1, ![d].version = iface.version]
        /\ Goto(s, "sync", k)
    BY <1>2 DEF Regenerate
  <2>2. peers[d] \in PeerRows /\ peers[d].key \in 0..MaxKeys /\ iface.version \in 1..MaxVersion
    BY <1>0, <2>1 DEF TypeOK, PeerRows, Rows
  <2>3. peers[d].key + 1 \in 1..MaxKeys
    BY <2>1, <2>2, ProvisioningAssumption
  <2>4. [peers[d] EXCEPT !.key = peers[d].key + 1, !.version = iface.version] \in PeerRows
    <3>1. peers[d].key + 1 \in 0..MaxKeys
      BY <2>3
    <3> QED
      BY <2>2, <3>1, Rekeyed
  <2>5. /\ DOMAIN peers' = DOMAIN peers /\ peers' = [e \in DOMAIN peers' |-> peers'[e]]
        /\ \A e \in DOMAIN peers' : peers'[e] \in PeerRows
    <3>1. peers' = [e \in DOMAIN peers |->
                     IF e = d THEN [peers[d] EXCEPT !.key = peers[d].key + 1, !.version = iface.version]
                     ELSE peers[e]]
      BY <2>1 DEF TInv
    <3> QED
      BY <1>0, <2>4, <3>1 DEF TypeOK
  <2>6. k \in Jobs /\ k.reread /\ k.dev = d /\ k.key = peers[d].key + 1
    <3> SUFFICES ASSUME NEW e \in 0..MaxDevices, NEW x \in 0..MaxKeys, e = d, x = peers[d].key + 1
                 PROVE  k \in Jobs /\ k.reread /\ k.dev = e /\ k.key = x
      BY <2>3, ProvisioningAssumption DEF Devices
    <3>1. k = [NoJob EXCEPT !.dev = e, !.key = x]
      OBVIOUS
    <3>2. NoJob.reread
      BY DEF NoJob
    <3> QED
      BY <1>0, <3>1, <3>2 DEF Jobs
  <2> HIDE DEF k
  <2>7. "sync" \in Phases /\ Learned("sync", k)
    BY <2>3, <2>6 DEF Phases, Learned, Creating
  <2>8. Counted'
    BY <2>1, <2>6, <2>7, CountStays DEF Creating
  <2> QED
    BY <1>0, <2>1, <2>5, <2>6, <2>7, <2>8, Proceeds DEF TypeOK
<1> QED
  BY <1>1, <1>2

\* The row written back is a row.
LEMMA PatchedTyped ==
  ASSUME NEW row \in Rows, row.version < MaxVersion, NEW patch \in Patches \cup {NoPatch}
  PROVE  Patched(row, patch) \in Rows
<1> DEFINE set == [f \in Fields |-> IF f \in DOMAIN patch.set THEN patch.set[f] ELSE row.set[f]]
<1>1. \A f \in DOMAIN patch.set : f \in Fields => patch.set[f] \in Values
  BY DEF Patches, NoPatch
<1>2. set \in [Fields -> Values]
  BY <1>1 DEF Rows
<1>3. patch.limit = {} \/ \E l \in Limits : patch.limit = {l}
  BY DEF Patches, NoPatch
<1>4. (IF patch.limit = {} THEN row.limit ELSE CHOOSE l \in patch.limit : l \in Limits) \in Limits
  BY <1>3 DEF Rows
<1> HIDE DEF set
<1>5. row.version + (IF \E f \in Rendered : set[f] # row.set[f] THEN 1 ELSE 0) \in 1..MaxVersion
  BY ProvisioningAssumption DEF Rows
<1> QED
  BY <1>2, <1>4, <1>5 DEF Patched, Rows, set

LEMMA TypedUpdate ==
  ASSUME TInv, NEW s \in Slots, WriteUpdate(s)
  PROVE  TInv'
<1>0. /\ TypeOK /\ NoJob \in Jobs /\ Learned("idle", NoJob) /\ "idle" \in Phases
      /\ peers = [d \in DOMAIN peers |-> peers[d]]
  BY NoJobTyped DEF TInv, Phases
<1>1. /\ iface' = Patched(job[s].seen, job[s].patch) /\ UNCHANGED <<peers, born, handed>>
      /\ Goto(s, "idle", NoJob) /\ pc[s] = "write"
  BY DEF WriteUpdate, Finish
<1>2. job[s].seen \in Rows /\ job[s].seen.version < MaxVersion /\ job[s].patch \in Patches \cup {NoPatch}
  BY <1>1 DEF TInv, Learned, Jobs
<1>3. iface' \in Rows
  BY <1>1, <1>2, PatchedTyped
<1>4. Counted'
  BY <1>0, <1>1, CountStays DEF Creating
<1> QED
  BY <1>0, <1>1, <1>3, <1>4, Proceeds DEF TypeOK

LEMMA Typed ==
  ASSUME TInv, [Next]_vars
  PROVE  TInv'
<1>1. CASE UNCHANGED vars
  <2>1. Counted'
    BY <1>1 DEF vars, TInv, Counted, Creators
  <2> QED
    BY <1>1, <2>1 DEF vars, TInv, TypeOK, Learned
<1>2. CASE Next
  BY <1>2, TypedRequest, TypedCarry, TypedAnswer, TypedInsert, TypedDevice, TypedUpdate DEF Next
<1> QED
  BY <1>1, <1>2

\* Every row keeps its type, whatever is allocated: versions, keys and device
\* numbers stay within their bounds, every address is a list of nets, and every
\* configuration that is handed out is for a device with a key.
THEOREM TypeCorrect == Spec => []TypeOK
<1>1. TInv => TypeOK
  BY DEF TInv
<1> QED
  BY <1>1, TypedInit, Typed, PTL DEF Spec

-----------------------------------------------------------------------------
(* Addresses by allocation.                                                *)

\* Admins ask for no prefix and for no nets: every address is allocated.
AutoOnly == Lengths = {} /\ Fixed = {}

\* The lists that allocations give out one after the other on an interface
\* where none was ever returned.
Chain(L, n) ==
  /\ L \in [1..n -> [DOMAIN Subnets -> Hosts]]
  /\ \A k \in 1..n : L[k] = AllocateAddresses(Subnets, {L[i] : i \in 1..k - 1})

Links(L, n) == {L[k] : k \in 1..n}

\* The lists that were chosen and are not inserted yet.
Pending == {job[s].address : s \in {t \in Slots : pc[t] = "insert"}}

AInv ==
  /\ \E n \in Nat : \E L : Chain(L, n) /\ Taken \cup Pending \subseteq Links(L, n)
  /\ \A d, e \in DOMAIN peers : d # e => peers[d].address # peers[e].address

\* Two hosts that are the same address.
Same(h, g) == h.fam = g.fam /\ h.addr = g.addr

\* An address of a list is not the server's and is in no other list of its chain.
LEMMA LinksApart ==
  ASSUME NEW n \in Nat, NEW L, Chain(L, n), NEW k \in 1..n, NEW x \in DOMAIN Subnets
  PROVE  /\ <<L[k][x].fam, L[k][x].addr>> \notin Server(Subnets)
         /\ \A i \in 1..n : \A y \in DOMAIN Subnets :
              i # k => ~Same(L[k][x], L[i][y])
<1>0. Subnets \in Blocks /\ Subnets # << >>
  BY ProvisioningAssumption
<1>1. ASSUME NEW i \in 1..n, NEW z \in DOMAIN Subnets
      PROVE  <<L[i][z].fam, L[i][z].addr>> \notin Used(Subnets, {L[h] : h \in 1..i - 1})
  <2> DEFINE T == {L[h] : h \in 1..i - 1}
             a == AllocateAddresses(Subnets, T)
  <2>1. L[i] \in [DOMAIN Subnets -> Hosts] /\ L[i] = a
    BY DEF Chain
  <2>2. L[i] # NoAddress
    BY <1>0, <2>1 DEF NoAddress, Blocks
  <2> HIDE DEF T
  <2>3. Assigned(L[i], Subnets, Used(Subnets, T))
    BY <1>0, <2>1, <2>2, Allocated
  <2>4. Place(L[i], Subnets, Used(Subnets, T), z)
    BY <2>3, Places
  <2>5. <<L[i][z].fam, L[i][z].addr>> \notin Used(Subnets, T)
    BY <1>0, <2>1, <2>4, PlaceFree
  <2> QED
    BY <2>5 DEF T
<1>2. ASSUME NEW i \in 1..n, NEW j \in 1..i - 1, NEW z \in DOMAIN Subnets, NEW y \in DOMAIN Subnets
      PROVE  <<L[i][z].fam, L[i][z].addr>> # <<L[j][y].fam, L[j][y].addr>>
  <2>1. j \in 1..n /\ DOMAIN L[j] = DOMAIN Subnets
    BY DEF Chain
  <2>2. <<L[j][y].fam, L[j][y].addr>> \in AddrsOf({L[h] : h \in 1..i - 1})
    BY <2>1 DEF AddrsOf, ToSet
  <2> QED
    BY <1>1, <2>2 DEF Used
<1>3. <<L[k][x].fam, L[k][x].addr>> \notin Server(Subnets)
  BY <1>1 DEF Used
<1>4. ASSUME NEW i \in 1..n, NEW y \in DOMAIN Subnets, i # k
      PROVE  ~Same(L[k][x], L[i][y])
  <2>1. i \in 1..k - 1 \/ k \in 1..i - 1
    BY <1>4
  <2> QED
    BY <1>2, <2>1 DEF Same
<1> QED
  BY <1>3, <1>4

\* What is allocated while some of a chain is taken is the first list of it that
\* is not, or its next one.
LEMMA NextLink ==
  ASSUME NEW n \in Nat, NEW L, Chain(L, n), NEW T, T \subseteq Links(L, n),
         AllocateAddresses(Subnets, T) # NoAddress
  PROVE  \/ AllocateAddresses(Subnets, T) \in Links(L, n)
         \/ \E M : /\ Chain(M, n + 1)
                   /\ Links(M, n + 1) = Links(L, n) \cup {AllocateAddresses(Subnets, T)}
<1> DEFINE a == AllocateAddresses(Subnets, T)
           F == {k \in 1..n : L[k] \notin T}
<1>0. Subnets \in Blocks /\ Subnets # << >>
  BY ProvisioningAssumption
<1>00. ASSUME NEW k \in 1..n, NEW i \in 1..n, i # k,
              NEW x \in DOMAIN Subnets, NEW y \in DOMAIN Subnets
       PROVE  ~Same(L[k][x], L[i][y])
  BY <1>00, LinksApart
<1>1. CASE F = {}
  <2> DEFINE M == [k \in 1..n + 1 |-> IF k = n + 1 THEN a ELSE L[k]]
  <2>1. a \in [DOMAIN Subnets -> Hosts]
    BY <1>0, Allocated
  <2>2. T = {L[i] : i \in 1..n}
    BY <1>1 DEF Links
  <2> HIDE DEF a
  <2>3. M \in [1..n + 1 -> [DOMAIN Subnets -> Hosts]]
    BY <2>1 DEF Chain
  <2>4. ASSUME NEW k \in 1..n + 1
        PROVE  M[k] = AllocateAddresses(Subnets, {M[i] : i \in 1..k - 1})
    <3>1. \A i \in 1..k - 1 : i \in 1..n /\ M[i] = L[i]
      OBVIOUS
    <3>2. {M[i] : i \in 1..k - 1} = {L[i] : i \in 1..k - 1}
      BY <3>1
    <3>3. CASE k = n + 1
      <4>0. 1..k - 1 = 1..n
        BY <3>3
      <4>1. {M[i] : i \in 1..k - 1} = T
        BY <2>2, <3>2, <4>0
      <4> QED
        BY <3>3, <4>1 DEF a
    <3>4. CASE k # n + 1
      <4>1. k \in 1..n /\ M[k] = L[k]
        BY <3>4
      <4> QED
        BY <3>2, <4>1 DEF Chain
    <3> QED
      BY <3>3, <3>4
  <2>5. Links(M, n + 1) = Links(L, n) \cup {a}
    <3>1. 1..n + 1 = 1..n \cup {n + 1} /\ M[n + 1] = a /\ \A k \in 1..n : M[k] = L[k]
      OBVIOUS
    <3> HIDE DEF M
    <3> QED
      BY <3>1 DEF Links
  <2>6. Chain(M, n + 1)
    BY <2>3, <2>4 DEF Chain
  <2> QED
    BY <2>5, <2>6 DEF a
<1>2. CASE F # {}
  <2>1. F \in SUBSET Nat
    OBVIOUS
  <2>2. PICK j \in F : \A k \in F : j =< k
    <3> HIDE DEF F
    <3> QED
      BY <1>2, <2>1, Least
  <2>3. j \in 1..n /\ L[j] \notin T /\ \A i \in 1..j - 1 : L[i] \in T
    BY <2>2
  <2> DEFINE S == {L[i] : i \in 1..j - 1}
  <2>4. S \subseteq T /\ L[j] \in [DOMAIN Subnets -> Hosts] /\ L[j] = AllocateAddresses(Subnets, S)
    BY <2>3 DEF Chain
  <2> HIDE DEF S
  <2>5. L[j] # NoAddress
    BY <1>0, <2>4 DEF NoAddress, Blocks
  <2>6. Assigned(L[j], Subnets, Used(Subnets, S))
    BY <1>0, <2>4, <2>5, Allocated
  <2>7. ASSUME NEW x \in DOMAIN Subnets
        PROVE  <<L[j][x].fam, L[j][x].addr>> \notin AddrsOf(T)
    <3> SUFFICES ASSUME NEW t \in T, NEW y \in DOMAIN t,
                        <<L[j][x].fam, L[j][x].addr>> = <<t[y].fam, t[y].addr>>
                 PROVE  FALSE
      BY DEF AddrsOf, ToSet
    <3>1. PICK k \in 1..n : t = L[k]
      BY DEF Links
    <3>2. k # j /\ y \in DOMAIN Subnets
      BY <2>3, <3>1 DEF Chain
    <3> QED
      BY <1>00, <2>3, <3>1, <3>2 DEF Same
  <2>8. Assigned(L[j], Subnets, Used(Subnets, S) \cup AddrsOf(T))
    BY <1>0, <2>4, <2>6, <2>7, AssignedStill
  <2>9. Used(Subnets, S) \cup AddrsOf(T) = Used(Subnets, T)
    BY <2>4 DEF Used, AddrsOf
  <2>10. a = L[j]
    BY <1>0, <2>4, <2>8, <2>9, AllocatedIs
  <2> QED
    BY <2>3, <2>10 DEF Links
<1> QED
  BY <1>1, <1>2

\* Nothing is added to what is taken or pending.
LEMMA Shrinks ==
  ASSUME AInv, Taken' \cup Pending' \subseteq Taken \cup Pending,
         \A d, e \in DOMAIN peers' : d # e => peers'[d].address # peers'[e].address
  PROVE  AInv'
<1>1. PICK n \in Nat : \E L : Chain(L, n) /\ Taken \cup Pending \subseteq Links(L, n)
  BY DEF AInv
<1>2. PICK L : Chain(L, n) /\ Taken \cup Pending \subseteq Links(L, n)
  BY <1>1
<1>3. Taken' \cup Pending' \subseteq Links(L, n)
  BY <1>2
<1> QED
  BY <1>2, <1>3 DEF AInv

\* A step of a request: what is pending grows by its address at most.
LEMMA PendingMoves ==
  ASSUME TInv, NEW s \in Slots, NEW ph \in Phases, NEW j \in Jobs, Goto(s, ph, j)
  PROVE  Pending' \subseteq Pending \cup (IF ph = "insert" THEN {j.address} ELSE {})
<1> SUFFICES ASSUME NEW t \in Slots, pc'[t] = "insert"
             PROVE  job'[t].address \in Pending \cup (IF ph = "insert" THEN {j.address} ELSE {})
  BY DEF Pending
<1>1. CASE t = s
  BY <1>1, MovesAlone
<1>2. CASE t # s
  BY <1>2, MovesAlone DEF Pending
<1> QED
  BY <1>1, <1>2

\* A step that inserts nothing and chooses nothing.
LEMMA KeepsLists ==
  ASSUME TInv, AInv, NEW s \in Slots, NEW ph, ph # "insert", NEW j, Goto(s, ph, j),
         DOMAIN peers' \subseteq DOMAIN peers,
         \A d \in DOMAIN peers' : peers'[d].address = peers[d].address
  PROVE  AInv'
<1>1. Pending' \subseteq Pending
  <2>1. \A t \in Slots : pc'[t] = "insert" => pc[t] = "insert" /\ job'[t] = job[t]
    BY DEF TInv, TypeOK, Goto
  <2> QED
    BY <2>1 DEF Pending
<1>2. Taken' \subseteq Taken
  BY DEF Taken
<1>3. \A d, e \in DOMAIN peers' : d # e => peers'[d].address # peers'[e].address
  BY DEF AInv
<1> QED
  BY <1>1, <1>2, <1>3, Shrinks

\* An allocation: the list is one of the chain, or makes it longer.
LEMMA KeepsChosen ==
  ASSUME TInv, AInv, AutoOnly, NEW s \in Slots, ChooseAddress(s)
  PROVE  AInv'
<1> DEFINE j == job[s]
           a == Allocate(j.spec, Taken)
           k == [j EXCEPT !.address = a]
<1>0. j \in Jobs /\ NoJob \in Jobs /\ "idle" \in Phases /\ "insert" \in Phases
  BY NoJobTyped DEF TInv, Phases, Creating
<1>1. a = AllocateAddresses(Subnets, Taken)
  BY <1>0 DEF Allocate, Jobs, AutoOnly, Specs, AnyAddress
<1>2. UNCHANGED <<iface, peers, born, handed>>
  BY DEF ChooseAddress
<1>3. CASE a = NoAddress
  <2>1. Goto(s, "idle", NoJob)
    BY <1>3 DEF ChooseAddress, Finish
  <2> HIDE DEF a, j
  <2> QED
    BY <1>0, <1>2, <2>1, KeepsLists
<1>4. CASE a # NoAddress
  <2>1. Goto(s, "insert", k)
    BY <1>4 DEF ChooseAddress
  <2>2. a \in Blocks
    BY <1>0, AllocateTyped DEF Jobs
  <2>3. k \in Jobs /\ k.address = a
    <3> HIDE DEF a, j
    <3> QED
      BY <1>0, <2>2 DEF Jobs
  <2>4. PICK n \in Nat : \E L : Chain(L, n) /\ Taken \cup Pending \subseteq Links(L, n)
    BY DEF AInv
  <2>5. PICK L : Chain(L, n) /\ Taken \cup Pending \subseteq Links(L, n)
    BY <2>4
  <2>6. PICK m \in Nat : \E M : Chain(M, m) /\ Links(L, n) \cup {a} \subseteq Links(M, m)
    <3>1. Taken \subseteq Links(L, n) /\ AllocateAddresses(Subnets, Taken) # NoAddress
      BY <1>1, <1>4, <2>5
    <3>2. \/ AllocateAddresses(Subnets, Taken) \in Links(L, n)
          \/ \E M : /\ Chain(M, n + 1)
                    /\ Links(M, n + 1) = Links(L, n) \cup {AllocateAddresses(Subnets, Taken)}
      BY <2>5, <3>1, NextLink
    <3> HIDE DEF a
    <3>3. n + 1 \in Nat
      OBVIOUS
    <3> QED
      BY <1>1, <2>5, <3>2, <3>3
  <2>7. PICK M : Chain(M, m) /\ Links(L, n) \cup {a} \subseteq Links(M, m)
    BY <2>6
  <2> HIDE DEF k, a
  <2>8. Pending' \subseteq Pending \cup {a}
    BY <1>0, <2>1, <2>3, PendingMoves
  <2>9. Taken' = Taken
    BY <1>2 DEF Taken
  <2>10. Taken' \cup Pending' \subseteq Links(M, m)
    BY <2>5, <2>7, <2>8, <2>9
  <2>11. \A d, e \in DOMAIN peers' : d # e => peers'[d].address # peers'[e].address
    BY <1>2 DEF AInv
  <2> QED
    BY <2>7, <2>10, <2>11 DEF AInv
<1> QED
  BY <1>3, <1>4

\* An insertion: the list was pending, and no device has it.
LEMMA KeepsInserted ==
  ASSUME TInv, AInv, NEW s \in Slots, InsertPeer(s)
  PROVE  AInv'
<1> DEFINE j == job[s]
           d == born + 1
           k == [j EXCEPT !.dev = d, !.key = 1]
<1>0. j \in Jobs /\ NoJob \in Jobs /\ "idle" \in Phases /\ "sync" \in Phases /\ pc[s] = "insert"
  BY NoJobTyped DEF TInv, Phases, InsertPeer
<1>1. CASE j.address \in Taken
  <2>1. Goto(s, "idle", NoJob) /\ UNCHANGED peers
    BY <1>1 DEF InsertPeer, Finish
  <2> HIDE DEF j
  <2> QED
    BY <1>0, <2>1, KeepsLists
<1>2. CASE j.address \notin Taken
  <2>1. /\ peers' = [e \in DOMAIN peers \cup {d} |-> IF e = d THEN NewRow(j) ELSE peers[e]]
        /\ Goto(s, "sync", k) \/ Goto(s, "idle", NoJob)
    BY <1>2 DEF InsertPeer, Finish
  <2>2. NewRow(j).address = j.address /\ j.address \in Pending
    BY <1>0 DEF NewRow, Pending
  <2>3. Pending' \subseteq Pending
    <3> SUFFICES ASSUME NEW t \in Slots, pc'[t] = "insert"
                 PROVE  job'[t].address \in Pending
      BY DEF Pending
    <3>1. pc'[s] # "insert" /\ (t # s => pc'[t] = pc[t] /\ job'[t] = job[t])
      <4> HIDE DEF k, j
      <4> QED
        BY <1>0, <2>1 DEF Goto, TInv, TypeOK
    <3> QED
      BY <3>1 DEF Pending
  <2> HIDE DEF j, k
  <2>4. Taken' \subseteq Taken \cup {j.address}
    BY <2>1, <2>2 DEF Taken
  <2>5. \A e, f \in DOMAIN peers' : e # f => peers'[e].address # peers'[f].address
    <3>1. \A e \in DOMAIN peers : e # d => peers'[e] = peers[e] /\ peers[e].address # j.address
      BY <1>2, <2>1 DEF Taken
    <3>2. DOMAIN peers' = DOMAIN peers \cup {d} /\ peers'[d].address = j.address
      BY <2>1, <2>2
    <3> HIDE DEF d
    <3> QED
      BY <3>1, <3>2 DEF AInv
  <2> QED
    BY <2>2, <2>3, <2>4, <2>5, Shrinks
<1> QED
  BY <1>1, <1>2

\* The steps that insert nothing and choose nothing.
LEMMA KeepsOther ==
  ASSUME TInv, AInv, AutoOnly, NEW s \in Slots,
         \/ \E u \in Users : RequestMine(s, u)
         \/ \E u \in Users \cup {NoUser}, spec \in Specs, keyed, reread \in BOOLEAN :
              RequestByAdmin(s, u, spec, keyed, reread)
         \/ CountDevices(s) \/ Synced(s) \/ SyncFailed(s) \/ RenderReread(s)
         \/ \E d \in Devices : Regenerate(s, d)
         \/ \E patch \in Patches : ReadForUpdate(s, patch)
         \/ WriteUpdate(s) \/ Abandon(s)
  PROVE  AInv'
<1>1. ASSUME NEW u \in Users \cup {NoUser}, NEW spec \in Specs, NEW keyed \in BOOLEAN,
             NEW reread \in BOOLEAN, RequestByAdmin(s, u, spec, keyed, reread)
      PROVE  \E j : Goto(s, "list", j)
  <2>1. spec.kind # "fixed"
    BY DEF AutoOnly, Specs, AnyAddress
  <2> QED
    BY <1>1, <2>1 DEF RequestByAdmin
<1>2. PICK ph \in Phases \ {"insert"} : \E j : Goto(s, ph, j)
  BY <1>1 DEF RequestMine, CountDevices, Synced, SyncFailed, RenderReread, Regenerate,
              ReadForUpdate, WriteUpdate, Abandon, Finish, Phases, Creating
<1>3. UNCHANGED peers \/ \E d \in Devices : Regenerate(s, d)
  BY DEF RequestMine, RequestByAdmin, CountDevices, Synced, SyncFailed, RenderReread,
         ReadForUpdate, WriteUpdate, Abandon
<1>4. /\ DOMAIN peers' \subseteq DOMAIN peers
      /\ \A d \in DOMAIN peers' : peers'[d].address = peers[d].address
  <2>1. ASSUME NEW d \in Devices, Regenerate(s, d)
        PROVE  /\ DOMAIN peers' = DOMAIN peers
               /\ \A e \in DOMAIN peers : peers'[e].address = peers[e].address
    <3>1. /\ peers' = [peers EXCEPT ![d].key = @ + 1, ![d].version = iface.version]
          /\ d \in DOMAIN peers
      BY <2>1 DEF Regenerate
    <3>2. peers[d] \in PeerRows
      BY <3>1 DEF TInv, TypeOK
    <3>3. [peers[d] EXCEPT !.key = peers[d].key + 1, !.version = iface.version].address = peers[d].address
      BY <3>2 DEF PeerRows
    <3>4. peers' = [e \in DOMAIN peers |->
                     IF e = d THEN [peers[d] EXCEPT !.key = peers[d].key + 1, !.version = iface.version]
                     ELSE peers[e]]
      BY <3>1 DEF TInv
    <3> QED
      BY <3>3, <3>4
  <2> QED
    BY <1>3, <2>1
<1> QED
  BY <1>2, <1>4, KeepsLists

LEMMA KeepsDeleted ==
  ASSUME AInv, NEW d \in Devices, DeleteDevice(d)
  PROVE  AInv'
<1>1. /\ peers' = [e \in DOMAIN peers \ {d} |-> peers[e]]
      /\ UNCHANGED <<pc, job>>
  BY DEF DeleteDevice
<1>2. Pending' = Pending /\ Taken' \subseteq Taken
  BY <1>1 DEF Pending, Taken
<1>3. \A e, f \in DOMAIN peers' : e # f => peers'[e].address # peers'[f].address
  BY <1>1 DEF AInv
<1> QED
  BY <1>2, <1>3, Shrinks

LEMMA ChainInit ==
  ASSUME Init
  PROVE  AInv
<1>1. peers = << >> /\ pc = [s \in Slots |-> "idle"]
  BY DEF Init
<1>2. Taken = {} /\ Pending = {}
  BY <1>1 DEF Taken, Pending
<1>3. Chain(<< >>, 0)
  BY DEF Chain
<1> QED
  BY <1>1, <1>2, <1>3 DEF AInv

LEMMA ChainKept ==
  ASSUME TInv, AInv, AutoOnly, [Next]_vars
  PROVE  AInv'
<1>1. CASE UNCHANGED vars
  BY <1>1 DEF vars, AInv, Taken, Pending
<1>2. CASE Next
  BY <1>2, KeepsOther, KeepsChosen, KeepsInserted, KeepsDeleted DEF Next
<1> QED
  BY <1>1, <1>2

\* The lists of a chain that no two devices have are disjoint in their addresses.
LEMMA ChainDisjoint ==
  ASSUME TInv, AInv
  PROVE  AddressesDisjoint
<1>1. PICK n \in Nat : \E L : Chain(L, n) /\ Taken \cup Pending \subseteq Links(L, n)
  BY DEF AInv
<1>2. PICK L : Chain(L, n) /\ Taken \cup Pending \subseteq Links(L, n)
  BY <1>1
<1>3. Subnets \in Blocks
  BY ProvisioningAssumption
<1>4. ASSUME NEW d \in DOMAIN peers
      PROVE  \E k \in 1..n : /\ peers[d].address = L[k] /\ DOMAIN L[k] = DOMAIN Subnets
                             /\ \A x \in DOMAIN Subnets : L[k][x] \in Hosts
  <2>1. peers[d].address \in Links(L, n)
    BY <1>2 DEF Taken
  <2>2. PICK k \in 1..n : peers[d].address = L[k]
    BY <2>1 DEF Links
  <2>3. L[k] \in [DOMAIN Subnets -> Hosts]
    BY <1>2 DEF Chain
  <2> QED
    BY <2>2, <2>3
<1>5. ASSUME NEW d \in DOMAIN peers, NEW m \in ToSet(peers[d].address), NEW i \in DOMAIN Subnets
      PROVE  ~Covers(m, Subnets[i].fam, Subnets[i].addr)
  <2>1. PICK k \in 1..n : /\ peers[d].address = L[k] /\ DOMAIN L[k] = DOMAIN Subnets
                          /\ \A x \in DOMAIN Subnets : L[k][x] \in Hosts
    BY <1>4
  <2>2. PICK x \in DOMAIN Subnets : m = L[k][x]
    BY <2>1 DEF ToSet
  <2>3. NetworkAddr(m) = m.addr /\ Broadcast(m) = m.addr /\ m.addr \in Nat
    BY <2>1, <2>2, HostRange, NetRange
  <2>4. <<m.fam, m.addr>> \notin Server(Subnets)
    BY <1>2, <2>2, LinksApart
  <2>5. <<Subnets[i].fam, Subnets[i].addr>> \in Server(Subnets) /\ Subnets[i].addr \in Nat
    <3>1. Subnets[i] \in Nets
      BY <1>3 DEF Blocks
    <3> QED
      BY <3>1, NetRange DEF Server, ToSet
  <2> QED
    BY <2>3, <2>4, <2>5 DEF Covers
<1>6. ASSUME NEW d \in DOMAIN peers, NEW m \in ToSet(peers[d].address),
             NEW e \in DOMAIN peers \ {d}, NEW h \in ToSet(peers[e].address), Overlap(m, h)
      PROVE  FALSE
  <2>1. PICK k \in 1..n : /\ peers[d].address = L[k] /\ DOMAIN L[k] = DOMAIN Subnets
                          /\ \A x \in DOMAIN Subnets : L[k][x] \in Hosts
    BY <1>4
  <2>2. PICK i \in 1..n : /\ peers[e].address = L[i] /\ DOMAIN L[i] = DOMAIN Subnets
                          /\ \A x \in DOMAIN Subnets : L[i][x] \in Hosts
    BY <1>4
  <2>3. i # k
    BY <2>1, <2>2 DEF AInv
  <2>4. PICK x \in DOMAIN Subnets : m = L[k][x]
    BY <2>1 DEF ToSet
  <2>5. PICK y \in DOMAIN Subnets : h = L[i][y]
    BY <2>2 DEF ToSet
  <2>6. ~Same(L[k][x], L[i][y])
    BY <1>2, <2>3, LinksApart
  <2>7. Same(m, h)
    BY <1>6, <2>1, <2>2, <2>4, <2>5, HostsApart DEF Same
  <2> QED
    BY <2>4, <2>5, <2>6, <2>7
<1> QED
  BY <1>5, <1>6 DEF AddressesDisjoint

\* On an interface whose addresses are all allocated, however many requests
\* choose theirs from what they read before, no two devices share an address and
\* none has the server's.
THEOREM AllocatedDisjoint ==
  ASSUME AutoOnly
  PROVE  Spec => []AddressesDisjoint
<1>1. AInv /\ TInv => AddressesDisjoint
  BY ChainDisjoint
<1>2. Init => TInv /\ AInv
  BY TypedInit, ChainInit
<1>3. TInv /\ AInv /\ [Next]_vars => TInv' /\ AInv'
  BY Typed, ChainKept
<1> QED
  BY <1>1, <1>2, <1>3, PTL DEF Spec

-----------------------------------------------------------------------------
(* Routed subnets, one request at a time.                                  *)

\* No device overlaps net b.
Clear(b) == \A d \in DOMAIN peers : \A m \in ToSet(peers[d].address) : ~Overlap(b, m)

CInv ==
  \A s \in Slots :
    pc[s] = "insert" /\ job[s].spec.kind = "prefix"
    => \E b \in Nets : job[s].address = << b >> /\ Clear(b)

\* What is carved from the subnets is clear of the devices that were read.
LEMMA Carves ==
  ASSUME TInv, OneRequest, NEW s \in Slots, ChooseAddress(s)
  PROVE  CInv'
<1> DEFINE j == job[s]
           a == Allocate(j.spec, Taken)
           k == [j EXCEPT !.address = a]
<1>0. j \in Jobs /\ NoJob \in Jobs /\ UNCHANGED peers
  BY NoJobTyped DEF TInv, ChooseAddress
<1>1. CASE a = NoAddress
  <2>1. Goto(s, "idle", NoJob)
    BY <1>1 DEF ChooseAddress, Finish
  <2>2. \A t \in Slots : pc'[t] = "idle"
    <3> HIDE DEF a, j
    <3> QED
      BY <2>1 DEF Goto, TInv, TypeOK, OneRequest
  <2> QED
    BY <2>2 DEF CInv
<1>2. CASE a # NoAddress
  <2>1. Goto(s, "insert", k)
    BY <1>2 DEF ChooseAddress
  <2>2. k.address = a /\ k.spec = j.spec
    <3> HIDE DEF a, j
    <3> QED
      BY <1>0 DEF Jobs
  <2>3. ASSUME j.spec.kind = "prefix"
        PROVE  \E b \in Nets : a = << b >> /\ Clear(b)
    <3>1. Subnets \in Blocks /\ j.spec.len \in Nat
      <4>1. \A spec \in Specs : spec.len \in Nat
        BY ProvisioningAssumption DEF Specs, AnyAddress
      <4>2. j.spec \in Specs
        BY <1>0 DEF Jobs
      <4> HIDE DEF j
      <4> QED
        BY <4>1, <4>2, ProvisioningAssumption
    <3>2. a = AllocateSubnet(Subnets, Taken, j.spec.len)
      BY <2>3 DEF Allocate
    <3>3. PICK i \in DOMAIN Subnets : \E b \in FreeBlocks(Subnets[i], Taken, j.spec.len) :
                 AllocateSubnet(Subnets, Taken, j.spec.len) = << b >>
      BY <1>2, <3>1, <3>2, SubnetAllocated
    <3>4. PICK b \in FreeBlocks(Subnets[i], Taken, j.spec.len) : a = << b >>
      BY <3>2, <3>3
    <3>5. b \in Nets
      <4>1. Subnets[i] \in Nets
        BY <3>1 DEF Blocks
      <4> QED
        BY <3>1, <4>1, BlocksAreNets
    <3>6. Clear(b)
      BY DEF FreeBlocks, Clear, Taken
    <3> QED
      BY <3>4, <3>5, <3>6
  <2> HIDE DEF k, a
  <2>4. \A t \in Slots : t = s /\ job'[t] = k
    BY <2>1 DEF Goto, TInv, OneRequest
  <2>5. \A b : Clear(b) => Clear(b)'
    BY <1>0 DEF Clear
  <2> QED
    BY <2>2, <2>3, <2>4, <2>5 DEF CInv
<1> QED
  BY <1>1, <1>2

LEMMA CarvedKept ==
  ASSUME TInv, CInv, OneRequest, [Next]_vars
  PROVE  CInv'
<1>1. CASE UNCHANGED vars
  BY <1>1 DEF vars, CInv, Clear
<1>2. ASSUME NEW d \in Devices, DeleteDevice(d)
      PROVE  CInv'
  <2>1. peers' = [e \in DOMAIN peers \ {d} |-> peers[e]] /\ UNCHANGED <<pc, job>>
    BY <1>2 DEF DeleteDevice
  <2>2. \A b : Clear(b) => Clear(b)'
    BY <2>1 DEF Clear
  <2> QED
    BY <2>1, <2>2 DEF CInv
<1>3. ASSUME NEW s \in Slots, ChooseAddress(s)
      PROVE  CInv'
  BY <1>3, Carves
<1>4. ASSUME NEW s \in Slots, NEW ph, NEW j, Goto(s, ph, j),
             ph = "insert" => j.spec.kind = "fixed"
      PROVE  CInv'
  <2>1. \A t \in Slots : t = s /\ pc'[t] = ph /\ job'[t] = j
    BY <1>4 DEF Goto, TInv, TypeOK, OneRequest
  <2> QED
    BY <1>4, <2>1 DEF CInv
<1>5. ASSUME NEW s \in Slots, NEW u \in Users \cup {NoUser}, NEW spec \in Specs,
             NEW keyed \in BOOLEAN, NEW reread \in BOOLEAN,
             RequestByAdmin(s, u, spec, keyed, reread)
      PROVE  CInv'
  <2> DEFINE k == [NoJob EXCEPT !.owner = u, !.spec = spec, !.keyed = keyed, !.reread = reread,
                        !.address = spec.nets, !.seen = IF reread THEN NoRow ELSE iface]
  <2>1. Goto(s, IF spec.kind = "fixed" THEN "insert" ELSE "list", k)
    BY <1>5 DEF RequestByAdmin
  <2>2. k.spec = spec
    BY DEF NoJob
  <2> HIDE DEF k
  <2> QED
    BY <1>4, <2>1, <2>2
<1>6. ASSUME NEW s \in Slots,
             \/ \E u \in Users : RequestMine(s, u)
             \/ CountDevices(s) \/ InsertPeer(s) \/ Synced(s) \/ SyncFailed(s) \/ RenderReread(s)
             \/ \E d \in Devices : Regenerate(s, d)
             \/ \E patch \in Patches : ReadForUpdate(s, patch)
             \/ WriteUpdate(s) \/ Abandon(s)
      PROVE  CInv'
  <2>1. \E ph \in Phases \ {"insert"} : \E j : Goto(s, ph, j)
    BY <1>6 DEF RequestMine, CountDevices, InsertPeer, Synced, SyncFailed, RenderReread,
                Regenerate, ReadForUpdate, WriteUpdate, Abandon, Finish, Phases, Creating
  <2> QED
    BY <1>4, <2>1
<1> QED
  BY <1>1, <1>2, <1>3, <1>5, <1>6 DEF Next

\* One request at a time, a routed subnet that an admin asks for by its length
\* overlaps no device there is when it is inserted.
THEOREM CarvedApart ==
  ASSUME OneRequest
  PROVE  Spec => CarvedClear
<1>1. Init => TInv /\ CInv
  <2>1. ASSUME Init PROVE CInv
    BY <2>1 DEF Init, CInv
  <2> QED
    BY <2>1, TypedInit
<1>2. TInv /\ CInv /\ [Next]_vars => TInv' /\ CInv'
  BY Typed, CarvedKept
<1>3. CInv => [\A s \in Slots :
                 born' > born /\ pc[s] = "insert" /\ pc'[s] # "insert" /\ job[s].spec.kind = "prefix"
                 => \A d \in DOMAIN peers : \A n \in ToSet(peers[d].address) :
                      ~Overlap(job[s].address[1], n)]_vars
  BY DEF CInv, Clear
<1> QED
  BY <1>1, <1>2, <1>3, PTL DEF Spec, CarvedClear

=============================================================================
