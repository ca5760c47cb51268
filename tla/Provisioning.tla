---------------------------- MODULE Provisioning ----------------------------
(***************************************************************************)
(* How wg-vpng hands out devices on one interface: the device limit, the   *)
(* addresses, the config versions and the configurations given to users.   *)
(* Each request runs in a slot and takes one step per database statement   *)
(* or backend call that matters here; the steps of two slots interleave.   *)
(* Whether a caller may make the request is decided elsewhere (a refused   *)
(* request changes nothing), and what a sync does is module DeviceSync's:  *)
(* here it only succeeds or fails.                                         *)
(***************************************************************************)
EXTENDS AddressAlloc, FiniteSets

CONSTANTS
  Users, NoUser,   \* the owner of a device, or none
  Slots,           \* the requests that may be in flight at the same time
  Subnets,         \* wg_interfaces.address, which no request changes
  Rendered, Plain, \* the columns that land in a client config, and the others
  Values,
  Limits, Unlimited,
  Lengths, Fixed,  \* the bare prefixes and the explicit specs admins type
  Kinds,           \* the requests and environment events of the instance
  MaxDevices, MaxKeys, MaxVersion  \* bounds on what a run creates

Fields == Rendered \cup Plain

ASSUME ProvisioningAssumption ==
  /\ NoUser \notin Users
  /\ IsFiniteSet(Slots) /\ Slots # {}
  /\ Subnets \in Blocks /\ Subnets # << >>
  /\ Limits \subseteq Nat \cup {Unlimited}
  /\ Lengths \subseteq Nat /\ Fixed \subseteq Blocks \ {<< >>}
  /\ MaxDevices \in Nat /\ MaxKeys \in Nat \ {0} /\ MaxVersion \in Nat \ {0}

VARIABLES
  iface,   \* the row of wg_interfaces
  peers,   \* the rows of wg_peers, by device
  born,    \* devices are numbered in the order of their insertion
  handed,  \* the configurations answered to users so far
  pc,      \* the next step of each slot
  job      \* the arguments and local variables of its request

vars == <<iface, peers, born, handed, pc, job>>

Devices == 1..MaxDevices

\* config_version starts at 1.
Rows == [set : [Fields -> Values], limit : Limits, version : 1..MaxVersion]

NoRow == [version |-> 0]

\* A device row; key 0 is the empty public_key of an unconfigured device.
PeerRows == [owner : Users \cup {NoUser}, mine : BOOLEAN, address : Blocks,
             key : 0..MaxKeys, version : 1..MaxVersion]

\* The columns of a row that render_peer_config reads.
RenderedOf(row) == [f \in Rendered |-> row.set[f]]

Configs == [dev : Devices, key : 1..MaxKeys, shows : [Rendered -> Values]]

\* What an admin asks for: an allocated address, a routed subnet of a length,
\* or these nets.
AnyAddress == [kind |-> "auto", len |-> 0, nets |-> << >>]

Specs == {AnyAddress}
  \cup {[kind |-> "prefix", len |-> n, nets |-> << >>] : n \in Lengths}
  \cup {[kind |-> "fixed", len |-> 0, nets |-> b] : b \in Fixed}

\* The columns an update names, and the limit it sets if any.
NoPatch == [set |-> << >>, limit |-> {}]

Patches == [set : UNION {[F -> Values] : F \in SUBSET Fields}, limit : {{}} \cup {{l} : l \in Limits}]

-----------------------------------------------------------------------------
(* The tasks.                                                              *)

Creating == {"count", "list", "insert"}

Phases == Creating \cup {"idle", "sync", "render", "write"}

\* mine to reread are the request, the others what it has learned: seen the
\* interface row it read, address the one it chose, dev and key its device.
NoJob == [owner |-> NoUser, mine |-> FALSE, spec |-> AnyAddress, keyed |-> TRUE, reread |-> TRUE,
          patch |-> NoPatch, seen |-> NoRow, address |-> << >>, dev |-> 0, key |-> 0]

Goto(s, ph, j) == pc' = [pc EXCEPT ![s] = ph] /\ job' = [job EXCEPT ![s] = j]

Finish(s) == Goto(s, "idle", NoJob)

Accept(s, kind) == pc[s] = "idle" /\ kind \in Kinds

\* Bound: no request that could exceed MaxDevices.
Room == born + Cardinality({s \in Slots : pc[s] \in Creating}) < MaxDevices

Taken == {peers[d].address : d \in DOMAIN peers}

\* The devices a user owns on the interface, however they came about.
DevicesOf(u) == {d \in DOMAIN peers : peers[d].owner = u}

\* Hand out the configuration of the device of job j, rendered from row.
HandOut(j, row) ==
  handed' = handed \cup {[dev |-> j.dev, key |-> j.key, shows |-> RenderedOf(row)]}

-----------------------------------------------------------------------------
(* Creating a device.                                                      *)

\* create_my_device: the interface row read here gives the limit, and later
\* the configuration.
RequestMine(s, u) ==
  /\ Accept(s, "mine") /\ Room
  /\ Goto(s, "count", [NoJob EXCEPT !.owner = u, !.mine = TRUE, !.reread = FALSE, !.seen = iface])
  /\ UNCHANGED <<iface, peers, born, handed>>

\* Mutant: the limit itself is still allowed.
CountDevicesLax(s) ==
  LET j == job[s] IN
  /\ pc[s] = "count"
  /\ IF j.seen.limit # Unlimited /\ Cardinality(DevicesOf(j.owner)) > j.seen.limit
       THEN Finish(s)
       ELSE Goto(s, "list", j)
  /\ UNCHANGED <<iface, peers, born, handed>>

\* count_user_devices_on_interface against the limit read before.
CountDevices(s) ==
  LET j == job[s] IN
  /\ pc[s] = "count"
  /\ IF j.seen.limit # Unlimited /\ Cardinality(DevicesOf(j.owner)) >= j.seen.limit
       THEN Finish(s)
       ELSE Goto(s, "list", j)
  /\ UNCHANGED <<iface, peers, born, handed>>

\* admin_create_device re-reads the interface before it renders; peer_create
\* renders from the row it read first.  No limit; an explicit spec needs no list.
RequestByAdmin(s, u, spec, keyed, reread) ==
  /\ Accept(s, "admin") /\ Room
  /\ Goto(s, IF spec.kind = "fixed" THEN "insert" ELSE "list",
          [NoJob EXCEPT !.owner = u, !.spec = spec, !.keyed = keyed, !.reread = reread,
                        !.address = spec.nets, !.seen = IF reread THEN NoRow ELSE iface])
  /\ UNCHANGED <<iface, peers, born, handed>>

Allocate(spec, taken) ==
  IF spec.kind = "auto" THEN AllocateAddresses(Subnets, taken)
                        ELSE AllocateSubnet(Subnets, taken, spec.len)

\* list_peers and the allocation from what it returned.
ChooseAddress(s) ==
  LET j == job[s]
      a == Allocate(j.spec, Taken)
  IN
  /\ pc[s] = "list"
  /\ IF a = NoAddress THEN Finish(s)
                      ELSE Goto(s, "insert", [j EXCEPT !.address = a])
  /\ UNCHANGED <<iface, peers, born, handed>>

\* The row the INSERT adds; its version is read by the same statement.
NewRow(j) ==
  [owner |-> j.owner, mine |-> j.mine, address |-> j.address,
   key |-> IF j.keyed THEN 1 ELSE 0, version |-> iface.version]

\* Mutant: no UNIQUE (interface_id, address).
InsertPeerUnchecked(s) ==
  LET j == job[s]
      d == born + 1
  IN
  /\ pc[s] = "insert"
  /\ peers' = [e \in DOMAIN peers \cup {d} |-> IF e = d THEN NewRow(j) ELSE peers[e]]
  /\ born' = d
  /\ IF j.keyed THEN Goto(s, "sync", [j EXCEPT !.dev = d, !.key = 1]) ELSE Finish(s)
  /\ UNCHANGED <<iface, handed>>

\* Mutant: a device without a key gets a configuration, too.
InsertPeerRendered(s) ==
  LET j == job[s]
      d == born + 1
  IN
  /\ pc[s] = "insert"
  /\ IF j.address \in Taken
       THEN Finish(s) /\ UNCHANGED <<peers, born>>
       ELSE /\ peers' = [e \in DOMAIN peers \cup {d} |-> IF e = d THEN NewRow(j) ELSE peers[e]]
            /\ born' = d
            /\ Goto(s, "sync", [j EXCEPT !.dev = d, !.key = NewRow(j).key])
  /\ UNCHANGED <<iface, handed>>

\* insert_peer and the INSERT of create_peer_unconfigured, which ends there.
\* UNIQUE (interface_id, address) compares the whole list.
InsertPeer(s) ==
  LET j == job[s]
      d == born + 1
  IN
  /\ pc[s] = "insert"
  /\ IF j.address \in Taken
       THEN Finish(s) /\ UNCHANGED <<peers, born>>
       ELSE /\ peers' = [e \in DOMAIN peers \cup {d} |-> IF e = d THEN NewRow(j) ELSE peers[e]]
            /\ born' = d
            /\ IF j.keyed THEN Goto(s, "sync", [j EXCEPT !.dev = d, !.key = 1]) ELSE Finish(s)
  /\ UNCHANGED <<iface, handed>>

\* sync succeeded: the answer is rendered, from the row re-read in one more
\* step or from the one the request began with.
Synced(s) ==
  LET j == job[s] IN
  /\ pc[s] = "sync"
  /\ IF j.reread
       THEN Goto(s, "render", j) /\ UNCHANGED handed
       ELSE HandOut(j, j.seen) /\ Finish(s)
  /\ UNCHANGED <<iface, peers, born>>

\* sync failed: an error is answered, the device and its key stay.
SyncFailed(s) == pc[s] = "sync" /\ Finish(s) /\ UNCHANGED <<iface, peers, born, handed>>

RenderReread(s) ==
  /\ pc[s] = "render"
  /\ HandOut(job[s], iface)
  /\ Finish(s)
  /\ UNCHANGED <<iface, peers, born>>

-----------------------------------------------------------------------------
(* The other requests.                                                     *)

\* regenerate_peer: the new key and the interface's version in one UPDATE.
Regenerate(s, d) ==
  /\ Accept(s, "device")
  /\ d \in DOMAIN peers /\ peers[d].key < MaxKeys
  /\ peers' = [peers EXCEPT ![d].key = @ + 1, ![d].version = iface.version]
  /\ Goto(s, "sync", [NoJob EXCEPT !.dev = d, !.key = peers[d].key + 1])
  /\ UNCHANGED <<iface, born, handed>>

DeleteDevice(d) ==
  /\ "device" \in Kinds
  /\ d \in DOMAIN peers
  /\ peers' = [e \in DOMAIN peers \ {d} |-> peers[e]]
  /\ UNCHANGED <<iface, born, handed, pc, job>>

\* update_interface, its first statement: the row is read.
ReadForUpdate(s, patch) ==
  /\ Accept(s, "update")
  /\ iface.version < MaxVersion
  /\ Goto(s, "write", [NoJob EXCEPT !.patch = patch, !.seen = iface])
  /\ UNCHANGED <<iface, peers, born, handed>>

\* Mutant: nothing raises the version.
PatchedUnbumped(row, patch) ==
  LET set == [f \in Fields |-> IF f \in DOMAIN patch.set THEN patch.set[f] ELSE row.set[f]]
  IN
  [set     |-> set,
   limit   |-> IF patch.limit = {} THEN row.limit ELSE CHOOSE l \in patch.limit : l \in Limits,
   version |-> row.version]

\* The row written back: what the patch leaves out is as it was read.
Patched(row, patch) ==
  LET set == [f \in Fields |-> IF f \in DOMAIN patch.set THEN patch.set[f] ELSE row.set[f]]
  IN
  [set     |-> set,
   limit   |-> IF patch.limit = {} THEN row.limit ELSE CHOOSE l \in patch.limit : l \in Limits,
   version |-> row.version
               + IF \E f \in Rendered : set[f] # row.set[f] THEN 1 ELSE 0]

\* ... and its second.
WriteUpdate(s) ==
  /\ pc[s] = "write"
  /\ iface' = Patched(job[s].seen, job[s].patch)
  /\ Finish(s)
  /\ UNCHANGED <<peers, born, handed>>

\* A statement fails, or the client is gone and the request is dropped.
Abandon(s) ==
  /\ "fault" \in Kinds
  /\ pc[s] # "idle"
  /\ Finish(s)
  /\ UNCHANGED <<iface, peers, born, handed>>

Init ==
  /\ iface \in {r \in Rows : r.version = 1}
  /\ peers = << >>
  /\ born = 0
  /\ handed = {}
  /\ pc = [s \in Slots |-> "idle"]
  /\ job = [s \in Slots |-> NoJob]

Next ==
  \/ \E s \in Slots :
       \/ \E u \in Users : RequestMine(s, u)
       \/ \E u \in Users \cup {NoUser}, spec \in Specs, keyed, reread \in BOOLEAN :
            RequestByAdmin(s, u, spec, keyed, reread)
       \/ CountDevices(s) \/ ChooseAddress(s) \/ InsertPeer(s)
       \/ Synced(s) \/ SyncFailed(s) \/ RenderReread(s)
       \/ \E d \in Devices : Regenerate(s, d)
       \/ \E patch \in Patches : ReadForUpdate(s, patch)
       \/ WriteUpdate(s) \/ Abandon(s)
  \/ \E d \in Devices : DeleteDevice(d)

Spec == Init /\ [][Next]_vars
-----------------------------------------------------------------------------
(* Properties.                                                             *)

TypeOK ==
  /\ iface \in Rows
  /\ born \in 0..MaxDevices
  /\ DOMAIN peers \subseteq 1..born
  /\ \A d \in DOMAIN peers : peers[d] \in PeerRows
  /\ handed \subseteq Configs
  /\ pc \in [Slots -> Phases]

\* No two devices share an address, and none has the server's: requests choose
\* addresses from what they read before, and UNIQUE (interface_id, address)
\* compares whole lists, so this rests on every subnet being filled in step.
\* "avoiding the interface's own addresses and anything already in `taken`
\* (each entry may be a comma-list of CIDRs)" (server/src/wg.rs:125-126).
AddressesDisjoint ==
  \A d \in DOMAIN peers :
    \A m \in ToSet(peers[d].address) :
      /\ \A i \in DOMAIN Subnets : ~Covers(m, Subnets[i].fam, Subnets[i].addr)
      /\ \A e \in DOMAIN peers \ {d} : \A n \in ToSet(peers[e].address) : ~Overlap(m, n)

\* A routed subnet given on a bare prefix overlaps no device there was when it
\* was inserted, one request at a time.
CarvedClear ==
  [][\A s \in Slots :
       born' > born /\ pc[s] = "insert" /\ pc'[s] # "insert" /\ job[s].spec.kind = "prefix"
       => \A d \in DOMAIN peers : \A n \in ToSet(peers[d].address) :
            ~Overlap(job[s].address[1], n)]_vars

\* "each user generates device configs on any interface they can access [...],
\* bounded by that interface's device limit" (README.md:27-29).
LimitHolds ==
  iface.limit # Unlimited =>
    \A u \in Users : Cardinality({d \in DevicesOf(u) : peers[d].mine}) =< iface.limit

\* However the requests of a user interleave, the devices he makes exceed the
\* highest limit by less than the number of requests in flight.
LimitOvershoot ==
  \A u \in Users :
    \E l \in Limits :
      l # Unlimited => Cardinality({d \in DevicesOf(u) : peers[d].mine}) < l + Cardinality(Slots)

\* A device whose version does not trail the interface's shows no stale marker
\* and needs none: the configuration handed out for its key is the one the
\* interface would render now.  "Peers stamped below this are stale"
\* (server/src/store.rs:53), and only they should be.
UnmarkedIsCurrent ==
  \A c \in handed :
    /\ c.dev \in DOMAIN peers
    /\ peers[c.dev].key = c.key
    /\ peers[c.dev].version >= iface.version
    => c.shows = RenderedOf(iface)
=============================================================================
