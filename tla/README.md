# wg-vpng in TLA+

A verification project for wg-vpng, the self-service WireGuard server in this
repository: modules that model how it decides and enforces who may use which
interface and how it hands out devices, TLC configurations that check them on
small instances, and theorems that TLAPS checks for every value of the constants. They
also model what each backend's apply is made of, and who may see and change what.

1. The system · 2. The modules and the code · 3. What the runs show ·
4. What is proved · 5. What is left out · 6. Plan

## 1. The system

wg-vpng is one async server process on a Postgres database. Browsers, REST and
MCP clients send requests; each request is a task that runs statements on the
database and calls an interface's *backend*, the thing that really configures
WireGuard. The process keeps no state of its own between requests, so everything
that can go wrong goes wrong between two statements, or between a statement and
a backend call.

| Component | State | Operations | Correct when |
|---|---|---|---|
| Reconciler (`server/src/store.rs`: `sync_interface`, `sync_all`, `sync_groups_interfaces`, `sync_all_best_effort`) | none; writes `last_error` | read the interface, its groups, its devices, then each owner's row and claims; `apply` the permitted devices; note the error | each backend ends with exactly the permitted devices; a torn read pushes nobody who was shut out; success means enforced |
| Access decision (`access_granted`, `list_active_peers`) | users (banned, access_revoked, live_until), claims per provider, groups, group_ids | read | exactly the devices of owners in good standing whom some group of the interface admits, and unowned devices |
| Request handlers (`web/server_fns.rs`, `api_mcp/endpoints.rs`) | local variables across awaits | change rows, then sync what the change touches | a change is enforced when the request answers success; whoever is no admin sees and changes only what is his |
| Sign-in (`web/auth.rs`, `api_mcp/auth.rs`, `web/user.rs`) | users, claims, live_until; sessions keep an email and an admin flag | look up, upsert, replace claims, renew | a banned user does not enter; a session, token or bearer never acts for more than its own account |
| Device provisioning (`create_peer*`, `regenerate_peer`, `create_my_device`, `peer_create`) | wg_peers, the configuration answered once | count, choose an address, insert, sync, render | limits hold, addresses are disjoint, an outdated configuration is marked |
| Interface settings (`update_interface`) | wg_interfaces | read, patch, write back | a patch changes what it names, the version tells configurations apart |
| Address allocation (`wg.rs`) | none | lowest free host per subnet, lowest free block | never gives what is taken, fails only when full |
| MikroTik backend (`wg-backend/src/mikrotik.rs`, `mikrotik-api`) | the router's tables | REST calls, one per entry | converges to the pushed devices, also after a failure half way |
| Local backends (kernel, NetworkManager, systemd-networkd) | kernel interface, profile and unit files | commands and file writes | the same |
| Node agent (`node`, `wg-backend/src/node.rs`) | its own local backend | HTTP calls that may lose their answer | the same |
| Web pages, secrets at rest, configuration, packaging | – | – | not modelled (section 5) |

Handlers, reconciler and provisioning share the database; the reconciler calls
the backends; nothing calls back. What makes the system hard:

- **interleaving**: no lock and no transaction spans two statements, so two
  requests interleave at every await, two syncs of one interface included;
- **torn reads**: a sync reads four kinds of rows at four moments;
- **partial failure**: `sync_all` stops at the first failing interface, the best
  effort loops go on, a backend may fail half way, an answer may be lost;
- **restart**: the process may die between a committed change and its apply;
- **time**: `live_until` passes without any request;
- **check, then act**: the device limit, the free addresses, the interface row a
  configuration is rendered from, the row an update writes back, the owner of the
  device a request names, the ids and lists a router answered earlier;
- **many small effects behind one call**: an apply is a dozen REST calls, or
  commands and file writes, and two of them may overlap on one interface.

`PROJECT.json` lists each of these at its line, with the property that covers it.

## 2. The modules and the code

### DeviceSync: access and its enforcement

State: `db` (the tables users, user_provider_groups, wg_groups, wg_interfaces
and wg_peers, one record), `backend` (the keys each backend has), `lastError`,
and per task `pc`, `plan` (what the request still has to do) and `snap` (the
locals of the sync it is running). `hist` is history: what was true when the
task's sync began and has been true ever since. No guard reads it.

- The statements of `store.rs` are operators on the tables (`WithGroup`,
  `WithoutUser`, ...), cascades included.
- A request is an action up to the first await after its own write
  (`UpdateGroup`, `SetBanned`, `CreateDevice`, ...); the web handler and the
  REST/MCP endpoint of one operation run the same statements and are one action.
- `ListInterfaces`, `ReadInterface`, `ReadGroups`, `ReadPeers`, `ReadOwner`,
  `ReadClaims`, `ApplyOk`/`ApplyFails` and `Note` are the statements and calls of
  `list_active_peers` and `sync_interface`, in their order, one step each.
- `SyncError`, `ListFails`, `TailFails` are the failing statements, `Crash` the
  restart, after which the boot task runs `sync_all_best_effort` before the
  server serves, `Lapse` the passing of `live_until`.

Choices worth knowing:

- An `apply` is one step; a failing one leaves any set between what the old and
  the new have in common and both together, which covers a backend that works
  device by device and a lost answer after everything was done.
- `sync_interface` and `list_active_peers` both read the interface row; the two
  reads are one step, because an interface's name and backend kind never change
  and a row that goes in between makes the sync fail as a missing row does.
- A device never changes owner or interface, so `ReadOwner` may name the owner
  from the row. The claims are not read for an owner who is out of standing.
- A user stands for an account with its email; that a group's patterns match an
  email is membership in `admits`, any subset of users and claim values.
- `update_interface` reads and writes back; for the groups, the new value is any
  set of ids given out so far, which includes every stale one it can write back.
- Ids are uuids and never used again (`spent`). `group_ids` is JSON, so it may
  name groups that are gone; the foreign keys of wg_peers are in `Consistent`.
- A request whose first statement fails is a request never taken; deleting or
  changing what is not there syncs like a re-sync. Creating a device for a new
  email is `CreateUser`, then `CreateDevice` (`peer_create` runs the same two
  statements; `Requests` has them as steps of one request).
- `delete_interface` tells the backend first; one that fails keeps any part of its
  devices (`RemoveInterface`), and the row goes all the same.
- `Crash` assumes that an apply under way when the process dies has had its effect,
  in full, in part or not at all, before the restart (section 5).
- Who may make a request is not modelled: a refused request changes nothing.

`AccessPromise` is the abstract specification: rows allow a set of devices,
`Enforce` brings a backend to exactly that set, and does so in the end.
`DeviceSyncPromise` gives the refinement mapping: allowed is `Active(db, i)`,
what `list_active_peers` would return if it ran on one state, and enforced is
the backend.

### Provisioning: devices, addresses, configurations

One interface. State: its row `iface` (the columns `set`, the limit, the
config_version), the device rows `peers`, `handed` (the configurations answered so
far), and per slot `pc` and `job`, the locals of the request.

- `RequestMine`, `CountDevices`, `ChooseAddress`, `InsertPeer`, `Synced` /
  `SyncFailed`, `RenderReread` are `create_my_device`: the interface is read, the
  devices counted against the limit read, an address chosen from the devices
  listed, the row inserted (UNIQUE over the whole address text), the interface
  synced, the configuration rendered.
- `RequestByAdmin` is `admin_create_device` (which re-reads the interface before
  it renders, `reread`) and `peer_create` (which does not), with an address
  allocated, a routed subnet of a length, or explicit nets, with or without a key.
- `Regenerate` and `DeleteDevice` are their statements; `ReadForUpdate` and
  `WriteUpdate` the two statements of `update_interface`, `Patched` the row it
  writes back, the version included.
- `Abandon` is a failing statement or a request that is dropped.

The interface and the users stay while the run lasts (deleting them is
DeviceSync's), a sync only succeeds or fails, and what an access check refuses
changes nothing. The server's subnets do not change: `update_interface` has no
such parameter.

### AddressAlloc: the arithmetic of wg.rs

`AllocateAddresses` and `AllocateSubnet` on nets that keep their host bits, as
`IpNet` does, over address spaces of `Width` bits. Taken entries are compared by
address in the first (`AddrsOf`) and by net in the second (`Overlap`), as in the
code. The loop over the subnets is stated by what it leaves behind (`Assigned`): each
place of the list is the lowest host of its subnet that is neither used nor given to
an earlier one. `ipnet`'s own functions are external. For both families the first and the
last address of a subnet are never given, so a /31 or /32 gives none.

### Backends: what an apply is made of

One interface, with the backend `kind` it was created with, behind a node agent
(`remote`) or not. A call (`BackendCall`) is a slot with the operation, what was
pushed and the locals of the code; `pc` names the REST call or command it waits for.
There others interleave, it may fail, and its caller may go away (`Abandon`):
what was started still finishes, the rest is dropped.

- `MikrotikBackend`: `apply` and `remove` of `mikrotik.rs` with `mikrotik-api`
  inlined: `GetInterface`, `PatchInterface`/`PutInterface` are `ensure_interface`;
  `GetAddresses`, `DeleteAddress`, `PutAddress` are `reconcile_addr_family`;
  `FindOld`, `DeletePeer` are `remove_peer`; `FindNew`, `PatchPeer`/`PutPeer` are
  `upsert_peer`. What one call reads (`found`, `doomed`, `missing`, `todo`) is what
  later ones use. The router is external: ids are never reused, a second
  interface of a name and a change of a missing id are refused, entries outlive
  their interface (as in `tests/fake-mikrotik.py`).
- `LocalBackend`: the commands of `selfmanaged.rs`, `networkmanager.rs` and
  `systemd_networkd.rs` on the device, the file on disk and what the daemon last
  read of it. A file is emptied, then written; a failing command may have done
  its work; an ignored error goes on.
- `NodeAgent`: the POST, refused or run by the agent's local backend.

Choices: a device's address and preshared key go with its key, so entries are
told apart by key; file modes, ownership and the `.network` file are one step that
may fail (`protect`); addresses are modelled for the router only, since the local
backends never take one away and nothing here depends on them; `status` only
reads. `Ok` is "ok" where it says something and "unsure" where the code ignored an
error on the way: `remove` always, `networkctl reconfigure` failing.

`ApplyPromise` is the abstract specification, and what DeviceSync's `ApplyOk` and
`ApplyFails` assume: alone, a call is one step; Ok leaves exactly what was pushed;
an error drops nobody who was served and is wanted, and admits nobody but those
pushed since the last Ok. `BackendsPromise` gives the refinement mapping: while a
lone call runs, the promise still sees what was served before (`period.before`).
For calls that overlap, or were abandoned, it only promises that nobody
who was not pushed gets in: two applies may both answer Ok and leave the union.
So DeviceSync's one-step apply is exact for calls that do not overlap, and so are
its properties about what a backend holds under overlapping syncs of one interface;
what a sync computes (`FreshSyncExact`, `ShutStaysOut`) does not depend on it.

### Accounts and Requests: who may see and change what

`Accounts` is the state of users, web sessions and requests (`job`: the principal
`who`, `pc`, the locals), and how a request comes to act for somebody: `Login`,
`SignUp`, `GrantClaims`, `RecordLogin` (`web/auth.rs`), `BearerCall` and `Load`
(`api_mcp/auth.rs`, which signs a bearer without an account up on the way),
`TokenCall`, `SessionCall`. `Requests` extends it with devices and the group of the
one interface, and the handlers of `server_fns.rs` and `endpoints.rs` up to their
write: `GetPeer` and `Ensure` are `own_peer` and `authorize_peer`; `ReadLive`,
`ReadClaims`, `ReadGroup` and `Decides` the two orders of `interfaces_for_user` and
`can_access_interface`; `ListMine` and `Status` the two reads of `interface_status`;
`ReadForEdit` and `EditGroup` are `group_update`, with either column, both or neither
left out; `NameOwner` and `ProvisionDevice` are `peer_create`, whose owner may be deleted
between the two. `since` is history, which no guard reads: what has kept the request's
user out ever since it came or, where he is signed up, ever since his sign-up. So a
bearer whose account was missing when it came, and made and banned before its sign-up,
counts as banned.

Choices: a session never ends and keeps what it was told at login, as the session
library leaves it to the code; a token is not revoked or expired by any code
here; one provider's claims; one interface with one group, whose reference to it
is fixed (DeviceSync changes it); a device's limit and address are Provisioning's;
`access_revoked` is read by the sync only, not by these handlers; what a backend
reports in `status` is taken from the rows' keys; `Ends` stands for a refusal, a
failing statement and a client that went away.

### Instances and proofs

`MCDeviceSync`, `MCProvisioning`, `MCBackends` and `MCRequests` give the small
databases, nets, routers and symmetries; `DeviceSync_proofs`, `Enforcement_proofs`,
`Provisioning_proofs`, `Stamps_proofs`, `AddressAlloc_proofs`, `Addresses_proofs`,
`Backends_proofs` and `Requests_proofs` hold the theorems.
Definitions named `...Unsynced`, `...Lax`, `...Unchecked` and the like, marked
"Mutant", are faulty variants that no specification uses: with one of them in
place of the definition it stands before, the property named with it in
`PROJECT.json` fails, which shows that the property depends on that code.

## 3. What the runs show

`tlc -config <cfg> <module>`; each passing run takes a minute or two.

| Run | Instance | Shows |
|---|---|---|
| serial (`Serial.cfg`) | one request at a time of those that sync (no logins and no lapses, which sync nothing: see unsynced), from an empty installation, 2 interfaces, 1 device with 2 keys, 1 crash anywhere | `QuiescentExact`: at rest every backend is exact. `KeepsPromise`: the refinement, liveness included, so every change these requests make is enforced in the end |
| faults (`Faults.cfg`) | 2 interfaces, 2 devices, any statement or call failing, 1 crash | `TypeOK`; `OwnDevicesOnly`: no backend gets another interface's device; `SuccessMeansEnforced`: a ban, revocation or deletion that answers success is enforced on every interface; `EveryTaskEnds`: every step of a request or boot leaves it less to do |
| overlapping (`Overlapping.cfg`) | 2 requests interleaved at every await, lapses and logins between | `FreshSyncExact`: a sync no commit overlaps pushes exactly the permitted devices; `ShutStaysOut`: however torn, a sync pushes nobody shut out since before it began |
| overtaking (`Overtaking.cfg`, violation) | 2 group edits | `QuiescentExact` fails: the sync that read the older rows applies last, so "real time" (README.md:18-19) needs requests that do not overlap. The same race between a sync and `delete_interface` brings a deleted interface back (`Kinds = {"interface", "resync"}` shows it), and no later sync repairs that: they go over the rows |
| unsynced (`Unsynced.cfg`, violation, fair) | lapses and logins, one request at a time, 2 users with a device each | `LapseOrLoginTakesHold` fails: in one behaviour a lapsed user and one who lost his claims at a login are both served for ever, against store.rs:252-253 and migrations/0008_groups.sql:32-34, because neither syncs anything |
| racing (`Racing.cfg`) | 2 requests on a dual-stack interface, 3 devices, deletions, failures | `AddressesDisjoint` for allocated addresses: racing choices agree in every subnet or in none, so UNIQUE stops them; `LimitOvershoot`: the limit is exceeded by less than the requests in flight |
| one_by_one (`OneByOne.cfg`) | one request at a time, all kinds, updates, failures | `UnmarkedIsCurrent`: a device that is not marked stale has a current configuration; `CarvedClear`: a routed subnet overlaps no device there is |
| limit (`Limit.cfg`, violation) | 2 requests of a user | `LimitHolds` fails: both count before either inserts |
| routed (`Routed.cfg`, violation) | one request at a time | `AddressesDisjoint` fails once a subnet is routed to a device: the other addresses in it are given to the next ones |
| stale (`Stale.cfg`, violation) | a creation and an update | `UnmarkedIsCurrent` fails: the configuration is rendered from the row read before the update, the device stamped after it |
| backends (`Backends.cfg`) | each backend, local or behind an agent; 2 calls at a time, 3 in all, 2 devices; a router with a foreign address and one an earlier interface left | `KeepsApplyPromise`: the refinement of `ApplyPromise`, safety only; `NoDropout`: on the router and the kernel, a device goes only by a call that does not want it; `OursReconciled`: the addresses of others stay, ours end as the row has them |
| requests (`Requests.cfg`) | 2 requests at a time, 3 requests and deadlines in all, an admin whose account was deleted during her session, a user, a device of his that an admin made, one nobody owns | `TouchesOwnOnly`, `SeesOwnOnly`: whoever is not configured as admin changes and sees only what is his; `BannedStaysOut`: nobody banned all the while, or since his sign-up, gets in; `ShutGetsNone`: nobody kept out all the while gets a device; `LeavesOutKept`: a partial group edit leaves the rest alone |

**Bounds.** One user, claim, provider and group are enough for the access
decision, since the groups' union and the owner's row are looked at one device
at a time; what matters is that each can be absent, present, admitting or not,
and change. Two interfaces or devices are used where a mistake could mix them
up (`OwnDevicesOnly`, `SuccessMeansEnforced`, the loops). Two slots are the least
that interleave. Two keys (`MaxGen`, `MaxKeys`) let a key be replaced once, one
crash meets every step. Three devices let a limit of one be exceeded by two, and
addresses be freed and used again; three bits hold a server, the two reserved
addresses and room to run out of blocks. `one_by_one` has one slot because what it
checks fails with two: the stale and routed runs say how. `backends` makes three
calls (`MaxCalls`): two that overlap or one that fails half way, and one alone
afterwards that has to repair what they left. `requests` lets three requests
come and deadlines pass (`MaxEvents`): one under way, and two for what changes under it,
a ban and its lifting, a deletion and a new account of the same email
(`MaxAccounts`), a new device and a new key (`MaxDevices`, `MaxKeys`).
The Provisioning, backends and requests runs do not check deadlock: nobody has to
send another request, and with the bounds used up and nothing in flight the
server rests.

**Fairness.** `FairSpec` has weak fairness on `Step(s)` for every task `s`: the
runtime polls a task whose statement or call has returned. No request, lapse,
failure or crash is ever forced. The refinement needs it (what was decided is
enforced), and the unsynced counterexample holds under it.

## 4. What is proved

For any users, groups, interfaces, devices, keys, slots, crashes and starting
databases (`ConstantsAssumption`, `StartAssumption`: the model values are
distinct, interfaces and devices are finitely many, the starting rows are consistent
and name no group yet to be made).

`DeviceSync_proofs`: `TypeCorrect`, `SyncExact` (FreshSyncExact), `StaysOut`
(ShutStaysOut) and `OwnOnly` (OwnDevicesOnly). None of the last three is inductive: what a
sync pushes is the outcome of many reads. The invariant `IInv` adds, for every
task, what its locals mean at its phase (`TaskInv`): that every
device it handles belongs to the interface it syncs (`RowsInv`), that as long as
the sync is `fresh` its reads are what the tables hold, the devices decided on
are permitted and the permitted ones are decided on or still ahead (`FreshInv`),
and that nothing in `gone` and nobody in `barred` was let through (`ShutInv`). The proof is split as the program is: each statement of the
tables `Evolves` (rows of others stay, a device keeps owner and interface, a
used id is not used again), `TaskInv` of every other task survives any table
that evolves (`OtherTask`), and each step of the task itself establishes its
next phase. So the interleaving is argued once, not per pair of actions.

`TasksEnd` (EveryTaskEnds) is a bound on what a task has left to do (`Left`): two
statements for every device still to be examined, and a whole sync for every interface
listed and not begun. Each of a task's steps lessens it (`StepLessens`), no step
of another adds to it (`RequestStill`, `MovesOnly`), however many devices and interfaces are
made meanwhile, because the loops go over what they listed. With the fairness of
`FairSpec`, which the prover cannot use, every request and boot comes to an end.

`Enforcement_proofs`: what requests that do not overlap achieve (`OneAtATime`: one
slot, and nobody lapses meanwhile; the overtaking and unsynced runs say why). `Enforced`
(SuccessMeansEnforced) allows every failure, login and restart; `Refines` (the safety
part of KeepsPromise) logins and restarts; `ExactAtRest` (QuiescentExact) restarts only:
it rules logins out (`SyncsOnly`), since one login, which syncs nothing, leaves a backend
that no longer agrees with the rows. One task runs at a
time, the boot included, so a sync's reads are what the tables hold (`Sure`, the
`FreshInv` of above), except that new users, groups and devices without a key may
come in between, which change no interface (`Calm`). `Behind` and `Settles` say which
interfaces it has yet to sync: all others are exact. A request opens
that debt for just the interfaces whose permitted devices its statement can change
(`RefsConcern`, `GroupConcerns`, `PeerStatementsConcern`, `DropConcerns`: what makes
"sync the group's interfaces" enough), each sync pays one off, a crash opens it for all.

`Provisioning_proofs`: `OvershootBounded` (LimitOvershoot). The invariant counts
a request that has passed the count but not inserted yet as if it had: the
devices a user made plus those requests stay below some limit plus the number of
slots. It holds through limits changed meanwhile, because a request compares
with a limit the interface had. Assumes a finite, nonempty set of slots.

`Stamps_proofs`: `UnmarkedCurrent` (UnmarkedIsCurrent) for one slot; the stale run shows
that two requests break it. `SInv`: the row a request has read is still the
interface's (`Knows`), no device is ahead of the interface's version (`Stamped`), and a
configuration was handed out for a key that is the device's or an earlier one, and shows
what the interface renders unless the device trails (`Shown`). So a new key, a new
version and a failing sync each may leave old configurations behind, never unmarked.
`LimitKept` (LimitHolds) is the overshoot bound for one slot and a limit that never
changes: then there is none, so the limit run needs its two requests.

`AddressAlloc_proofs`: the operators of wg.rs, for addresses of any width. The model
has no recursion, so what they return can be argued from their definitions: the
least-number principle comes from intervals being finite (`Least`), `2^k` is positive
and multiplies because it counts the subsets of `1..k` (`Subsets`, `Powers`), hence a net
lies within its family's addresses (`NetRange`). A list of addresses is
`Assigned` in one way only (`AssignedOnce`), stays so when more is taken that it does not
use (`AssignedStill`), and there is none only when a subnet is full (`FailsWhenFull`);
a routed subnet is free, and missing only where none is free (`SubnetAllocated`).

`Addresses_proofs`: Provisioning's `TypeCorrect` (TypeOK), which counts the creations
under way to keep the devices within their number; `AllocatedDisjoint`
(AddressesDisjoint), for any number of slots; and `CarvedApart` (CarvedClear) for one.
Disjointness is not inductive: two requests that read the same rows choose the same list, and
what UNIQUE compares is lists, not addresses. `AInv` says why that is
enough: there is one chain of lists, each what is allocated when all before it are taken
(`Chain`), disjoint from each other (`LinksApart`), and whatever is taken or chosen
and not yet inserted (`Pending`) belongs to it. A request that finds some of the chain taken
gets its first list that is not, or extends it by one (`NextLink`), however many are
pending and whatever was deleted meanwhile. It assumes `AutoOnly`, no routed subnets and no
explicit nets: the routed run breaks it with one, and explicit nets are inserted as
the admin typed them. `CInv`, for the routed subnets: what a lone
request has carved stays clear until it is inserted.

`Backends_proofs`: `TypeCorrect`, `Refines` (KeepsApplyPromise), `NobodyDropped`
(NoDropout) and `AddressesReconciled` (OursReconciled), for any devices, addresses,
slots and number of calls, from `CallAssumption` (the two families are apart) and
`StartAssumption` (a router that may have an interface of the name, and addresses of
anybody, but no devices yet). What a backend serves after a dozen steps is the
outcome of all of them, so `IInv` has three parts. `Admits`: entries, files and what a
daemon has loaded list no device but those pushed since the last lone Ok, so a stale
file cannot bring one back. `CallInv`, for every call: the ids it holds
are of entries of the kind it read them from, or of none (`Holds`), and its locals
are what its command needs (`Staged`); no other call can break that, because
the router never uses an id again. `Progress`, for a call that is alone from its start:
which addresses are reconciled so far, that each device pushed is either
configured or still to be upserted, and that no device to go has more entries left
than the call has removals left, which needs counting, since a router may hold
two entries of a key. A call that others overlapped has no such part, which is
why the promise is exact for lone calls only.

`Requests_proofs`: all six properties of the requests run, from `AccountsAssumption`
and `StartAssumption` alone (the starting rows are consistent). `InOrder` says what the
tables and each request's locals mean: a request knows one email and at most one
account, that account has that email, and it counts as an admin's only if it came with an
admin's token or for a configured one (`WhoInv`); the device it is about to change
has still the owner it was read with, or is gone (`DeviceInv`), and so have, by key,
the rows it looks up in the backend's report (`RowsInv`). The last two hold under
interleaving because ids and keys are never used twice and no owner changes
(`Evolves`), which is what they depend on in the code. `SinceInv` ties what a
request has read to the reasons that cannot have held all the while: a live row
clears the deadline, a claim read the missing claim, the group read the group's.

Every safety property of the passing runs is proved, from the assumptions named above.
Only model-checked: the liveness of `KeepsPromise` (fairness is beyond the prover). The
violations of the other runs are TLC's counterexamples.

## 5. What is left out

- A change of an interface's backend in place: what becomes of the old device is
  promised nowhere.
- Web pages, rendering, file names, QR codes, record layouts, paging: no
  protocol. Secrets at rest: a library call; a failing decryption is a
  `SyncError`. Configuration and command line: read once at start.
- The OIDC exchange, Zitadel's introspection, the session cookie and the REST/MCP
  framework's registry: libraries, external. A ban does not end a session that is
  open ("blocks login", README.md:31); what it may still do is in `Requests`.
- Power loss of the machine: only the server process restarts, the backends keep
  their state. A request cancelled because its client went away is a failing
  statement in Provisioning; in DeviceSync only as far as a failing statement
  has the same effect (a cancelled best-effort loop is planned).
- A call that outlives the server which made it: a node agent or a child command may
  carry an apply out after the restart's own sync, and bring an older list back. That
  `Crash` leaves this out is an assumption on the environment; what is said of backends
  across a restart (`QuiescentExact`, `KeepsPromise`, `ExactAtRest`) rests on it.
- A rename of a device and the display columns: nothing depends on them.

## 6. Plan

1. *Done*: DeviceSync with AccessPromise and its proofs; AddressAlloc and
   Provisioning with the limit's proof.
2. *Done*: the backends call by call, with ApplyPromise, its refinement and the proof of it.
3. *Done*: Accounts and Requests, with their proofs.
4. DeviceSync: `last_error` after a failing read ("None = last sync ok") and
   cancelled requests; `parse_subnets` and `ensure_ipv6` in AddressAlloc.
5. *Done*: what single requests enforce, and `UnmarkedIsCurrent` for one slot.
6. *Done*: the arithmetic of wg.rs, and which addresses devices are given.
