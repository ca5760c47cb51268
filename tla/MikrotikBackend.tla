--------------------------- MODULE MikrotikBackend ---------------------------
(***************************************************************************)
(* The MikroTik backend: apply and remove as the REST calls they make, on  *)
(* the router's tables.  What is read in one call is used in later ones:   *)
(* ids, the addresses to remove and add, the devices to remove.            *)
(***************************************************************************)
EXTENDS BackendCall

VARIABLE
  router      \* iface: the id of the interface, if there is one; addrs, peers:
              \* its entries; last: the last id given out, none is used again

\* A peer entry's content besides the key is a function of the key: a device
\* keeps its address, its preshared key changes only with its key.
Routers ==
  [iface : SUBSET Nat, addrs : SUBSET [id : Nat, addr : V4 \cup V6, ours : BOOLEAN],
   peers : SUBSET [id : Nat, key : Keys], last : Nat]

\* The devices a router serves.
Configured(r) == IF r.iface = {} THEN {} ELSE {p.key : p \in r.peers}

IdsOf(entries) == {e.id : e \in entries}

\* An entry's id is its own, within its table.
Distinct(r) ==
  /\ \A d, e \in r.addrs : d.id = e.id => d = e
  /\ \A d, e \in r.peers : d.id = e.id => d = e
  /\ \A i \in r.iface \cup IdsOf(r.addrs) \cup IdsOf(r.peers) : i <= r.last

\* The calls that change the router, as it carries them out.
NewId == router.last + 1

WithInterface == [router EXCEPT !.iface = {NewId}, !.last = NewId]

WithAddress(addr) ==
  [router EXCEPT !.addrs = @ \cup {[id |-> NewId, addr |-> addr, ours |-> TRUE]},
                 !.last = NewId]

WithoutAddress(id) == [router EXCEPT !.addrs = {a \in @ : a.id # id}]

WithPeer(key) ==
  [router EXCEPT !.peers = @ \cup {[id |-> NewId, key |-> key]}, !.last = NewId]

WithoutPeers(ids) == [router EXCEPT !.peers = {p \in @ : p.id \notin ids}]

WithoutInterface(ids) == [router EXCEPT !.iface = @ \ ids]

\* What the call a task waits for does to the router, if it accepts it.
Effects(c) ==
  CASE c.pc = "put-interface" /\ router.iface = {} -> {WithInterface}
    [] c.pc = "delete-address" -> {WithoutAddress(i) : i \in c.doomed}
    [] c.pc = "put-address" /\ router.iface # {} -> {WithAddress(a) : a \in c.missing}
    [] c.pc = "put-peer" /\ router.iface # {} -> {WithPeer(k) : k \in c.key}
    [] c.pc = "delete-peer" -> {WithoutPeers(c.found)}
    [] c.pc = "delete-interface" -> {WithoutInterface(c.found)}
    [] OTHER -> {}

---------------------------------------------------------------------------
\* What a call does next.

ListsFamily(c, family) ==
  [c EXCEPT !.family = family, !.found = {}, !.pc = "get-addresses"]

\* The rest of reconcile_addresses: the deletions, the additions, the other family.
NextAddress(c) ==
  IF c.doomed # {} THEN [c EXCEPT !.pc = "delete-address"]
  ELSE IF c.missing # {} THEN [c EXCEPT !.pc = "put-address"]
  ELSE IF c.family = "ip" THEN ListsFamily(c, "ipv6")
  ELSE [c EXCEPT !.pc = "list-peers"]

\* The rest of the loops over the devices to remove and those to add or update,
\* one of which comes next; remove goes on to the interface.
NextPeer(c) ==
  IF c.todo # {}
  THEN {[c EXCEPT !.todo = @ \ {e}, !.key = {e.key}, !.pc = "find-old"] : e \in c.todo}
  ELSE IF c.op = "remove" THEN {[c EXCEPT !.pc = "get-interface"]}
  ELSE IF c.rest # {}
  THEN {[c EXCEPT !.rest = @ \ {k}, !.key = {k}, !.pc = "find-new"] : k \in c.rest}
  ELSE Completed(c)

Family(c) == IF c.family = "ip" THEN V4 ELSE V6

\* Mutant: every address of the interface counts as ours.
OwnedLax(c) == {a \in router.addrs : a.addr \in Family(c)}

\* The addresses of the family that carry our comment.
Owned(c) == {a \in router.addrs : a.ours /\ a.addr \in Family(c)}

Wanted(c) == c.tunnel \cap Family(c)

\* Mutant: an address is deleted by its name.
StaleNamed(c) == {a.addr : a \in {o \in Owned(c) : o.addr \notin Wanted(c)}}

Stale(c) == IdsOf({a \in Owned(c) : a.addr \notin Wanted(c)})

\* Mutant: the devices are removed and added anew instead of compared.
UnwantedAll(c) == router.peers

\* The listed entries that remove_peer is called for.
Unwanted(c) ==
  IF c.op = "remove" THEN router.peers ELSE {p \in router.peers : p.key \notin c.peers}

Matches(c) == {p \in router.peers : p.key \in c.key}

\* Where an error leads: apply gives up; remove goes on, unless it was the list
\* of devices or the interface itself.
AfterError(c) ==
  IF c.op = "apply" \/ c.pc \in {"list-peers", "get-interface", "delete-interface"}
  THEN {Answer("failed")}
  ELSE IF c.pc \in {"get-addresses", "delete-address"} THEN {[c EXCEPT !.pc = "list-peers"]}
  ELSE NextPeer(c)

---------------------------------------------------------------------------
\* The calls, one action each.

\* ensure_interface, and the end of remove_interface
GetInterface(s) ==
  /\ At(s, "get-interface")
  /\ LET c == [call[s] EXCEPT !.found = router.iface] IN
       GoesOn(s, IF c.op = "remove"
                 THEN IF c.found = {} THEN Completed(c) ELSE {[c EXCEPT !.pc = "delete-interface"]}
                 ELSE {[c EXCEPT !.pc = IF c.found = {} THEN "put-interface" ELSE "patch-interface"]})
  /\ UNCHANGED router

PatchInterface(s) ==
  /\ At(s, "patch-interface")
  /\ call[s].found = router.iface
  /\ GoesOn(s, {ListsFamily(call[s], "ip")})
  /\ UNCHANGED router

PutInterface(s) ==
  /\ At(s, "put-interface")
  /\ router' \in Effects(call[s])
  /\ GoesOn(s, {ListsFamily(call[s], "ip")})

DeleteInterface(s) ==
  /\ At(s, "delete-interface")
  /\ router' \in Effects(call[s])
  /\ GoesOn(s, Completed(call[s]))

\* reconcile_addr_family: what is there decides what is deleted and added later.
GetAddresses(s) ==
  /\ At(s, "get-addresses")
  /\ LET c == call[s] IN
       GoesOn(s, {NextAddress(
         [c EXCEPT !.doomed = Stale(c),
                   !.missing = Wanted(c) \ {a.addr : a \in Owned(c)}])})
  /\ UNCHANGED router

DeleteAddress(s) ==
  /\ At(s, "delete-address")
  /\ \E i \in call[s].doomed :
       /\ router' = WithoutAddress(i)
       /\ GoesOn(s, {NextAddress([call[s] EXCEPT !.doomed = @ \ {i}])})

PutAddress(s) ==
  /\ At(s, "put-address")
  /\ router.iface # {}
  /\ \E a \in call[s].missing :
       /\ router' = WithAddress(a)
       /\ GoesOn(s, {NextAddress([call[s] EXCEPT !.missing = @ \ {a}])})

ListPeers(s) ==
  /\ At(s, "list-peers")
  /\ GoesOn(s, NextPeer([call[s] EXCEPT !.todo = Unwanted(call[s]), !.rest = call[s].peers]))
  /\ UNCHANGED router

\* remove_peer: the list again, for the first entry with the key.
FindOld(s) ==
  /\ At(s, "find-old")
  /\ IF Matches(call[s]) = {}
     THEN GoesOn(s, AfterError(call[s]))
     ELSE GoesOn(s, {[call[s] EXCEPT !.found = {p.id}, !.pc = "delete-peer"] : p \in Matches(call[s])})
  /\ UNCHANGED router

DeletePeer(s) ==
  /\ At(s, "delete-peer")
  /\ router' \in Effects(call[s])
  /\ GoesOn(s, NextPeer(call[s]))

\* upsert_peer
FindNew(s) ==
  /\ At(s, "find-new")
  /\ GoesOn(s, IF Matches(call[s]) = {}
               THEN {[call[s] EXCEPT !.pc = "put-peer"]}
               ELSE {[call[s] EXCEPT !.found = {p.id}, !.pc = "patch-peer"] : p \in Matches(call[s])})
  /\ UNCHANGED router

PatchPeer(s) ==
  /\ At(s, "patch-peer")
  /\ call[s].found \subseteq IdsOf(router.peers)
  /\ GoesOn(s, NextPeer(call[s]))
  /\ UNCHANGED router

PutPeer(s) ==
  /\ At(s, "put-peer")
  /\ router' \in Effects(call[s])
  /\ GoesOn(s, NextPeer(call[s]))

\* A call is refused, cannot be made, or its answer is lost.
CallFails(s) ==
  /\ s \in InFlight
  /\ router' \in {router} \cup Effects(call[s])
  /\ GoesOn(s, AfterError(call[s]))

MikrotikStep(s) ==
  \/ GetInterface(s) \/ PatchInterface(s) \/ PutInterface(s) \/ DeleteInterface(s)
  \/ GetAddresses(s) \/ DeleteAddress(s) \/ PutAddress(s)
  \/ ListPeers(s) \/ FindOld(s) \/ DeletePeer(s) \/ FindNew(s) \/ PatchPeer(s) \/ PutPeer(s)
  \/ CallFails(s)

MikrotikFirst == [apply |-> "get-interface", remove |-> "get-addresses"]
=============================================================================
