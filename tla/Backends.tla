------------------------------ MODULE Backends ------------------------------
(***************************************************************************)
(* One interface with the backend it was created with, and the calls that  *)
(* requests make on it, overlapping as they come: the reconciler holds no  *)
(* lock around apply.                                                      *)
(***************************************************************************)
EXTENDS MikrotikBackend, NodeAgent

CONSTANT StartRouters  \* what the router may hold when the run begins

\* An interface of the same name may have been there before, or set up by hand,
\* but no devices.  Entries have ids of their own.
ASSUME StartAssumption ==
  \A r \in StartRouters :
    /\ r \in Routers
    /\ r.peers = {}
    /\ Distinct(r)

vars == <<kind, remote, call, calls, period, router, host>>

\* The devices the backend serves now.
Live == IF kind = "mikrotik" THEN Configured(router) ELSE host.serves

Init ==
  /\ kind \in Kinds
  /\ remote \in BOOLEAN
  /\ kind = "mikrotik" => ~remote
  /\ router \in StartRouters
  /\ host = [link |-> FALSE, serves |-> {}, file |-> NoFile, loaded |-> NoFile]
  /\ call = [s \in Slots |-> NoCall]
  /\ calls = 0
  /\ period = [before |-> {}, involved |-> {}, crowded |-> FALSE]

\* BackendConfig::build
First ==
  CASE kind = "mikrotik" -> MikrotikFirst
    [] remote -> AgentFirst
    [] OTHER -> LocalFirst

Begin(s) == Begins(s, First, Live) /\ UNCHANGED <<router, host>>

Leave(s) == Abandon(s) /\ UNCHANGED <<router, host>>

Step(s) ==
  \/ kind = "mikrotik" /\ MikrotikStep(s) /\ UNCHANGED host
  \/ kind # "mikrotik" /\ AgentStep(s) /\ UNCHANGED router

Next == \E s \in Slots : Begin(s) \/ Leave(s) \/ Step(s)

Spec == Init /\ [][Next]_vars

Commands ==
  {"post", "get-interface", "patch-interface", "put-interface", "delete-interface",
   "get-addresses", "delete-address", "put-address", "list-peers", "find-old",
   "delete-peer", "find-new", "patch-peer", "put-peer",
   "link-show", "link-add", "address-add", "link-up", "syncconf", "link-del",
   "truncate", "write", "protect", "connection-reload", "connection-up",
   "connection-delete", "remove-file", "networkctl-reload", "reconfigure"}

\* The state is well typed, and the router's entries have ids of their own, so
\* that an id a call holds names the entry it was read from or none.
TypeOK ==
  /\ kind \in Kinds
  /\ remote \in BOOLEAN
  /\ calls \in 0..MaxCalls
  /\ period \in [before : SUBSET Keys, involved : SUBSET Keys, crowded : BOOLEAN]
  /\ router \in Routers
  /\ Distinct(router)
  /\ host \in Hosts
  /\ \A s \in Slots :
       /\ DOMAIN call[s] = DOMAIN NoCall
       /\ call[s].pc \in Commands \cup Answered \cup {"idle"}
       /\ call[s].op \in {"none", "apply", "remove"}
       /\ call[s].peers \in SUBSET Keys
       /\ call[s].tunnel \in SUBSET (V4 \cup V6)
       /\ call[s].gone \in BOOLEAN
       /\ call[s].missing \in SUBSET (V4 \cup V6)
       /\ call[s].rest \cup call[s].key \subseteq Keys
       /\ call[s].todo \in SUBSET [id : Nat, key : Keys]
       /\ call[s].found \cup call[s].doomed \cup IdsOf(call[s].todo) \subseteq 0..router.last
=============================================================================
